----------------- MODULE Idempotency_EmbeddingIndex_proofs -----------------
(***************************************************************************)
(* Proofs about the two stores a process keeps in its own memory and only  *)
(* it can release: the locks of the idempotency hooks, and the keys of the *)
(* synchronisations of the semantic index.                                 *)
(*                                                                         *)
(* Idempotency, for any number of requests, keys and lapses.  WritesOwed   *)
(* is not inductive: it says nothing of the handlers that have yet to      *)
(* write.  Owed counts them as writes, and grants a key that anybody could *)
(* be admitted to one write less, for that is what an admission takes.     *)
(*                                                                         *)
(* EmbeddingIndex, for any number of items, texts, handlers and processes, *)
(* wherever the handlers live.  IndexFollows speaks of items at rest, and  *)
(* the steps that bring an item to rest are many.  IndexInv says what is   *)
(* true on the way there: an item that nothing excuses and that nobody is  *)
(* about to synchronise either has its index, or has one run, and what     *)
(* that run holds is what the item has now.                                *)
(***************************************************************************)
EXTENDS Idempotency, EmbeddingIndex, FiniteSetTheorems, TLAPS

\* A request with this key would be passed on to its handler.
Open(k) == cache[k] = None /\ k \notin inFlight

Owed ==
    \A k \in Keys :
      /\ IsFiniteSet(Busy(k))
      /\ writes[k] + Cardinality(Busy(k)) <= IF Open(k) THEN lapses[k] ELSE 1 + lapses[k]

\* A handler runs for the key its request arrived with, and only a request
\* that is over has an answer.
Keyed ==
    \A r \in Requests :
      /\ pc[r] = "handler" => key[r] \in Keys
      /\ pc[r] # "over" => answer[r] = None

IInv == TypeOK /\ NoLeakedLock /\ Keyed /\ Owed

-----------------------------------------------------------------------------
\* The empty cache owes nothing.
LEMMA InitIInv == Init => IInv
<1> SUFFICES ASSUME Init PROVE IInv
  OBVIOUS
<1> USE NoneAssumption, MaxLapsesAssumption DEF Init
<1>1. TypeOK
  BY DEF TypeOK, Cacheable, Answers
<1>2. NoLeakedLock /\ Keyed
  BY DEF NoLeakedLock, Keyed
<1>3. \A k \in Keys : Busy(k) = {}
  BY DEF Busy
<1>4. Owed
  BY <1>3, FS_EmptySet DEF Owed, Open
<1>5. QED
  BY <1>1, <1>2, <1>4 DEF IInv

\* What a step means for a key none of whose requests it moves: the account is
\* as good as it was, if the key is not opened without a lapse.
LEMMA KeyUnmoved ==
  ASSUME IInv, NEW k \in Keys, Busy(k)' = Busy(k), writes'[k] = writes[k],
         lapses'[k] \in Nat,
         \/ lapses'[k] = lapses[k] /\ (Open(k)' => Open(k))
         \/ lapses'[k] = lapses[k] + 1
  PROVE  /\ IsFiniteSet(Busy(k))'
         /\ (writes[k] + Cardinality(Busy(k)) <= IF Open(k) THEN lapses[k] ELSE 1 + lapses[k])'
<1>1. IsFiniteSet(Busy(k)) /\ Cardinality(Busy(k)) \in Nat
  BY FS_CardinalityType DEF IInv, Owed
<1>2. writes[k] \in Nat /\ lapses[k] \in Nat
  BY DEF IInv, TypeOK
<1>3. writes[k] + Cardinality(Busy(k)) <= IF Open(k) THEN lapses[k] ELSE 1 + lapses[k]
  BY DEF IInv, Owed
<1>4. QED
  BY <1>1, <1>2, <1>3

\* A request that is answered on arrival is busy under no key.
LEMMA Answered ==
  ASSUME IInv, NEW r \in Requests, NEW k \in Keys, NEW response, Arrive(r, k, "over", response)
  PROVE  \A i \in Keys : Busy(i)' = Busy(i)
<1> SUFFICES ASSUME NEW i \in Keys PROVE Busy(i)' = Busy(i)
  OBVIOUS
<1>1. \A q \in Requests : (key'[q] = i /\ pc'[q] = "handler") <=> (key[q] = i /\ pc[q] = "handler")
  BY DEF IInv, TypeOK, Arrive
<1>2. QED
  BY <1>1 DEF Busy

\* A request that is over, or admitted, changes what is busy under its key only.
LEMMA BusyMoves ==
  ASSUME IInv, NEW r \in Requests, NEW k \in Keys, key'[r] = k,
         \A q \in Requests : q # r => key'[q] = key[q] /\ pc'[q] = pc[q],
         pc[r] # "handler" \/ key[r] = k
  PROVE  /\ \A i \in Keys : i # k => Busy(i)' = Busy(i)
         /\ pc'[r] = "handler" => Busy(k)' = Busy(k) \cup {r}
         /\ pc'[r] # "handler" => Busy(k)' = Busy(k) \ {r}
BY DEF Busy

\* A request answered raw stays so: the steps move other requests.
LEMMA RawStays ==
  ASSUME IInv, NEW r \in Requests, pc[r] # "over",
         \A q \in Requests : q # r => key'[q] = key[q] /\ answer'[q] = answer[q]
  PROVE  \A i \in Keys : Raw(i) \subseteq Raw(i)'
BY NoneAssumption DEF Raw, IInv, Keyed

\* What is locked stays accounted for, if its busy request is still busy or
\* has just been answered raw.
LEMMA LockKept ==
  ASSUME NoLeakedLock, inFlight' \subseteq inFlight,
         \A i \in inFlight' : /\ Raw(i) \subseteq Raw(i)'
                             /\ \/ Busy(i)' = Busy(i)
                                \/ i \in McpKeys /\ Raw(i)' # {}
  PROVE  NoLeakedLock'
BY DEF NoLeakedLock

-----------------------------------------------------------------------------
\* Every hook, every handler that ends, and every lapse preserves it.
LEMMA StepIInv == IInv /\ [Next]_vars => IInv'
<1> SUFFICES ASSUME IInv, [Next]_vars PROVE IInv'
  OBVIOUS
<1> USE NoneAssumption, MaxLapsesAssumption, McpAssumption
<1>0. TypeOK /\ NoLeakedLock /\ Keyed /\ Owed
  BY DEF IInv
<1>1. ASSUME NEW r \in Requests, NEW k \in Keys, Replay(r, k) PROVE TypeOK' /\ NoLeakedLock' /\ Owed'
  <2>1. /\ \A i \in Keys : Busy(i)' = Busy(i)
        /\ UNCHANGED <<cache, inFlight, writes, lapses>>
    BY <1>1, Answered DEF Replay, Arrive
  <2>2. TypeOK'
    BY <1>0, <1>1 DEF TypeOK, Replay, Arrive, Answers
  <2>3. NoLeakedLock'
    <3>1. \A i \in Keys : Raw(i) \subseteq Raw(i)'
      BY <1>0, <1>1, RawStays DEF Replay, Arrive, TypeOK
    <3>2. QED
      BY <1>0, <2>1, <3>1, LockKept DEF TypeOK
  <2>4. Owed'
    BY <1>0, <2>1, KeyUnmoved DEF Owed, Open, TypeOK
  <2>5. QED
    BY <2>2, <2>3, <2>4
<1>2. ASSUME NEW r \in Requests, NEW k \in Keys, Conflict(r, k) PROVE TypeOK' /\ NoLeakedLock' /\ Owed'
  <2>1. \A i \in Keys : Busy(i)' = Busy(i)
    BY <1>2, Answered DEF Conflict
  <2>2. /\ inFlight' = inFlight \ {k} /\ cache' = [cache EXCEPT ![k] = "conflict"]
        /\ UNCHANGED <<writes, lapses>>
    BY <1>2 DEF Conflict, OnSend, Arrive
  <2>3. TypeOK'
    BY <1>0, <1>2, <2>2 DEF TypeOK, Conflict, Arrive, Answers, Cacheable
  <2>4. NoLeakedLock'
    <3>1. \A i \in Keys : Raw(i) \subseteq Raw(i)'
      BY <1>0, <1>2, RawStays DEF Conflict, Arrive, TypeOK
    <3>2. QED
      BY <1>0, <2>1, <2>2, <3>1, LockKept DEF TypeOK
  <2>5. \A i \in Keys : Open(i)' => Open(i)
    BY <1>0, <2>2 DEF Open, TypeOK
  <2>6. Owed'
    BY <1>0, <2>1, <2>2, <2>5, KeyUnmoved DEF Owed, TypeOK
  <2>7. QED
    BY <2>3, <2>4, <2>6
<1>3. ASSUME NEW r \in Requests, NEW k \in Keys, Admit(r, k)
      PROVE  TypeOK' /\ NoLeakedLock' /\ Owed'
  <2>1. /\ pc[r] = "new" /\ pc'[r] = "handler" /\ key'[r] = k /\ Open(k) /\ ~Open(k)'
        /\ inFlight' = inFlight \cup {k}
        /\ UNCHANGED <<cache, writes, lapses>>
        /\ \A q \in Requests : q # r => key'[q] = key[q] /\ pc'[q] = pc[q]
    BY <1>0, <1>3 DEF TypeOK, Admit, Arrive, Open
  <2>2. /\ \A i \in Keys : i # k => Busy(i)' = Busy(i)
        /\ Busy(k)' = Busy(k) \cup {r} /\ r \notin Busy(k)
    BY <2>1, BusyMoves DEF Busy
  <2>3. TypeOK'
    BY <1>0, <1>3 DEF TypeOK, Admit, Arrive
  <2>4. NoLeakedLock'
    <3>1. \A i \in Keys : Raw(i) \subseteq Raw(i)'
      BY <1>0, <1>3, RawStays DEF Admit, Arrive, TypeOK
    <3>2. Busy(k)' # {}
      BY <2>2
    <3>3. ASSUME NEW i \in inFlight, i # k PROVE (Busy(i) # {} \/ (i \in McpKeys /\ Raw(i) # {}))'
      <4>1. i \in Keys /\ (Busy(i) # {} \/ (i \in McpKeys /\ Raw(i) # {}))
        BY <1>0 DEF NoLeakedLock, TypeOK
      <4>2. Busy(i)' = Busy(i) /\ Raw(i) \subseteq Raw(i)'
        BY <2>2, <3>1, <3>3, <4>1
      <4>3. QED
        BY <4>1, <4>2
    <3>4. QED
      BY <2>1, <3>2, <3>3 DEF NoLeakedLock
  <2>5. /\ IsFiniteSet(Busy(k))'
        /\ (writes[k] + Cardinality(Busy(k)) <= 1 + lapses[k])'
    <3>1. IsFiniteSet(Busy(k)) /\ Cardinality(Busy(k)) \in Nat
      BY <1>0, FS_CardinalityType DEF Owed
    <3>2. IsFiniteSet(Busy(k))' /\ Cardinality(Busy(k)') = Cardinality(Busy(k)) + 1
      BY <2>2, <3>1, FS_AddElement
    <3>3. writes[k] + Cardinality(Busy(k)) <= lapses[k]
      BY <1>0, <2>1 DEF Owed
    <3>4. writes[k] \in Nat /\ lapses[k] \in Nat
      BY <1>0 DEF TypeOK
    <3>5. QED
      BY <2>1, <3>1, <3>2, <3>3, <3>4
  <2>6. \A i \in Keys : i # k => (Open(i)' => Open(i))
    BY <2>1 DEF Open
  <2>7. \A i \in Keys : i # k =>
          /\ IsFiniteSet(Busy(i))'
          /\ (writes[i] + Cardinality(Busy(i)) <= IF Open(i) THEN lapses[i] ELSE 1 + lapses[i])'
    BY <1>0, <2>1, <2>2, <2>6, KeyUnmoved DEF TypeOK
  <2>8. Owed'
    BY <2>1, <2>5, <2>7 DEF Owed
  <2>9. QED
    BY <2>3, <2>4, <2>8
<1>4. ASSUME NEW r \in Requests, NEW response \in {"done", "refused", "error"},
             NEW wrote \in BOOLEAN, End(r, response, wrote), NEW k \in Keys, key[r] = k
      PROVE  TypeOK' /\ NoLeakedLock' /\ Owed'
  <2>1. /\ pc[r] = "handler" /\ pc'[r] = "over" /\ key' = key
        /\ inFlight' = inFlight \ {k}
        /\ cache' = [cache EXCEPT ![k] = IF response = "error" THEN @ ELSE response]
        /\ writes' = [writes EXCEPT ![k] = IF wrote THEN @ + 1 ELSE @]
        /\ lapses' = [lapses EXCEPT ![k] = IF response = "error" THEN @ + 1 ELSE @]
        /\ \A q \in Requests : q # r => key'[q] = key[q] /\ pc'[q] = pc[q]
        /\ UNCHANGED forgotten
    BY <1>0, <1>4 DEF TypeOK, End, OnSend
  <2>2. /\ \A i \in Keys : i # k => Busy(i)' = Busy(i)
        /\ Busy(k)' = Busy(k) \ {r} /\ r \in Busy(k)
    BY <1>4, <2>1, BusyMoves DEF Busy
  <2>3. TypeOK'
    <3>1. cache' \in [Keys -> Cacheable \cup {None}]
      <4>1. cache \in [Keys -> Cacheable \cup {None}]
        BY <1>0 DEF TypeOK
      <4>2. (IF response = "error" THEN cache[k] ELSE response) \in Cacheable \cup {None}
        BY <1>4, <4>1 DEF Cacheable
      <4>3. QED
        BY <1>4, <2>1, <4>1, <4>2
    <3>2. writes' \in [Keys -> Nat] /\ lapses' \in [Keys -> Nat] /\ inFlight' \subseteq Keys
      BY <1>0, <1>4, <2>1 DEF TypeOK
    <3>3. /\ pc' \in [Requests -> {"new", "handler", "over"}]
          /\ answer' \in [Requests -> Answers \cup {None}]
      BY <1>0, <1>4 DEF TypeOK, End, Answers, Cacheable
    <3>4. QED
      BY <1>0, <2>1, <3>1, <3>2, <3>3 DEF TypeOK
  <2>4. NoLeakedLock'
    <3>1. \A i \in Keys : Raw(i) \subseteq Raw(i)'
      BY <1>0, <1>4, RawStays DEF End, TypeOK
    <3>2. QED
      BY <1>0, <2>1, <2>2, <3>1, LockKept DEF TypeOK
  <2>5. /\ IsFiniteSet(Busy(k))'
        /\ (writes[k] + Cardinality(Busy(k)) <= IF Open(k) THEN lapses[k] ELSE 1 + lapses[k])'
    <3>1. IsFiniteSet(Busy(k)) /\ Cardinality(Busy(k)) \in Nat
      BY <1>0, <1>4, FS_CardinalityType DEF Owed
    <3>2. IsFiniteSet(Busy(k))' /\ Cardinality(Busy(k)') = Cardinality(Busy(k)) - 1
      BY <2>2, <3>1, FS_RemoveElement
    <3>3. writes[k] + Cardinality(Busy(k)) <= 1 + lapses[k] /\ writes[k] \in Nat /\ lapses[k] \in Nat
      <4>1. writes[k] \in Nat /\ lapses[k] \in Nat
        BY <1>0, <1>4 DEF TypeOK
      <4>2. writes[k] + Cardinality(Busy(k)) <= IF Open(k) THEN lapses[k] ELSE 1 + lapses[k]
        BY <1>0, <1>4 DEF Owed
      <4>3. QED
        BY <3>1, <4>1, <4>2
    <3>4. CASE response = "error"
      <4>1. lapses'[k] = lapses[k] + 1 /\ writes'[k] <= writes[k] + 1 /\ writes'[k] \in Nat
        BY <1>0, <1>4, <2>1, <3>3, <3>4 DEF TypeOK
      <4>2. QED
        BY <3>1, <3>2, <3>3, <4>1 DEF Open
    <3>5. CASE response # "error"
      <4>1. lapses'[k] = lapses[k] /\ writes'[k] <= writes[k] + 1 /\ writes'[k] \in Nat
        BY <1>0, <1>4, <2>1, <3>3, <3>5 DEF TypeOK
      <4>2. ~Open(k)'
        BY <1>0, <1>4, <2>1, <3>5 DEF Open, TypeOK
      <4>3. QED
        BY <3>1, <3>2, <3>3, <4>1, <4>2 DEF Open
    <3>6. QED
      BY <3>4, <3>5
  <2>6. \A i \in Keys : i # k =>
          /\ Open(i)' => Open(i)
          /\ writes'[i] = writes[i] /\ lapses'[i] = lapses[i] /\ lapses'[i] \in Nat
    BY <1>0, <1>4, <2>1 DEF Open, TypeOK
  <2>7. \A i \in Keys : i # k =>
          /\ IsFiniteSet(Busy(i))'
          /\ (writes[i] + Cardinality(Busy(i)) <= IF Open(i) THEN lapses[i] ELSE 1 + lapses[i])'
    BY <1>0, <2>2, <2>6, KeyUnmoved
  <2>8. Owed'
    <3> SUFFICES ASSUME NEW i \in Keys
                 PROVE  /\ IsFiniteSet(Busy(i))'
                        /\ (writes[i] + Cardinality(Busy(i))
                              <= IF Open(i) THEN lapses[i] ELSE 1 + lapses[i])'
      BY DEF Owed
    <3>1. CASE i = k
      BY <2>5, <3>1
    <3>2. CASE i # k
      BY <2>7, <3>2
    <3>3. QED
      BY <3>1, <3>2
  <2>9. QED
    BY <2>3, <2>4, <2>8
<1>5. ASSUME NEW k \in Keys, Expire(k) PROVE TypeOK' /\ NoLeakedLock' /\ Owed'
  <2>1. /\ \A i \in Keys : Busy(i)' = Busy(i)
        /\ UNCHANGED <<inFlight, writes>>
        /\ lapses' = [lapses EXCEPT ![k] = @ + 1]
        /\ cache' = [cache EXCEPT ![k] = None]
    BY <1>5 DEF Expire, Busy, requests
  <2>2. TypeOK'
    BY <1>0, <1>5 DEF TypeOK, Expire, requests
  <2>3. NoLeakedLock'
    <3>1. \A i \in Keys : Raw(i)' = Raw(i)
      BY <1>5 DEF Expire, Raw, requests
    <3>2. QED
      BY <1>0, <2>1, <3>1, LockKept DEF TypeOK
  <2>4. \A i \in Keys : /\ lapses'[i] \in Nat
                       /\ \/ lapses'[i] = lapses[i] /\ (Open(i)' => Open(i))
                          \/ lapses'[i] = lapses[i] + 1
    BY <1>0, <2>1 DEF TypeOK, Open
  <2>5. Owed'
    BY <1>0, <2>1, <2>4, KeyUnmoved DEF Owed
  <2>6. QED
    BY <2>2, <2>3, <2>5
<1>6. ASSUME Restart PROVE TypeOK' /\ NoLeakedLock' /\ Owed'
  <2>1. PICK committed \in SUBSET {r \in Requests : pc[r] = "handler"} :
          writes' = [k \in Keys |->
                       writes[k] + Cardinality({r \in committed : key[r] = k})]
    BY <1>6 DEF Restart
  <2> DEFINE Kept(k) == {r \in committed : key[r] = k}
  <2>2. \A k \in Keys : /\ Busy(k)' = {}
                       /\ lapses'[k] = lapses[k] + 1
                       /\ writes'[k] = writes[k] + Cardinality(Kept(k))
                       /\ Kept(k) \in SUBSET Busy(k)
    BY <1>0, <1>6, <2>1 DEF Restart, Busy, TypeOK
  <2>3. writes' = [k \in Keys |-> writes'[k]]
    BY <2>1
  <2> HIDE DEF Kept
  <2>4. ASSUME NEW k \in Keys
        PROVE  /\ IsFiniteSet(Busy(k)) /\ Cardinality(Busy(k)) \in Nat
               /\ Cardinality(Kept(k)) \in Nat
               /\ Cardinality(Kept(k)) <= Cardinality(Busy(k))
    <3>1. IsFiniteSet(Busy(k)) /\ Cardinality(Busy(k)) \in Nat
      BY <1>0, FS_CardinalityType DEF Owed
    <3>2. QED
      BY <2>2, <3>1, FS_Subset, FS_CardinalityType
  <2>5. TypeOK'
    <3>1. \A k \in Keys : writes'[k] \in Nat
      BY <1>0, <2>2, <2>4 DEF TypeOK
    <3>2. writes' \in [Keys -> Nat]
      BY <2>3, <3>1
    <3>3. QED
      BY <1>0, <1>6, <3>2 DEF TypeOK, Restart
  <2>6. NoLeakedLock'
    BY <1>6 DEF Restart, NoLeakedLock
  <2>7. Owed'
    <3> SUFFICES ASSUME NEW k \in Keys
                 PROVE  /\ IsFiniteSet(Busy(k))'
                        /\ (writes[k] + Cardinality(Busy(k))
                              <= IF Open(k) THEN lapses[k] ELSE 1 + lapses[k])'
      BY DEF Owed
    <3>1. writes[k] \in Nat /\ lapses[k] \in Nat
      BY <1>0 DEF TypeOK
    <3>2. writes[k] + Cardinality(Busy(k)) <= IF Open(k) THEN lapses[k] ELSE 1 + lapses[k]
      BY <1>0 DEF Owed
    <3>3. writes[k] + Cardinality(Busy(k)) <= 1 + lapses[k]
      BY <2>4, <3>1, <3>2 DEF Open
    <3>4. IsFiniteSet(Busy(k))' /\ Cardinality(Busy(k)') = 0
      BY <2>2, FS_EmptySet
    <3>5. QED
      BY <2>2, <2>4, <3>1, <3>3, <3>4 DEF Open
  <2>8. QED
    BY <2>5, <2>6, <2>7
<1>7. ASSUME UNCHANGED vars PROVE TypeOK' /\ NoLeakedLock' /\ Owed'
  BY <1>0, <1>7 DEF vars, requests, TypeOK, NoLeakedLock, Owed, Busy, Raw, Open
<1>8. Keyed'
  <2>1. ASSUME NEW r \in Requests, NEW k \in Keys, Replay(r, k) \/ Conflict(r, k) \/ Admit(r, k)
        PROVE  Keyed'
    BY <1>0, <2>1 DEF Keyed, TypeOK, Replay, Conflict, Admit, Arrive
  <2>2. ASSUME NEW r \in Requests, NEW response, NEW wrote,
               End(r, response, wrote) \/ HandOver(r, wrote)
        PROVE  Keyed'
    BY <1>0, <2>2 DEF Keyed, TypeOK, End, HandOver
  <2>3. ASSUME NEW k \in Keys, Expire(k) PROVE Keyed'
    BY <1>0, <2>3 DEF Keyed, Expire, requests
  <2>4. CASE Restart
    <3>1. \A r \in Requests : pc'[r] # "handler" /\ (pc'[r] # "over" => pc[r] # "over")
      BY <2>4 DEF Restart
    <3>2. QED
      BY <1>0, <2>4, <3>1 DEF Keyed, Restart
  <2>5. CASE UNCHANGED vars
    BY <1>0, <2>5 DEF Keyed, vars, requests
  <2>6. QED
    BY <2>1, <2>2, <2>3, <2>4, <2>5 DEF Next
<1>9. \A r \in Requests, response \in {"done", "refused", "error"}, wrote \in BOOLEAN :
        End(r, response, wrote) => key[r] \in Keys
  <2>1. \A r \in Requests : pc[r] = "handler" => key[r] \in Keys
    BY <1>0 DEF Keyed
  <2>2. QED
    BY <2>1 DEF End
<1>10. ASSUME NEW r \in Requests, NEW wrote \in BOOLEAN, HandOver(r, wrote),
             NEW k \in Keys, key[r] = k
       PROVE  TypeOK' /\ NoLeakedLock' /\ Owed'
  <2>1. /\ pc[r] = "handler" /\ pc'[r] = "over" /\ key' = key /\ k \in McpKeys
        /\ answer'[r] = "raw"
        /\ writes' = [writes EXCEPT ![k] = IF wrote THEN @ + 1 ELSE @]
        /\ \A q \in Requests : q # r => key'[q] = key[q] /\ pc'[q] = pc[q]
        /\ UNCHANGED <<cache, inFlight, lapses, forgotten>>
    BY <1>0, <1>10 DEF TypeOK, HandOver
  <2>2. /\ \A i \in Keys : i # k => Busy(i)' = Busy(i)
        /\ Busy(k)' = Busy(k) \ {r} /\ r \in Busy(k)
    BY <1>10, <2>1, BusyMoves DEF Busy
  <2>3. TypeOK'
    <3>1. writes' \in [Keys -> Nat]
      BY <1>0, <2>1 DEF TypeOK
    <3>2. /\ pc' \in [Requests -> {"new", "handler", "over"}]
          /\ answer' \in [Requests -> Answers \cup {None}]
      BY <1>0, <1>10 DEF TypeOK, HandOver, Answers
    <3>3. QED
      BY <1>0, <2>1, <3>1, <3>2 DEF TypeOK
  <2>4. NoLeakedLock'
    <3>1. \A i \in Keys : Raw(i) \subseteq Raw(i)'
      BY <1>0, <1>10, RawStays DEF HandOver, TypeOK
    <3>2. Raw(k)' # {}
      BY <1>10, <2>1 DEF Raw
    <3>3. QED
      BY <1>0, <2>1, <2>2, <3>1, <3>2, LockKept DEF TypeOK
  <2>5. /\ IsFiniteSet(Busy(k))'
        /\ (writes[k] + Cardinality(Busy(k)) <= IF Open(k) THEN lapses[k] ELSE 1 + lapses[k])'
    <3>1. IsFiniteSet(Busy(k)) /\ Cardinality(Busy(k)) \in Nat
      BY <1>0, <1>10, FS_CardinalityType DEF Owed
    <3>2. IsFiniteSet(Busy(k))' /\ Cardinality(Busy(k)') = Cardinality(Busy(k)) - 1
      BY <2>2, <3>1, FS_RemoveElement
    <3>3. /\ writes[k] \in Nat /\ lapses[k] \in Nat /\ lapses'[k] = lapses[k]
          /\ writes'[k] <= writes[k] + 1 /\ writes'[k] \in Nat
      BY <1>0, <1>10, <2>1 DEF TypeOK
    <3>4. writes[k] + Cardinality(Busy(k)) <= IF Open(k) THEN lapses[k] ELSE 1 + lapses[k]
      BY <1>0, <1>10 DEF Owed
    <3>5. Open(k)' <=> Open(k)
      BY <2>1 DEF Open
    <3>6. QED
      BY <3>1, <3>2, <3>3, <3>4, <3>5
  <2>6. \A i \in Keys : i # k =>
          /\ IsFiniteSet(Busy(i))'
          /\ (writes[i] + Cardinality(Busy(i)) <= IF Open(i) THEN lapses[i] ELSE 1 + lapses[i])'
    <3>1. \A i \in Keys : i # k =>
            /\ Open(i)' => Open(i)
            /\ writes'[i] = writes[i] /\ lapses'[i] = lapses[i] /\ lapses'[i] \in Nat
      BY <1>0, <2>1 DEF Open, TypeOK
    <3>2. QED
      BY <1>0, <2>2, <3>1, KeyUnmoved
  <2>7. Owed'
    <3> SUFFICES ASSUME NEW i \in Keys
                 PROVE  /\ IsFiniteSet(Busy(i))'
                        /\ (writes[i] + Cardinality(Busy(i))
                              <= IF Open(i) THEN lapses[i] ELSE 1 + lapses[i])'
      BY DEF Owed
    <3>1. CASE i = k
      BY <2>5, <3>1
    <3>2. CASE i # k
      BY <2>6, <3>2
    <3>3. QED
      BY <3>1, <3>2
  <2>8. QED
    BY <2>3, <2>4, <2>7
<1>11. \A r \in Requests, wrote \in BOOLEAN : HandOver(r, wrote) => key[r] \in Keys
  BY <1>0 DEF Keyed, HandOver
<1>12. TypeOK' /\ NoLeakedLock' /\ Owed'
  BY <1>1, <1>2, <1>3, <1>4, <1>5, <1>6, <1>7, <1>9, <1>10, <1>11 DEF Next
<1>13. QED
  BY <1>8, <1>12 DEF IInv

\* The inductive invariant holds in every reachable state.
LEMMA Inductive == Spec => []IInv
  BY InitIInv, StepIInv, PTL DEF Spec

-----------------------------------------------------------------------------
\* Cache, locks and counters keep their domains.
THEOREM TypeCorrect == Spec => []TypeOK
<1>1. IInv => TypeOK
  BY DEF IInv
<1>2. QED
  BY <1>1, Inductive, PTL

\* Whatever arrives, ends, expires or restarts in whatever order, every write
\* after the first under a key is owed to a lapse of that key.
THEOREM WritesAreOwed == Spec => []WritesOwed
<1>1. IInv => WritesOwed
  <2> SUFFICES ASSUME IInv, NEW k \in Keys PROVE writes[k] <= 1 + lapses[k]
    BY DEF WritesOwed
  <2>1. Cardinality(Busy(k)) \in Nat /\ writes[k] \in Nat /\ lapses[k] \in Nat
    BY FS_CardinalityType DEF IInv, Owed, TypeOK
  <2>2. writes[k] + Cardinality(Busy(k)) <= IF Open(k) THEN lapses[k] ELSE 1 + lapses[k]
    BY DEF IInv, Owed
  <2>3. QED
    BY <2>1, <2>2
<1>2. QED
  BY <1>1, Inductive, PTL

\* What is in flight has a request that will release it, or was left behind by
\* a request of /mcp.
THEOREM LocksReleased == Spec => []NoLeakedLock
<1>1. IInv => NoLeakedLock
  BY DEF IInv
<1>2. QED
  BY <1>1, Inductive, PTL

-----------------------------------------------------------------------------
(* The semantic index.                                                     *)

\* A handler is about to mark item i 'pending', with the key taken.
Marking(h, p, i) == todo[h] = "mark" /\ item[h] = i /\ Home[h] = p

\* Process p has a run for item i that has not ended.
Queued(p, i) == \E k \in 1..Len(queue[p]) : queue[p][k] = i

\* A key is held for exactly one synchronisation, marked or queued.
KeysHeld ==
    /\ \A p \in Processes, i \in Items :
          i \in inflight[p] <=> Queued(p, i) \/ \E h \in Handlers : Marking(h, p, i)
    /\ \A p \in Processes : \A j, k \in 1..Len(queue[p]) : queue[p][j] = queue[p][k] => j = k
    /\ \A p \in Processes, i \in Items, h \in Handlers :
          Marking(h, p, i) => ~Queued(p, i) /\ \A g \in Handlers : Marking(g, p, i) => g = h
    /\ \A p \in Processes : queue[p] = <<>> => stage[p] = "select"
    /\ \A h \in Handlers : todo[h] # "idle" => item[h] \in Items

\* No two processes synchronise an item, unless it is excused.
OneRun ==
    \A i \in Items : excused[i] = {} =>
        \A p, q \in Processes : i \in inflight[p] /\ i \in inflight[q] => p = q

\* A deleted item leaves no chunks.
GoneBare == \A i \in Items : status[i] = "absent" => index[i] = Nothing /\ state[i] = "disabled"

\* A handler has yet to react to a change of the item.
Reacting(i) == \E h \in Handlers : item[h] = i /\ todo[h] \in {"sync", "mark", "delete"}

\* Somebody will yet read the item, or delete its chunks.
Pending(i) == Reacting(i) \/ \E p \in Processes : Queued(p, i) /\ ~HasRead(p, i)

\* The index of the item is as it should be.
Right(i) ==
    /\ index[i] = Wanted(i)
    /\ state[i] = IF status[i] = "published" THEN "synced" ELSE "disabled"

\* What the run at the head of p's queue is about to write is what it should.
Fresh(p, i) ==
    \/ status[i] = "absent"
    \/ /\ stage[p] = "clear"
       /\ Wanted(i) = Nothing
       /\ copy[p] = Blank <=> status[i] = "published"
    \/ /\ stage[p] \in {"request", "store"}
       /\ status[i] = "published" /\ text[i] # Blank /\ copy[p] = text[i]

\* An item that nothing excuses, and that nobody will read again, has its index
\* or a run that is going to write it.
Sound(i) ==
    excused[i] = {} /\ ~Pending(i) =>
        /\ \A p \in Processes : Reading(p, i) => Fresh(p, i)
        /\ (\A p \in Processes : ~Reading(p, i)) => Right(i)

UpToDate == \A i \in Items : Sound(i)

\* The inductive invariant of the index.
IndexInv == IndexTypeOK /\ KeysHeld /\ OneRun /\ GoneBare /\ UpToDate

-----------------------------------------------------------------------------
\* Nothing is published, indexed or under way at first.
LEMMA InitIndexed == IndexInit => IndexInv
<1> SUFFICES ASSUME IndexInit PROVE IndexInv
  OBVIOUS
<1> USE DEF IndexInit
<1>1. IndexTypeOK
  BY BoundsAssumption DEF IndexTypeOK, Statuses, States, Stages
<1>2. KeysHeld
  BY TextsAssumption DEF KeysHeld, Queued, Marking
<1>3. OneRun /\ GoneBare
  BY DEF OneRun, GoneBare
<1>4. UpToDate
  BY DEF UpToDate, Sound, Reading, HasRead, Right, Wanted
<1>5. QED
  BY <1>1, <1>2, <1>3, <1>4 DEF IndexInv

\* An excuse is added to those of its item, and no other item has a new one.
LEMMA Excused ==
  ASSUME IndexTypeOK, NEW i \in Items, NEW R \in SUBSET Reasons, Excuse(i, R)
  PROVE  /\ excused' \in [Items -> SUBSET Reasons]
         /\ \A j \in Items : excused'[j] = IF j = i THEN excused[j] \cup R ELSE excused[j]
  BY DEF IndexTypeOK, Excuse

\* An item that a step leaves alone, or that loses nothing by it.
LEMMA Unmoved ==
  ASSUME NEW i \in Items, Sound(i),
         status'[i] = status[i], text'[i] = text[i], index'[i] = index[i], state'[i] = state[i],
         excused[i] \subseteq excused'[i], Reacting(i) => Reacting(i)',
         \A p \in Processes :
            /\ Queued(p, i) => Queued(p, i)'
            /\ HasRead(p, i)' <=> HasRead(p, i)
            /\ HasRead(p, i) => stage'[p] = stage[p] /\ copy'[p] = copy[p]
  PROVE  Sound(i)'
<1>1. Pending(i) => Pending(i)'
  BY DEF Pending
<1>2. \A p \in Processes : Reading(p, i)' = Reading(p, i)
  BY DEF Reading
<1>3. \A p \in Processes : Reading(p, i) => Fresh(p, i)' = Fresh(p, i)
  BY DEF Reading, Fresh, Wanted
<1>4. Right(i)' = Right(i)
  BY DEF Right, Wanted
<1>5. QED
  BY <1>1, <1>2, <1>3, <1>4 DEF Sound

\* A step that leaves keys and queues alone keeps them in order.
LEMMA KeysKept ==
  ASSUME KeysHeld, UNCHANGED <<inflight, queue>>,
         \A h \in Handlers, p \in Processes, i \in Items : Marking(h, p, i)' = Marking(h, p, i),
         \A p \in Processes : queue[p] = <<>> => stage'[p] = "select",
         \A h \in Handlers : todo'[h] # "idle" => item'[h] \in Items
  PROVE  KeysHeld'
<1>1. \A p \in Processes, i \in Items : Queued(p, i)' = Queued(p, i)
  BY DEF Queued
<1>2. QED
  BY <1>1 DEF KeysHeld

\* Processes that give up keys do not come to share one.
LEMMA OneRunKept ==
  ASSUME OneRun, \A p \in Processes : inflight'[p] \subseteq inflight[p],
         \A i \in Items : excused[i] \subseteq excused'[i]
  PROVE  OneRun'
  BY DEF OneRun

\* A step of a handler is nothing to an item it does not react to.
LEMMA HandlerOnly ==
  ASSUME NEW i \in Items, Sound(i), UNCHANGED <<queue, stage, copy>>, NEW h \in Handlers,
         item[h] # i \/ todo[h] \notin {"sync", "mark", "delete"},
         \A g \in Handlers \ {h} : item'[g] = item[g] /\ todo'[g] = todo[g],
         status'[i] = status[i], text'[i] = text[i], index'[i] = index[i], state'[i] = state[i],
         excused[i] \subseteq excused'[i]
  PROVE  Sound(i)'
<1>1. Reacting(i) => Reacting(i)'
  BY DEF Reacting
<1>2. \A p \in Processes : Queued(p, i)' = Queued(p, i) /\ HasRead(p, i)' = HasRead(p, i)
  BY DEF Queued, HasRead
<1>3. QED
  BY <1>1, <1>2, Unmoved

\* A write that reacts leaves its item to its handler.
LEMMA WriteStep ==
  ASSUME IndexInv, NEW h \in Handlers, NEW i \in Items, Write(h, i)
  PROVE  IndexInv'
<1> USE DEF IndexInv, IndexTypeOK, Statuses
<1>1. PICK s \in {"draft", "published"}, t \in Texts :
        /\ status' = [status EXCEPT ![i] = s]
        /\ text' = [text EXCEPT ![i] = t]
        /\ React(h, i, s)
  BY DEF Write
<1>2. todo[h] = "idle" /\ edits' = edits + 1 /\ edits < MaxWrites /\ UNCHANGED <<stored, syncs, faults, excused>>
  BY DEF Write
<1>3. /\ \A j \in Items \ {i} : status'[j] = status[j] /\ text'[j] = text[j]
      /\ \A g \in Handlers \ {h} : item'[g] = item[g] /\ todo'[g] = todo[g]
      /\ item'[h] = i /\ todo'[h] \in {"sync", "delete"} /\ status'[i] # "absent"
  BY <1>1 DEF React
<1>4. IndexTypeOK'
  BY <1>1, <1>2, BoundsAssumption DEF React, stored, syncs
<1>5. KeysHeld'
  <2>1. \A g \in Handlers, p \in Processes, j \in Items : Marking(g, p, j)' = Marking(g, p, j)
    BY <1>2, <1>3 DEF Marking
  <2>2. \A p \in Processes : queue[p] = <<>> => stage'[p] = "select"
    BY <1>2 DEF KeysHeld, syncs
  <2>3. \A g \in Handlers : todo'[g] # "idle" => item'[g] \in Items
    BY <1>2, <1>3 DEF KeysHeld
  <2>4. QED
    BY <1>2, <2>1, <2>2, <2>3, KeysKept DEF syncs
<1>6. OneRun'
  BY <1>2, OneRunKept DEF syncs
<1>7. GoneBare'
  BY <1>2, <1>3 DEF GoneBare, stored
<1>8. UpToDate'
  <2>1. Sound(i)'
    BY <1>3 DEF Sound, Pending, Reacting
  <2>2. ASSUME NEW j \in Items \ {i} PROVE Sound(j)'
    BY <1>2, <1>3, HandlerOnly DEF UpToDate, stored, syncs
  <2>3. QED
    BY <2>1, <2>2 DEF UpToDate
<1>9. QED
  BY <1>4, <1>5, <1>6, <1>7, <1>8

\* A job that has read an item has not changed anything.
LEMMA ReadStep ==
  ASSUME IndexInv, NEW h \in Handlers, NEW i \in Items, ReadForTransition(h, i)
  PROVE  IndexInv'
<1> USE DEF IndexInv, IndexTypeOK
<1>1. /\ todo[h] = "idle" /\ todo' = [todo EXCEPT ![h] = IF status[i] = "published" THEN "retract" ELSE "publish"]
      /\ item' = [item EXCEPT ![h] = i]
      /\ UNCHANGED <<row, stored, syncs, counts, excused>>
  BY DEF ReadForTransition
<1>2. /\ \A g \in Handlers \ {h} : item'[g] = item[g] /\ todo'[g] = todo[g]
      /\ item'[h] = i /\ todo'[h] \in {"publish", "retract"}
  BY <1>1
<1>3. IndexTypeOK'
  BY <1>1 DEF row, stored, syncs, counts
<1>4. KeysHeld'
  <2>1. \A g \in Handlers, p \in Processes, j \in Items : Marking(g, p, j)' = Marking(g, p, j)
    BY <1>1, <1>2 DEF Marking
  <2>2. \A p \in Processes : queue[p] = <<>> => stage'[p] = "select"
    BY <1>1 DEF KeysHeld, syncs
  <2>3. \A g \in Handlers : todo'[g] # "idle" => item'[g] \in Items
    BY <1>2 DEF KeysHeld
  <2>4. QED
    BY <1>1, <2>1, <2>2, <2>3, KeysKept DEF syncs
<1>5. OneRun'
  BY <1>1, OneRunKept DEF syncs
<1>6. GoneBare'
  BY <1>1 DEF GoneBare, row, stored
<1>7. UpToDate'
  <2>1. ASSUME NEW j \in Items PROVE Sound(j)'
    BY <1>1, <1>2, HandlerOnly DEF UpToDate, row, stored, syncs
  <2>2. QED
    BY <2>1 DEF UpToDate
<1>8. QED
  BY <1>3, <1>4, <1>5, <1>6, <1>7

\* A scheduled transition reacts like any write, or finds no item.
LEMMA TransitionStep ==
  ASSUME IndexInv, NEW h \in Handlers, Transition(h)
  PROVE  IndexInv'
<1> USE DEF IndexInv, IndexTypeOK
<1>1. PICK i \in Items : i = item[h]
  BY DEF Transition, KeysHeld
<1>2. todo[h] \in {"publish", "retract"} /\ UNCHANGED <<text, stored, syncs, faults, excused>>
  BY DEF Transition
<1>3. /\ \A j \in Items \ {i} : status'[j] = status[j]
      /\ \A g \in Handlers \ {h} : item'[g] = item[g] /\ todo'[g] = todo[g]
      /\ todo' \in [Handlers -> {"idle", "publish", "retract", "sync", "mark", "delete"}]
      /\ item' \in [Handlers -> Items \cup {Nothing}]
      /\ status' \in [Items -> Statuses]
      /\ edits' \in 0..MaxWrites
      /\ \/ todo'[h] = "idle" /\ status'[i] = status[i]
         \/ todo'[h] \in {"sync", "delete"} /\ item'[h] = i /\ status'[i] # "absent"
  <2>1. CASE status[i] = "absent"
    <3>1. todo' = [todo EXCEPT ![h] = "idle"] /\ item' = [item EXCEPT ![h] = Nothing] /\ UNCHANGED <<status, edits>>
      BY <1>1, <2>1 DEF Transition
    <3>2. QED
      BY <3>1
  <2>2. CASE status[i] # "absent"
    <3>1. PICK s \in {"published", "draft"} :
            /\ edits < MaxWrites /\ edits' = edits + 1
            /\ status' = [status EXCEPT ![i] = s] /\ React(h, i, s)
      BY <1>1, <2>2 DEF Transition
    <3>2. QED
      BY <3>1, BoundsAssumption DEF React, Statuses
  <2>3. QED
    BY <2>1, <2>2
<1>4. IndexTypeOK'
  BY <1>2, <1>3 DEF stored, syncs
<1>5. KeysHeld'
  <2>1. \A g \in Handlers, p \in Processes, j \in Items : Marking(g, p, j)' = Marking(g, p, j)
    BY <1>2, <1>3 DEF Marking
  <2>2. \A p \in Processes : queue[p] = <<>> => stage'[p] = "select"
    BY <1>2 DEF KeysHeld, syncs
  <2>3. \A g \in Handlers : todo'[g] # "idle" => item'[g] \in Items
    BY <1>3 DEF KeysHeld
  <2>4. QED
    BY <1>2, <2>1, <2>2, <2>3, KeysKept DEF syncs
<1>6. OneRun'
  BY <1>2, OneRunKept DEF syncs
<1>7. GoneBare'
  BY <1>2, <1>3 DEF GoneBare, stored
<1>8. UpToDate'
  <2>1. Sound(i)'
    <3>1. CASE todo'[h] = "idle" /\ status'[i] = status[i]
      BY <1>2, <1>3, <3>1, HandlerOnly DEF UpToDate, stored, syncs
    <3>2. CASE todo'[h] \in {"sync", "delete"} /\ item'[h] = i
      BY <3>2 DEF Sound, Pending, Reacting
    <3>3. QED
      BY <1>3, <3>1, <3>2
  <2>2. ASSUME NEW j \in Items \ {i} PROVE Sound(j)'
    BY <1>1, <1>2, <1>3, HandlerOnly DEF UpToDate, stored, syncs
  <2>3. QED
    BY <2>1, <2>2 DEF UpToDate
<1>9. QED
  BY <1>4, <1>5, <1>6, <1>7, <1>8

\* A change of the rows alone moves no handler and no run.
LEMMA RowsOnly ==
  ASSUME IndexInv, UNCHANGED <<handler, syncs>>
  PROVE  /\ KeysHeld'
         /\ \A j \in Items : /\ Sound(j) /\ status'[j] = status[j] /\ text'[j] = text[j]
                             /\ index'[j] = index[j] /\ state'[j] = state[j]
                             /\ excused[j] \subseteq excused'[j]
                             => Sound(j)'
<1>1. KeysHeld'
  <2>1. \A h \in Handlers, p \in Processes, j \in Items : Marking(h, p, j)' = Marking(h, p, j)
    BY DEF handler, Marking
  <2>2. /\ \A p \in Processes : queue[p] = <<>> => stage'[p] = "select"
        /\ \A h \in Handlers : todo'[h] # "idle" => item'[h] \in Items
    BY DEF IndexInv, KeysHeld, handler, syncs
  <2>3. QED
    BY <2>1, <2>2, KeysKept DEF IndexInv, syncs
<1>2. \A p \in Processes, j \in Items : Queued(p, j)' = Queued(p, j) /\ HasRead(p, j)' = HasRead(p, j)
  BY DEF Queued, HasRead, syncs
<1>3. \A j \in Items : Reacting(j)' = Reacting(j)
  BY DEF Reacting, handler
<1>4. QED
  BY <1>1, <1>2, <1>3, Unmoved DEF syncs

\* A write that does not react excuses its item.
LEMMA SilentStep ==
  ASSUME IndexInv, NEW i \in Items, WriteSilently(i)
  PROVE  IndexInv'
<1> USE DEF IndexInv, IndexTypeOK
<1>1. PICK s \in {"draft", "published"}, t \in Texts :
        status' = [status EXCEPT ![i] = s] /\ text' = [text EXCEPT ![i] = t]
  BY DEF WriteSilently
<1>2. /\ edits < MaxWrites /\ edits' = edits + 1 /\ Excuse(i, {"silent"})
      /\ UNCHANGED <<stored, handler, syncs, faults>>
  BY DEF WriteSilently
<1>3. /\ excused' \in [Items -> SUBSET Reasons]
      /\ \A j \in Items : excused'[j] = IF j = i THEN excused[j] \cup {"silent"} ELSE excused[j]
  <2>1. {"silent"} \in SUBSET Reasons
    BY DEF Reasons
  <2>2. QED
    BY <1>2, <2>1, Excused
<1>4. IndexTypeOK'
  <2>1. status' \in [Items -> Statuses] /\ text' \in [Items -> Texts] /\ edits' \in 0..MaxWrites
    BY <1>1, <1>2, BoundsAssumption DEF Statuses
  <2>2. QED
    BY <1>2, <1>3, <2>1 DEF stored, handler, syncs
<1>5. OneRun'
  BY <1>2, <1>3, OneRunKept DEF syncs
<1>6. GoneBare'
  BY <1>1, <1>2 DEF GoneBare, stored
<1>7. UpToDate'
  <2>1. Sound(i)'
    BY <1>3 DEF Sound
  <2>2. ASSUME NEW j \in Items \ {i} PROVE Sound(j)'
    BY <1>1, <1>2, <1>3, RowsOnly DEF UpToDate, stored
  <2>3. QED
    BY <2>1, <2>2 DEF UpToDate
<1>8. QED
  BY <1>2, <1>4, <1>5, <1>6, <1>7, RowsOnly

\* Deleting an item takes its chunks: whatever a run holds of it, it has nothing to be.
LEMMA RemoveStep ==
  ASSUME IndexInv, NEW i \in Items, Remove(i)
  PROVE  IndexInv'
<1> USE DEF IndexInv, IndexTypeOK
<1>1. /\ status' = [status EXCEPT ![i] = "absent"]
      /\ index' = [index EXCEPT ![i] = Nothing] /\ state' = [state EXCEPT ![i] = "disabled"]
      /\ edits < MaxWrites /\ edits' = edits + 1
      /\ UNCHANGED <<text, handler, syncs, faults, excused>>
  BY DEF Remove
<1>2. IndexTypeOK'
  BY <1>1, BoundsAssumption DEF handler, syncs, Statuses, States
<1>3. OneRun'
  BY <1>1, OneRunKept DEF syncs
<1>4. GoneBare'
  BY <1>1 DEF GoneBare
<1>5. UpToDate'
  <2>1. Sound(i)'
    BY <1>1 DEF Sound, Fresh, Right, Wanted
  <2>2. ASSUME NEW j \in Items \ {i} PROVE Sound(j)'
    BY <1>1, RowsOnly DEF UpToDate
  <2>3. QED
    BY <2>1, <2>2 DEF UpToDate
<1>6. QED
  BY <1>1, <1>2, <1>3, <1>4, <1>5, RowsOnly

\* A request joins a run that will read the item after it, or takes the key;
\* else the item is excused.
LEMMA SyncStep ==
  ASSUME IndexInv, NEW h \in Handlers, Sync(h)
  PROVE  IndexInv'
<1> USE DEF IndexInv, IndexTypeOK
<1>1. todo[h] = "sync" /\ UNCHANGED <<row, stored, queue, stage, copy, counts>>
  BY DEF Sync
<1>2. PICK i \in Items : i = item[h]
  BY <1>1 DEF KeysHeld
<1>3. PICK p \in Processes : p = Home[h]
  BY HomeAssumption
<1>4. \A q \in Processes, j \in Items : Queued(q, j)' = Queued(q, j) /\ HasRead(q, j)' = HasRead(q, j)
  BY <1>1 DEF Queued, HasRead
<1>5. CASE i \in inflight[p]
  <2>1. Rest(h) /\ Excuse(i, IF HasRead(p, i) THEN {"joined"} ELSE {}) /\ UNCHANGED inflight
    BY <1>2, <1>3, <1>5 DEF Sync
  <2>2. /\ excused' \in [Items -> SUBSET Reasons]
        /\ \A j \in Items : excused[j] \subseteq excused'[j]
        /\ HasRead(p, i) => excused'[i] # {}
    <3>1. (IF HasRead(p, i) THEN {"joined"} ELSE {}) \in SUBSET Reasons
      BY DEF Reasons
    <3>2. QED
      BY <2>1, <3>1, Excused
  <2>3. /\ todo' \in [Handlers -> {"idle", "publish", "retract", "sync", "mark", "delete"}]
        /\ item' \in [Handlers -> Items \cup {Nothing}]
        /\ \A g \in Handlers \ {h} : todo'[g] = todo[g] /\ item'[g] = item[g]
        /\ todo'[h] = "idle"
    BY <2>1 DEF Rest
  <2>4. IndexTypeOK'
    BY <1>1, <2>1, <2>2, <2>3 DEF row, stored, counts
  <2>5. \A g \in Handlers, q \in Processes, j \in Items : Marking(g, q, j)' = Marking(g, q, j)
    BY <1>1, <2>3 DEF Marking
  <2>6. KeysHeld'
    <3>1. /\ \A q \in Processes : queue[q] = <<>> => stage'[q] = "select"
          /\ \A g \in Handlers : todo'[g] # "idle" => item'[g] \in Items
      BY <1>1, <2>3 DEF KeysHeld
    <3>2. QED
      BY <1>1, <2>1, <2>5, <3>1, KeysKept
  <2>7. OneRun' /\ GoneBare'
    BY <1>1, <2>1, <2>2, OneRunKept DEF GoneBare, row, stored
  <2>8. Sound(i)'
    <3>1. CASE HasRead(p, i)
      BY <2>2, <3>1 DEF Sound
    <3>2. CASE Queued(p, i) /\ ~HasRead(p, i)
      BY <1>4, <3>2 DEF Sound, Pending
    <3>3. CASE \E g \in Handlers : Marking(g, p, i)
      BY <1>1, <2>3, <3>3 DEF Sound, Pending, Reacting, Marking
    <3>4. QED
      BY <1>5, <3>1, <3>2, <3>3 DEF KeysHeld
  <2>9. ASSUME NEW j \in Items \ {i} PROVE Sound(j)'
    BY <1>1, <1>2, <2>2, <2>3, HandlerOnly DEF UpToDate, row, stored
  <2>10. QED
    BY <2>4, <2>6, <2>7, <2>8, <2>9 DEF UpToDate
<1>6. CASE i \notin inflight[p]
  <2>1. /\ todo' = [todo EXCEPT ![h] = "mark"] /\ UNCHANGED item
        /\ inflight' = [inflight EXCEPT ![p] = @ \cup {i}]
        /\ Excuse(i, IF \E q \in Processes \ {p} : i \in inflight[q] THEN {"crossed"} ELSE {})
    BY <1>2, <1>3, <1>6 DEF Sync
  <2>2. /\ excused' \in [Items -> SUBSET Reasons]
        /\ \A j \in Items : excused[j] \subseteq excused'[j]
        /\ (\E q \in Processes \ {p} : i \in inflight[q]) => excused'[i] # {}
    <3>1. (IF \E q \in Processes \ {p} : i \in inflight[q] THEN {"crossed"} ELSE {}) \in SUBSET Reasons
      BY DEF Reasons
    <3>2. QED
      BY <2>1, <3>1, Excused
  <2>3. /\ \A g \in Handlers \ {h} : todo'[g] = todo[g] /\ item'[g] = item[g]
        /\ todo'[h] = "mark" /\ item'[h] = i
        /\ \A q \in Processes : inflight'[q] = IF q = p THEN inflight[p] \cup {i} ELSE inflight[q]
    BY <1>2, <2>1
  <2>4. IndexTypeOK'
    <3>1. inflight' \in [Processes -> SUBSET Items]
      BY <2>1
    <3>2. todo' \in [Handlers -> {"idle", "publish", "retract", "sync", "mark", "delete"}]
      BY <2>1
    <3>3. QED
      BY <1>1, <2>1, <2>2, <3>1, <3>2 DEF row, stored, counts
  <2>5. \A g \in Handlers, q \in Processes, j \in Items :
          Marking(g, q, j)' <=> Marking(g, q, j) \/ (g = h /\ q = p /\ j = i)
    BY <1>1, <1>2, <1>3, <2>3 DEF Marking
  <2>6. KeysHeld'
    <3>1. ~Queued(p, i) /\ \A g \in Handlers : ~Marking(g, p, i)
      BY <1>6 DEF KeysHeld
    <3>2. \A q \in Processes, j \in Items :
            j \in inflight'[q] <=> Queued(q, j)' \/ \E g \in Handlers : Marking(g, q, j)'
      BY <1>4, <2>3, <2>5 DEF KeysHeld
    <3>3. \A q \in Processes, j \in Items, g \in Handlers :
            Marking(g, q, j)' => ~Queued(q, j)' /\ \A f \in Handlers : Marking(f, q, j)' => f = g
      BY <1>4, <2>5, <3>1 DEF KeysHeld
    <3>4. /\ \A q \in Processes : \A j, k \in 1..Len(queue'[q]) : queue'[q][j] = queue'[q][k] => j = k
          /\ \A q \in Processes : queue'[q] = <<>> => stage'[q] = "select"
          /\ \A g \in Handlers : todo'[g] # "idle" => item'[g] \in Items
      BY <1>1, <2>3 DEF KeysHeld
    <3>5. QED
      BY <3>2, <3>3, <3>4 DEF KeysHeld
  <2>7. OneRun'
    <3>1. SUFFICES ASSUME NEW j \in Items, excused'[j] = {}, NEW q \in Processes, NEW r \in Processes,
                          j \in inflight'[q], j \in inflight'[r]
                   PROVE  q = r
      BY DEF OneRun
    <3>2. excused[j] = {}
      BY <2>2, <3>1
    <3>3. CASE j = i
      BY <2>2, <2>3, <3>1, <3>3
    <3>4. CASE j # i
      <4>1. j \in inflight[q] /\ j \in inflight[r]
        BY <2>3, <3>1, <3>4
      <4>2. QED
        BY <3>2, <4>1 DEF OneRun
    <3>5. QED
      BY <3>3, <3>4
  <2>8. GoneBare'
    BY <1>1 DEF GoneBare, row, stored
  <2>9. Sound(i)'
    BY <2>3 DEF Sound, Pending, Reacting
  <2>10. ASSUME NEW j \in Items \ {i} PROVE Sound(j)'
    BY <1>1, <1>2, <2>2, <2>3, HandlerOnly DEF UpToDate, row, stored
  <2>11. QED
    BY <2>4, <2>6, <2>7, <2>8, <2>9, <2>10 DEF UpToDate
<1>7. QED
  BY <1>5, <1>6

\* A process without an API key excuses the item it does not synchronise.
LEMMA DisabledStep ==
  ASSUME IndexInv, NEW h \in Handlers, SyncDisabled(h)
  PROVE  IndexInv'
<1> USE DEF IndexInv, IndexTypeOK
<1>1. PICK i \in Items : i = item[h]
  BY DEF SyncDisabled, KeysHeld
<1>2. /\ todo[h] = "sync" /\ todo' = [todo EXCEPT ![h] = "idle"] /\ item' = [item EXCEPT ![h] = Nothing]
      /\ UNCHANGED <<row, index, syncs, edits>>
      /\ Excuse(i, {"keyless"})
      /\ state' \in [Items -> States] /\ faults' \in 0..MaxFaults
      /\ state'[i] \in {state[i], "disabled"}
      /\ \A j \in Items \ {i} : state'[j] = state[j]
  <2>1. /\ todo[h] = "sync" /\ todo' = [todo EXCEPT ![h] = "idle"] /\ item' = [item EXCEPT ![h] = Nothing]
        /\ UNCHANGED <<row, index, syncs, edits>>
        /\ Excuse(i, {"keyless"})
    BY <1>1 DEF SyncDisabled, Rest
  <2>2. \/ state' = [state EXCEPT ![i] = "disabled"] /\ UNCHANGED faults
        \/ faults < MaxFaults /\ faults' = faults + 1 /\ UNCHANGED state
    BY <1>1 DEF SyncDisabled
  <2>3. state' \in [Items -> States] /\ state'[i] \in {state[i], "disabled"}
    BY <2>2 DEF States
  <2>4. faults' \in 0..MaxFaults
    BY <2>2, BoundsAssumption
  <2>5. \A j \in Items \ {i} : state'[j] = state[j]
    BY <2>2
  <2>6. QED
    BY <2>1, <2>3, <2>4, <2>5
<1>3. /\ excused' \in [Items -> SUBSET Reasons]
      /\ \A j \in Items : excused[j] \subseteq excused'[j]
      /\ excused'[i] # {}
  <2>1. {"keyless"} \in SUBSET Reasons
    BY DEF Reasons
  <2>2. /\ excused' \in [Items -> SUBSET Reasons]
        /\ \A j \in Items : excused'[j] = IF j = i THEN excused[j] \cup {"keyless"} ELSE excused[j]
    BY <1>2, <2>1, Excused
  <2>3. QED
    BY <2>2
<1>4. /\ \A g \in Handlers \ {h} : item'[g] = item[g] /\ todo'[g] = todo[g]
      /\ todo'[h] = "idle"
  BY <1>2
<1>5. IndexTypeOK'
  BY <1>2, <1>3 DEF row, syncs
<1>6. KeysHeld'
  <2>1. \A g \in Handlers, p \in Processes, j \in Items : Marking(g, p, j)' = Marking(g, p, j)
    BY <1>2, <1>4 DEF Marking
  <2>2. \A p \in Processes : queue[p] = <<>> => stage'[p] = "select"
    BY <1>2 DEF KeysHeld, syncs
  <2>3. \A g \in Handlers : todo'[g] # "idle" => item'[g] \in Items
    BY <1>4 DEF KeysHeld
  <2>4. QED
    BY <1>2, <2>1, <2>2, <2>3, KeysKept DEF syncs
<1>7. OneRun'
  BY <1>2, <1>3, OneRunKept DEF syncs
<1>8. GoneBare'
  BY <1>2 DEF GoneBare, row
<1>9. UpToDate'
  <2>1. Sound(i)'
    BY <1>3 DEF Sound
  <2>2. ASSUME NEW j \in Items \ {i} PROVE Sound(j)'
    BY <1>1, <1>2, <1>3, <1>4, HandlerOnly DEF UpToDate, row, syncs
  <2>3. QED
    BY <2>1, <2>2 DEF UpToDate
<1>10. QED
  BY <1>5, <1>6, <1>7, <1>8, <1>9

\* A deletion leaves nothing of an item that is not published, unless it fails,
\* or crosses a run.
LEMMA DeleteStep ==
  ASSUME IndexInv, NEW h \in Handlers, DeleteIndex(h)
  PROVE  IndexInv'
<1> USE DEF IndexInv, IndexTypeOK
<1>1. todo[h] = "delete" /\ UNCHANGED <<row, syncs, edits>> /\ Rest(h)
  BY DEF DeleteIndex
<1>2. PICK i \in Items : i = item[h]
  BY <1>1 DEF KeysHeld
<1> DEFINE crossed == status[i] = "published" \/ \E p \in Processes : Reading(p, i)
           done == index' = [index EXCEPT ![i] = Nothing] /\ state' = [state EXCEPT ![i] = "disabled"]
<1>3. /\ faults' \in 0..MaxFaults
      /\ \E R \in SUBSET Reasons :
           /\ Excuse(i, R)
           /\ \/ R # {} /\ UNCHANGED stored
              \/ done /\ (crossed => R # {})
  <2>1. CASE done /\ Excuse(i, IF crossed THEN {"crossed"} ELSE {}) /\ UNCHANGED faults
    <3>1. (IF crossed THEN {"crossed"} ELSE {}) \in SUBSET Reasons
      BY DEF Reasons
    <3>2. QED
      BY <2>1, <3>1
  <2>2. CASE faults < MaxFaults /\ faults' = faults + 1 /\ Excuse(i, {"failed"}) /\ UNCHANGED stored
    <3>1. {"failed"} \in SUBSET Reasons /\ {"failed"} # {}
      BY DEF Reasons
    <3>2. faults' \in 0..MaxFaults
      BY <2>2, BoundsAssumption
    <3> HIDE DEF crossed, done
    <3>3. QED
      BY <2>2, <3>1, <3>2
  <2>3. QED
    BY <1>2, <2>1, <2>2 DEF DeleteIndex
<1>4. PICK R \in SUBSET Reasons :
        /\ Excuse(i, R)
        /\ \/ R # {} /\ UNCHANGED stored
           \/ done /\ (crossed => R # {})
  BY <1>3
<1>5. /\ excused' \in [Items -> SUBSET Reasons]
      /\ \A j \in Items : excused'[j] = IF j = i THEN excused[j] \cup R ELSE excused[j]
  <2>1. Excuse(i, R) /\ IndexTypeOK
    BY <1>4
  <2>2. QED
    BY <2>1, Excused
<1>6. /\ todo' \in [Handlers -> {"idle", "publish", "retract", "sync", "mark", "delete"}]
      /\ item' \in [Handlers -> Items \cup {Nothing}]
      /\ \A g \in Handlers \ {h} : todo'[g] = todo[g] /\ item'[g] = item[g]
      /\ todo'[h] = "idle"
  BY <1>1 DEF Rest
<1>7. /\ index' \in [Items -> Texts \cup {Nothing}] /\ state' \in [Items -> States]
      /\ \A j \in Items \ {i} : index'[j] = index[j] /\ state'[j] = state[j]
      /\ \/ R # {} /\ index'[i] = index[i] /\ state'[i] = state[i]
         \/ index'[i] = Nothing /\ state'[i] = "disabled" /\ (crossed => R # {})
  <2>1. CASE R # {} /\ UNCHANGED stored
    BY <2>1 DEF stored
  <2>2. CASE done /\ (crossed => R # {})
    BY <2>2 DEF States
  <2>3. QED
    BY <1>4, <2>1, <2>2
<1> HIDE DEF done
<1>8. IndexTypeOK'
  BY <1>1, <1>3, <1>5, <1>6, <1>7 DEF row, syncs
<1>9. KeysHeld'
  <2>1. \A g \in Handlers, p \in Processes, j \in Items : Marking(g, p, j)' = Marking(g, p, j)
    BY <1>1, <1>6 DEF Marking
  <2>2. /\ \A p \in Processes : queue[p] = <<>> => stage'[p] = "select"
        /\ \A g \in Handlers : todo'[g] # "idle" => item'[g] \in Items
    BY <1>1, <1>6 DEF KeysHeld, syncs
  <2>3. QED
    BY <1>1, <2>1, <2>2, KeysKept DEF syncs
<1>10. OneRun'
  BY <1>1, <1>5, OneRunKept DEF syncs
<1>11. GoneBare'
  BY <1>1, <1>7 DEF GoneBare, row
<1>12. Sound(i)'
  <2>1. CASE R # {}
    BY <1>5, <2>1 DEF Sound
  <2>2. CASE index'[i] = Nothing /\ state'[i] = "disabled" /\ ~crossed
    <3>1. Right(i)' /\ \A p \in Processes : ~Reading(p, i)'
      BY <1>1, <2>2 DEF Right, Wanted, Reading, HasRead, row, syncs
    <3>2. QED
      BY <3>1 DEF Sound
  <2>3. QED
    BY <1>7, <2>1, <2>2
<1>13. ASSUME NEW j \in Items \ {i} PROVE Sound(j)'
  BY <1>1, <1>2, <1>5, <1>6, <1>7, HandlerOnly DEF UpToDate, row, syncs
<1>14. QED
  BY <1>8, <1>9, <1>10, <1>11, <1>12, <1>13 DEF UpToDate

\* A run is queued behind those that were there.
LEMMA AppendQueues ==
  ASSUME NEW s \in Seq(Items), NEW i \in Items
  PROVE  /\ Append(s, i) \in Seq(Items) /\ Append(s, i) # <<>>
         /\ Len(Append(s, i)) = Len(s) + 1 /\ Append(s, i)[Len(s) + 1] = i
         /\ \A k \in 1..Len(s) : Append(s, i)[k] = s[k]
         /\ Head(Append(s, i)) = IF s = <<>> THEN i ELSE Head(s)
  OBVIOUS

\* A run that has ended leaves those behind it in order.
LEMMA TailQueues ==
  ASSUME NEW s \in Seq(Items), s # <<>>
  PROVE  /\ Head(s) = s[1] /\ 1 \in 1..Len(s) /\ s[1] \in Items
         /\ Tail(s) \in Seq(Items) /\ Len(Tail(s)) = Len(s) - 1 /\ Len(s) \in Nat
         /\ \A k \in 1..Len(Tail(s)) : Tail(s)[k] = s[k + 1]
  OBVIOUS

\* A synchronisation is queued, and has read nothing yet; or fails, and is excused.
LEMMA MarkStep ==
  ASSUME IndexInv, NEW h \in Handlers, Mark(h)
  PROVE  IndexInv'
<1> USE DEF IndexInv, IndexTypeOK
<1>1. todo[h] = "mark" /\ Rest(h) /\ UNCHANGED <<row, index, stage, copy, edits>>
  BY DEF Mark
<1>2. PICK i \in Items : i = item[h]
  BY <1>1 DEF KeysHeld
<1>3. PICK p \in Processes : p = Home[h]
  BY HomeAssumption
<1>4. Marking(h, p, i) /\ ~Queued(p, i) /\ i \in inflight[p] /\ \A g \in Handlers : Marking(g, p, i) => g = h
  <2>1. Marking(h, p, i)
    BY <1>1, <1>2, <1>3 DEF Marking
  <2>2. QED
    BY <2>1 DEF KeysHeld
<1>5. /\ todo' \in [Handlers -> {"idle", "publish", "retract", "sync", "mark", "delete"}]
      /\ item' \in [Handlers -> Items \cup {Nothing}]
      /\ \A g \in Handlers \ {h} : todo'[g] = todo[g] /\ item'[g] = item[g]
      /\ todo'[h] = "idle"
  BY <1>1 DEF Rest
<1>6. \A g \in Handlers, q \in Processes, j \in Items :
        Marking(g, q, j)' <=> Marking(g, q, j) /\ g # h
  BY <1>1, <1>5 DEF Marking
<1>7. \A g \in Handlers, q \in Processes, j \in Items :
        Marking(g, q, j) /\ g # h => Marking(g, q, j) /\ ~(q = p /\ j = i)
  BY <1>4
<1>8. \A q \in Processes, j \in Items : Marking(h, q, j) => q = p /\ j = i
  BY <1>2, <1>3 DEF Marking
<1>9. CASE /\ state' = [state EXCEPT ![i] = IF status[i] = "absent" THEN @ ELSE "pending"]
           /\ queue' = [queue EXCEPT ![p] = Append(@, i)]
           /\ UNCHANGED <<inflight, faults, excused>>
  <2> DEFINE s == queue[p]
  <2>1. /\ queue' \in [Processes -> Seq(Items)]
        /\ queue'[p] = Append(s, i) /\ \A q \in Processes \ {p} : queue'[q] = queue[q]
    BY <1>9
  <2>2. /\ s \in Seq(Items) /\ Len(s) \in Nat /\ Len(queue'[p]) = Len(s) + 1
        /\ queue'[p][Len(s) + 1] = i /\ queue'[p] # <<>>
        /\ \A k \in 1..Len(s) : queue'[p][k] = s[k]
        /\ Head(queue'[p]) = IF s = <<>> THEN i ELSE Head(s)
    BY <2>1, AppendQueues
  <2>3. \A q \in Processes, j \in Items : Queued(q, j)' <=> Queued(q, j) \/ (q = p /\ j = i)
    <3>1. \A j \in Items : Queued(p, j)' <=> Queued(p, j) \/ j = i
      <4>1. 1..Len(queue'[p]) = 1..Len(s) \cup {Len(s) + 1}
        BY <2>2
      <4>2. QED
        BY <2>2, <4>1 DEF Queued
    <3>2. \A q \in Processes \ {p}, j \in Items : Queued(q, j)' <=> Queued(q, j)
      BY <2>1 DEF Queued
    <3>3. QED
      BY <3>1, <3>2
  <2>4. \A q \in Processes, j \in Items : HasRead(q, j)' <=> HasRead(q, j)
    <3>1. s = <<>> => stage[p] = "select"
      BY DEF KeysHeld
    <3>2. \A j \in Items : HasRead(p, j)' <=> HasRead(p, j)
      BY <1>1, <2>2, <3>1 DEF HasRead
    <3>3. \A q \in Processes \ {p}, j \in Items : HasRead(q, j)' <=> HasRead(q, j)
      BY <1>1, <2>1 DEF HasRead
    <3>4. QED
      BY <3>2, <3>3
  <2>5. state' \in [Items -> States] /\ \A j \in Items \ {i} : state'[j] = state[j]
    BY <1>9 DEF States
  <2>6. IndexTypeOK'
    BY <1>1, <1>5, <1>9, <2>1, <2>5 DEF row
  <2>7. KeysHeld'
    <3>1. \A q \in Processes, j \in Items :
            j \in inflight'[q] <=> Queued(q, j)' \/ \E g \in Handlers : Marking(g, q, j)'
      <4>1. SUFFICES ASSUME NEW q \in Processes, NEW j \in Items
                     PROVE  j \in inflight[q] <=> Queued(q, j)' \/ \E g \in Handlers : Marking(g, q, j)'
        BY <1>9
      <4>2. j \in inflight[q] <=> Queued(q, j) \/ \E g \in Handlers : Marking(g, q, j)
        BY DEF KeysHeld
      <4>3. QED
        BY <1>4, <1>6, <1>8, <2>3, <4>2
    <3>2. \A q \in Processes, j \in Items, g \in Handlers :
            Marking(g, q, j)' => ~Queued(q, j)' /\ \A f \in Handlers : Marking(f, q, j)' => f = g
      BY <1>6, <1>7, <2>3 DEF KeysHeld
    <3>3. \A q \in Processes : \A j, k \in 1..Len(queue'[q]) : queue'[q][j] = queue'[q][k] => j = k
      <4>1. \A k \in 1..Len(s) : s[k] # i
        BY <1>4 DEF Queued
      <4>2. \A j, k \in 1..Len(s) : s[j] = s[k] => j = k
        BY DEF KeysHeld
      <4>3. \A k \in 1..Len(queue'[p]) : k = Len(s) + 1 \/ k \in 1..Len(s)
        BY <2>2
      <4>4. \A j, k \in 1..Len(queue'[p]) : queue'[p][j] = queue'[p][k] => j = k
        BY <2>2, <4>1, <4>2, <4>3
      <4>5. QED
        BY <2>1, <4>4 DEF KeysHeld
    <3>4. /\ \A q \in Processes : queue'[q] = <<>> => stage'[q] = "select"
          /\ \A g \in Handlers : todo'[g] # "idle" => item'[g] \in Items
      BY <1>1, <1>5, <2>1, <2>2 DEF KeysHeld
    <3>5. QED
      BY <3>1, <3>2, <3>3, <3>4 DEF KeysHeld
  <2>8. OneRun'
    BY <1>9, OneRunKept
  <2>9. GoneBare'
    BY <1>1, <1>9 DEF GoneBare, row
  <2>10. Sound(i)'
    <3>1. HasRead(p, i) => Queued(p, i)
      BY TailQueues DEF HasRead, Queued
    <3>2. Pending(i)'
      BY <1>4, <2>3, <2>4, <3>1 DEF Pending
    <3>3. QED
      BY <3>2 DEF Sound
  <2>11. ASSUME NEW j \in Items \ {i} PROVE Sound(j)'
    <3>1. Reacting(j) => Reacting(j)'
      BY <1>2, <1>5 DEF Reacting
    <3>2. Sound(j)
      BY DEF UpToDate
    <3>3. status'[j] = status[j] /\ text'[j] = text[j] /\ index'[j] = index[j] /\ state'[j] = state[j] /\ excused'[j] = excused[j]
      BY <1>1, <1>9, <2>5 DEF row
    <3>4. QED
      BY <1>1, <2>3, <2>4, <3>1, <3>2, <3>3, Unmoved
  <2>12. QED
    BY <2>6, <2>7, <2>8, <2>9, <2>10, <2>11 DEF UpToDate
<1>10. CASE /\ faults < MaxFaults /\ faults' = faults + 1
            /\ inflight' = [inflight EXCEPT ![p] = @ \ {i}]
            /\ Excuse(i, {"failed"}) /\ UNCHANGED <<state, queue>>
  <2>1. /\ excused' \in [Items -> SUBSET Reasons]
        /\ \A j \in Items : excused'[j] = IF j = i THEN excused[j] \cup {"failed"} ELSE excused[j]
    <3>1. {"failed"} \in SUBSET Reasons
      BY DEF Reasons
    <3>2. QED
      BY <1>10, <3>1, Excused
  <2>2. \A q \in Processes, j \in Items : Queued(q, j)' = Queued(q, j) /\ HasRead(q, j)' = HasRead(q, j)
    BY <1>1, <1>10 DEF Queued, HasRead
  <2>3. inflight' \in [Processes -> SUBSET Items]
        /\ \A q \in Processes : inflight'[q] = IF q = p THEN inflight[p] \ {i} ELSE inflight[q]
    BY <1>10
  <2>4. IndexTypeOK'
    <3>1. faults' \in 0..MaxFaults
      BY <1>10, BoundsAssumption
    <3>2. QED
      BY <1>1, <1>5, <1>10, <2>1, <2>3, <3>1 DEF row
  <2>5. KeysHeld'
    <3>1. \A q \in Processes, j \in Items :
            j \in inflight'[q] <=> Queued(q, j)' \/ \E g \in Handlers : Marking(g, q, j)'
      <4>1. SUFFICES ASSUME NEW q \in Processes, NEW j \in Items
                     PROVE  j \in inflight'[q] <=> Queued(q, j)' \/ \E g \in Handlers : Marking(g, q, j)'
        OBVIOUS
      <4>2. j \in inflight[q] <=> Queued(q, j) \/ \E g \in Handlers : Marking(g, q, j)
        BY DEF KeysHeld
      <4>3. QED
        BY <1>4, <1>6, <1>8, <2>2, <2>3, <4>2
    <3>2. \A q \in Processes, j \in Items, g \in Handlers :
            Marking(g, q, j)' => ~Queued(q, j)' /\ \A f \in Handlers : Marking(f, q, j)' => f = g
      BY <1>6, <2>2 DEF KeysHeld
    <3>3. /\ \A q \in Processes : \A j, k \in 1..Len(queue'[q]) : queue'[q][j] = queue'[q][k] => j = k
          /\ \A q \in Processes : queue'[q] = <<>> => stage'[q] = "select"
          /\ \A g \in Handlers : todo'[g] # "idle" => item'[g] \in Items
      BY <1>1, <1>5, <1>10 DEF KeysHeld
    <3>4. QED
      BY <3>1, <3>2, <3>3 DEF KeysHeld
  <2>6. OneRun' /\ GoneBare'
    <3>1. \A j \in Items : excused[j] \subseteq excused'[j]
      BY <2>1
    <3>2. OneRun'
      BY <2>3, <3>1, OneRunKept
    <3>3. QED
      BY <1>1, <1>10, <3>2 DEF GoneBare, row
  <2>7. Sound(i)'
    BY <2>1 DEF Sound
  <2>8. ASSUME NEW j \in Items \ {i} PROVE Sound(j)'
    <3>1. Reacting(j) => Reacting(j)'
      BY <1>2, <1>5 DEF Reacting
    <3>2. Sound(j)
      BY DEF UpToDate
    <3>3. QED
      BY <1>1, <1>10, <2>1, <2>2, <3>1, <3>2, Unmoved DEF row
  <2>9. QED
    BY <2>4, <2>5, <2>6, <2>7, <2>8 DEF UpToDate
<1>11. QED
  BY <1>2, <1>3, <1>9, <1>10 DEF Mark

\* A run that goes on is nothing to the items it is not for.
LEMMA RunAdvances ==
  ASSUME IndexInv, NEW p \in Processes, queue[p] # <<>>, UNCHANGED <<handler, inflight, queue>>,
         \A q \in Processes \ {p} : stage'[q] = stage[q] /\ copy'[q] = copy[q],
         \A j \in Items : excused[j] \subseteq excused'[j]
  PROVE  /\ KeysHeld' /\ OneRun'
         /\ \A j \in Items : \A q \in Processes : Queued(q, j)' <=> Queued(q, j)
         /\ \A j \in Items : Reacting(j)' <=> Reacting(j)
         /\ \A j \in Items \ {Head(queue[p])} :
              /\ status'[j] = status[j] /\ text'[j] = text[j]
              /\ index'[j] = index[j] /\ state'[j] = state[j]
              => Sound(j)'
<1> USE DEF IndexInv
<1>1. \A h \in Handlers, q \in Processes, j \in Items : Marking(h, q, j)' = Marking(h, q, j)
  BY DEF handler, Marking
<1>2. KeysHeld'
  <2>1. /\ \A q \in Processes : queue[q] = <<>> => stage'[q] = "select"
        /\ \A h \in Handlers : todo'[h] # "idle" => item'[h] \in Items
    BY DEF KeysHeld, handler
  <2>2. QED
    BY <1>1, <2>1, KeysKept
<1>3. OneRun'
  BY OneRunKept
<1>4. \A j \in Items : \A q \in Processes : Queued(q, j)' <=> Queued(q, j)
  BY DEF Queued
<1>5. \A j \in Items : Reacting(j)' <=> Reacting(j)
  BY DEF Reacting, handler
<1>6. ASSUME NEW j \in Items \ {Head(queue[p])},
             status'[j] = status[j], text'[j] = text[j], index'[j] = index[j], state'[j] = state[j]
      PROVE  Sound(j)'
  <2>1. Sound(j)
    BY DEF UpToDate
  <2>2. \A q \in Processes : HasRead(q, j)' <=> HasRead(q, j)
    BY DEF HasRead
  <2>3. \A q \in Processes : HasRead(q, j) => stage'[q] = stage[q] /\ copy'[q] = copy[q]
    BY DEF HasRead
  <2>4. QED
    BY <1>4, <1>5, <1>6, <2>1, <2>2, <2>3, Unmoved
<1>7. QED
  BY <1>2, <1>3, <1>4, <1>5, <1>6

\* The item a run is for is read by nobody else, unless it is excused.
LEMMA OnlyReader ==
  ASSUME IndexInv, NEW p \in Processes, queue[p] # <<>>
  PROVE  /\ Head(queue[p]) \in Items /\ Queued(p, Head(queue[p]))
         /\ \A q \in Processes, j \in Items : HasRead(q, j) => Queued(q, j)
         /\ excused[Head(queue[p])] = {} => \A q \in Processes \ {p} : ~Queued(q, Head(queue[p]))
<1> USE DEF IndexInv, IndexTypeOK
<1>1. \A q \in Processes : queue[q] # <<>> =>
        /\ Head(queue[q]) \in Items /\ Queued(q, Head(queue[q]))
  BY TailQueues DEF Queued
<1>2. \A q \in Processes, j \in Items : HasRead(q, j) => Queued(q, j)
  BY <1>1 DEF HasRead
<1>3. \A q \in Processes, j \in Items : Queued(q, j) => j \in inflight[q]
  BY DEF KeysHeld
<1>4. QED
  BY <1>1, <1>2, <1>3 DEF OneRun

\* A run reads what the item has now.
LEMMA SelectStep ==
  ASSUME IndexInv, NEW p \in Processes, Select(p)
  PROVE  IndexInv'
<1> USE DEF IndexInv, IndexTypeOK
<1>0. PICK i \in Items : i = Head(queue[p]) /\ Queued(p, i)
  BY OnlyReader DEF Select
<1>1. /\ queue[p] # <<>> /\ stage[p] = "select"
      /\ UNCHANGED <<row, stored, handler, inflight, queue, counts, excused>>
      /\ stage' = [stage EXCEPT ![p] = IF status[i] = "absent" THEN "settle"
                                       ELSE IF Wanted(i) = Nothing THEN "clear" ELSE "request"]
      /\ copy' = [copy EXCEPT ![p] = IF status[i] = "published" THEN text[i] ELSE Nothing]
  BY <1>0 DEF Select
<1>3. /\ stage' \in [Processes -> Stages]
      /\ stage'[p] = IF status[i] = "absent" THEN "settle"
                     ELSE IF Wanted(i) = Nothing THEN "clear" ELSE "request"
      /\ copy' \in [Processes -> Texts \cup {Nothing}]
      /\ copy'[p] = IF status[i] = "published" THEN text[i] ELSE Nothing
      /\ \A q \in Processes \ {p} : stage'[q] = stage[q] /\ copy'[q] = copy[q]
  <2>1. PICK s \in Stages : /\ s = IF status[i] = "absent" THEN "settle"
                                   ELSE IF Wanted(i) = Nothing THEN "clear" ELSE "request"
                            /\ stage' = [stage EXCEPT ![p] = s]
    BY <1>1 DEF Stages
  <2>2. PICK c \in Texts \cup {Nothing} : /\ c = IF status[i] = "published" THEN text[i] ELSE Nothing
                                          /\ copy' = [copy EXCEPT ![p] = c]
    BY <1>1
  <2>3. QED
    BY <2>1, <2>2
<1>4. IndexTypeOK'
  BY <1>1, <1>3 DEF row, stored, handler, counts
<1>5. /\ KeysHeld' /\ OneRun'
      /\ \A j \in Items : \A q \in Processes : Queued(q, j)' <=> Queued(q, j)
      /\ \A j \in Items \ {i} : Sound(j)'
  BY <1>0, <1>1, <1>3, RunAdvances DEF row, stored
<1>6. GoneBare'
  BY <1>1 DEF GoneBare, row, stored
<1>7. Sound(i)'
  <2>1. SUFFICES ASSUME excused[i] = {}
                 PROVE  Sound(i)'
    BY <1>1 DEF Sound
  <2>2. \A q \in Processes \ {p} : ~Queued(q, i) /\ ~HasRead(q, i)
    BY <1>0, <1>1, <2>1, OnlyReader
  <2>3. \A q \in Processes \ {p} : ~Reading(q, i)'
    BY <1>1, <1>3, <2>2 DEF Reading, HasRead
  <2>4. CASE status[i] = "absent"
    <3>1. stage'[p] = "settle"
      BY <1>3, <2>4
    <3>2. ~Reading(p, i)'
      BY <3>1 DEF Reading
    <3>3. Right(i)'
      BY <1>1, <2>4 DEF Right, Wanted, GoneBare, row, stored
    <3>4. QED
      BY <2>3, <3>2, <3>3 DEF Sound
  <2>5. CASE status[i] # "absent" /\ Wanted(i) = Nothing
    <3>1. stage'[p] = "clear" /\ (copy'[p] = Blank <=> status[i] = "published")
      BY <1>3, <2>5, TextsAssumption DEF Wanted
    <3>2. Fresh(p, i)'
      BY <1>1, <2>5, <3>1 DEF Fresh, Wanted, row
    <3>3. Reading(p, i)'
      BY <1>0, <1>1, <3>1 DEF Reading, HasRead
    <3>4. QED
      BY <2>3, <3>2, <3>3 DEF Sound
  <2>6. CASE status[i] # "absent" /\ Wanted(i) # Nothing
    <3>1. stage'[p] = "request" /\ status[i] = "published" /\ text[i] # Blank /\ copy'[p] = text[i]
      BY <1>3, <2>6 DEF Wanted
    <3>2. Fresh(p, i)'
      BY <1>1, <3>1 DEF Fresh, row
    <3>3. Reading(p, i)'
      BY <1>0, <1>1, <3>1 DEF Reading, HasRead
    <3>4. QED
      BY <2>3, <3>2, <3>3 DEF Sound
  <2>7. QED
    BY <2>4, <2>5, <2>6
<1>8. QED
  BY <1>4, <1>5, <1>6, <1>7 DEF UpToDate

\* What a run is about to write about its item is what it should be.
LEMMA ReadsFresh ==
  ASSUME IndexInv, NEW p \in Processes, queue[p] # <<>>, stage[p] \notin {"select", "settle"},
         NEW i \in Items, i = Head(queue[p]), excused[i] = {}, ~Pending(i)
  PROVE  Fresh(p, i)
<1>1. Reading(p, i)
  BY DEF Reading, HasRead
<1>2. QED
  BY <1>1 DEF IndexInv, UpToDate, Sound

\* What a run may do to its item: write s, x and e, with the excuses R; without any,
\* it has either settled on what the item should have, or is fresh still.
RunEffect(p, i, s, x, e, R) ==
  /\ queue[p] # <<>> /\ i = Head(queue[p]) /\ stage[p] # "select"
  /\ UNCHANGED <<row, handler, inflight, queue, copy, edits>>
  /\ stage' = [stage EXCEPT ![p] = s] /\ s \in Stages \ {"select"}
  /\ index' = [index EXCEPT ![i] = x] /\ x \in Texts \cup {Nothing}
  /\ state' = [state EXCEPT ![i] = e] /\ e \in States
  /\ Excuse(i, R) /\ R \in SUBSET Reasons /\ faults' \in 0..MaxFaults
  /\ status[i] = "absent" => x = Nothing /\ e = "disabled"
  /\ excused[i] = {} /\ R = {} /\ ~Pending(i) =>
        \/ s = "settle" /\ x = Wanted(i) /\ e = IF status[i] = "published" THEN "synced" ELSE "disabled"
        \/ s # "settle" /\ Fresh(p, i)'

\* Whatever a run does to its item, the others have what they had.
LEMMA RunWrites ==
  ASSUME IndexInv, NEW p \in Processes, NEW i \in Items, NEW s, NEW x, NEW e, NEW R,
         RunEffect(p, i, s, x, e, R)
  PROVE  IndexInv'
<1> USE DEF IndexInv, RunEffect
<1>1. /\ excused' \in [Items -> SUBSET Reasons]
      /\ \A j \in Items : excused'[j] = IF j = i THEN excused[j] \cup R ELSE excused[j]
  BY Excused
<1>2. /\ stage' \in [Processes -> Stages] /\ stage'[p] = s
      /\ \A q \in Processes \ {p} : stage'[q] = stage[q]
      /\ index' \in [Items -> Texts \cup {Nothing}] /\ index'[i] = x
      /\ state' \in [Items -> States] /\ state'[i] = e
      /\ \A j \in Items \ {i} : index'[j] = index[j] /\ state'[j] = state[j]
  BY DEF IndexTypeOK
<1>3. IndexTypeOK'
  BY <1>1, <1>2 DEF IndexTypeOK, row, handler
<1>4. /\ KeysHeld' /\ OneRun'
      /\ \A j \in Items : \A q \in Processes : Queued(q, j)' <=> Queued(q, j)
      /\ \A j \in Items : Reacting(j)' <=> Reacting(j)
      /\ \A j \in Items \ {i} : Sound(j)'
  BY <1>1, <1>2, RunAdvances DEF row
<1>5. Pending(i)' <=> Pending(i)
  <2>1. \A q \in Processes : HasRead(q, i)' <=> HasRead(q, i)
    BY <1>2 DEF HasRead
  <2>2. QED
    BY <1>4, <2>1 DEF Pending
<1>6. GoneBare'
  BY <1>2 DEF GoneBare, row
<1>7. Sound(i)'
  <2>1. SUFFICES ASSUME excused[i] = {}, R = {}, ~Pending(i) PROVE Sound(i)'
    BY <1>1, <1>5 DEF Sound
  <2>2. \A q \in Processes \ {p} : ~Reading(q, i)'
    <3>1. \A q \in Processes \ {p} : ~HasRead(q, i)
      BY <2>1, OnlyReader
    <3>2. QED
      BY <1>2, <3>1 DEF Reading, HasRead
  <2>3. Reading(p, i)' <=> s # "settle"
    BY <1>2 DEF Reading, HasRead
  <2>4. CASE s = "settle"
    <3>1. Right(i)'
      BY <1>2, <2>1, <2>4 DEF Right, Wanted, row
    <3>2. QED
      BY <2>2, <2>3, <2>4, <3>1 DEF Sound
  <2>5. CASE s # "settle"
    BY <2>1, <2>2, <2>3, <2>5 DEF Sound
  <2>6. QED
    BY <2>4, <2>5
<1>8. QED
  BY <1>3, <1>4, <1>6, <1>7 DEF UpToDate

\* Deleting, requesting, storing and recording a failure are such effects.
LEMMA RunStepKeeps ==
  ASSUME IndexInv, NEW p \in Processes, RunStep(p), ~Select(p), ~Settle(p)
  PROVE  IndexInv'
<1>1. PICK i \in Items : i = Head(queue[p]) /\ queue[p] # <<>>
  BY OnlyReader DEF RunStep, Select, Clear, Request, Store, RecordFailure, Settle
<1>2. /\ Nothing \in Texts \cup {Nothing} /\ "synced" \in States /\ "disabled" \in States /\ "failed" \in States
      /\ {} \in SUBSET Reasons /\ {"failed"} \in SUBSET Reasons /\ {"unrecorded"} \in SUBSET Reasons
      /\ {"settle", "fail", "store"} \subseteq Stages \ {"select"}
  BY DEF States, Reasons, Stages
<1>3. /\ index[i] \in Texts \cup {Nothing} /\ index = [index EXCEPT ![i] = index[i]]
      /\ state[i] \in States /\ state = [state EXCEPT ![i] = state[i]]
      /\ excused = [excused EXCEPT ![i] = @ \cup {}]
      /\ copy[p] \in Texts \cup {Nothing} /\ faults \in 0..MaxFaults
      /\ faults < MaxFaults => faults + 1 \in 0..MaxFaults
  BY BoundsAssumption DEF IndexInv, IndexTypeOK
<1>4. /\ UNCHANGED excused => Excuse(i, {})
      /\ UNCHANGED index => index' = [index EXCEPT ![i] = index[i]]
      /\ UNCHANGED state => state' = [state EXCEPT ![i] = state[i]]
  BY <1>3 DEF Excuse
<1>5. status[i] = "absent" => index[i] = Nothing /\ state[i] = "disabled"
  BY DEF IndexInv, GoneBare
<1>6. stage[p] \in {"clear", "request", "store", "fail"} /\ excused[i] = {} /\ ~Pending(i) => Fresh(p, i)
  BY <1>1, ReadsFresh
<1>7. CASE Clear(p)
  <2>1. stage[p] = "clear" /\ UNCHANGED <<row, handler, inflight, queue, copy, edits>>
    BY <1>7 DEF Clear
  <2>2. CASE /\ index' = [index EXCEPT ![i] = Nothing]
             /\ state' = [state EXCEPT ![i] = IF copy[p] = Blank /\ status[i] # "absent"
                                              THEN "synced" ELSE "disabled"]
             /\ stage' = [stage EXCEPT ![p] = "settle"]
             /\ UNCHANGED <<faults, excused>>
    <3> DEFINE e == IF copy[p] = Blank /\ status[i] # "absent" THEN "synced" ELSE "disabled"
    <3>1. e \in States /\ (status[i] = "absent" => e = "disabled")
      BY <1>2
    <3>2. Fresh(p, i) => Nothing = Wanted(i) /\ e = IF status[i] = "published" THEN "synced" ELSE "disabled"
      BY <2>1 DEF Fresh, Wanted
    <3>3. faults' \in 0..MaxFaults /\ Excuse(i, {})
      BY <1>3, <1>4, <2>2
    <3>4. state' = [state EXCEPT ![i] = e]
      BY <2>2
    <3> HIDE DEF e
    <3>5. RunEffect(p, i, "settle", Nothing, e, {})
      BY <1>1, <1>2, <1>6, <2>1, <2>2, <3>1, <3>2, <3>3, <3>4 DEF RunEffect
    <3>6. QED
      BY <3>5, RunWrites
  <2>3. CASE /\ faults < MaxFaults /\ faults' = faults + 1
             /\ stage' = [stage EXCEPT ![p] = "fail"]
             /\ Excuse(i, {"failed"}) /\ UNCHANGED stored
    <3>1. /\ index' = [index EXCEPT ![i] = index[i]] /\ state' = [state EXCEPT ![i] = state[i]]
          /\ faults' \in 0..MaxFaults /\ Excuse(i, {"failed"}) /\ {"failed"} # {}
      BY <1>3, <1>4, <2>1, <2>3 DEF stored
    <3>2. RunEffect(p, i, "fail", index[i], state[i], {"failed"})
      BY <1>1, <1>2, <1>3, <1>5, <2>1, <2>3, <3>1 DEF RunEffect
    <3>3. QED
      BY <3>2, RunWrites
  <2>4. QED
    BY <1>1, <1>7, <2>2, <2>3 DEF Clear
<1>8. CASE Request(p)
  <2>1. /\ stage[p] = "request" /\ UNCHANGED stored
        /\ UNCHANGED <<row, handler, inflight, queue, copy, edits>>
    BY <1>8 DEF Request
  <2>2. CASE stage' = [stage EXCEPT ![p] = "store"] /\ UNCHANGED <<faults, excused>>
    <3>1. stage'[p] = "store"
      BY <2>2 DEF IndexInv, IndexTypeOK
    <3>2. Fresh(p, i) => Fresh(p, i)'
      BY <2>1, <3>1 DEF Fresh, row
    <3>3. faults' \in 0..MaxFaults /\ Excuse(i, {})
      BY <1>3, <1>4, <2>2
    <3>4. index' = [index EXCEPT ![i] = index[i]] /\ state' = [state EXCEPT ![i] = state[i]]
      BY <1>4, <2>1 DEF stored
    <3>5. RunEffect(p, i, "store", index[i], state[i], {})
      BY <1>1, <1>2, <1>3, <1>5, <1>6, <2>1, <2>2, <3>2, <3>3, <3>4 DEF RunEffect
    <3>6. QED
      BY <3>5, RunWrites
  <2>3. CASE /\ faults < MaxFaults /\ faults' = faults + 1
             /\ stage' = [stage EXCEPT ![p] = "fail"] /\ Excuse(i, {"failed"})
    <3>1. /\ index' = [index EXCEPT ![i] = index[i]] /\ state' = [state EXCEPT ![i] = state[i]]
          /\ faults' \in 0..MaxFaults /\ Excuse(i, {"failed"}) /\ {"failed"} # {}
      BY <1>3, <1>4, <2>1, <2>3 DEF stored
    <3>2. RunEffect(p, i, "fail", index[i], state[i], {"failed"})
      BY <1>1, <1>2, <1>3, <1>5, <2>1, <2>3, <3>1 DEF RunEffect
    <3>3. QED
      BY <3>2, RunWrites
  <2>4. QED
    BY <1>1, <1>8, <2>2, <2>3 DEF Request
<1>9. CASE Store(p)
  <2>1. /\ stage[p] = "store" /\ UNCHANGED <<row, handler, inflight, queue, copy, edits>>
        /\ faults' \in 0..MaxFaults /\ Excuse(i, {})
    BY <1>3, <1>4, <1>9 DEF Store, counts
  <2>2. CASE status[i] = "absent" /\ stage' = [stage EXCEPT ![p] = "fail"] /\ UNCHANGED stored
    <3>1. Fresh(p, i)'
      BY <2>1, <2>2 DEF Fresh, row
    <3>2. index' = [index EXCEPT ![i] = index[i]] /\ state' = [state EXCEPT ![i] = state[i]]
      BY <1>4, <2>2 DEF stored
    <3>3. RunEffect(p, i, "fail", index[i], state[i], {})
      BY <1>1, <1>2, <1>3, <1>5, <2>1, <2>2, <3>1, <3>2 DEF RunEffect
    <3>4. QED
      BY <3>3, RunWrites
  <2>3. CASE /\ status[i] # "absent" /\ stage' = [stage EXCEPT ![p] = "settle"]
             /\ index' = [index EXCEPT ![i] = copy[p]] /\ state' = [state EXCEPT ![i] = "synced"]
    <3>1. Fresh(p, i) => copy[p] = Wanted(i) /\ status[i] = "published"
      BY <2>1, <2>3 DEF Fresh, Wanted
    <3>2. RunEffect(p, i, "settle", copy[p], "synced", {})
      BY <1>1, <1>2, <1>3, <1>6, <2>1, <2>3, <3>1 DEF RunEffect
    <3>3. QED
      BY <3>2, RunWrites
  <2>4. QED
    BY <1>1, <1>9, <2>2, <2>3 DEF Store
<1>10. CASE RecordFailure(p)
  <2>1. /\ stage[p] = "fail" /\ UNCHANGED index
        /\ UNCHANGED <<row, handler, inflight, queue, copy, edits>>
        /\ stage' = [stage EXCEPT ![p] = "settle"]
    BY <1>10 DEF RecordFailure
  <2>2. Fresh(p, i) => status[i] = "absent"
    BY <2>1 DEF Fresh
  <2>3. CASE /\ state' = [state EXCEPT ![i] = IF status[i] = "absent" THEN @ ELSE "failed"]
             /\ UNCHANGED <<faults, excused>>
    <3> DEFINE e == IF status[i] = "absent" THEN state[i] ELSE "failed"
    <3>1. e \in States /\ state' = [state EXCEPT ![i] = e] /\ (status[i] = "absent" => e = "disabled")
      BY <1>2, <1>3, <1>5, <2>3
    <3>2. faults' \in 0..MaxFaults /\ Excuse(i, {})
      BY <1>3, <1>4, <2>3
    <3>3. Fresh(p, i) => index[i] = Wanted(i) /\ e = IF status[i] = "published" THEN "synced" ELSE "disabled"
      BY <1>5, <2>2 DEF Wanted
    <3> HIDE DEF e
    <3>4. index' = [index EXCEPT ![i] = index[i]]
      BY <1>4, <2>1
    <3>5. RunEffect(p, i, "settle", index[i], e, {})
      BY <1>1, <1>2, <1>3, <1>5, <1>6, <2>1, <2>2, <3>1, <3>2, <3>3, <3>4 DEF RunEffect
    <3>6. QED
      BY <3>5, RunWrites
  <2>4. CASE faults < MaxFaults /\ faults' = faults + 1 /\ Excuse(i, {"unrecorded"}) /\ UNCHANGED state
    <3>1. /\ index' = [index EXCEPT ![i] = index[i]] /\ state' = [state EXCEPT ![i] = state[i]]
          /\ faults' \in 0..MaxFaults /\ Excuse(i, {"unrecorded"}) /\ {"unrecorded"} # {}
      BY <1>3, <1>4, <2>1, <2>4
    <3>2. RunEffect(p, i, "settle", index[i], state[i], {"unrecorded"})
      BY <1>1, <1>2, <1>3, <1>5, <2>1, <3>1 DEF RunEffect
    <3>3. QED
      BY <3>2, RunWrites
  <2>5. QED
    BY <1>1, <1>10, <2>3, <2>4 DEF RecordFailure
<1>11. QED
  BY <1>7, <1>8, <1>9, <1>10 DEF RunStep

\* A run that has ended leaves its item with what it wrote.
LEMMA SettleStep ==
  ASSUME IndexInv, NEW p \in Processes, Settle(p)
  PROVE  IndexInv'
<1> USE DEF IndexInv, IndexTypeOK
<1>0. PICK i \in Items : i = Head(queue[p]) /\ Queued(p, i)
  BY OnlyReader DEF Settle
<1>1. /\ queue[p] # <<>> /\ stage[p] = "settle"
      /\ inflight' = [inflight EXCEPT ![p] = @ \ {i}]
      /\ queue' = [queue EXCEPT ![p] = Tail(@)]
      /\ stage' = [stage EXCEPT ![p] = "select"] /\ copy' = [copy EXCEPT ![p] = Nothing]
      /\ UNCHANGED <<row, stored, handler, counts, excused>>
  BY <1>0 DEF Settle
<1> DEFINE s == queue[p]
<1>2. /\ s \in Seq(Items) /\ i = s[1] /\ Len(s) \in Nat /\ 1 \in 1..Len(s)
      /\ Tail(s) \in Seq(Items) /\ Len(Tail(s)) = Len(s) - 1
      /\ \A k \in 1..Len(Tail(s)) : Tail(s)[k] = s[k + 1]
  BY <1>0, <1>1, TailQueues
<1>3. /\ queue' \in [Processes -> Seq(Items)] /\ queue'[p] = Tail(s)
      /\ stage' \in [Processes -> Stages] /\ stage'[p] = "select"
      /\ copy' \in [Processes -> Texts \cup {Nothing}]
      /\ inflight' \in [Processes -> SUBSET Items]
      /\ inflight'[p] = inflight[p] \ {i}
      /\ \A q \in Processes \ {p} : queue'[q] = queue[q] /\ stage'[q] = stage[q] /\ copy'[q] = copy[q]
                                    /\ inflight'[q] = inflight[q]
  BY <1>1, <1>2 DEF Stages
<1>4. IndexTypeOK'
  BY <1>1, <1>3 DEF row, stored, handler, counts
<1>5. \A j, k \in 1..Len(s) : s[j] = s[k] => j = k
  BY DEF KeysHeld
<1>6. \A j \in Items : Queued(p, j)' <=> Queued(p, j) /\ j # i
  <2>1. TAKE j \in Items
  <2>2. ASSUME NEW k \in 1..Len(Tail(s)), Tail(s)[k] = j PROVE Queued(p, j) /\ j # i
    <3>1. k + 1 \in 1..Len(s) /\ s[k + 1] = j /\ k + 1 # 1
      BY <1>2, <2>2
    <3>2. j # i
      BY <1>2, <1>5, <3>1
    <3>3. QED
      BY <3>1, <3>2 DEF Queued
  <2>3. ASSUME NEW k \in 1..Len(s), s[k] = j, j # i PROVE Queued(p, j)'
    <3>1. k # 1 /\ k - 1 \in 1..Len(Tail(s)) /\ (k - 1) + 1 = k
      BY <1>2, <2>3
    <3>2. Tail(s)[k - 1] = j
      BY <1>2, <2>3, <3>1
    <3>3. QED
      BY <1>3, <3>1, <3>2 DEF Queued
  <2>4. QED
    BY <1>3, <2>2, <2>3 DEF Queued
<1>7. \A q \in Processes \ {p}, j \in Items : Queued(q, j)' <=> Queued(q, j)
  BY <1>3 DEF Queued
<1>8. \A g \in Handlers, q \in Processes, j \in Items : Marking(g, q, j)' <=> Marking(g, q, j)
  BY <1>1 DEF Marking, handler
<1>9. KeysHeld'
  <2>1. \A g \in Handlers : ~Marking(g, p, i)
    BY <1>0 DEF KeysHeld
  <2>2. \A q \in Processes, j \in Items :
          j \in inflight'[q] <=> Queued(q, j)' \/ \E g \in Handlers : Marking(g, q, j)'
    <3>1. SUFFICES ASSUME NEW q \in Processes, NEW j \in Items
                   PROVE  j \in inflight'[q] <=> Queued(q, j)' \/ \E g \in Handlers : Marking(g, q, j)'
      OBVIOUS
    <3>2. j \in inflight[q] <=> Queued(q, j) \/ \E g \in Handlers : Marking(g, q, j)
      BY DEF KeysHeld
    <3>3. QED
      BY <1>3, <1>6, <1>7, <1>8, <2>1, <3>2
  <2>3. \A q \in Processes, j \in Items, g \in Handlers :
          Marking(g, q, j)' => ~Queued(q, j)' /\ \A f \in Handlers : Marking(f, q, j)' => f = g
    <3>1. SUFFICES ASSUME NEW q \in Processes, NEW j \in Items, NEW g \in Handlers, Marking(g, q, j)'
                   PROVE  ~Queued(q, j)' /\ \A f \in Handlers : Marking(f, q, j)' => f = g
      OBVIOUS
    <3>2. Marking(g, q, j)
      BY <1>8, <3>1
    <3>3. ~Queued(q, j) /\ \A f \in Handlers : Marking(f, q, j) => f = g
      BY <3>2 DEF KeysHeld
    <3>4. QED
      BY <1>6, <1>7, <1>8, <3>3
  <2>4. \A q \in Processes : \A j, k \in 1..Len(queue'[q]) : queue'[q][j] = queue'[q][k] => j = k
    <3>1. ASSUME NEW j \in 1..Len(Tail(s)), NEW k \in 1..Len(Tail(s)), Tail(s)[j] = Tail(s)[k] PROVE j = k
      <4>1. j + 1 \in 1..Len(s) /\ k + 1 \in 1..Len(s) /\ s[j + 1] = s[k + 1]
        BY <1>2, <3>1
      <4>2. QED
        BY <1>5, <4>1
    <3>2. QED
      BY <1>3, <3>1 DEF KeysHeld
  <2>5. /\ \A q \in Processes : queue'[q] = <<>> => stage'[q] = "select"
        /\ \A g \in Handlers : todo'[g] # "idle" => item'[g] \in Items
    BY <1>1, <1>3 DEF KeysHeld, handler
  <2>6. QED
    BY <2>2, <2>3, <2>4, <2>5 DEF KeysHeld
<1>10. OneRun'
  BY <1>1, <1>3, OneRunKept
<1>11. GoneBare'
  BY <1>1 DEF GoneBare, row, stored
<1>12. \A j \in Items : Reacting(j)' <=> Reacting(j)
  BY <1>1 DEF Reacting, handler
<1>13. \A q \in Processes, j \in Items : HasRead(q, j)' <=> HasRead(q, j) /\ q # p
  BY <1>3 DEF HasRead
<1>14. \A j \in Items : HasRead(p, j) <=> j = i
  BY <1>0, <1>1 DEF HasRead
<1>15. ASSUME NEW j \in Items PROVE Sound(j)'
  <2>1. Pending(j) => Pending(j)'
    BY <1>6, <1>7, <1>12, <1>13, <1>14 DEF Pending
  <2>2. \A q \in Processes : Reading(q, j)' <=> Reading(q, j)
    BY <1>1, <1>3, <1>13 DEF Reading
  <2>3. \A q \in Processes : Reading(q, j) => q # p
    BY <1>1 DEF Reading
  <2>4. \A q \in Processes \ {p} : Fresh(q, j)' <=> Fresh(q, j)
    BY <1>1, <1>3 DEF Fresh, Wanted, row
  <2>5. Right(j)' <=> Right(j)
    BY <1>1 DEF Right, Wanted, row, stored
  <2>6. Sound(j) /\ excused'[j] = excused[j]
    BY <1>1 DEF UpToDate
  <2>7. QED
    BY <2>1, <2>2, <2>3, <2>4, <2>5, <2>6 DEF Sound
<1>16. QED
  BY <1>4, <1>9, <1>10, <1>11, <1>15 DEF UpToDate

\* A process dies with its runs, and excuses the items they were for.
LEMMA CrashStep ==
  ASSUME IndexInv, NEW p \in Processes, Crash(p)
  PROVE  IndexInv'
<1> USE DEF IndexInv, IndexTypeOK
<1> DEFINE gone == {h \in Handlers : Home[h] = p}
           lost == inflight[p] \cup {item[h] : h \in {g \in gone : todo[g] \in {"sync", "mark", "delete"}}}
<1>1. /\ todo' = [h \in Handlers |-> IF h \in gone THEN "idle" ELSE todo[h]]
      /\ item' = [h \in Handlers |-> IF h \in gone THEN Nothing ELSE item[h]]
      /\ excused' = [i \in Items |-> excused[i] \cup IF i \in lost THEN {"crashed"} ELSE {}]
      /\ inflight' = [inflight EXCEPT ![p] = {}] /\ queue' = [queue EXCEPT ![p] = <<>>]
      /\ stage' = [stage EXCEPT ![p] = "select"] /\ copy' = [copy EXCEPT ![p] = Nothing]
      /\ faults < MaxFaults /\ faults' = faults + 1 /\ UNCHANGED <<row, stored, edits>>
  BY DEF Crash
<1>2. /\ queue' \in [Processes -> Seq(Items)] /\ queue'[p] = <<>>
      /\ stage' \in [Processes -> Stages] /\ stage'[p] = "select"
      /\ copy' \in [Processes -> Texts \cup {Nothing}]
      /\ inflight' \in [Processes -> SUBSET Items] /\ inflight'[p] = {}
      /\ \A q \in Processes \ {p} : queue'[q] = queue[q] /\ stage'[q] = stage[q] /\ copy'[q] = copy[q]
                                    /\ inflight'[q] = inflight[q]
  BY <1>1 DEF Stages
<1>3. /\ excused' \in [Items -> SUBSET Reasons]
      /\ \A i \in Items : excused[i] \subseteq excused'[i]
      /\ \A i \in Items : i \in lost => excused'[i] # {}
  <2> HIDE DEF lost
  <2>1. QED
    BY <1>1 DEF Reasons
<1>4. IndexTypeOK'
  <2>1. /\ todo' \in [Handlers -> {"idle", "publish", "retract", "sync", "mark", "delete"}]
        /\ item' \in [Handlers -> Items \cup {Nothing}] /\ faults' \in 0..MaxFaults
    <3> HIDE DEF gone
    <3>1. QED
      BY <1>1, BoundsAssumption
  <2>2. QED
    BY <1>1, <1>2, <1>3, <2>1 DEF row, stored
<1>5. \A j \in Items : ~Queued(p, j)' /\ ~HasRead(p, j)'
  BY <1>2 DEF Queued, HasRead
<1>6. \A q \in Processes \ {p}, j \in Items :
        (Queued(q, j)' <=> Queued(q, j)) /\ (HasRead(q, j)' <=> HasRead(q, j))
  BY <1>2 DEF Queued, HasRead
<1>7. \A h \in Handlers : IF Home[h] = p THEN todo'[h] = "idle" ELSE todo'[h] = todo[h] /\ item'[h] = item[h]
  BY <1>1
<1>8. \A g \in Handlers, q \in Processes, j \in Items :
        Marking(g, q, j)' <=> Marking(g, q, j) /\ q # p
  BY <1>7 DEF Marking
<1>9. KeysHeld'
  <2>1. \A q \in Processes, j \in Items :
          j \in inflight'[q] <=> Queued(q, j)' \/ \E g \in Handlers : Marking(g, q, j)'
    <3>1. SUFFICES ASSUME NEW q \in Processes, NEW j \in Items
                   PROVE  j \in inflight'[q] <=> Queued(q, j)' \/ \E g \in Handlers : Marking(g, q, j)'
      OBVIOUS
    <3>2. j \in inflight[q] <=> Queued(q, j) \/ \E g \in Handlers : Marking(g, q, j)
      BY DEF KeysHeld
    <3>3. QED
      BY <1>2, <1>5, <1>6, <1>8, <3>2
  <2>2. \A q \in Processes, j \in Items, g \in Handlers :
          Marking(g, q, j)' => ~Queued(q, j)' /\ \A f \in Handlers : Marking(f, q, j)' => f = g
    <3>1. SUFFICES ASSUME NEW q \in Processes, NEW j \in Items, NEW g \in Handlers, Marking(g, q, j)'
                   PROVE  ~Queued(q, j)' /\ \A f \in Handlers : Marking(f, q, j)' => f = g
      OBVIOUS
    <3>2. Marking(g, q, j) /\ q # p
      BY <1>8, <3>1
    <3>3. ~Queued(q, j) /\ \A f \in Handlers : Marking(f, q, j) => f = g
      BY <3>2 DEF KeysHeld
    <3>4. QED
      BY <1>6, <1>8, <3>2, <3>3
  <2>3. /\ \A q \in Processes : \A j, k \in 1..Len(queue'[q]) : queue'[q][j] = queue'[q][k] => j = k
        /\ \A q \in Processes : queue'[q] = <<>> => stage'[q] = "select"
    <3>1. SUFFICES ASSUME NEW q \in Processes
                   PROVE  /\ \A j, k \in 1..Len(queue'[q]) : queue'[q][j] = queue'[q][k] => j = k
                          /\ queue'[q] = <<>> => stage'[q] = "select"
      OBVIOUS
    <3>2. CASE q = p
      <4>1. queue'[q] = <<>> /\ stage'[q] = "select"
        BY <1>2, <3>2
      <4>2. Len(queue'[q]) = 0
        BY <4>1
      <4>3. 1..Len(queue'[q]) = {}
        BY <4>2
      <4>4. QED
        BY <4>1, <4>3
    <3>3. CASE q # p
      <4>1. queue'[q] = queue[q] /\ stage'[q] = stage[q]
        BY <1>2, <3>3
      <4>2. QED
        BY <4>1 DEF KeysHeld
    <3>4. QED
      BY <3>2, <3>3
  <2>4. \A g \in Handlers : todo'[g] # "idle" => item'[g] \in Items
    BY <1>7 DEF KeysHeld
  <2>5. QED
    BY <2>1, <2>2, <2>3, <2>4 DEF KeysHeld
<1>10. OneRun'
  BY <1>2, <1>3, OneRunKept
<1>11. GoneBare'
  BY <1>1 DEF GoneBare, row, stored
<1>12. ASSUME NEW j \in Items PROVE Sound(j)'
  <2>1. CASE j \in lost
    BY <1>3, <2>1 DEF Sound
  <2>2. CASE j \notin lost
    <3>1. ~Queued(p, j) /\ ~HasRead(p, j)
      <4>1. ~Queued(p, j)
        BY <2>2 DEF KeysHeld
      <4>2. HasRead(p, j) => Queued(p, j)
        BY TailQueues DEF HasRead, Queued
      <4>3. QED
        BY <4>1, <4>2
    <3>2. Reacting(j) => Reacting(j)'
      <4>1. SUFFICES ASSUME NEW h \in Handlers, item[h] = j, todo[h] \in {"sync", "mark", "delete"}
                     PROVE  Reacting(j)'
        BY DEF Reacting
      <4>2. Home[h] # p
        BY <2>2, <4>1
      <4>3. QED
        BY <1>7, <4>1, <4>2 DEF Reacting
    <3>3. \A q \in Processes : /\ Queued(q, j) => Queued(q, j)'
                               /\ HasRead(q, j)' <=> HasRead(q, j)
                               /\ HasRead(q, j) => stage'[q] = stage[q] /\ copy'[q] = copy[q]
      BY <1>2, <1>5, <1>6, <3>1
    <3>4. Sound(j) /\ status'[j] = status[j] /\ text'[j] = text[j] /\ index'[j] = index[j] /\ state'[j] = state[j]
      BY <1>1 DEF UpToDate, row, stored
    <3>5. QED
      BY <1>3, <3>2, <3>3, <3>4, Unmoved
  <2>3. QED
    BY <2>1, <2>2
<1>13. QED
  BY <1>4, <1>9, <1>10, <1>11, <1>12 DEF UpToDate

\* Every write, reaction, run and crash preserves it.
LEMMA StepIndexed == IndexInv /\ [IndexNext]_indexVars => IndexInv'
<1>1. SUFFICES ASSUME IndexInv, [IndexNext]_indexVars PROVE IndexInv'
  OBVIOUS
<1>2. CASE \/ \E h \in Handlers \ Scheduled, i \in Items : Write(h, i)
           \/ \E h \in Scheduled, i \in Items : ReadForTransition(h, i)
  BY <1>1, <1>2, WriteStep, ReadStep, HomeAssumption
<1>3. CASE \E h \in Handlers : HandlerStep(h)
  BY <1>1, <1>3, TransitionStep, DisabledStep, SyncStep, MarkStep, DeleteStep DEF HandlerStep
<1>4. CASE \E i \in Items : WriteSilently(i) \/ Remove(i)
  BY <1>1, <1>4, SilentStep, RemoveStep
<1>5. CASE \E p \in Processes : RunStep(p) \/ Crash(p)
  <2>1. PICK p \in Processes : RunStep(p) \/ Crash(p)
    BY <1>5
  <2>2. CASE Select(p)
    BY <1>1, <2>2, SelectStep
  <2>3. CASE Settle(p)
    BY <1>1, <2>3, SettleStep
  <2>4. CASE RunStep(p) /\ ~Select(p) /\ ~Settle(p)
    BY <1>1, <2>4, RunStepKeeps
  <2>5. CASE Crash(p)
    BY <1>1, <2>5, CrashStep
  <2>6. QED
    BY <2>1, <2>2, <2>3, <2>4, <2>5
<1>6. CASE UNCHANGED indexVars
  <2>1. IndexTypeOK' /\ GoneBare'
    BY <1>1, <1>6 DEF indexVars, IndexInv, IndexTypeOK, GoneBare, row, stored, handler, syncs, counts
  <2>2. OneRun'
    BY <1>1, <1>6, OneRunKept DEF indexVars, IndexInv, syncs
  <2>3. KeysHeld' /\ \A j \in Items : Sound(j) => Sound(j)'
    BY <1>1, <1>6, RowsOnly DEF indexVars, row, stored
  <2>4. QED
    BY <1>1, <2>1, <2>2, <2>3 DEF IndexInv, UpToDate
<1>7. QED
  BY <1>1, <1>2, <1>3, <1>4, <1>5, <1>6 DEF IndexNext

\* The inductive invariant holds in every reachable state.
LEMMA AlwaysIndexed == IndexSpec => []IndexInv
  BY InitIndexed, StepIndexed, PTL DEF IndexSpec

-----------------------------------------------------------------------------
\* Items, chunks, handlers and queues keep their domains, and a process a queue
\* of items.
THEOREM IndexTypeCorrect == IndexSpec => []IndexTypeOK
<1>1. IndexInv => IndexTypeOK
  BY DEF IndexInv
<1>2. QED
  BY <1>1, AlwaysIndexed, PTL

\* The index of an item at rest follows it, however many handlers and processes
\* react to it, unless one of the named excuses applies.
THEOREM IndexKeepsUp == IndexSpec => []IndexFollows
<1>1. IndexInv => IndexFollows
  <2>1. SUFFICES ASSUME IndexInv, NEW i \in Items, AtRest(i), excused[i] = {} PROVE Right(i)
    BY DEF IndexFollows, Right
  <2>2. \A p \in Processes : ~Queued(p, i) /\ ~HasRead(p, i)
    <3>1. \A p \in Processes : ~Queued(p, i)
      BY <2>1 DEF AtRest, IndexInv, KeysHeld
    <3>2. QED
      BY <2>1, <3>1, OnlyReader DEF HasRead
  <2>3. ~Pending(i)
    BY <2>1, <2>2 DEF Pending, Reacting, AtRest
  <2>4. QED
    BY <2>1, <2>2, <2>3 DEF IndexInv, UpToDate, Sound, Reading
<1>2. QED
  BY <1>1, AlwaysIndexed, PTL
=============================================================================
