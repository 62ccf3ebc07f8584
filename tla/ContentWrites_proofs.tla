------------------------ MODULE ContentWrites_proofs --------------------------
(***************************************************************************)
(* Proofs about ContentWrites for any items, types, requests and calls.    *)
(*                                                                         *)
(* That a singleton type has one item rests on two invariants of each      *)
(* request that looks it up: what it sees holds one item of the type at    *)
(* most, the rows of its own transaction included; and while it is about   *)
(* to write an item of the type, it sees no other.  Both survive the       *)
(* writes of the others because a new row of a type a request has claimed  *)
(* excuses the type.                                                       *)
(*                                                                         *)
(* That a caller is told the truth rests on the outcomes a request has     *)
(* collected being those of its entries so far, applied one by one or all  *)
(* at the commit, and on the commits nobody confirmed being counted apart: *)
(* a call that goes on has none, unless it is a partial creation.          *)
(***************************************************************************)
EXTENDS ContentWrites, TLAPS

USE TypesAssumption, ItemsAssumption, NoneAssumption, BoundsAssumption

\* TypeOK, and that the transactions form a function on the requests.
Typed == TypeOK /\ own = [r \in Requests |-> own[r]]

\* The doors are doors.
LEMMA NoCallTyped ==
  /\ NoCall.door \in Door
  /\ NoCall.entries = <<>>
  /\ NoCall.door.op = "delete"
BY DEF NoCall, RestDelete, Single, Door, Ops

\* A call has a door, and while entries are left the current one is an entry.
LEMMA CurrentTyped ==
  ASSUME TypeOK, NEW r \in Requests
  PROVE  /\ call[r].door \in Door
         /\ Len(results[r]) \in Nat
         /\ More(r) => Current(r) \in Entry
         /\ More(r) /\ Op(r) = "delete" => Current(r).item \in Items
<1>1. results[r] \in Seq({"ok", "failed"}) /\ Len(results[r]) \in Nat
  BY DEF TypeOK
<1>2. CASE call[r] \in Calls
  <2>1. call[r].door \in Door /\ call[r].entries \in Seq(Entry)
    BY <1>2, CallsAssumption
  <2>2. ASSUME More(r)
        PROVE  Len(results[r]) + 1 \in DOMAIN call[r].entries /\ Current(r) \in Entry
    BY <1>1, <2>1, <2>2 DEF More, Current
  <2>3. QED
    BY <1>1, <1>2, <2>1, <2>2, CallsAssumption DEF Current, Op
<1>3. CASE call[r] = NoCall
  BY <1>1, <1>3, NoCallTyped DEF More
<1>4. QED
  BY <1>2, <1>3 DEF TypeOK

\* What a request sees are rows.
LEMMA VisibleTyped ==
  ASSUME TypeOK, NEW r \in Requests
  PROVE  Visible(r) \in [Items -> Row]
BY DEF TypeOK, Visible

\* The copy of an item, or of none.
LEMMA CopyTyped ==
  ASSUME TypeOK, NEW r \in Requests, NEW i \in Items \cup {None}
  PROVE  CopyOf(r, i) \in Row
BY VisibleTyped DEF CopyOf, Unused, Row

\* An entry is about an item or about none.
LEMMA SubjectsTyped ==
  ASSUME NEW r \in Requests, NEW e
  PROVE  Subjects(r, e) \subseteq Items \cup {None}
BY DEF Subjects, Occupants

\* The first step of an entry is one.
LEMMA FirstStepTyped ==
  ASSUME NEW c
  PROVE  FirstStep(c) \in {"check", "write"} /\ (FirstStep(c) = "write" => c.door.op = "delete")
BY DEF FirstStep

\* A failed entry keeps the types.
LEMMA FailTyped ==
  ASSUME Typed, NEW r \in Requests, Fail(r)
  PROVE  Typed'
<1>1. /\ rows' = rows /\ call' = call /\ read' = read /\ reserved' = reserved
      /\ applied' = applied /\ excused' = excused /\ decisions' = decisions
      /\ lost' = lost /\ faults' = faults
  BY DEF Fail
<1>2. /\ pc' \in [Requests -> {"idle", "begin", "check", "write", "follow", "done"}]
      /\ answer' \in [Requests -> Answers]
  <2>1. FirstStep(call[r]) \in {"check", "write"}
    BY FirstStepTyped
  <2>2. QED
    BY <2>1 DEF Fail, Typed, TypeOK, Answers
<1>3. results' \in [Requests -> Seq({"ok", "failed"})]
  <2>1. Append(results[r], "failed") \in Seq({"ok", "failed"})
    BY DEF Typed, TypeOK
  <2>2. QED
    BY <2>1 DEF Fail, Typed, TypeOK
<1>4. /\ own' = [q \in Requests |-> own'[q]]
      /\ \A q \in Requests : own'[q] = own[q] \/ own'[q] = <<>>
  BY DEF Fail, Typed
<1>5. \A q \in Requests :
        DOMAIN own'[q] \subseteq Items /\ \A i \in DOMAIN own'[q] : own'[q][i] \in Row
  <2> SUFFICES ASSUME NEW q \in Requests
               PROVE  /\ DOMAIN own'[q] \subseteq Items
                      /\ \A i \in DOMAIN own'[q] : own'[q][i] \in Row
    OBVIOUS
  <2>1. CASE own'[q] = own[q]
    BY <2>1 DEF Typed, TypeOK
  <2>2. CASE own'[q] = <<>>
    BY <2>2
  <2>3. QED
    BY <1>4, <2>1, <2>2
<1>6. QED
  BY <1>1, <1>2, <1>3, <1>4, <1>5 DEF Typed, TypeOK

\* A statement that throws moves its request, and tells its caller or its handler.
LEMMA ThrownTyped ==
  ASSUME Typed, NEW r \in Requests, Thrown(r)
  PROVE  /\ pc' \in [Requests -> {"idle", "begin", "check", "write", "follow", "done"}]
         /\ answer' \in [Requests -> Answers]
         /\ results' \in [Requests -> Seq({"ok", "failed"})]
<1>1. FirstStep(call[r]) \in {"check", "write"}
  BY FirstStepTyped
<1>2. /\ pc' \in [Requests -> {"idle", "begin", "check", "write", "follow", "done"}]
      /\ answer' \in [Requests -> Answers]
  BY <1>1 DEF Thrown, Typed, TypeOK, Answers
<1>3. results' \in [Requests -> Seq({"ok", "failed"})]
  <2>1. Append(results[r], "failed") \in Seq({"ok", "failed"})
    BY DEF Typed, TypeOK
  <2>2. QED
    BY <2>1 DEF Thrown, Typed, TypeOK
<1>4. QED
  BY <1>2, <1>3

LEMMA ThrowTyped ==
  ASSUME Typed, NEW r \in Requests, Throw(r)
  PROVE  Typed'
<1>1. Thrown(r) /\ UNCHANGED <<rows, call, read, reserved, applied, lost, excused, decisions>>
  BY DEF Throw
<1>2. /\ own' = [q \in Requests |-> own'[q]]
      /\ \A q \in Requests : own'[q] = own[q] \/ own'[q] = <<>>
  BY DEF Throw, Typed
<1>3. ASSUME NEW q \in Requests
      PROVE  DOMAIN own'[q] \subseteq Items /\ \A i \in DOMAIN own'[q] : own'[q][i] \in Row
  <2>1. CASE own'[q] = own[q]
    BY <2>1 DEF Typed, TypeOK
  <2>2. CASE own'[q] = <<>>
    BY <2>2
  <2>3. QED
    BY <1>2, <2>1, <2>2
<1>4. faults' \in 0..MaxFaults
  BY DEF Throw, Fault, Typed, TypeOK
<1>5. QED
  BY <1>1, <1>2, <1>3, <1>4, ThrownTyped DEF Typed, TypeOK

\* A written row keeps the types.
LEMMA PutTyped ==
  ASSUME Typed, NEW r \in Requests, NEW i \in Items, NEW row \in Row, Put(r, i, row)
  PROVE  Typed'
<1>1. /\ call' = call /\ read' = read /\ reserved' = reserved /\ decisions' = decisions
      /\ Confirmed(r) \/ Unconfirmed(r)
  BY DEF Put
<1>2. /\ pc' \in [Requests -> {"idle", "begin", "check", "write", "follow", "done"}]
      /\ results' \in [Requests -> Seq({"ok", "failed"})]
      /\ answer' \in [Requests -> Answers]
  <2>1. CASE Confirmed(r)
    <3>1. Append(results[r], "ok") \in Seq({"ok", "failed"})
      BY DEF Typed, TypeOK
    <3>2. QED
      BY <2>1, <3>1, FirstStepTyped DEF Confirmed, Typed, TypeOK
  <2>2. CASE Unconfirmed(r)
    BY <2>2, ThrownTyped DEF Unconfirmed
  <2>3. QED
    BY <1>1, <2>1, <2>2
<1>3. lost' \in [Requests -> SUBSET (Nat \ {0})] /\ faults' \in 0..MaxFaults
  <2>1. CASE Confirmed(r)
    BY <2>1 DEF Confirmed, Typed, TypeOK
  <2>2. CASE Unconfirmed(r)
    <3>1. Len(results[r]) + 1 \in Nat \ {0}
      BY CurrentTyped DEF Typed
    <3>2. lost[r] \cup {Len(results[r]) + 1} \in SUBSET (Nat \ {0})
      BY <3>1 DEF Typed, TypeOK
    <3>3. lost' = [lost EXCEPT ![r] = @ \cup {Len(results[r]) + 1}]
      BY <2>2 DEF Unconfirmed
    <3>4. faults' \in 0..MaxFaults
      BY <2>2 DEF Unconfirmed, Fault, Typed, TypeOK
    <3>5. QED
      BY <3>2, <3>3, <3>4 DEF Typed, TypeOK
  <2>3. QED
    BY <1>1, <2>1, <2>2
<1>4. CASE Atomic(r)
  <2>1. /\ own' = [own EXCEPT ![r] = [j \in DOMAIN @ \cup {i} |-> IF j = i THEN row ELSE @[j]]]
        /\ UNCHANGED <<rows, applied, excused>>
    BY <1>4 DEF Put
  <2>2. /\ own' = [q \in Requests |-> own'[q]]
        /\ \A q \in Requests : q # r => own'[q] = own[q]
        /\ own'[r] = [j \in DOMAIN own[r] \cup {i} |-> IF j = i THEN row ELSE own[r][j]]
    BY <2>1 DEF Typed
  <2>3. \A q \in Requests :
          DOMAIN own'[q] \subseteq Items /\ \A j \in DOMAIN own'[q] : own'[q][j] \in Row
    <3> SUFFICES ASSUME NEW q \in Requests
                 PROVE  /\ DOMAIN own'[q] \subseteq Items
                        /\ \A j \in DOMAIN own'[q] : own'[q][j] \in Row
      OBVIOUS
    <3>1. DOMAIN own[q] \subseteq Items /\ \A j \in DOMAIN own[q] : own[q][j] \in Row
      BY DEF Typed, TypeOK
    <3>2. CASE q = r
      BY <2>2, <3>1, <3>2
    <3>3. CASE q # r
      BY <2>2, <3>1, <3>3
    <3>4. QED
      BY <3>2, <3>3
  <2>4. QED
    BY <1>1, <1>2, <1>3, <2>1, <2>2, <2>3 DEF Typed, TypeOK
<1>5. CASE ~Atomic(r)
  <2>1. /\ rows' = [j \in Items |-> IF j \in DOMAIN [k \in {i} |-> row] THEN row ELSE rows[j]]
        /\ own' = own
    BY <1>5 DEF Put, Publish
  <2>2. excused' \subseteq Types
    BY <1>5 DEF Put, Publish, Typed, TypeOK
  <2>3. applied' \in [Requests -> SUBSET (Nat \ {0})]
    <3>1. Len(results[r]) + 1 \in Nat \ {0}
      BY CurrentTyped DEF Typed
    <3>2. applied[r] \cup {Len(results[r]) + 1} \in SUBSET (Nat \ {0})
      BY <3>1 DEF Typed, TypeOK
    <3>3. applied' = [applied EXCEPT ![r] = @ \cup {Len(results[r]) + 1}]
      BY <1>5 DEF Put
    <3>4. QED
      BY <3>2, <3>3 DEF Typed, TypeOK
  <2>4. rows' \in [Items -> Row]
    BY <2>1 DEF Typed, TypeOK
  <2>5. QED
    BY <1>1, <1>2, <1>3, <2>1, <2>2, <2>3, <2>4 DEF Typed, TypeOK
<1>6. QED
  BY <1>4, <1>5

\* The state before any request is well typed.
LEMMA InitTyped == Init => Typed
<1> SUFFICES ASSUME Init PROVE Typed
  OBVIOUS
<1>1. rows \in [Items -> Row]
  <2>1. PICK start \in [Existing -> [type : Types, status : {"draft", "published"}]] :
          rows = [i \in Items |-> IF i \in Existing THEN start[i] ELSE Unused]
    BY DEF Init
  <2>2. QED
    BY <2>1 DEF Row, Unused, Statuses
<1>2. read \in [Requests -> [item : Items \cup {None}, row : Row]]
  BY DEF Init, Nothing, Unused, Row
<1>3. /\ call \in [Requests -> Calls \cup {NoCall}]
      /\ pc \in [Requests -> {"idle", "begin", "check", "write", "follow", "done"}]
      /\ \A r \in Requests : own[r] = <<>>
      /\ own = [r \in Requests |-> own[r]]
      /\ reserved \in [Requests -> SUBSET (Types \X (Items \cup {None}))]
      /\ results \in [Requests -> Seq({"ok", "failed"})]
      /\ answer \in [Requests -> Answers]
      /\ applied \in [Requests -> SUBSET (Nat \ {0})]
      /\ lost \in [Requests -> SUBSET (Nat \ {0})]
      /\ excused \subseteq Types
      /\ decisions \in 0..MaxDecisions
      /\ faults \in 0..MaxFaults
  BY DEF Init, Answers
<1>4. QED
  BY <1>1, <1>2, <1>3 DEF Typed, TypeOK

\* What the two writing steps of an entry put is a row at an item.
LEMMA InsertPuts ==
  ASSUME Typed, NEW r \in Requests, Insert(r)
  PROVE  \E i \in Items, row \in Row :
           /\ Put(r, i, row)
           /\ Visible(r)[i].status = "unused" /\ ~Locked(r, i)
           /\ row.type = Current(r).type
           /\ row.status = NewStatus(r, Current(r))
<1> DEFINE i   == CHOOSE i \in FreshIds(r) : TRUE
           row == [type |-> Current(r).type, status |-> NewStatus(r, Current(r))]
<1>1. i \in FreshIds(r) /\ Put(r, i, row)
  BY DEF Insert
<1>2. i \in Items /\ Visible(r)[i].status = "unused" /\ ~Locked(r, i)
  BY <1>1 DEF FreshIds
<1>3. Current(r) \in Entry
  BY CurrentTyped DEF Insert, Typed
<1>4. row \in Row
  BY <1>3 DEF Entry, Row, Statuses, NewStatus
<1>5. QED
  BY <1>1, <1>2, <1>4

LEMMA UpdatePuts ==
  ASSUME Typed, NEW r \in Requests, Update(r), NEW i, i = read[r].item,
         Present(Visible(r)[i])
  PROVE  /\ i \in Items /\ Updated(r, Current(r), Visible(r)[i]) \in Row
         /\ Put(r, i, Updated(r, Current(r), Visible(r)[i])) /\ ~Locked(r, i)
<1>1. i \in Items /\ read[r].row \in Row
  BY DEF Update, Typed, TypeOK
<1>2. Visible(r)[i] \in Row
  BY <1>1, VisibleTyped DEF Typed
<1>3. Current(r) \in Entry
  BY CurrentTyped DEF Update, Typed
<1>4. Updated(r, Current(r), Visible(r)[i]) \in Row
  BY <1>1, <1>2, <1>3 DEF Updated, TargetType, Entry, Row
<1>5. QED
  BY <1>1, <1>4 DEF Update

\* Every step of a request and every decision keeps the types.
LEMMA StepTyped == Typed /\ [Next]_vars => Typed'
<1> SUFFICES ASSUME Typed, [Next]_vars PROVE Typed'
  OBVIOUS
<1>1. ASSUME NEW r \in Requests, Receive(r) PROVE Typed'
  <2>1. PICK c \in Calls : /\ call' = [call EXCEPT ![r] = c]
                          /\ pc' = [pc EXCEPT ![r] = IF c.door.mode = "atomic" THEN "begin"
                                                    ELSE FirstStep(c)]
    BY <1>1 DEF Receive
  <2>2. FirstStep(c) \in {"check", "write"}
    BY FirstStepTyped
  <2>3. QED
    BY <1>1, <2>1, <2>2 DEF Receive, Typed, TypeOK
<1>2. ASSUME NEW r \in Requests, Begin(r) PROVE Typed'
  <2>1. FirstStep(call[r]) \in {"check", "write"}
    BY FirstStepTyped
  <2>2. QED
    BY <1>2, <2>1 DEF Begin, Typed, TypeOK
<1>3. ASSUME NEW r \in Requests, Check(r) PROVE Typed'
  <2>1. CASE Fail(r)
    BY <2>1, FailTyped
  <2>2. ASSUME NEW i \in Subjects(r, Current(r)), Accept(r, Current(r), i)
        PROVE  Typed'
    <3>1. i \in Items \cup {None} /\ CopyOf(r, i) \in Row
      BY SubjectsTyped, CopyTyped DEF Typed
    <3>2. read' \in [Requests -> [item : Items \cup {None}, row : Row]]
      BY <2>2, <3>1 DEF Accept, Typed, TypeOK
    <3>3. reserved' \in [Requests -> SUBSET (Types \X (Items \cup {None}))]
      BY <2>2, <3>1 DEF Accept, Typed, TypeOK
    <3>4. pc' \in [Requests -> {"idle", "begin", "check", "write", "follow", "done"}]
      BY <2>2 DEF Accept, Typed, TypeOK
    <3>5. QED
      BY <2>2, <3>2, <3>3, <3>4 DEF Accept, Typed, TypeOK
  <2>3. QED
    BY <1>3, <2>1, <2>2 DEF Check
<1>4. ASSUME NEW r \in Requests, Insert(r) PROVE Typed'
  BY <1>4, InsertPuts, PutTyped
<1>5. ASSUME NEW r \in Requests, Update(r) PROVE Typed'
  <2>1. CASE Present(Visible(r)[read[r].item])
    BY <1>5, <2>1, UpdatePuts, PutTyped
  <2>2. CASE ~Present(Visible(r)[read[r].item])
    <3>1. CASE Fail(r)
      BY <3>1, FailTyped
    <3>2. CASE ~Fail(r)
      <4>1. /\ Thrown(r)
            /\ UNCHANGED <<rows, call, own, read, reserved, applied, lost, excused, decisions, faults>>
        BY <1>5, <2>2, <3>2 DEF Update
      <4>2. QED
        BY <4>1, ThrownTyped DEF Typed, TypeOK
    <3>3. QED
      BY <3>1, <3>2
  <2>3. QED
    BY <2>1, <2>2
<1>6. ASSUME NEW r \in Requests, Delete(r) PROVE Typed'
  <2>1. Current(r).item \in Items
    BY <1>6, CurrentTyped DEF Delete, Typed
  <2>2. Deleted \in Row
    BY DEF Deleted, Row
  <2>3. QED
    BY <1>6, <2>1, <2>2, PutTyped, FailTyped DEF Delete
<1>7. ASSUME NEW r \in Requests, DeadlockVictim(r) PROVE Typed'
  BY <1>7, FailTyped DEF DeadlockVictim
<1>8. ASSUME NEW r \in Requests, Finish(r) PROVE Typed'
  <2>1. /\ pc' \in [Requests -> {"idle", "begin", "check", "write", "follow", "done"}]
        /\ answer' \in [Requests -> Answers]
        /\ UNCHANGED <<call, read, reserved, results, decisions>>
    BY <1>8 DEF Finish, Typed, TypeOK, Answers
  <2>2. lost' \in [Requests -> SUBSET (Nat \ {0})] /\ faults' \in 0..MaxFaults
    <3>1. DOMAIN results[r] = 1..Len(results[r]) /\ Len(results[r]) \in Nat
      BY DEF Typed, TypeOK
    <3>2. DOMAIN results[r] \in SUBSET (Nat \ {0})
      BY <3>1
    <3>3. \/ UNCHANGED <<lost, faults>>
          \/ Fault /\ lost' = [lost EXCEPT ![r] = DOMAIN results[r]]
      BY <1>8 DEF Finish
    <3>4. faults' \in 0..MaxFaults
      BY <3>3 DEF Fault, Typed, TypeOK
    <3>5. lost \in [Requests -> SUBSET (Nat \ {0})]
      BY DEF Typed, TypeOK
    <3>6. lost' \in [Requests -> SUBSET (Nat \ {0})]
      BY <3>2, <3>3, <3>5
    <3>7. QED
      BY <3>4, <3>6
  <2>3. CASE Atomic(r)
    <3>1. rows' \in [Items -> Row]
      <4>1. rows' = [i \in Items |-> IF i \in DOMAIN own[r] THEN own[r][i] ELSE rows[i]]
        BY <1>8, <2>3 DEF Finish, Publish
      <4>2. QED
        BY <4>1 DEF Typed, TypeOK
    <3>2. excused' \subseteq Types
      BY <1>8, <2>3 DEF Finish, Publish, Typed, TypeOK
    <3>3. applied' \in [Requests -> SUBSET (Nat \ {0})]
      <4>1. DOMAIN results[r] = 1..Len(results[r]) /\ Len(results[r]) \in Nat
        BY DEF Typed, TypeOK
      <4>2. applied' = [applied EXCEPT ![r] = DOMAIN results[r]]
        BY <1>8, <2>3 DEF Finish
      <4>3. QED
        BY <4>1, <4>2 DEF Typed, TypeOK
    <3>4. /\ own' = [q \in Requests |-> own'[q]]
          /\ \A q \in Requests : own'[q] = own[q] \/ own'[q] = <<>>
      BY <1>8, <2>3 DEF Finish, Typed
    <3>5. ASSUME NEW q \in Requests
          PROVE  DOMAIN own'[q] \subseteq Items /\ \A i \in DOMAIN own'[q] : own'[q][i] \in Row
      <4>1. CASE own'[q] = own[q]
        BY <4>1 DEF Typed, TypeOK
      <4>2. CASE own'[q] = <<>>
        BY <4>2
      <4>3. QED
        BY <3>4, <4>1, <4>2
    <3>6. QED
      BY <2>1, <2>2, <3>1, <3>2, <3>3, <3>4, <3>5 DEF Typed, TypeOK
  <2>4. CASE ~Atomic(r)
    BY <1>8, <2>1, <2>2, <2>4 DEF Finish, Typed, TypeOK
  <2>5. QED
    BY <2>3, <2>4
<1>9. ASSUME NEW r \in Requests, FollowUp(r) PROVE Typed'
  BY <1>9 DEF FollowUp, Typed, TypeOK, Answers
<1>10. ASSUME NEW i \in Items, Decide(i) PROVE Typed'
  <2>1. rows' \in [Items -> Row]
    <3>1. PICK s \in Statuses : rows' = [rows EXCEPT ![i].status = s]
      BY <1>10 DEF Decide
    <3>2. rows \in [Items -> Row] /\ [rows[i] EXCEPT !.status = s] \in Row
      <4>1. rows \in [Items -> Row] /\ rows[i] \in Row
        BY DEF Typed, TypeOK
      <4>2. [rows[i] EXCEPT !.status = s] \in Row
        BY <4>1 DEF Row
      <4>3. QED
        BY <4>1, <4>2
    <3>3. QED
      BY <3>1, <3>2
  <2>2. QED
    BY <1>10, <2>1 DEF Decide, Typed, TypeOK, requests
<1>11. CASE UNCHANGED vars
  BY <1>11 DEF vars, requests, Typed, TypeOK
<1>12. QED
  BY <1>1, <1>2, <1>3, <1>4, <1>5, <1>6, <1>7, <1>8, <1>9, <1>10, <1>11, ThrowTyped
     DEF Next, RequestStep

LEMMA AlwaysTyped == Spec => []Typed
  BY InitTyped, StepTyped, PTL DEF Spec

\* Rows, transactions and answers keep their domains.
THEOREM TypeCorrect == Spec => []TypeOK
<1>1. Typed => TypeOK
  BY DEF Typed
<1>2. QED
  BY <1>1, AlwaysTyped, PTL

-----------------------------------------------------------------------------
(* One item per singleton type.                                            *)

Guarded == Singletons \ excused

\* Only a transaction has rows of its own, and only once it has a call.
OwnsAtomically(r) == DOMAIN own[r] # {} => Atomic(r) /\ pc[r] # "idle"

\* What a request that looks singletons up sees holds one item of each type.
SeesOne(r) ==
    "singleton" \in Checks(r) =>
        \A t \in Guarded : \A i, j \in Items :
            Visible(r)[i].type = t /\ Visible(r)[j].type = t => i = j

\* A request about to write an item of a singleton type sees no other.
LookedUp(r) ==
    pc[r] = "write" /\ Op(r) # "delete" /\ More(r) /\ "singleton" \in Checks(r) =>
        LET t == TargetType(Current(r), read[r].row) IN
        t \in Guarded => \A j \in Items : Visible(r)[j].type = t => j = read[r].item

RInv(r) == OwnsAtomically(r) /\ SeesOne(r) /\ LookedUp(r)

SInv == SingletonUnlessRaced /\ \A r \in Requests : RInv(r)

\* The place of a request: all that its own part of the invariant is about but
\* the rows and the excuses.
Place(r) == <<call[r], pc[r], own[r], read[r], results[r], lost[r]>>

LEMMA SamePlace ==
  ASSUME NEW r, Place(r)' = Place(r)
  PROVE  /\ call'[r] = call[r] /\ pc'[r] = pc[r] /\ own'[r] = own[r]
         /\ read'[r] = read[r] /\ results'[r] = results[r] /\ lost'[r] = lost[r]
         /\ (Op(r)' = Op(r)) /\ (Atomic(r)' <=> Atomic(r)) /\ (Checks(r)' = Checks(r))
         /\ (More(r)' <=> More(r)) /\ (Current(r)' = Current(r))
BY DEF Place, Op, Atomic, Checks, More, Current

\* Of the rows, the invariant only depends on which of them have a type.
LEMMA FewerRows ==
  ASSUME NEW q \in Requests, RInv(q), Place(q)' = Place(q), excused \subseteq excused',
         \A t \in Guarded' : \A i \in Items : rows'[i].type = t => rows[i].type = t
  PROVE  RInv(q)'
<1>1. \A t \in Guarded' : \A i \in Items : Visible(q)'[i].type = t => Visible(q)[i].type = t
  BY SamePlace DEF Visible
<1>2. Guarded' \subseteq Guarded
  BY DEF Guarded
<1>3. OwnsAtomically(q)'
  BY SamePlace DEF RInv, OwnsAtomically
<1>4. SeesOne(q)'
  BY <1>1, <1>2, SamePlace DEF RInv, SeesOne
<1>5. LookedUp(q)'
  BY <1>1, <1>2, SamePlace DEF RInv, LookedUp, TargetType
<1>6. QED
  BY <1>3, <1>4, <1>5 DEF RInv

\* A request without rows of its own sees the committed ones.
LEMMA SeesCommitted ==
  ASSUME NEW r \in Requests, DOMAIN own[r] = {}, NEW i \in Items
  PROVE  Visible(r)[i] = rows[i]
BY DEF Visible

\* The part of a request that starts over: it owns nothing, or what it owned, and
\* is not about to write anything but a deletion.
LEMMA StartsOver ==
  ASSUME NEW r \in Requests, SingletonUnlessRaced', OwnsAtomically(r)',
         DOMAIN own'[r] = {}, pc'[r] = "write" => (Op(r) = "delete")'
  PROVE  RInv(r)'
<1>1. \A i \in Items : Visible(r)'[i] = rows'[i]
  BY DEF Visible
<1>2. SeesOne(r)'
  BY <1>1 DEF SeesOne, SingletonUnlessRaced, Guarded
<1>3. LookedUp(r)'
  BY DEF LookedUp
<1>4. QED
  BY <1>2, <1>3 DEF RInv

\* Publishing rows: a type that stays guarded either gains no row, or is written by
\* a request that has looked it up while nobody else was about to.
LEMMA Published ==
  ASSUME Typed, NEW r \in Requests, NEW changed, Publish(r, changed), NEW t \in Guarded'
  PROVE  \/ \A i \in Items : rows'[i].type = t => rows[i].type = t
         \/ /\ "singleton" \in Checks(r)
            /\ \A q \in Requests \ {r} : t \notin Claims(q)
<1>1. t \in Types /\ t \notin excused'
  BY DEF Guarded
<1>2. \/ ~Excuse(r, t)
      \/ \A i \in DOMAIN changed : changed[i].type = t => rows[i].type = t
  BY <1>1 DEF Publish
<1>3. rows' = [i \in Items |-> IF i \in DOMAIN changed THEN changed[i] ELSE rows[i]]
  BY DEF Publish
<1>4. QED
  BY <1>2, <1>3 DEF Excuse

\* What a publication does to everybody else's part of the invariant.
LEMMA OthersKeep ==
  ASSUME Typed, NEW r \in Requests, NEW changed, Publish(r, changed), SingletonUnlessRaced',
         NEW q \in Requests, q # r, RInv(q), Place(q)' = Place(q)
  PROVE  RInv(q)'
<1>1. ASSUME NEW t \in Guarded', NEW i \in Items, rows'[i].type = t, rows[i].type # t
      PROVE  t \notin Claims(q)
  BY <1>1, Published
<1>2. excused \subseteq excused' /\ Guarded' \subseteq Guarded
  BY DEF Publish, Guarded
<1>3. OwnsAtomically(q)'
  BY SamePlace DEF RInv, OwnsAtomically
<1>4. SeesOne(q)'
  <2> SUFFICES ASSUME "singleton" \in Checks(q), NEW t \in Guarded',
                      NEW i \in Items, NEW j \in Items,
                      Visible(q)'[i].type = t, Visible(q)'[j].type = t
               PROVE  i = j
    BY SamePlace DEF SeesOne
  <2>1. CASE t \in Claims(q)
    <3>1. \A k \in Items : Visible(q)'[k].type = t => Visible(q)[k].type = t
      BY <1>1, <2>1, SamePlace DEF Visible
    <3>2. QED
      BY <1>2, <3>1 DEF RInv, SeesOne
  <2>2. CASE t \notin Claims(q)
    <3>1. \A k \in DOMAIN own[q] : own[q][k].type # t
      BY <2>2 DEF Claims
    <3>2. rows'[i].type = t /\ rows'[j].type = t
      BY <3>1, SamePlace DEF Visible
    <3>3. QED
      BY <3>2 DEF SingletonUnlessRaced, Guarded
  <2>3. QED
    BY <2>1, <2>2
<1>5. LookedUp(q)'
  <2> DEFINE t == TargetType(Current(q), read[q].row)
  <2> SUFFICES ASSUME pc[q] = "write", Op(q) # "delete", More(q), "singleton" \in Checks(q),
                      t \in Guarded', NEW j \in Items, Visible(q)'[j].type = t
               PROVE  j = read[q].item
    BY SamePlace DEF LookedUp, TargetType
  <2>1. t \in Claims(q)
    BY DEF Claims
  <2>2. Visible(q)[j].type = t
    BY <1>1, <2>1, SamePlace DEF Visible
  <2>3. QED
    BY <1>2, <2>2 DEF RInv, LookedUp
<1>6. QED
  BY <1>3, <1>4, <1>5 DEF RInv

\* A step of one request that writes no row in common.
LEMMA Quiet ==
  ASSUME SInv, NEW r \in Requests, UNCHANGED <<rows, excused>>, RInv(r)',
         \A q \in Requests \ {r} : Place(q)' = Place(q)
  PROVE  SInv'
<1>1. ASSUME NEW q \in Requests PROVE RInv(q)'
  <2>1. CASE q = r
    BY <2>1
  <2>2. CASE q # r
    BY <2>2, FewerRows DEF SInv, Guarded
  <2>3. QED
    BY <2>1, <2>2
<1>2. SingletonUnlessRaced'
  BY DEF SInv, SingletonUnlessRaced
<1>3. QED
  BY <1>1, <1>2 DEF SInv

\* A request that keeps the rows it owns, or gives them up, and is not about to
\* write anything but a deletion.
LEMMA Pauses ==
  ASSUME SInv, NEW r \in Requests, UNCHANGED <<rows, excused>>, call'[r] = call[r],
         own'[r] = own[r] \/ DOMAIN own'[r] = {},
         pc'[r] # "idle", pc'[r] = "write" => Op(r) = "delete"
  PROVE  RInv(r)'
<1>1. Op(r)' = Op(r) /\ (Atomic(r)' <=> Atomic(r)) /\ Checks(r)' = Checks(r)
  BY DEF Op, Atomic, Checks
<1>2. OwnsAtomically(r)'
  BY <1>1 DEF SInv, RInv, OwnsAtomically
<1>3. SingletonUnlessRaced'
  BY DEF SInv, SingletonUnlessRaced
<1>4. CASE own'[r] = own[r]
  <2>1. Visible(r)' = Visible(r)
    BY <1>4 DEF Visible
  <2>2. SeesOne(r)'
    BY <1>1, <2>1 DEF SInv, RInv, SeesOne, Guarded
  <2>3. LookedUp(r)'
    BY <1>1 DEF LookedUp
  <2>4. QED
    BY <1>2, <2>2, <2>3 DEF RInv
<1>5. CASE DOMAIN own'[r] = {}
  BY <1>1, <1>2, <1>3, <1>5, StartsOver
<1>6. QED
  BY <1>4, <1>5

LEMMA FailSafe ==
  ASSUME Typed, SInv, NEW r \in Requests, Fail(r)
  PROVE  SInv'
<1>1. \A q \in Requests \ {r} : Place(q)' = Place(q)
  BY DEF Fail, Place, Typed, TypeOK
<1>2. call'[r] = call[r] /\ UNCHANGED <<rows, excused>>
  BY DEF Fail
<1>3. own'[r] = own[r] \/ DOMAIN own'[r] = {}
  BY DEF Fail, Typed
<1>4. pc'[r] # "idle" /\ (pc'[r] = "write" => Op(r) = "delete")
  BY FirstStepTyped DEF Fail, Typed, TypeOK, Op
<1>5. RInv(r)'
  BY <1>2, <1>3, <1>4, Pauses
<1>6. QED
  BY <1>1, <1>2, <1>5, Quiet

\* A statement that throws leaves its request between two entries, or done, and
\* the others where they are.
LEMMA ThrownMoves ==
  ASSUME Typed, NEW r \in Requests, Thrown(r)
  PROVE  /\ pc'[r] \in {"check", "write", "done"} /\ (pc'[r] = "write" => Op(r) = "delete")
         /\ \A q \in Requests \ {r} :
                pc'[q] = pc[q] /\ results'[q] = results[q] /\ answer'[q] = answer[q]
         /\ results'[r] = results[r] \/ results'[r] = Append(results[r], "failed")
BY FirstStepTyped DEF Thrown, Typed, TypeOK, Op

LEMMA ThrowSafe ==
  ASSUME Typed, SInv, NEW r \in Requests, Throw(r)
  PROVE  SInv'
<1>1. /\ Thrown(r) /\ UNCHANGED <<rows, call, read, lost, excused>>
      /\ own'[r] = <<>> /\ \A q \in Requests \ {r} : own'[q] = own[q]
  BY DEF Throw, Typed
<1>2. \A q \in Requests \ {r} : Place(q)' = Place(q)
  BY <1>1, ThrownMoves DEF Place
<1>3. RInv(r)'
  BY <1>1, ThrownMoves, Pauses
<1>4. QED
  BY <1>1, <1>2, <1>3, Quiet

\* How a written entry moves its request.
LEMMA PutMoves ==
  ASSUME Typed, NEW r \in Requests, NEW i, NEW row, Put(r, i, row)
  PROVE  /\ call' = call /\ read' = read
         /\ pc'[r] # "idle" /\ (pc'[r] = "write" => Op(r) = "delete")
         /\ \A q \in Requests \ {r} : Place(q)' = Place(q) /\ answer'[q] = answer[q]
<1>1. call' = call /\ read' = read /\ (Confirmed(r) \/ Unconfirmed(r))
  BY DEF Put
<1>2. \A q \in Requests \ {r} : own'[q] = own[q]
  BY DEF Put, Typed
<1>3. CASE Confirmed(r)
  BY <1>1, <1>2, <1>3, FirstStepTyped DEF Confirmed, Place, Typed, TypeOK, Op
<1>4. CASE Unconfirmed(r)
  <2>1. Thrown(r) /\ \A q \in Requests \ {r} : lost'[q] = lost[q]
    BY <1>4 DEF Unconfirmed, Typed, TypeOK
  <2>2. QED
    BY <1>1, <1>2, <2>1, ThrownMoves DEF Place
<1>5. QED
  BY <1>1, <1>3, <1>4

\* A row may be written if no other item that the request sees has a type it
\* has looked up and the row gains.
Unopposed(r, i, row) ==
    "singleton" \in Checks(r) =>
        \A t \in Guarded : row.type = t /\ Visible(r)[i].type # t =>
            \A j \in Items : Visible(r)[j].type = t => j = i

LEMMA PutSafe ==
  ASSUME Typed, SInv, NEW r \in Requests, NEW i \in Items, NEW row \in Row,
         Put(r, i, row), Unopposed(r, i, row)
  PROVE  SInv'
<1>1. /\ call' = call /\ read' = read
      /\ \A q \in Requests \ {r} : Place(q)' = Place(q)
  BY PutMoves
<1>2. pc'[r] # "idle" /\ (pc'[r] = "write" => Op(r) = "delete")
  BY PutMoves
<1>3. (Op(r)' = Op(r)) /\ (Atomic(r)' <=> Atomic(r)) /\ (Checks(r)' = Checks(r))
  BY <1>1 DEF Op, Atomic, Checks
<1>4. CASE Atomic(r)
  <2>1. UNCHANGED <<rows, excused>>
    BY <1>4 DEF Put
  <2>2. own'[r] = [j \in DOMAIN own[r] \cup {i} |-> IF j = i THEN row ELSE own[r][j]]
    BY <1>4 DEF Put, Typed
  <2>3. \A j \in Items : Visible(r)'[j] = IF j = i THEN row ELSE Visible(r)[j]
    BY <2>1, <2>2 DEF Visible
  <2>4. SeesOne(r)'
    BY <1>3, <2>1, <2>3 DEF SeesOne, Guarded, Unopposed, SInv, RInv
  <2>5. LookedUp(r)'
    BY <1>2, <1>3 DEF LookedUp
  <2>6. OwnsAtomically(r)'
    BY <1>2, <1>3, <1>4 DEF OwnsAtomically
  <2>7. QED
    BY <1>1, <2>1, <2>4, <2>5, <2>6, Quiet DEF RInv
<1>5. CASE ~Atomic(r)
  <2> DEFINE changed == [j \in {i} |-> row]
  <2>1. Publish(r, changed) /\ own' = own
    BY <1>5 DEF Put
  <2>2. DOMAIN own[r] = {} /\ \A j \in Items : Visible(r)[j] = rows[j]
    BY <1>5, SeesCommitted DEF SInv, RInv, OwnsAtomically
  <2>3. \A j \in Items : rows'[j] = IF j = i THEN row ELSE rows[j]
    BY <2>1 DEF Publish
  <2>4. excused \subseteq excused' /\ Guarded' \subseteq Guarded
    BY <2>1 DEF Publish, Guarded
  <2>5. SingletonUnlessRaced'
    <3> SUFFICES ASSUME NEW t \in Guarded', NEW j \in Items, NEW k \in Items, j # k,
                        rows'[j].type = t, rows'[k].type = t
                 PROVE  FALSE
      BY DEF SingletonUnlessRaced, Guarded
    <3>1. CASE \A m \in Items : rows'[m].type = t => rows[m].type = t
      BY <2>4, <3>1 DEF SInv, SingletonUnlessRaced, Guarded
    <3>2. CASE "singleton" \in Checks(r)
      <4>1. CASE rows[i].type = t \/ row.type # t
        <5>1. rows[j].type = t /\ rows[k].type = t
          BY <2>3, <4>1
        <5>2. QED
          BY <2>4, <5>1 DEF SInv, SingletonUnlessRaced, Guarded
      <4>2. CASE row.type = t /\ rows[i].type # t
        BY <2>2, <2>3, <2>4, <3>2, <4>2 DEF Unopposed
      <4>3. QED
        BY <4>1, <4>2
    <3>3. QED
      BY <2>1, <3>1, <3>2, Published
  <2>6. RInv(r)'
    <3>1. DOMAIN own'[r] = {}
      BY <2>1, <2>2
    <3>2. QED
      BY <1>2, <1>3, <2>5, <3>1, StartsOver DEF OwnsAtomically
  <2>7. ASSUME NEW q \in Requests \ {r} PROVE RInv(q)'
    BY <1>1, <2>1, <2>5, OthersKeep DEF SInv
  <2>8. QED
    BY <2>5, <2>6, <2>7 DEF SInv
<1>6. QED
  BY <1>4, <1>5

\* The three writing steps of an entry.
LEMMA InsertSafe ==
  ASSUME Typed, SInv, NEW r \in Requests, Insert(r)
  PROVE  SInv'
<1>1. PICK i \in Items, row \in Row : Put(r, i, row) /\ row.type = Current(r).type
  BY InsertPuts
<1>2. Unopposed(r, i, row)
  <2> SUFFICES ASSUME "singleton" \in Checks(r), NEW t \in Guarded, row.type = t,
                      NEW j \in Items, Visible(r)[j].type = t
               PROVE  FALSE
    BY DEF Unopposed
  <2>1. t # None
    BY DEF Guarded
  <2>2. TargetType(Current(r), read[r].row) = t
    BY <1>1, <2>1 DEF TargetType
  <2>3. j = read[r].item /\ read[r].item = None
    BY <2>2 DEF Insert, SInv, RInv, LookedUp
  <2>4. QED
    BY <2>3
<1>3. QED
  BY <1>1, <1>2, PutSafe

LEMMA UpdateSafe ==
  ASSUME Typed, SInv, NEW r \in Requests, Update(r)
  PROVE  SInv'
<1> DEFINE i   == read[r].item
           row == Updated(r, Current(r), Visible(r)[i])
<1>1. CASE Present(Visible(r)[i])
  <2>1. i \in Items /\ row \in Row /\ Put(r, i, row)
    BY <1>1, UpdatePuts
  <2>2. Unopposed(r, i, row)
    <3> SUFFICES ASSUME "singleton" \in Checks(r), NEW t \in Guarded, row.type = t,
                        Visible(r)[i].type # t, NEW j \in Items, Visible(r)[j].type = t
                 PROVE  j = i
      BY DEF Unopposed
    <3>1. TargetType(Current(r), read[r].row) = t
      BY DEF Updated, TargetType
    <3>2. QED
      BY <3>1 DEF Update, SInv, RInv, LookedUp
  <2>3. QED
    BY <2>1, <2>2, PutSafe
<1>2. CASE ~Present(Visible(r)[i])
  <2>1. CASE Fail(r)
    BY <2>1, FailSafe
  <2>2. CASE ~Fail(r)
    <3>1. Thrown(r) /\ UNCHANGED <<rows, call, own, read, lost, excused>>
      BY <1>2, <2>2 DEF Update
    <3>2. \A q \in Requests \ {r} : Place(q)' = Place(q)
      BY <3>1, ThrownMoves DEF Place
    <3>3. RInv(r)'
      BY <3>1, ThrownMoves, Pauses
    <3>4. QED
      BY <3>1, <3>2, <3>3, Quiet
  <2>3. QED
    BY <2>1, <2>2
<1>3. QED
  BY <1>1, <1>2

LEMMA DeleteSafe ==
  ASSUME Typed, SInv, NEW r \in Requests, Delete(r)
  PROVE  SInv'
<1> DEFINE i == Current(r).item
<1>1. i \in Items
  BY CurrentTyped DEF Delete, Typed
<1>2. Deleted \in Row
  BY DEF Deleted, Row
<1>3. Unopposed(r, i, Deleted)
  BY DEF Unopposed, Guarded, Deleted
<1>4. QED
  BY <1>1, <1>2, <1>3, PutSafe, FailSafe DEF Delete

\* An accepted entry has been looked up.
LEMMA AcceptSafe ==
  ASSUME Typed, SInv, NEW r \in Requests, NEW i \in Subjects(r, Current(r)),
         ~Refused(r, Current(r), i), Accept(r, Current(r), i)
  PROVE  SInv'
<1>1. /\ UNCHANGED <<rows, call, own, results, excused>>
      /\ read'[r] = [item |-> i, row |-> CopyOf(r, i)]
      /\ pc'[r] = "write"
      /\ \A q \in Requests \ {r} : Place(q)' = Place(q)
  BY DEF Accept, Place, Typed, TypeOK
<1>2. /\ (Op(r)' = Op(r)) /\ (Atomic(r)' <=> Atomic(r)) /\ (Checks(r)' = Checks(r))
      /\ (More(r)' <=> More(r)) /\ (Current(r)' = Current(r)) /\ (Visible(r)' = Visible(r))
  BY <1>1 DEF Op, Atomic, Checks, More, Current, Visible
<1>3. OwnsAtomically(r)' /\ SeesOne(r)'
  BY <1>1, <1>2 DEF OwnsAtomically, SeesOne, Guarded, SInv, RInv
<1>4. LookedUp(r)'
  <2> DEFINE t == TargetType(Current(r), CopyOf(r, i))
  <2> SUFFICES ASSUME "singleton" \in Checks(r), t \in Guarded, NEW j \in Items,
                      Visible(r)[j].type = t
               PROVE  j = i
    BY <1>1, <1>2 DEF LookedUp, Guarded, TargetType
  <2>1. Occupants(r, t) \ {i} = {}
    BY DEF Refused, SingletonTaken, Guarded
  <2>2. QED
    BY <2>1 DEF Occupants
<1>5. QED
  BY <1>1, <1>3, <1>4, Quiet DEF RInv

\* The end of a call: what a transaction commits, it has looked up.
LEMMA FinishSafe ==
  ASSUME Typed, SInv, NEW r \in Requests, Finish(r)
  PROVE  SInv'
<1>1. /\ call' = call /\ pc'[r] = "done"
      /\ \A q \in Requests \ {r} : Place(q)' = Place(q)
  BY DEF Finish, Place, Typed, TypeOK
<1>2. CASE Atomic(r)
  <2>1. Publish(r, own[r]) /\ own'[r] = <<>>
    BY <1>2 DEF Finish, Typed
  <2>2. \A i \in Items : rows'[i] = Visible(r)[i]
    BY <2>1 DEF Publish, Visible
  <2>3. excused \subseteq excused' /\ Guarded' \subseteq Guarded
    BY <2>1 DEF Publish, Guarded
  <2>4. SingletonUnlessRaced'
    <3> SUFFICES ASSUME NEW t \in Guarded', NEW i \in Items, NEW j \in Items,
                        rows'[i].type = t, rows'[j].type = t
                 PROVE  i = j
      BY DEF SingletonUnlessRaced, Guarded
    <3>1. CASE \A k \in Items : rows'[k].type = t => rows[k].type = t
      BY <2>3, <3>1 DEF SInv, SingletonUnlessRaced, Guarded
    <3>2. CASE "singleton" \in Checks(r)
      BY <2>2, <2>3, <3>2 DEF SInv, RInv, SeesOne
    <3>3. QED
      BY <2>1, <3>1, <3>2, Published
  <2>5. RInv(r)'
    BY <1>1, <2>1, <2>4, StartsOver DEF OwnsAtomically
  <2>6. ASSUME NEW q \in Requests \ {r} PROVE RInv(q)'
    BY <1>1, <2>1, <2>4, OthersKeep DEF SInv
  <2>7. QED
    BY <2>4, <2>5, <2>6 DEF SInv
<1>3. CASE ~Atomic(r)
  <2>1. UNCHANGED <<rows, own, excused>>
    BY <1>3 DEF Finish
  <2>2. QED
    BY <1>1, <2>1, Pauses, Quiet
<1>4. QED
  BY <1>2, <1>3

LEMMA InitSafe == Init => SInv
<1> SUFFICES ASSUME Init PROVE SInv
  OBVIOUS
<1>1. SingletonUnlessRaced
  <2>1. PICK start \in [Existing -> [type : Types, status : {"draft", "published"}]] :
          /\ \A i, j \in Existing :
                 start[i].type = start[j].type /\ start[i].type \in Singletons => i = j
          /\ rows = [i \in Items |-> IF i \in Existing THEN start[i] ELSE Unused]
    BY DEF Init
  <2>2. Unused.type \notin Singletons
    BY DEF Unused
  <2>3. \A i \in Items : rows[i].type \in Singletons => i \in Existing /\ rows[i] = start[i]
    BY <2>1, <2>2
  <2>4. QED
    BY <2>1, <2>3 DEF SingletonUnlessRaced
<1>2. ASSUME NEW r \in Requests PROVE RInv(r)
  <2>1. DOMAIN own[r] = {} /\ pc[r] = "idle"
    BY DEF Init
  <2>2. OwnsAtomically(r) /\ LookedUp(r)
    BY <2>1 DEF OwnsAtomically, LookedUp
  <2>3. SeesOne(r)
    BY <1>1, <2>1, SeesCommitted DEF SeesOne, SingletonUnlessRaced, Guarded
  <2>4. QED
    BY <2>2, <2>3 DEF RInv
<1>3. QED
  BY <1>1, <1>2 DEF SInv

LEMMA StepSafe == Typed /\ SInv /\ [Next]_vars => SInv'
<1> SUFFICES ASSUME Typed, SInv, [Next]_vars PROVE SInv'
  OBVIOUS
<1>1. ASSUME NEW r \in Requests, Receive(r) PROVE SInv'
  <2>1. /\ UNCHANGED <<rows, own, results, excused>>
        /\ pc'[r] # "idle" /\ (pc'[r] = "write" => (Op(r) = "delete")')
        /\ \A q \in Requests \ {r} : Place(q)' = Place(q)
    BY <1>1, FirstStepTyped DEF Receive, Place, Typed, TypeOK, Op
  <2>2. DOMAIN own'[r] = {}
    BY <1>1, <2>1 DEF Receive, SInv, RInv, OwnsAtomically
  <2>3. SingletonUnlessRaced'
    BY <2>1 DEF SInv, SingletonUnlessRaced
  <2>4. RInv(r)'
    BY <2>1, <2>2, <2>3, StartsOver DEF OwnsAtomically
  <2>5. QED
    BY <2>1, <2>4, Quiet
<1>2. ASSUME NEW r \in Requests, Begin(r) PROVE SInv'
  <2>1. /\ UNCHANGED <<rows, call, own, results, excused>>
        /\ pc'[r] # "idle" /\ (pc'[r] = "write" => Op(r) = "delete")
        /\ \A q \in Requests \ {r} : Place(q)' = Place(q)
    BY <1>2, FirstStepTyped DEF Begin, Place, Typed, TypeOK, Op
  <2>2. QED
    BY <2>1, Pauses, Quiet
<1>3. ASSUME NEW r \in Requests, Check(r) PROVE SInv'
  BY <1>3, AcceptSafe, FailSafe DEF Check
<1>4. ASSUME NEW r \in Requests, DeadlockVictim(r) PROVE SInv'
  BY <1>4, FailSafe DEF DeadlockVictim
<1>5. ASSUME NEW r \in Requests, FollowUp(r) PROVE SInv'
  <2>1. /\ UNCHANGED <<rows, call, own, results, excused>>
        /\ pc'[r] = "done"
        /\ \A q \in Requests \ {r} : Place(q)' = Place(q)
    BY <1>5 DEF FollowUp, Place, Typed, TypeOK
  <2>2. QED
    BY <2>1, Pauses, Quiet
<1>6. ASSUME NEW i \in Items, Decide(i) PROVE SInv'
  <2>1. UNCHANGED <<requests, excused>>
    BY <1>6 DEF Decide
  <2>2. \A j \in Items : rows'[j].type = rows[j].type
    BY <1>6 DEF Decide, Typed, TypeOK, Row
  <2>3. \A q \in Requests : Place(q)' = Place(q)
    BY <2>1 DEF requests, Place
  <2>4. \A q \in Requests : RInv(q)'
    BY <2>1, <2>2, <2>3, FewerRows DEF SInv
  <2>5. SingletonUnlessRaced'
    BY <2>1, <2>2 DEF SInv, SingletonUnlessRaced
  <2>6. QED
    BY <2>4, <2>5 DEF SInv
<1>7. CASE UNCHANGED vars
  <2>1. /\ \A q \in Requests : Place(q)' = Place(q)
        /\ UNCHANGED <<rows, excused>>
    BY <1>7 DEF vars, requests, Place
  <2>2. \A q \in Requests : RInv(q)'
    BY <2>1, FewerRows DEF SInv
  <2>3. SingletonUnlessRaced'
    BY <2>1 DEF SInv, SingletonUnlessRaced
  <2>4. QED
    BY <2>2, <2>3 DEF SInv
<1>8. QED
  BY <1>1, <1>2, <1>3, <1>4, <1>5, <1>6, <1>7, InsertSafe, UpdateSafe, DeleteSafe, FinishSafe,
     ThrowSafe DEF Next, RequestStep

\* A singleton type has one item, unless two requests raced for it or it was
\* written through a door that does not look it up: for any number of requests,
\* any calls and any batches, committed at once or entry by entry.
THEOREM SingletonKept == Spec => []SingletonUnlessRaced
<1>1. SInv => SingletonUnlessRaced
  BY DEF SInv
<1>2. QED
  BY <1>1, InitSafe, StepSafe, AlwaysTyped, PTL DEF Spec

-----------------------------------------------------------------------------
(* What a written entry does to the status of an item.                     *)

\* The entry a request is about to write has passed its checks, on the copy read.
Vetted(r) ==
    pc[r] = "write" /\ Op(r) # "delete" /\ More(r) =>
        /\ read[r].item = None => read[r].row = Unused
        /\ Op(r) = "global" /\ read[r].item # None => read[r].row.type = Current(r).type
        /\ "workflow" \in Checks(r) =>
               ~Forbidden(Current(r), TargetType(Current(r), read[r].row), read[r].row)

\* It stays so while the request does nothing.
LEMMA VettedStays ==
  ASSUME NEW r, Vetted(r), Place(r)' = Place(r)
  PROVE  Vetted(r)'
BY SamePlace DEF Vetted, TargetType, Forbidden, Present

\* A request that fails, or has written its entry, is not about to write.
LEMMA NothingVetted ==
  ASSUME NEW r \in Requests, call'[r] = call[r], pc'[r] = "write" => Op(r) = "delete"
  PROVE  Vetted(r)'
BY DEF Vetted, Op

\* An entry that fails is not reported as written.
LEMMA NoneWritten ==
  ASSUME Typed, NEW r \in Requests,
         results'[r] = Append(results[r], "failed") \/ results'[r] = results[r]
  PROVE  results'[r] # Append(results[r], "ok")
<1>1. results[r] \in Seq({"ok", "failed"})
  BY DEF Typed, TypeOK
<1>2. Len(results[r]) \in Nat /\ Append(results[r], "failed")[Len(results[r]) + 1] = "failed"
      /\ Append(results[r], "ok")[Len(results[r]) + 1] = "ok"
      /\ Len(Append(results[r], "ok")) = Len(results[r]) + 1
  BY <1>1
<1>3. QED
  BY <1>2

LEMMA FailVetted ==
  ASSUME Typed, NEW r \in Requests, Fail(r)
  PROVE  /\ Vetted(r)' /\ ~(results'[r] = Append(results[r], "ok")) /\ lost'[r] = lost[r]
         /\ \A q \in Requests \ {r} : Place(q)' = Place(q)
<1>1. /\ call'[r] = call[r] /\ (pc'[r] = "write" => Op(r) = "delete")
      /\ \A q \in Requests \ {r} : Place(q)' = Place(q)
      /\ lost'[r] = lost[r]
  BY FirstStepTyped DEF Fail, Place, Typed, TypeOK, Op
<1>2. results'[r] = Append(results[r], "failed") \/ results'[r] = results[r]
  BY DEF Fail, Typed, TypeOK
<1>3. QED
  BY <1>1, <1>2, NothingVetted, NoneWritten

\* Nor is a request whose statement throws.
LEMMA ThrownVetted ==
  ASSUME Typed, NEW r \in Requests, Thrown(r), call'[r] = call[r]
  PROVE  Vetted(r)' /\ ~(results'[r] = Append(results[r], "ok"))
BY ThrownMoves, NothingVetted, NoneWritten

LEMMA PutVetted ==
  ASSUME Typed, SInv, NEW r \in Requests, NEW i \in Items, NEW row \in Row, Put(r, i, row)
  PROVE  /\ Vetted(r)'
         /\ \A q \in Requests \ {r} : Place(q)' = Place(q)
         /\ \A j \in Items : Visible(r)'[j] = IF j = i THEN row ELSE Visible(r)[j]
<1>1. /\ call'[r] = call[r] /\ (pc'[r] = "write" => Op(r) = "delete")
      /\ \A q \in Requests \ {r} : Place(q)' = Place(q)
  BY PutMoves
<1>2. CASE Atomic(r)
  <2>1. rows' = rows
    BY <1>2 DEF Put
  <2>2. own'[r] = [j \in DOMAIN own[r] \cup {i} |-> IF j = i THEN row ELSE own[r][j]]
    BY <1>2 DEF Put, Typed
  <2>3. \A j \in Items : Visible(r)'[j] = IF j = i THEN row ELSE Visible(r)[j]
    BY <2>1, <2>2 DEF Visible
  <2>4. QED
    BY <1>1, <2>3, NothingVetted
<1>3. CASE ~Atomic(r)
  <2>1. DOMAIN own[r] = {} /\ own' = own
    BY <1>3 DEF Put, SInv, RInv, OwnsAtomically
  <2>2. \A j \in Items : rows'[j] = IF j = i THEN row ELSE rows[j]
    BY <1>3 DEF Put, Publish
  <2>3. \A j \in Items : Visible(r)'[j] = IF j = i THEN row ELSE Visible(r)[j]
    BY <2>1, <2>2 DEF Visible
  <2>4. QED
    BY <1>1, <2>3, NothingVetted
<1>4. QED
  BY <1>2, <1>3

\* What may happen to the statuses when a request writes an entry.
StatusSafe(r) ==
    Written(r) => \A i \in Items :
        /\ "workflow" \in Checks(r) /\ Visible(r)'[i].type \in Governed
                   /\ Visible(r)'[i].status # Visible(r)[i].status
               => \/ Visible(r)[i].status = "unused" /\ Visible(r)'[i].status = "draft"
                  \/ Visible(r)'[i].status = "empty" /\ Current(r).status = "empty"
                  \/ Overtaken(r)
        /\ Op(r) # "delete" /\ Current(r).status = None /\ Present(Visible(r)[i])
               => \/ Visible(r)'[i].status = Visible(r)[i].status
                  \/ Op(r) = "global" /\ Overtaken(r)

\* A request that does nothing writes nothing.
LEMMA IdleSafe ==
  ASSUME Typed, NEW r \in Requests, results'[r] = results[r], lost'[r] = lost[r] \/ ~More(r)
  PROVE  StatusSafe(r)
<1>1. Len(Append(results[r], "ok")) = Len(results[r]) + 1 /\ Len(results[r]) \in Nat
  BY DEF Typed, TypeOK
<1>2. results'[r] # Append(results[r], "ok")
  BY <1>1
<1>3. QED
  BY <1>2 DEF StatusSafe, Written

LEMMA InsertStatus ==
  ASSUME Typed, SInv, NEW r \in Requests, Vetted(r), Insert(r)
  PROVE  StatusSafe(r)
<1>1. PICK k \in Items, row \in Row :
        /\ Put(r, k, row)
        /\ Visible(r)[k].status = "unused"
        /\ row.type = Current(r).type
        /\ row.status = NewStatus(r, Current(r))
  BY InsertPuts
<1>2. \A j \in Items : Visible(r)'[j] = IF j = k THEN row ELSE Visible(r)[j]
  BY <1>1, PutVetted
<1>3. read[r].row = Unused /\ pc[r] = "write" /\ Op(r) # "delete" /\ More(r)
  BY DEF Insert, Vetted
<1>4. ASSUME "workflow" \in Checks(r), row.type \in Governed
      PROVE  row.status = "draft" \/ (row.status = "empty" /\ Current(r).status = "empty")
  <2>1. TargetType(Current(r), Unused) = row.type
    BY <1>1, <1>4 DEF TargetType, Unused
  <2>2. ~Forbidden(Current(r), row.type, Unused)
    BY <1>3, <1>4, <2>1 DEF Vetted
  <2>3. QED
    BY <1>1, <1>4, <2>2 DEF Forbidden, Present, Unused, Statuses, NewStatus
<1>5. ~Present(Visible(r)[k])
  BY <1>1 DEF Present, Statuses
<1>6. QED
  BY <1>1, <1>2, <1>4, <1>5 DEF StatusSafe

LEMMA UpdateStatus ==
  ASSUME Typed, SInv, NEW r \in Requests, Vetted(r), Update(r), Present(Visible(r)[read[r].item])
  PROVE  StatusSafe(r)
<1> DEFINE k   == read[r].item
           old == Visible(r)[k]
           row == Updated(r, Current(r), old)
<1>1. k \in Items /\ row \in Row /\ Put(r, k, row)
  BY UpdatePuts
<1>2. \A j \in Items : Visible(r)'[j] = IF j = k THEN row ELSE Visible(r)[j]
  BY <1>1, PutVetted
<1>3. pc[r] = "write" /\ Op(r) # "delete" /\ More(r) /\ k # None
  BY DEF Update
<1>4. CASE Overtaken(r)
  <2>1. Current(r).status = None /\ Op(r) # "global" => row.status = old.status
    BY DEF Updated
  <2>2. QED
    BY <1>2, <1>4, <2>1 DEF StatusSafe
<1>5. CASE ~Overtaken(r)
  <2>1. read[r].row = old
    BY <1>3, <1>5 DEF Overtaken
  <2>2. Current(r).status = None => row.status = old.status
    BY <2>1 DEF Updated
  <2>3. ASSUME "workflow" \in Checks(r), row.type \in Governed
        PROVE  \/ row.status = old.status
               \/ row.status = "empty" /\ Current(r).status = "empty"
    <3>1. row.type = TargetType(Current(r), old)
      BY <1>3, <2>1 DEF Updated, Vetted, TargetType
    <3>2. ~Forbidden(Current(r), row.type, old)
      BY <1>3, <2>1, <2>3, <3>1 DEF Vetted
    <3>3. Current(r).status \in {None, "empty", old.status}
      BY <2>3, <3>2 DEF Forbidden
    <3>4. QED
      BY <2>2, <3>3 DEF Updated
  <2>4. QED
    BY <1>2, <2>2, <2>3 DEF StatusSafe
<1>6. QED
  BY <1>4, <1>5

LEMMA DeleteStatus ==
  ASSUME Typed, SInv, NEW r \in Requests, Put(r, Current(r).item, Deleted), Delete(r)
  PROVE  StatusSafe(r)
<1>1. Current(r).item \in Items
  BY CurrentTyped DEF Delete, Typed
<1>2. Deleted \in Row /\ Deleted.type \notin Governed
  BY DEF Deleted, Row
<1>3. \A j \in Items : Visible(r)'[j] = IF j = Current(r).item THEN Deleted ELSE Visible(r)[j]
  BY <1>1, <1>2, PutVetted
<1>4. QED
  BY <1>2, <1>3 DEF StatusSafe, Delete

\* An accepted entry is vetted.
LEMMA AcceptVetted ==
  ASSUME Typed, NEW r \in Requests, NEW i \in Subjects(r, Current(r)),
         ~Refused(r, Current(r), i), Accept(r, Current(r), i)
  PROVE  /\ Vetted(r)' /\ results' = results /\ lost' = lost
         /\ \A q \in Requests \ {r} : Place(q)' = Place(q)
<1>1. /\ UNCHANGED <<call, results, lost>>
      /\ read'[r] = [item |-> i, row |-> CopyOf(r, i)]
      /\ \A q \in Requests \ {r} : Place(q)' = Place(q)
  BY DEF Accept, Place, Typed, TypeOK
<1>2. (Op(r)' = Op(r)) /\ (Checks(r)' = Checks(r)) /\ (Current(r)' = Current(r))
  BY <1>1 DEF Op, Checks, Current
<1>3. i = None => CopyOf(r, i) = Unused
  BY DEF CopyOf
<1>4. Op(r) = "global" /\ i # None => CopyOf(r, i).type = Current(r).type
  BY DEF Subjects, Occupants, CopyOf
<1>5. "workflow" \in Checks(r) =>
        ~Forbidden(Current(r), TargetType(Current(r), CopyOf(r, i)), CopyOf(r, i))
  BY DEF Refused
<1>6. QED
  BY <1>1, <1>2, <1>3, <1>4, <1>5 DEF Vetted, TargetType, Forbidden, Present

AllVetted == \A r \in Requests : Vetted(r)

LEMMA InitVetted == Init => AllVetted
BY DEF Init, AllVetted, Vetted

\* Every step keeps the entries vetted and is safe for the statuses.
LEMMA StepStatus ==
  ASSUME Typed, SInv, AllVetted, [Next]_vars
  PROVE  AllVetted' /\ \A r \in Requests : StatusSafe(r)
<1>1. ASSUME NEW r \in Requests, Vetted(r)', StatusSafe(r),
             \A q \in Requests \ {r} : Place(q)' = Place(q)
      PROVE  AllVetted' /\ \A q \in Requests : StatusSafe(q)
  <2>1. ASSUME NEW q \in Requests, q # r PROVE Vetted(q)' /\ StatusSafe(q)
    BY <1>1, <2>1, VettedStays, IdleSafe, SamePlace DEF AllVetted
  <2>2. QED
    BY <1>1, <2>1 DEF AllVetted
<1>2. ASSUME NEW r \in Requests, Fail(r)
      PROVE  AllVetted' /\ \A q \in Requests : StatusSafe(q)
  BY <1>1, <1>2, FailVetted DEF StatusSafe, Written
<1>3. ASSUME NEW r \in Requests, results' = results, lost'[r] = lost[r] \/ ~More(r),
             call'[r] = call[r], pc'[r] = "write" => Op(r) = "delete",
             \A q \in Requests \ {r} : Place(q)' = Place(q)
      PROVE  AllVetted' /\ \A q \in Requests : StatusSafe(q)
  BY <1>1, <1>3, NothingVetted, IdleSafe
<1>4. ASSUME NEW r \in Requests, Receive(r)
      PROVE  AllVetted' /\ \A q \in Requests : StatusSafe(q)
  <2>1. /\ results' = results /\ lost' = lost /\ (pc'[r] = "write" => (Op(r) = "delete")')
        /\ \A q \in Requests \ {r} : Place(q)' = Place(q)
    BY <1>4, FirstStepTyped DEF Receive, Place, Typed, TypeOK, Op
  <2>2. Vetted(r)'
    BY <2>1 DEF Vetted
  <2>3. QED
    BY <1>1, <2>1, <2>2, IdleSafe
<1>5. ASSUME NEW r \in Requests, Begin(r)
      PROVE  AllVetted' /\ \A q \in Requests : StatusSafe(q)
  <2>1. /\ results' = results /\ lost' = lost /\ call' = call
        /\ pc'[r] = "write" => Op(r) = "delete"
        /\ \A q \in Requests \ {r} : Place(q)' = Place(q)
    BY <1>5, FirstStepTyped DEF Begin, Place, Typed, TypeOK, Op
  <2>2. QED
    BY <1>3, <2>1
<1>6. ASSUME NEW r \in Requests, Check(r)
      PROVE  AllVetted' /\ \A q \in Requests : StatusSafe(q)
  <2>1. ASSUME NEW i \in Subjects(r, Current(r)),
               ~Refused(r, Current(r), i), Accept(r, Current(r), i)
        PROVE  AllVetted' /\ \A q \in Requests : StatusSafe(q)
    BY <1>1, <2>1, AcceptVetted, IdleSafe
  <2>2. QED
    BY <1>2, <1>6, <2>1 DEF Check
<1>7. ASSUME NEW r \in Requests, Insert(r)
      PROVE  AllVetted' /\ \A q \in Requests : StatusSafe(q)
  <2>1. PICK i \in Items, row \in Row : Put(r, i, row)
    BY <1>7, InsertPuts
  <2>2. QED
    BY <1>1, <1>7, <2>1, PutVetted, InsertStatus DEF AllVetted
<1>8. ASSUME NEW r \in Requests, Update(r)
      PROVE  AllVetted' /\ \A q \in Requests : StatusSafe(q)
  <2>1. CASE Present(Visible(r)[read[r].item])
    BY <1>1, <1>8, <2>1, UpdatePuts, PutVetted, UpdateStatus DEF AllVetted
  <2>2. CASE ~Present(Visible(r)[read[r].item])
    <3>1. CASE Fail(r)
      BY <1>2, <3>1
    <3>2. CASE ~Fail(r)
      <4>1. Thrown(r) /\ UNCHANGED <<call, own, read, lost>>
        BY <1>8, <2>2, <3>2 DEF Update
      <4>2. \A q \in Requests \ {r} : Place(q)' = Place(q)
        BY <4>1, ThrownMoves DEF Place
      <4>3. Vetted(r)' /\ StatusSafe(r)
        BY <4>1, ThrownVetted DEF StatusSafe, Written
      <4>4. QED
        BY <1>1, <4>2, <4>3
    <3>3. QED
      BY <3>1, <3>2
  <2>3. QED
    BY <2>1, <2>2
<1>9. ASSUME NEW r \in Requests, Delete(r)
      PROVE  AllVetted' /\ \A q \in Requests : StatusSafe(q)
  <2>1. Current(r).item \in Items /\ Deleted \in Row
    BY <1>9, CurrentTyped DEF Delete, Typed, Deleted, Row
  <2>2. QED
    BY <1>1, <1>2, <1>9, <2>1, PutVetted, DeleteStatus DEF Delete
<1>10. ASSUME NEW r \in Requests, DeadlockVictim(r)
       PROVE  AllVetted' /\ \A q \in Requests : StatusSafe(q)
  BY <1>2, <1>10 DEF DeadlockVictim
<1>11. ASSUME NEW r \in Requests, Finish(r) \/ FollowUp(r)
       PROVE  AllVetted' /\ \A q \in Requests : StatusSafe(q)
  <2>1. /\ results' = results /\ call' = call /\ pc'[r] = "done"
        /\ lost' = lost \/ ~More(r)
        /\ \A q \in Requests \ {r} : Place(q)' = Place(q)
    BY <1>11 DEF Finish, FollowUp, Place, Typed, TypeOK
  <2>2. QED
    BY <1>3, <2>1
<1>12. ASSUME UNCHANGED requests
       PROVE  AllVetted' /\ \A q \in Requests : StatusSafe(q)
  BY <1>12, VettedStays, IdleSafe DEF requests, Place, AllVetted
<1>13. ASSUME NEW r \in Requests, Throw(r)
       PROVE  AllVetted' /\ \A q \in Requests : StatusSafe(q)
  <2>1. /\ Thrown(r) /\ UNCHANGED <<call, read, lost>>
        /\ \A q \in Requests \ {r} : own'[q] = own[q]
    BY <1>13 DEF Throw, Typed
  <2>2. \A q \in Requests \ {r} : Place(q)' = Place(q)
    BY <2>1, ThrownMoves DEF Place
  <2>3. Vetted(r)' /\ StatusSafe(r)
    BY <2>1, ThrownVetted DEF StatusSafe, Written
  <2>4. QED
    BY <1>1, <2>2, <2>3
<1>14. QED
  BY <1>4, <1>5, <1>6, <1>7, <1>8, <1>9, <1>10, <1>11, <1>12, <1>13
     DEF Next, RequestStep, Decide, vars

LEMMA AlwaysVetted == Spec => [](Typed /\ SInv /\ AllVetted)
  BY InitTyped, InitSafe, InitVetted, StepTyped, StepSafe, StepStatus, PTL DEF Spec

\* A door that checks the workflow sets the status of a governed item only where
\* the item was changed between check and write, or where the caller names the
\* empty status, which no guard refuses: for any doors, calls and interleavings.
THEOREM GuardKept == Spec => StatusGuarded
<1>1. Typed /\ SInv /\ AllVetted /\ [Next]_vars =>
        [\A r \in Requests, i \in Items :
           Written(r) /\ "workflow" \in Checks(r) /\ Visible(r)'[i].type \in Governed
                      /\ Visible(r)'[i].status # Visible(r)[i].status
               => \/ Visible(r)[i].status = "unused" /\ Visible(r)'[i].status = "draft"
                  \/ Visible(r)'[i].status = "empty" /\ Current(r).status = "empty"
                  \/ Overtaken(r)]_vars
  BY StepStatus DEF StatusSafe
<1>2. QED
  BY <1>1, AlwaysVetted, PTL DEF Spec, StatusGuarded

\* An update that names no status keeps the status, whoever has set it meanwhile.
THEOREM StatusLeftAlone == Spec => UnnamedStatusKept
<1>1. Typed /\ SInv /\ AllVetted /\ [Next]_vars =>
        [\A r \in Requests, i \in Items :
           Written(r) /\ Op(r) # "delete" /\ Current(r).status = None /\ Present(Visible(r)[i])
               => \/ Visible(r)'[i].status = Visible(r)[i].status
                  \/ Op(r) = "global" /\ Overtaken(r)]_vars
  BY StepStatus DEF StatusSafe
<1>2. QED
  BY <1>1, AlwaysVetted, PTL DEF Spec, UnnamedStatusKept

-----------------------------------------------------------------------------
(* What a caller is told.                                                  *)

\* The one loop that goes on after a statement that threw.
GoesOnAfterThrow(r) == call[r].door.mode = "partial" /\ Op(r) = "create"

\* The outcomes a request has collected are those of its entries so far; those
\* of an atomic batch are all good, and applied together or not at all.
Tallied(r) ==
    /\ Len(results[r]) <= Len(call[r].entries)
    /\ pc[r] \in {"idle", "begin"} => results[r] = <<>>
    /\ pc[r] = "idle" => applied[r] = {} /\ lost[r] = {}
    /\ pc[r] = "follow" =>
         /\ Op(r) = "form" /\ ~Atomic(r)
         /\ Len(results[r]) = Len(call[r].entries)
    /\ Atomic(r) => Reported(r) = DOMAIN results[r] /\ (pc[r] # "done" => applied[r] = {})
    /\ ~Atomic(r) => applied[r] = Reported(r) \cup lost[r]
    /\ pc[r] # "done" /\ ~GoesOnAfterThrow(r) => lost[r] = {}

\* Until a request is done, its caller has been told nothing; then the truth.
Answered(r) ==
    /\ pc[r] # "done" => answer[r] = "none"
    /\ answer[r] = "refused" => applied[r] = lost[r]
    /\ answer[r] = "listed" =>
         /\ Len(results[r]) = Len(call[r].entries)
         /\ applied[r] = Reported(r) \cup lost[r]
    /\ answer[r] = "error" =>
         /\ ~Atomic(r) /\ ~GoesOnAfterThrow(r)
         /\ applied[r] = Reported(r) \cup lost[r]
         /\ lost[r] \subseteq {Len(results[r]) + 1}

Told(r) == Tallied(r) /\ Answered(r)

\* What ReportsTruthful needs to be inductive.
ToldInv == \A r \in Requests : Told(r)

\* What a request has been told of.
Tale(r) == <<call[r], pc[r], results[r], answer[r], applied[r], lost[r]>>

\* A request that does nothing has told the truth still.
LEMMA OthersTold ==
  ASSUME NEW q \in Requests, Told(q), Tale(q)' = Tale(q)
  PROVE  Told(q)'
<1>1. /\ call'[q] = call[q] /\ pc'[q] = pc[q] /\ results'[q] = results[q]
      /\ answer'[q] = answer[q] /\ applied'[q] = applied[q] /\ lost'[q] = lost[q]
  BY DEF Tale
<1>2. /\ (Op(q)' = Op(q)) /\ (Atomic(q)' <=> Atomic(q)) /\ (Reported(q)' = Reported(q))
      /\ (GoesOnAfterThrow(q)' <=> GoesOnAfterThrow(q))
  BY <1>1 DEF Op, Atomic, Reported, GoesOnAfterThrow
<1>3. Tallied(q)' /\ Answered(q)'
  BY <1>1, <1>2 DEF Told, Tallied, Answered
<1>4. QED
  BY <1>3 DEF Told

\* A step of one request: it is enough to look at the request.
LEMMA OneTells ==
  ASSUME ToldInv, NEW r \in Requests, Told(r)', \A q \in Requests \ {r} : Tale(q)' = Tale(q)
  PROVE  ToldInv'
BY OthersTold DEF ToldInv

\* A request of the same call, with the same outcomes.
LEMMA SameCall ==
  ASSUME NEW r \in Requests, call'[r] = call[r]
  PROVE  /\ (Op(r)' = Op(r)) /\ (Atomic(r)' <=> Atomic(r))
         /\ (GoesOnAfterThrow(r)' <=> GoesOnAfterThrow(r))
         /\ results'[r] = results[r] => Reported(r)' = Reported(r)
BY DEF Op, Atomic, GoesOnAfterThrow, Reported

\* The calls: one entry at a single door, and forms are single.
LEMMA CallShapes ==
  ASSUME Typed, NEW r \in Requests
  PROVE  /\ Len(call[r].entries) \in Nat
         /\ call[r].door.mode \in {"single", "partial", "atomic"}
         /\ More(r) => call[r] \in Calls
         /\ More(r) /\ call[r].door.mode = "single" => Len(call[r].entries) = 1 /\ results[r] = <<>>
         /\ More(r) /\ Op(r) = "form" => call[r].door.mode = "single"
<1>1. /\ call[r].door \in Door /\ Len(results[r]) \in Nat /\ results[r] \in Seq({"ok", "failed"})
      /\ call[r] \in Calls \/ call[r] = NoCall
  BY CurrentTyped DEF Typed, TypeOK
<1>2. Len(call[r].entries) \in Nat
  BY <1>1, NoCallTyped, CallsAssumption
<1>3. More(r) => call[r] \in Calls
  BY <1>1, NoCallTyped DEF More
<1>4. ASSUME More(r), call[r].door.mode = "single"
      PROVE  Len(call[r].entries) = 1 /\ results[r] = <<>>
  BY <1>1, <1>3, <1>4, CallsAssumption DEF More
<1>5. ASSUME NEW d \in Doors, d.op = "form" PROVE d.mode = "single"
  BY <1>5 DEF Doors, Single, Batch, RestCreate, RestCreateOfType, RestUpdate, RestDelete, RestGlobal,
     RestCreateBatch, RestUpdateBatch, RestDeleteBatch, PublicCreate, PublicUpdate, FormSubmit,
     GraphqlCreate, GraphqlUpdate, GraphqlDelete, GraphqlGlobal, GraphqlCreateBatch,
     GraphqlUpdateBatch, GraphqlDeleteBatch, McpCreate, McpUpdate, McpDelete, McpGlobal,
     McpCreateBatch, McpUpdateBatch, McpDeleteBatch
<1>6. QED
  BY <1>1, <1>2, <1>3, <1>4, <1>5, DoorsAssumption DEF Op, Door

\* One more outcome.
LEMMA OneMoreOutcome ==
  ASSUME NEW s \in Seq({"ok", "failed"}), NEW x \in {"ok", "failed"}
  PROVE  /\ Append(s, x) \in Seq({"ok", "failed"}) /\ Append(s, x) # <<>>
         /\ Len(Append(s, x)) = Len(s) + 1 /\ Len(s) \in Nat
         /\ DOMAIN Append(s, x) = DOMAIN s \cup {Len(s) + 1}
         /\ {k \in DOMAIN Append(s, x) : Append(s, x)[k] = "ok"} =
              {k \in DOMAIN s : s[k] = "ok"} \cup (IF x = "ok" THEN {Len(s) + 1} ELSE {})
<1>1. /\ Len(Append(s, x)) = Len(s) + 1 /\ Len(s) \in Nat
      /\ DOMAIN Append(s, x) = 1..Len(s) + 1 /\ DOMAIN s = 1..Len(s)
      /\ \A k \in 1..Len(s) : Append(s, x)[k] = s[k]
      /\ Append(s, x)[Len(s) + 1] = x
      /\ Append(s, x) \in Seq({"ok", "failed"})
  OBVIOUS
<1>2. 1..Len(s) + 1 = 1..Len(s) \cup {Len(s) + 1}
  BY <1>1
<1>3. Append(s, x) # <<>>
  BY <1>1
<1>4. QED
  BY <1>1, <1>2, <1>3

\* An entry that failed is one more outcome, and nothing else.
LEMMA FailedTold ==
  ASSUME Typed, ToldInv, NEW r \in Requests, More(r), ~Atomic(r), pc[r] # "done",
         pc'[r] \in {"check", "write"}, call'[r] = call[r], answer'[r] = answer[r],
         results'[r] = Append(results[r], "failed"),
         applied'[r] = Reported(r) \cup lost'[r], GoesOnAfterThrow(r) \/ lost'[r] = {}
  PROVE  Told(r)'
<1>1. Told(r) /\ results[r] \in Seq({"ok", "failed"}) /\ Len(results[r]) \in Nat
  BY DEF ToldInv, Typed, TypeOK
<1>2. Reported(r)' = Reported(r) /\ Len(results'[r]) = Len(results[r]) + 1
  BY <1>1, OneMoreOutcome DEF Reported
<1>3. Len(results'[r]) <= Len(call'[r].entries)
  BY <1>1, <1>2, CallShapes DEF More
<1>4. applied'[r] = Reported(r)' \cup lost'[r]
  BY <1>2
<1>5. Tallied(r)'
  BY <1>1, <1>3, <1>4, SameCall DEF Tallied
<1>6. Answered(r)'
  BY <1>1 DEF Told, Answered
<1>7. QED
  BY <1>5, <1>6 DEF Told

\* A call that ends in a refusal or an error, with what it has written before
\* and, at most, a write whose commit nobody confirmed.
LEMMA EndTold ==
  ASSUME Typed, ToldInv, NEW r \in Requests, pc[r] # "done", pc'[r] = "done",
         call'[r] = call[r], results'[r] = results[r],
         \/ Atomic(r) /\ UNCHANGED <<applied[r], lost[r]>> /\ answer'[r] = "refused"
         \/ /\ ~Atomic(r) /\ ~GoesOnAfterThrow(r) /\ answer'[r] = "error"
            /\ lost'[r] \subseteq {Len(results[r]) + 1}
            /\ applied'[r] = applied[r] \cup lost'[r]
         \/ /\ ~Atomic(r) /\ ~GoesOnAfterThrow(r) /\ answer'[r] = "refused"
            /\ results[r] = <<>> /\ UNCHANGED <<applied[r], lost[r]>>
  PROVE  Told(r)'
<1>1. Tallied(r) /\ Answered(r)
  BY DEF ToldInv, Told
<1>2. ~GoesOnAfterThrow(r)
  BY DEF Atomic, GoesOnAfterThrow
<1>3. lost[r] = {}
  BY <1>1, <1>2 DEF Tallied
<1>4. results[r] = <<>> => Reported(r) = {}
  BY DEF Reported
<1>5. /\ Atomic(r) => applied'[r] = {} /\ lost'[r] = {}
      /\ ~Atomic(r) => applied'[r] = Reported(r) \cup lost'[r]
  BY <1>1, <1>3 DEF Tallied
<1>6. answer'[r] = "refused" => applied'[r] = lost'[r]
  BY <1>1, <1>3, <1>4, <1>5 DEF Tallied
<1>7. Tallied(r)'
  BY <1>1, <1>5, SameCall DEF Tallied
<1>8. Answered(r)'
  BY <1>2, <1>5, <1>6, SameCall DEF Answered
<1>9. QED
  BY <1>7, <1>8 DEF Told

\* An entry that fails: its call is refused with nothing applied, or it is
\* reported as failed.
LEMMA FailTold ==
  ASSUME Typed, ToldInv, NEW r \in Requests, pc[r] \in {"check", "write"}, More(r), Fail(r)
  PROVE  ToldInv'
<1>1. /\ \A q \in Requests \ {r} : Tale(q)' = Tale(q)
      /\ UNCHANGED <<call, applied, lost>>
  BY DEF Fail, Tale, Typed, TypeOK
<1>2. Told(r)
  BY DEF ToldInv
<1>3. CASE call[r].door.mode = "partial"
  <2>1. /\ results'[r] = Append(results[r], "failed") /\ pc'[r] \in {"check", "write"}
        /\ answer'[r] = answer[r] /\ ~Atomic(r)
    BY <1>3, FirstStepTyped DEF Fail, Typed, TypeOK, Atomic
  <2>2. applied[r] = Reported(r) \cup lost[r] /\ (GoesOnAfterThrow(r) \/ lost[r] = {})
    BY <1>2, <2>1 DEF Told, Tallied
  <2>3. Told(r)'
    BY <1>1, <2>1, <2>2, FailedTold
  <2>4. QED
    BY <1>1, <2>3, OneTells
<1>4. CASE call[r].door.mode # "partial"
  <2>1. /\ results'[r] = results[r] /\ pc'[r] = "done" /\ answer'[r] = "refused"
        /\ ~GoesOnAfterThrow(r)
    BY <1>4 DEF Fail, Typed, TypeOK, GoesOnAfterThrow
  <2>2. ~Atomic(r) => results[r] = <<>>
    BY <1>4, CallShapes DEF Atomic
  <2>3. Told(r)'
    BY <1>1, <2>1, <2>2, EndTold
  <2>4. QED
    BY <1>1, <2>3, OneTells
<1>5. QED
  BY <1>3, <1>4

\* A statement that throws, with nothing written that nobody confirmed, or one entry.
LEMMA ThrownTold ==
  ASSUME Typed, ToldInv, NEW r \in Requests, Thrown(r), call'[r] = call[r],
         pc[r] \in {"begin", "check", "write"}, More(r) \/ Atomic(r),
         \/ UNCHANGED <<applied[r], lost[r]>>
         \/ /\ ~Atomic(r)
            /\ applied'[r] = applied[r] \cup {Len(results[r]) + 1}
            /\ lost'[r] = lost[r] \cup {Len(results[r]) + 1}
  PROVE  Told(r)'
<1>1. Tallied(r)
  BY DEF ToldInv, Told
<1>2. CASE GoesOnAfterThrow(r)
  <2>1. /\ results'[r] = Append(results[r], "failed") /\ pc'[r] \in {"check", "write"}
        /\ answer'[r] = answer[r] /\ ~Atomic(r)
    BY <1>2, FirstStepTyped DEF Thrown, GoesOnAfterThrow, Typed, TypeOK, Atomic
  <2>2. applied'[r] = Reported(r) \cup lost'[r]
    BY <1>1, <2>1 DEF Tallied
  <2>3. QED
    BY <1>2, <2>1, <2>2, FailedTold
<1>3. CASE ~GoesOnAfterThrow(r)
  <2>1. /\ results'[r] = results[r] /\ pc'[r] = "done"
        /\ answer'[r] = IF Atomic(r) THEN "refused" ELSE "error"
    BY <1>3 DEF Thrown, GoesOnAfterThrow, Typed, TypeOK
  <2>2. lost[r] = {}
    BY <1>1, <1>3 DEF Tallied
  <2>3. /\ lost'[r] \subseteq {Len(results[r]) + 1}
        /\ applied'[r] = applied[r] \cup lost'[r]
    BY <2>2
  <2>4. QED
    BY <1>3, <2>1, <2>3, EndTold
<1>4. QED
  BY <1>2, <1>3

LEMMA ThrowTold ==
  ASSUME Typed, ToldInv, NEW r \in Requests, Throw(r)
  PROVE  ToldInv'
<1>1. /\ Thrown(r) /\ UNCHANGED <<call, applied, lost>>
      /\ pc[r] \in {"begin", "check", "write"} /\ (More(r) \/ Atomic(r))
  BY DEF Throw
<1>2. \A q \in Requests \ {r} : Tale(q)' = Tale(q)
  BY <1>1, ThrownMoves DEF Tale
<1>3. Told(r)'
  BY <1>1, ThrownTold
<1>4. QED
  BY <1>2, <1>3, OneTells

\* An entry that is written: it is reported, and applied now or at the commit; or
\* it is applied and nobody knows.
LEMMA PutTold ==
  ASSUME Typed, ToldInv, NEW r \in Requests, NEW i, NEW row,
         pc[r] = "write", More(r), Put(r, i, row)
  PROVE  ToldInv'
<1>1. /\ \A q \in Requests \ {r} : applied'[q] = applied[q]
      /\ call' = call /\ (Confirmed(r) \/ Unconfirmed(r))
      /\ applied'[r] = IF Atomic(r) THEN applied[r] ELSE applied[r] \cup {Len(results[r]) + 1}
  BY DEF Put, Typed, TypeOK
<1>2. \A q \in Requests \ {r} : Tale(q)' = Tale(q)
  BY <1>1, PutMoves DEF Place, Tale
<1>3. CASE Confirmed(r)
  <2>1. Told(r) /\ results[r] \in Seq({"ok", "failed"}) /\ Len(results[r]) \in Nat
    BY DEF ToldInv, Typed, TypeOK
  <2>2. /\ results'[r] = Append(results[r], "ok") /\ UNCHANGED <<answer, lost>>
        /\ pc'[r] = IF Op(r) = "form" THEN "follow" ELSE FirstStep(call[r])
    BY <1>3 DEF Confirmed, Typed, TypeOK
  <2>3. /\ Reported(r)' = Reported(r) \cup {Len(results[r]) + 1}
        /\ DOMAIN results'[r] = DOMAIN results[r] \cup {Len(results[r]) + 1}
        /\ Len(results'[r]) = Len(results[r]) + 1
    BY <2>1, <2>2, OneMoreOutcome DEF Reported
  <2>4. Len(results'[r]) <= Len(call'[r].entries)
    BY <1>1, <2>1, <2>3, CallShapes DEF More
  <2>5. ASSUME Op(r) = "form"
        PROVE  ~Atomic(r) /\ Len(results'[r]) = Len(call'[r].entries)
    <3>1. call[r].door.mode = "single"
      BY <2>5, CallShapes
    <3>2. Len(call[r].entries) = 1 /\ results[r] = <<>>
      BY <3>1, CallShapes
    <3>3. Len(results[r]) = 0
      BY <3>2
    <3>4. QED
      BY <1>1, <2>3, <3>1, <3>2, <3>3 DEF Atomic
  <2>6. FirstStep(call[r]) \in {"check", "write"}
    BY FirstStepTyped
  <2>7. Tallied(r)'
    BY <1>1, <2>1, <2>2, <2>3, <2>4, <2>5, <2>6, SameCall DEF Told, Tallied
  <2>8. Answered(r)'
    BY <2>1, <2>2, <2>6 DEF Told, Answered
  <2>9. QED
    BY <1>2, <2>7, <2>8, OneTells DEF Told
<1>4. CASE Unconfirmed(r)
  <2>1. /\ ~Atomic(r) /\ Thrown(r)
        /\ lost'[r] = lost[r] \cup {Len(results[r]) + 1}
    BY <1>4 DEF Unconfirmed, Typed, TypeOK
  <2>2. Told(r)'
    BY <1>1, <2>1, ThrownTold
  <2>3. QED
    BY <1>2, <2>2, OneTells
<1>5. QED
  BY <1>1, <1>3, <1>4

\* A request that goes on, with nothing written and nothing said.
LEMMA GoesOnTold ==
  ASSUME Typed, ToldInv, NEW r \in Requests, pc'[r] \in {"check", "write"}, pc[r] # "done",
         UNCHANGED <<call, results, answer, applied, lost>>,
         \A q \in Requests \ {r} : pc'[q] = pc[q]
  PROVE  ToldInv'
<1>1. /\ (Op(r)' = Op(r)) /\ (Atomic(r)' <=> Atomic(r)) /\ (Reported(r)' = Reported(r))
      /\ (GoesOnAfterThrow(r)' <=> GoesOnAfterThrow(r))
  BY SameCall
<1>2. Tallied(r)' /\ Answered(r)'
  BY <1>1 DEF ToldInv, Told, Tallied, Answered
<1>3. QED
  BY <1>2, OneTells DEF Told, Tale

\* A call that arrives.
LEMMA ReceiveTold ==
  ASSUME Typed, ToldInv, NEW r \in Requests, Receive(r)
  PROVE  ToldInv'
<1>1. PICK c \in Calls : /\ call' = [call EXCEPT ![r] = c]
                        /\ pc' = [pc EXCEPT ![r] = IF c.door.mode = "atomic" THEN "begin"
                                                  ELSE FirstStep(c)]
  BY DEF Receive
<1>2. /\ UNCHANGED <<results, answer, applied, lost>> /\ pc[r] = "idle"
      /\ call'[r] = c /\ pc'[r] \in {"begin", "check", "write"}
      /\ \A q \in Requests \ {r} : Tale(q)' = Tale(q)
  BY <1>1, FirstStepTyped DEF Receive, Tale, Typed, TypeOK
<1>3. results[r] = <<>> /\ applied[r] = {} /\ lost[r] = {} /\ answer[r] = "none"
  BY <1>2 DEF ToldInv, Told, Tallied, Answered
<1>4. c.entries \in Seq(Entry) /\ Len(c.entries) \in Nat
  BY CallsAssumption
<1>5. DOMAIN results'[r] = {} /\ Len(results'[r]) = 0
  BY <1>2, <1>3
<1>6. Reported(r)' = {}
  BY <1>5 DEF Reported
<1>7. Tallied(r)'
  BY <1>2, <1>3, <1>4, <1>5, <1>6 DEF Tallied
<1>8. Answered(r)'
  BY <1>2, <1>3 DEF Answered
<1>9. QED
  BY <1>2, <1>7, <1>8, OneTells DEF Told

\* An update writes the item, or finds it deleted, and then throws or fails.
LEMMA UpdateTold ==
  ASSUME Typed, ToldInv, NEW r \in Requests, Update(r)
  PROVE  ToldInv'
<1>1. PICK i : i = read[r].item
  OBVIOUS
<1>2. pc[r] = "write" /\ More(r)
  BY DEF Update
<1>3. CASE Present(Visible(r)[i])
  <2>1. Put(r, i, Updated(r, Current(r), Visible(r)[i]))
    BY <1>1, <1>3, UpdatePuts
  <2>2. QED
    BY <1>2, <2>1, PutTold
<1>4. CASE ~Present(Visible(r)[i])
  <2>1. CASE Fail(r)
    BY <1>2, <2>1, FailTold
  <2>2. CASE ~Fail(r)
    <3>1. Thrown(r) /\ UNCHANGED <<call, applied, lost>>
      BY <1>1, <1>4, <2>2 DEF Update
    <3>2. \A q \in Requests \ {r} : Tale(q)' = Tale(q)
      BY <3>1, ThrownMoves DEF Tale
    <3>3. Told(r)'
      BY <1>2, <3>1, ThrownTold
    <3>4. QED
      BY <3>2, <3>3, OneTells
  <2>3. QED
    BY <2>1, <2>2
<1>5. QED
  BY <1>3, <1>4

\* The end of the loop: what was collected is what was written, and what a lost
\* confirmation hides is the whole batch.
LEMMA FinishTold ==
  ASSUME Typed, ToldInv, NEW r \in Requests, Finish(r)
  PROVE  ToldInv'
<1>1. /\ UNCHANGED <<call, results>> /\ pc[r] # "done" /\ ~More(r)
      /\ pc'[r] = "done"
      /\ \A q \in Requests \ {r} : Tale(q)' = Tale(q)
      /\ applied'[r] = IF Atomic(r) THEN DOMAIN results[r] ELSE applied[r]
      /\ \/ answer'[r] = "listed" /\ lost'[r] = lost[r]
         \/ Atomic(r) /\ answer'[r] = "refused" /\ lost'[r] = DOMAIN results[r]
  BY DEF Finish, Tale, Typed, TypeOK
<1>2. Tallied(r)
  BY DEF ToldInv, Told
<1>3. /\ Atomic(r) => Reported(r) = DOMAIN results[r]
      /\ ~Atomic(r) => applied[r] = Reported(r) \cup lost[r]
      /\ Atomic(r) => lost[r] = {}
  BY <1>1, <1>2 DEF Tallied, Atomic, GoesOnAfterThrow
<1>4. answer'[r] = "listed" => applied'[r] = Reported(r) \cup lost'[r]
  BY <1>1, <1>3
<1>5. Len(results[r]) = Len(call[r].entries)
  <2>1. Len(results[r]) \in Nat /\ Len(call[r].entries) \in Nat
    BY CurrentTyped, CallShapes DEF Typed
  <2>2. Len(results[r]) <= Len(call[r].entries) /\ ~(Len(results[r]) < Len(call[r].entries))
    BY <1>1, <1>2 DEF Tallied, More
  <2>3. QED
    BY <2>1, <2>2
<1>6. Tallied(r)'
  BY <1>1, <1>2, <1>3, SameCall DEF Tallied
<1>7. Answered(r)'
  BY <1>1, <1>4, <1>5, SameCall DEF Answered
<1>8. QED
  BY <1>1, <1>6, <1>7, OneTells DEF Told

\* What follows a form may fail, with the item inserted.
LEMMA FollowUpTold ==
  ASSUME Typed, ToldInv, NEW r \in Requests, FollowUp(r)
  PROVE  ToldInv'
<1>1. /\ UNCHANGED <<call, results, applied, lost>>
      /\ pc[r] = "follow" /\ pc'[r] = "done" /\ answer'[r] \in {"listed", "error"}
      /\ \A q \in Requests \ {r} : Tale(q)' = Tale(q)
  BY DEF FollowUp, Tale, Typed, TypeOK
<1>2. Tallied(r) /\ ~Atomic(r) /\ ~GoesOnAfterThrow(r)
  BY <1>1 DEF ToldInv, Told, Tallied, GoesOnAfterThrow
<1>3. lost[r] = {} /\ applied[r] = Reported(r) /\ Len(results[r]) = Len(call[r].entries)
  BY <1>1, <1>2 DEF Tallied
<1>4. Tallied(r)'
  BY <1>1, <1>2, SameCall DEF Tallied
<1>5. Answered(r)'
  BY <1>1, <1>2, <1>3, SameCall DEF Answered
<1>6. QED
  BY <1>1, <1>4, <1>5, OneTells DEF Told

\* Nothing has been told before any call.
LEMMA InitTold == Init => ToldInv
<1> SUFFICES ASSUME Init, NEW r \in Requests PROVE Told(r)
  BY DEF ToldInv
<1>1. /\ call[r] = NoCall /\ pc[r] = "idle" /\ results[r] = <<>> /\ applied[r] = {}
      /\ answer[r] = "none" /\ lost[r] = {}
  BY DEF Init
<1>2. Reported(r) = {} /\ DOMAIN results[r] = {} /\ Len(results[r]) = 0
  BY <1>1 DEF Reported
<1>3. Len(call[r].entries) = 0
  BY <1>1, NoCallTyped
<1>4. Tallied(r) /\ Answered(r)
  BY <1>1, <1>2, <1>3 DEF Tallied, Answered
<1>5. QED
  BY <1>4 DEF Told

\* Every step tells the truth.
LEMMA StepTold == Typed /\ ToldInv /\ [Next]_vars => ToldInv'
<1> SUFFICES ASSUME Typed, ToldInv, [Next]_vars PROVE ToldInv'
  OBVIOUS
<1>1. ASSUME NEW r \in Requests, Begin(r) PROVE ToldInv'
  <2>1. /\ UNCHANGED <<call, results, answer, applied, lost>> /\ pc[r] = "begin"
        /\ pc'[r] \in {"check", "write"}
        /\ \A q \in Requests \ {r} : pc'[q] = pc[q]
    BY <1>1, FirstStepTyped DEF Begin, Typed, TypeOK
  <2>2. QED
    BY <2>1, GoesOnTold
<1>2. ASSUME NEW r \in Requests, Check(r) PROVE ToldInv'
  <2>1. pc[r] = "check" /\ More(r)
    BY <1>2 DEF Check
  <2>2. CASE Fail(r)
    BY <2>1, <2>2, FailTold
  <2>3. ASSUME NEW i, Accept(r, Current(r), i) PROVE ToldInv'
    <3>1. /\ UNCHANGED <<call, results, answer, applied, lost>> /\ pc'[r] = "write"
          /\ \A q \in Requests \ {r} : pc'[q] = pc[q]
      BY <2>3 DEF Accept, Typed, TypeOK
    <3>2. QED
      BY <2>1, <3>1, GoesOnTold
  <2>4. QED
    BY <1>2, <2>2, <2>3 DEF Check
<1>3. ASSUME NEW r \in Requests, DeadlockVictim(r) PROVE ToldInv'
  <2>1. pc[r] = "write" /\ More(r)
    BY <1>3 DEF DeadlockVictim, Blocks
  <2>2. QED
    BY <1>3, <2>1, FailTold DEF DeadlockVictim
<1>4. ASSUME NEW r \in Requests, Insert(r) PROVE ToldInv'
  <2>1. pc[r] = "write" /\ More(r)
    BY <1>4 DEF Insert
  <2>2. QED
    BY <1>4, <2>1, InsertPuts, PutTold
<1>5. ASSUME NEW r \in Requests, Delete(r) PROVE ToldInv'
  <2>1. pc[r] = "write" /\ More(r)
    BY <1>5 DEF Delete
  <2>2. QED
    BY <1>5, <2>1, PutTold, FailTold DEF Delete
<1>6. ASSUME UNCHANGED requests PROVE ToldInv'
  <2>1. \A q \in Requests : Tale(q)' = Tale(q)
    BY <1>6 DEF requests, Tale
  <2>2. QED
    BY <2>1, OthersTold DEF ToldInv
<1>7. QED
  BY <1>1, <1>2, <1>3, <1>4, <1>5, <1>6, ReceiveTold, UpdateTold, FinishTold,
     FollowUpTold, ThrowTold DEF Next, RequestStep, Decide, vars

\* What a caller is told is what happened, but for commits nobody confirmed: for
\* any calls of the doors, any number of requests and of statements that fail, and
\* rows that others write or delete meanwhile.
THEOREM AnswersTrue == Spec => []ReportsTruthful
<1>1. ToldInv => ReportsTruthful
  BY DEF ToldInv, Told, Answered, GoesOnAfterThrow, ReportsTruthful
<1>2. QED
  BY <1>1, InitTyped, InitTold, StepTyped, StepTold, PTL DEF Spec
=============================================================================
