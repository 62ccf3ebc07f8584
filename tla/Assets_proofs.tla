---------------------------- MODULE Assets_proofs ------------------------------
(***************************************************************************)
(* Proofs about Assets for any rows, keys, items, types, clients, faults.  *)
(*                                                                         *)
(* The three properties rest on what a purge knows at each of its steps:   *)
(* the row it is about is the one with its key; an active row with a key   *)
(* that is about to be removed is excused; past the look for derivatives,  *)
(* current and historical references there are none but excused ones.  And *)
(* an upload through the server is alone with its key until its insert; a  *)
(* row it has inserted without knowing is excused.                         *)
(***************************************************************************)
EXTENDS Assets, TLAPS

USE NoneAssumption, FaultsAssumption

PurgeSteps == {"derivatives", "types", "current", "history", "remove", "drop"}
Storing    == {"insert", "cleanup"}

KeysUnique ==
    \A q, r \in Rows : Exists(q) /\ Exists(r) /\ rows[q].key = rows[r].key => q = r

KeysGiven ==
    /\ \A r \in Rows : Exists(r) => rows[r].key \in Keys /\ origin[rows[r].key] # "fresh"
    /\ \A t \in tokens : origin[t.key] = "direct"

\* An upload through the server has a key to itself, a completion that of a token,
\* a write the type its item is to have.
Holds(c) ==
    /\ pc[c] = "finalize" => job[c].key \in Keys /\ origin[job[c].key] = "direct"
    /\ pc[c] \in Storing =>
           /\ job[c].key \in Keys /\ origin[job[c].key] = "server"
           /\ \A r \in Rows : Exists(r) /\ rows[r].key = job[c].key =>
                  pc[c] = "cleanup" /\ <<"object", r>> \in excused
    /\ pc[c] = "commit" => job[c].type \in Types

Alone ==
    \A c, d \in Clients :
        pc[c] \in Storing /\ pc[d] \in Storing /\ job[d].key = job[c].key => d = c

\* What a purge knows of its row and its key.
Knows(c) ==
    pc[c] \in PurgeSteps =>
        /\ job[c].row \in Rows /\ rows[job[c].row].status # "unused"
        /\ job[c].key \in Keys /\ origin[job[c].key] # "fresh"
        /\ Exists(job[c].row) => rows[job[c].row].key = job[c].key
        /\ pc[c] = "drop" /\ origin[job[c].key] = "server" => job[c].key \notin objects

\* Whatever is active again while its object is about to go is excused.
RemovalExcused(c) ==
    pc[c] \in Removing =>
        \A r \in Rows : Active(r) /\ rows[r].key = job[c].key => <<"object", r>> \in excused

\* What has been looked for and not found is excused if it is there.
NotFound(c) ==
    /\ pc[c] \in PastDerivatives =>
           \A q \in Rows : Exists(q) /\ rows[q].source = job[c].row => <<"source", q>> \in excused
    /\ pc[c] \in PastCurrent =>
           \A i \in Items : current[i] = job[c].row => Overlooked(job[c].row)
    /\ pc[c] \in {"remove", "drop"} =>
           \A i \in Items : job[c].row \in history[i] => Overlooked(job[c].row)

CallInv(c) == Holds(c) /\ Knows(c) /\ RemovalExcused(c) /\ NotFound(c)

Inv ==
    /\ TypeOK /\ KeysUnique /\ KeysGiven /\ Alone
    /\ ActiveHasObject /\ NoOrphanObject /\ NothingLeftDangling
    /\ \A c \in Clients : CallInv(c)

USE DEF content, Overlooked, PurgeSteps, Storing, Removing, PastDerivatives, PastCurrent

LEMMA JobTyped ==
  ASSUME TypeOK, NEW c \in Clients
  PROVE  /\ pc[c] \in Steps /\ job[c] \in Job
         /\ job[c].row \in Rows \cup {None} /\ job[c].key \in Keys \cup {None}
         /\ job[c].source \in Rows \cup {None} /\ job[c].item \in Items \cup {None}
         /\ job[c].type \in Types \cup {None} /\ job[c].seen \subseteq Types
BY DEF TypeOK, Job

LEMMA NoJobTyped == NoJob \in Job /\ NoJob.key = None /\ NoJob.row = None
BY DEF NoJob, Job

\* The end of a call keeps the types and forgets the job.
LEMMA CallEnds ==
  ASSUME TypeOK, NEW c \in Clients, EndCall(c)
  PROVE  /\ pc' \in [Clients -> Steps] /\ job' \in [Clients -> Job]
         /\ pc'[c] = "idle"
         /\ \A d \in Clients \ {c} : pc'[d] = pc[d] /\ job'[d] = job[d]
         /\ \A d \in Clients : pc'[d] # "idle" => pc'[d] = pc[d] /\ job'[d] = job[d]
BY NoJobTyped DEF EndCall, Goto, TypeOK, Steps

\* A row is inserted with the key and the source of the call.
LEMMA Persisted ==
  ASSUME TypeOK, NEW c \in Clients, NEW answer, Persist(c, answer)
  PROVE  \E r \in Rows :
           /\ rows[r].status = "unused"
           /\ rows' = [rows EXCEPT ![r] =
                  [status |-> "active", key |-> job[c].key, source |-> job[c].source,
                   variant |-> job[c].source # None]]
           /\ rows' \in [Rows -> Row]
           /\ excused \subseteq excused' /\ excused' \subseteq Kinds \X Rows
           /\ job[c].source # None /\ Purging(job[c].source, PastDerivatives) =>
                  <<"source", r>> \in excused'
           /\ answer = "lost" \/ job[c].key \notin objects \/ PurgingKey(job[c].key, Removing) =>
                  <<"object", r>> \in excused'
<1> DEFINE r == CHOOSE r \in FreshRows : TRUE
<1>1. r \in Rows /\ rows[r].status = "unused"
  BY DEF Persist, FreshRows
<1>2. rows' = [rows EXCEPT ![r] =
          [status |-> "active", key |-> job[c].key, source |-> job[c].source,
           variant |-> job[c].source # None]]
  BY DEF Persist
<1>3. [status |-> "active", key |-> job[c].key, source |-> job[c].source,
       variant |-> job[c].source # None] \in Row
  BY JobTyped DEF Row
<1>4. rows' \in [Rows -> Row]
  BY <1>1, <1>2, <1>3 DEF TypeOK
<1>5. excused' = excused
          \cup (IF job[c].source # None /\ Purging(job[c].source, PastDerivatives)
                THEN {<<"source", r>>} ELSE {})
          \cup (IF answer = "lost" \/ job[c].key \notin objects \/ PurgingKey(job[c].key, Removing)
                THEN {<<"object", r>>} ELSE {})
  BY DEF Persist, Purging, PurgingKey
<1> HIDE DEF r
<1>6. excused \subseteq excused' /\ excused' \subseteq Kinds \X Rows
  <2>1. <<"source", r>> \in Kinds \X Rows /\ <<"object", r>> \in Kinds \X Rows
    BY <1>1 DEF Kinds
  <2>2. excused \subseteq Kinds \X Rows
    BY DEF TypeOK
  <2>3. QED
    BY <1>5, <2>1, <2>2
<1>7. /\ job[c].source # None /\ Purging(job[c].source, PastDerivatives) =>
             <<"source", r>> \in excused'
      /\ answer = "lost" \/ job[c].key \notin objects \/ PurgingKey(job[c].key, Removing) =>
             <<"object", r>> \in excused'
  BY <1>5
<1>8. QED
  BY <1>1, <1>2, <1>4, <1>6, <1>7

\* A key is chosen among those not given out.
LEMMA FreshKey ==
  ASSUME FreshKeys # {}
  PROVE  LET k == CHOOSE k \in FreshKeys : TRUE IN k \in Keys /\ origin[k] = "fresh"
BY DEF FreshKeys

LEMMA InitInv == Init => Inv
<1> SUFFICES ASSUME Init PROVE Inv
  OBVIOUS
<1>1. TypeOK
  BY NoJobTyped DEF Init, TypeOK, Row, Unused, Steps
<1>2. \A r \in Rows : ~Exists(r) /\ ~Active(r)
  BY DEF Init, Exists, Active, Unused
<1>3. \A c \in Clients : pc[c] = "idle"
  BY DEF Init
<1>4. KeysUnique /\ KeysGiven /\ Alone /\ \A c \in Clients : CallInv(c)
  BY <1>2, <1>3 DEF Init, KeysUnique, KeysGiven, Alone, CallInv, Holds, Knows,
     RemovalExcused, NotFound
<1>5. ActiveHasObject /\ NoOrphanObject /\ NothingLeftDangling
  BY <1>2 DEF Init, ActiveHasObject, NoOrphanObject, NothingLeftDangling
<1>6. QED
  BY <1>1, <1>4, <1>5 DEF Inv

\* A step that only changes the call of one client.
LEMMA Moves ==
  ASSUME Inv, NEW c \in Clients, TypeOK',
         UNCHANGED <<rows, objects, origin, tokens, current, history, type, fields>>,
         excused \subseteq excused',
         lost \subseteq lost',
         \A d \in Clients \ {c} : pc'[d] = pc[d] /\ job'[d] = job[d],
         CallInv(c)',
         pc'[c] \in Storing => pc[c] \in Storing /\ job'[c].key = job[c].key,
         pc[c] \in Storing /\ pc'[c] \notin Storing => job[c].key \in lost'
  PROVE  Inv'
<1>1. KeysUnique' /\ KeysGiven'
  BY DEF Inv, KeysUnique, KeysGiven, Exists
<1>2. Alone'
  BY DEF Inv, Alone
<1>3. ActiveHasObject' /\ NothingLeftDangling'
  BY DEF Inv, ActiveHasObject, NothingLeftDangling, Active, Exists
<1>4. NoOrphanObject'
  BY DEF Inv, NoOrphanObject, KeyTaken, Exists
<1>5. ASSUME NEW d \in Clients, d # c PROVE CallInv(d)'
  <2>1. pc'[d] = pc[d] /\ job'[d] = job[d] /\ CallInv(d)
    BY <1>5 DEF Inv
  <2>2. Holds(d)' /\ Knows(d)'
    BY <2>1 DEF CallInv, Holds, Knows, Exists
  <2>3. RemovalExcused(d)' /\ NotFound(d)'
    BY <2>1 DEF CallInv, RemovalExcused, NotFound, Exists, Active
  <2>4. QED
    BY <2>2, <2>3 DEF CallInv
<1>6. QED
  BY <1>1, <1>2, <1>3, <1>4, <1>5 DEF Inv

\* An idle client knows nothing.
LEMMA IdleInv ==
  ASSUME NEW c \in Clients, pc'[c] = "idle"
  PROVE  CallInv(c)'
BY DEF CallInv, Holds, Knows, RemovalExcused, NotFound

\* A row is inserted: its key had none, and no upload but the caller's has it.  The
\* call ends, or, if it does not know, goes on to remove the object.
LEMMA PersistKeeps ==
  ASSUME Inv, NEW c \in Clients, NEW answer, Persist(c, answer),
         pc[c] \in {"insert", "finalize"}, ~KeyTaken(job[c].key),
         \/ EndCall(c)
         \/ Goto(c, "cleanup") /\ UNCHANGED job /\ pc[c] = "insert" /\ answer = "lost",
         faults' \in 0..MaxFaults,
         UNCHANGED <<objects, origin, tokens, content, lost>>
  PROVE  Inv'
<1> DEFINE k == job[c].key
           s == job[c].source
<1>1. PICK r \in Rows :
        /\ rows[r].status = "unused"
        /\ rows' = [rows EXCEPT ![r] =
               [status |-> "active", key |-> k, source |-> s, variant |-> s # None]]
        /\ rows' \in [Rows -> Row]
        /\ excused \subseteq excused' /\ excused' \subseteq Kinds \X Rows
        /\ s # None /\ Purging(s, PastDerivatives) => <<"source", r>> \in excused'
        /\ answer = "lost" \/ k \notin objects \/ PurgingKey(k, Removing) => <<"object", r>> \in excused'
  <2>1. TypeOK
    BY DEF Inv
  <2>2. QED
    BY <2>1, Persisted
<1>2. /\ pc' \in [Clients -> Steps] /\ job' \in [Clients -> Job]
      /\ \A d \in Clients \ {c} : pc'[d] = pc[d] /\ job'[d] = job[d]
      /\ \/ pc'[c] = "idle"
         \/ pc'[c] = "cleanup" /\ job' = job /\ pc[c] = "insert" /\ answer = "lost"
  <2>1. CASE EndCall(c)
    BY <2>1, CallEnds DEF Inv
  <2>2. CASE Goto(c, "cleanup") /\ UNCHANGED job /\ pc[c] = "insert" /\ answer = "lost"
    BY <2>2 DEF Inv, TypeOK, Goto, Steps
  <2>3. QED
    BY <2>1, <2>2
<1>3. /\ \A q \in Rows \ {r} : rows'[q] = rows[q]
      /\ rows'[r].status = "active" /\ rows'[r].key = k /\ rows'[r].source = s
      /\ rows'[r].variant = (s # None)
  BY <1>1 DEF Inv, TypeOK
<1>4. k \in Keys /\ origin[k] # "fresh" /\ \A q \in Rows : Exists(q) => rows[q].key # k
  BY DEF Inv, CallInv, Holds, KeyTaken
<1>5. \A q \in Rows : Exists(q)' <=> q = r \/ Exists(q)
  BY <1>1, <1>3 DEF Exists
<1>6. \A q \in Rows : Active(q)' <=> q = r \/ Active(q)
  BY <1>1, <1>3 DEF Active
<1>7. TypeOK'
  BY <1>1, <1>2 DEF Inv, TypeOK
<1>8. KeysUnique' /\ KeysGiven'
  BY <1>3, <1>4, <1>5 DEF Inv, KeysUnique, KeysGiven
<1>9. Alone'
  BY <1>2 DEF Inv, Alone
<1>10. ActiveHasObject'
  BY <1>1, <1>3, <1>6 DEF Inv, ActiveHasObject
<1>11. \A m \in Keys : KeyTaken(m)' <=> m = k \/ KeyTaken(m)
  BY <1>1, <1>3, <1>5 DEF KeyTaken, Exists
<1>12. NoOrphanObject'
  BY <1>2, <1>11 DEF Inv, NoOrphanObject, TypeOK
<1>13. NothingLeftDangling'
  BY <1>1, <1>3, <1>5 DEF Inv, NothingLeftDangling
<1>14. ASSUME NEW d \in Clients, d # c PROVE CallInv(d)'
  <2> pc'[d] = pc[d] /\ job'[d] = job[d] /\ CallInv(d)
    BY <1>2, <1>14 DEF Inv
  <2>1. Holds(d)'
    <3>1. pc[d] \in Storing => job[d].key # k
      BY <1>14 DEF Inv, CallInv, Holds, Alone
    <3>2. QED
      BY <1>1, <1>3, <1>5, <3>1 DEF CallInv, Holds
  <2>2. Knows(d)'
    BY <1>1, <1>3, <1>5 DEF CallInv, Knows
  <2>3. RemovalExcused(d)'
    BY <1>1, <1>3, <1>6 DEF CallInv, RemovalExcused, PurgingKey
  <2>4. NotFound(d)'
    BY <1>1, <1>3, <1>5 DEF CallInv, NotFound, Purging, Knows
  <2>5. QED
    BY <2>1, <2>2, <2>3, <2>4 DEF CallInv
<1>15. CallInv(c)'
  <2>1. CASE pc'[c] = "idle"
    BY <2>1, IdleInv
  <2>2. CASE pc'[c] = "cleanup" /\ job' = job /\ pc[c] = "insert" /\ answer = "lost"
    <3>1. k \in Keys /\ origin[k] = "server"
      BY <2>2 DEF Inv, CallInv, Holds
    <3>2. \A q \in Rows : Exists(q)' /\ rows'[q].key = k => q = r
      BY <1>3, <1>4, <1>5
    <3>3. Holds(c)'
      BY <1>1, <2>2, <3>1, <3>2 DEF Holds
    <3>4. QED
      BY <2>2, <3>3 DEF CallInv, Knows, RemovalExcused, NotFound
  <2>3. QED
    BY <1>2, <2>1, <2>2
<1>16. QED
  BY <1>7, <1>8, <1>9, <1>10, <1>12, <1>13, <1>14, <1>15 DEF Inv

\* A key is given out: nothing has it.
LEMMA FreshUnknown ==
  ASSUME Inv, NEW k \in Keys, origin[k] = "fresh"
  PROVE  /\ ~KeyTaken(k)
         /\ \A d \in Clients : pc[d] \in Storing \cup PurgeSteps \cup {"finalize"} => job[d].key # k
         /\ \A t \in tokens : t.key # k
BY DEF Inv, KeysGiven, CallInv, Holds, Knows, KeyTaken

LEMMA CreateKeeps ==
  ASSUME Inv, NEW c \in Clients, Create(c)
  PROVE  Inv'
<1> DEFINE k == CHOOSE k \in FreshKeys : TRUE
<1>1. k \in Keys /\ origin[k] = "fresh"
  BY FreshKey DEF Create
<1>2. PICK s \in Rows \cup {None} :
        /\ objects' = objects \cup {k}
        /\ origin' = [origin EXCEPT ![k] = "server"]
        /\ job' = [job EXCEPT ![c].key = k, ![c].source = s]
  BY DEF Create
<1> HIDE DEF k
<1>3. /\ pc' = [pc EXCEPT ![c] = "insert"]
      /\ UNCHANGED <<rows, tokens, current, history, type, fields, excused, lost, faults>>
  BY DEF Create, Goto
<1>4. TypeOK'
  <2>1. [job[c] EXCEPT !.key = k, !.source = s] \in Job
    BY <1>1, JobTyped DEF Inv, Job
  <2>2. job' = [job EXCEPT ![c] = [job[c] EXCEPT !.key = k, !.source = s]]
    BY <1>2 DEF Inv, TypeOK
  <2>3. QED
    BY <1>1, <1>2, <1>3, <2>1, <2>2 DEF Inv, TypeOK, Steps
<1>5. /\ pc'[c] = "insert" /\ job'[c].key = k
      /\ \A d \in Clients \ {c} : pc'[d] = pc[d] /\ job'[d] = job[d]
      /\ \A m \in Keys \ {k} : origin'[m] = origin[m]
      /\ origin'[k] = "server"
  BY <1>1, <1>2, <1>3, JobTyped DEF Inv, TypeOK, Job
<1>6. /\ ~KeyTaken(k)
      /\ \A d \in Clients : pc[d] \in Storing \cup PurgeSteps \cup {"finalize"} => job[d].key # k
      /\ \A t \in tokens : t.key # k
  BY <1>1, FreshUnknown
<1>7. KeysUnique' /\ KeysGiven'
  BY <1>1, <1>3, <1>5, <1>6 DEF Inv, KeysUnique, KeysGiven, Exists, TypeOK, KeyTaken
<1>8. Alone'
  BY <1>5, <1>6 DEF Inv, Alone
<1>9. ActiveHasObject' /\ NothingLeftDangling'
  BY <1>2, <1>3 DEF Inv, ActiveHasObject, NothingLeftDangling, Active, Exists
<1>10. NoOrphanObject'
  <2> SUFFICES ASSUME NEW m \in objects', origin'[m] = "server"
               PROVE  \/ KeyTaken(m)' \/ m \in lost'
                      \/ \E d \in Clients : pc'[d] \in Storing /\ job'[d].key = m
    BY DEF NoOrphanObject
  <2>1. CASE m = k
    BY <1>5, <2>1
  <2>2. CASE m # k
    <3>1. m \in objects /\ origin[m] = "server"
      BY <1>1, <1>2, <1>5, <2>2 DEF Inv, TypeOK
    <3>2. KeyTaken(m)' <=> KeyTaken(m)
      BY <1>3 DEF KeyTaken, Exists
    <3>3. \A d \in Clients : pc[d] \in Storing => pc'[d] = pc[d] /\ job'[d] = job[d]
      BY <1>5 DEF Create, At
    <3>4. QED
      BY <1>3, <3>1, <3>2, <3>3 DEF Inv, NoOrphanObject
  <2>3. QED
    BY <2>1, <2>2
<1>11. CallInv(c)'
  BY <1>1, <1>3, <1>5, <1>6 DEF CallInv, Holds, Knows, RemovalExcused, NotFound, KeyTaken, Exists
<1>12. ASSUME NEW d \in Clients, d # c PROVE CallInv(d)'
  <2>1. pc'[d] = pc[d] /\ job'[d] = job[d] /\ CallInv(d)
    BY <1>5, <1>12 DEF Inv
  <2>2. Holds(d)'
    BY <1>3, <1>5, <1>6, <2>1 DEF CallInv, Holds, KeyTaken, Exists
  <2>3. Knows(d)'
    BY <1>2, <1>3, <1>5, <1>6, <2>1 DEF CallInv, Knows, Exists
  <2>4. RemovalExcused(d)' /\ NotFound(d)'
    BY <1>3, <2>1 DEF CallInv, RemovalExcused, NotFound, Exists, Active
  <2>5. QED
    BY <2>2, <2>3, <2>4 DEF CallInv
<1>13. QED
  BY <1>4, <1>7, <1>8, <1>9, <1>10, <1>11, <1>12 DEF Inv

LEMMA CleanupKeeps ==
  ASSUME Inv, NEW c \in Clients, Cleanup(c)
  PROVE  Inv'
<1> DEFINE k == job[c].key
<1>1. /\ pc' \in [Clients -> Steps] /\ job' \in [Clients -> Job]
      /\ pc'[c] = "idle"
      /\ \A d \in Clients \ {c} : pc'[d] = pc[d] /\ job'[d] = job[d]
      /\ \A d \in Clients : pc'[d] # "idle" => pc'[d] = pc[d] /\ job'[d] = job[d]
  BY CallEnds DEF Inv, Cleanup
<1>2. /\ pc[c] = "cleanup"
      /\ UNCHANGED <<rows, origin, tokens, current, history, type, fields, excused>>
      /\ \/ objects' = objects \ {k} /\ lost' = lost /\ faults' = faults
         \/ objects' = objects /\ lost' = lost \cup {k} /\ faults' = faults + 1 /\ faults < MaxFaults
  BY DEF Cleanup, At
<1>3. /\ k \in Keys /\ origin[k] = "server"
      /\ \A r \in Rows : Exists(r) /\ rows[r].key = k => <<"object", r>> \in excused
  BY <1>2 DEF Inv, CallInv, Holds
<1>4. TypeOK'
  BY <1>1, <1>2, <1>3 DEF Inv, TypeOK
<1>5. KeysUnique' /\ KeysGiven'
  BY <1>2 DEF Inv, KeysUnique, KeysGiven, Exists
<1>6. Alone'
  BY <1>1 DEF Inv, Alone
<1>7. NothingLeftDangling'
  BY <1>2 DEF Inv, NothingLeftDangling, Exists
<1>8. ActiveHasObject'
  BY <1>2, <1>3 DEF Inv, ActiveHasObject, Active, Exists
<1>9. NoOrphanObject'
  BY <1>1, <1>2 DEF Inv, NoOrphanObject, KeyTaken, Exists
<1>10. ASSUME NEW d \in Clients, d # c PROVE CallInv(d)'
  <2>1. pc'[d] = pc[d] /\ job'[d] = job[d] /\ CallInv(d)
    BY <1>1, <1>10 DEF Inv
  <2>2. Holds(d)' /\ Knows(d)'
    BY <1>2, <2>1 DEF CallInv, Holds, Knows, Exists
  <2>3. RemovalExcused(d)' /\ NotFound(d)'
    BY <1>2, <2>1 DEF CallInv, RemovalExcused, NotFound, Exists, Active
  <2>4. QED
    BY <2>2, <2>3 DEF CallInv
<1>11. QED
  BY <1>1, <1>4, <1>5, <1>6, <1>7, <1>8, <1>9, <1>10, IdleInv DEF Inv

\* A direct upload: its key is nobody else's, its object nobody's duty.
LEMMA IssueKeeps ==
  ASSUME Inv, Issue
  PROVE  Inv'
<1> DEFINE k == CHOOSE k \in FreshKeys : TRUE
<1>1. k \in Keys /\ origin[k] = "fresh"
  BY FreshKey DEF Issue
<1>2. PICK s \in Rows \cup {None} :
        /\ tokens' = tokens \cup {[key |-> k, source |-> s]}
        /\ origin' = [origin EXCEPT ![k] = "direct"]
  BY DEF Issue
<1> HIDE DEF k
<1>3. UNCHANGED <<rows, objects, current, history, type, fields, pc, job, excused, lost, faults>>
  BY DEF Issue
<1>4. TypeOK'
  BY <1>1, <1>2, <1>3 DEF Inv, TypeOK
<1>5. /\ ~KeyTaken(k)
      /\ \A d \in Clients : pc[d] \in Storing \cup PurgeSteps \cup {"finalize"} => job[d].key # k
      /\ \A t \in tokens : t.key # k
  BY <1>1, FreshUnknown
<1>6. origin'[k] = "direct" /\ \A m \in Keys \ {k} : origin'[m] = origin[m]
  BY <1>1, <1>2 DEF Inv, TypeOK
<1>7. KeysUnique' /\ KeysGiven' /\ Alone'
  BY <1>1, <1>2, <1>3, <1>5, <1>6 DEF Inv, KeysUnique, KeysGiven, Alone, Exists, TypeOK, KeyTaken
<1>8. ActiveHasObject' /\ NothingLeftDangling'
  BY <1>3 DEF Inv, ActiveHasObject, NothingLeftDangling, Active, Exists
<1>9. NoOrphanObject'
  BY <1>3, <1>6 DEF Inv, NoOrphanObject, KeyTaken, Exists, TypeOK
<1>10. ASSUME NEW d \in Clients PROVE CallInv(d)'
  BY <1>3, <1>5, <1>6
     DEF Inv, CallInv, Holds, Knows, RemovalExcused, NotFound, KeyTaken, Exists, Active
<1>11. QED
  BY <1>4, <1>7, <1>8, <1>9, <1>10 DEF Inv

LEMMA PutByUrlKeeps ==
  ASSUME Inv, NEW t \in tokens, PutByUrl(t)
  PROVE  Inv'
<1>1. /\ objects' = objects \cup {t.key}
      /\ UNCHANGED <<rows, origin, tokens, current, history, type, fields, pc, job, excused, lost, faults>>
  BY DEF PutByUrl
<1>2. t.key \in Keys /\ origin[t.key] = "direct"
  BY DEF Inv, TypeOK, KeysGiven
<1>3. TypeOK'
  BY <1>1, <1>2 DEF Inv, TypeOK
<1>4. KeysUnique' /\ KeysGiven' /\ Alone'
  BY <1>1 DEF Inv, KeysUnique, KeysGiven, Alone, Exists
<1>5. ActiveHasObject' /\ NothingLeftDangling'
  BY <1>1 DEF Inv, ActiveHasObject, NothingLeftDangling, Active, Exists
<1>6. NoOrphanObject'
  BY <1>1, <1>2 DEF Inv, NoOrphanObject, KeyTaken, Exists
<1>7. ASSUME NEW d \in Clients PROVE CallInv(d)'
  BY <1>1, <1>2
     DEF Inv, CallInv, Holds, Knows, RemovalExcused, NotFound, KeyTaken, Exists, Active
<1>8. QED
  BY <1>3, <1>4, <1>5, <1>6, <1>7 DEF Inv

LEMMA SoftDeleteKeeps ==
  ASSUME Inv, NEW r \in Rows, SoftDelete(r)
  PROVE  Inv'
<1>1. /\ rows' = [rows EXCEPT ![r].status = "deleted"] /\ Active(r)
      /\ UNCHANGED <<objects, origin, tokens, current, history, type, fields, pc, job, excused, lost, faults>>
  BY DEF SoftDelete
<1>2. /\ \A q \in Rows : rows'[q].key = rows[q].key /\ rows'[q].source = rows[q].source
                         /\ rows'[q].variant = rows[q].variant
      /\ \A q \in Rows \ {r} : rows'[q].status = rows[q].status
      /\ rows'[r].status = "deleted" /\ rows[r].status = "active"
  BY <1>1 DEF Inv, TypeOK, Row, Active
<1>3. /\ \A q \in Rows : Exists(q)' <=> Exists(q)
      /\ \A q \in Rows : Active(q)' => Active(q)
      /\ \A q \in Rows : rows'[q].status = "unused" => rows[q].status = "unused"
  BY <1>2 DEF Exists, Active
<1>4. TypeOK'
  <2>1. [rows[r] EXCEPT !.status = "deleted"] \in Row
    BY DEF Inv, TypeOK, Row
  <2>2. rows' = [rows EXCEPT ![r] = [rows[r] EXCEPT !.status = "deleted"]]
    BY <1>1 DEF Inv, TypeOK
  <2>3. QED
    BY <1>1, <2>1, <2>2 DEF Inv, TypeOK
<1>5. KeysUnique' /\ KeysGiven' /\ Alone'
  BY <1>1, <1>2, <1>3 DEF Inv, KeysUnique, KeysGiven, Alone
<1>6. ActiveHasObject' /\ NothingLeftDangling'
  BY <1>1, <1>2, <1>3 DEF Inv, ActiveHasObject, NothingLeftDangling
<1>7. NoOrphanObject'
  BY <1>1, <1>2, <1>3 DEF Inv, NoOrphanObject, KeyTaken
<1>8. ASSUME NEW d \in Clients PROVE CallInv(d)'
  BY <1>1, <1>2, <1>3 DEF Inv, CallInv, Holds, Knows, RemovalExcused, NotFound, KeyTaken
<1>9. QED
  BY <1>4, <1>5, <1>6, <1>7, <1>8 DEF Inv

LEMMA RestoreKeeps ==
  ASSUME Inv, NEW r \in Rows, Restore(r)
  PROVE  Inv'
<1>1. /\ rows' = [rows EXCEPT ![r].status = "active"] /\ rows[r].status = "deleted"
      /\ UNCHANGED <<objects, origin, tokens, current, history, type, fields, pc, job, lost, faults>>
  BY DEF Restore
<1>2. /\ \A q \in Rows : rows'[q].key = rows[q].key /\ rows'[q].source = rows[q].source
                         /\ rows'[q].variant = rows[q].variant
      /\ \A q \in Rows \ {r} : rows'[q].status = rows[q].status
      /\ rows'[r].status = "active"
  BY <1>1 DEF Inv, TypeOK, Row
<1>3. /\ \A q \in Rows : Exists(q)' <=> Exists(q)
      /\ \A q \in Rows : Active(q)' <=> Active(q) \/ q = r
      /\ \A q \in Rows : rows'[q].status = "unused" => rows[q].status = "unused"
  BY <1>1, <1>2 DEF Exists, Active
<1>4. /\ excused \subseteq excused' /\ excused' \subseteq Kinds \X Rows
      /\ rows[r].key \notin objects \/ PurgingKey(rows[r].key, Removing) =>
             <<"object", r>> \in excused'
  BY DEF Restore, Inv, TypeOK, Kinds
<1>5. TypeOK'
  <2>1. [rows[r] EXCEPT !.status = "active"] \in Row
    BY DEF Inv, TypeOK, Row
  <2>2. rows' = [rows EXCEPT ![r] = [rows[r] EXCEPT !.status = "active"]]
    BY <1>1 DEF Inv, TypeOK
  <2>3. QED
    BY <1>1, <1>4, <2>1, <2>2 DEF Inv, TypeOK
<1>6. KeysUnique' /\ KeysGiven' /\ Alone'
  BY <1>1, <1>2, <1>3 DEF Inv, KeysUnique, KeysGiven, Alone
<1>7. ActiveHasObject' /\ NothingLeftDangling'
  BY <1>1, <1>2, <1>3, <1>4 DEF Inv, ActiveHasObject, NothingLeftDangling
<1>8. NoOrphanObject'
  BY <1>1, <1>2, <1>3 DEF Inv, NoOrphanObject, KeyTaken
<1>9. ASSUME NEW d \in Clients PROVE CallInv(d)'
  <2>1. Holds(d)' /\ Knows(d)' /\ NotFound(d)'
    BY <1>1, <1>2, <1>3, <1>4 DEF Inv, CallInv, Holds, Knows, NotFound, KeyTaken
  <2>2. RemovalExcused(d)'
    BY <1>1, <1>2, <1>3, <1>4 DEF Inv, CallInv, RemovalExcused, PurgingKey
  <2>3. QED
    BY <2>1, <2>2 DEF CallInv
<1>10. QED
  BY <1>5, <1>6, <1>7, <1>8, <1>9 DEF Inv

\* The object goes: no active row has it, but those excused.
LEMMA RemoveKeeps ==
  ASSUME Inv, NEW c \in Clients, Remove(c)
  PROVE  Inv'
<1> DEFINE k == job[c].key
<1>1. /\ pc[c] = "remove" /\ pc' = [pc EXCEPT ![c] = "drop"]
      /\ objects' = objects \ {k}
      /\ UNCHANGED <<rows, origin, tokens, current, history, type, fields, job, excused, lost, faults>>
  BY DEF Remove, At, Goto
<1>2. pc'[c] = "drop" /\ \A d \in Clients \ {c} : pc'[d] = pc[d]
  BY <1>1 DEF Inv, TypeOK
<1>3. TypeOK'
  BY <1>1 DEF Inv, TypeOK, Steps
<1>4. KeysUnique' /\ KeysGiven' /\ Alone'
  BY <1>1, <1>2 DEF Inv, KeysUnique, KeysGiven, Alone, Exists
<1>5. ActiveHasObject'
  BY <1>1 DEF Inv, ActiveHasObject, Active, CallInv, RemovalExcused
<1>6. NothingLeftDangling'
  BY <1>1 DEF Inv, NothingLeftDangling, Exists
<1>7. NoOrphanObject'
  BY <1>1, <1>2 DEF Inv, NoOrphanObject, KeyTaken, Exists
<1>8. ASSUME NEW d \in Clients PROVE CallInv(d)'
  <2>1. CASE d = c
    BY <1>1, <1>2, <2>1
       DEF Inv, CallInv, Holds, Knows, RemovalExcused, NotFound, KeyTaken, Exists, Active
  <2>2. CASE d # c
    BY <1>1, <1>2, <2>2
       DEF Inv, CallInv, Holds, Knows, RemovalExcused, NotFound, KeyTaken, Exists, Active
  <2>3. QED
    BY <2>1, <2>2
<1>9. QED
  BY <1>3, <1>4, <1>5, <1>6, <1>7, <1>8 DEF Inv

\* The row goes: its object has gone, and what refers to it is excused.
LEMMA DropKeeps ==
  ASSUME Inv, NEW c \in Clients, Drop(c)
  PROVE  Inv'
<1> DEFINE r == job[c].row
           k == job[c].key
<1>1. /\ pc' \in [Clients -> Steps] /\ job' \in [Clients -> Job]
      /\ pc'[c] = "idle"
      /\ \A d \in Clients \ {c} : pc'[d] = pc[d] /\ job'[d] = job[d]
      /\ \A d \in Clients : pc'[d] # "idle" => pc'[d] = pc[d] /\ job'[d] = job[d]
  BY CallEnds DEF Inv, Drop
<1>2. /\ pc[c] = "drop"
      /\ UNCHANGED <<objects, origin, tokens, current, history, type, fields, excused, lost, faults>>
  BY DEF Drop, At
<1>3. /\ r \in Rows /\ (Exists(r) => rows[r].key = k)
      /\ (origin[k] = "server" => k \notin objects)
      /\ \A q \in Rows : Exists(q) /\ rows[q].source = r => <<"source", q>> \in excused
      /\ \A i \in Items : current[i] = r \/ r \in history[i] => Overlooked(r)
  BY <1>2 DEF Inv, CallInv, Knows, NotFound
<1>4. CASE rows[r].status # "deleted"
  <2>1. UNCHANGED <<rows, objects, origin, tokens, current, history, type, fields, excused, lost, faults>>
    BY <1>2, <1>4 DEF Drop
  <2>2. TypeOK'
    BY <1>1, <2>1 DEF Inv, TypeOK
  <2>3. QED
    BY <1>1, <1>2, <2>1, <2>2, Moves, IdleInv
<1>5. CASE rows[r].status = "deleted"
  <2>1. rows' = [q \in Rows |-> IF q = r THEN Purged
                               ELSE IF rows[q].source = r THEN [rows[q] EXCEPT !.source = None]
                               ELSE rows[q]]
    BY <1>5 DEF Drop
  <2>2. /\ rows'[r] = Purged
        /\ \A q \in Rows \ {r} :
               /\ rows'[q].status = rows[q].status /\ rows'[q].key = rows[q].key
               /\ rows'[q].variant = rows[q].variant
               /\ rows'[q].source = IF rows[q].source = r THEN None ELSE rows[q].source
    BY <1>3, <2>1 DEF Inv, TypeOK, Row
  <2>3. /\ \A q \in Rows : Exists(q)' <=> Exists(q) /\ q # r
        /\ \A q \in Rows : Active(q)' <=> Active(q)
        /\ \A q \in Rows : rows'[q].status = "unused" => rows[q].status = "unused"
    BY <1>5, <2>2 DEF Exists, Active, Purged
  <2>4. TypeOK'
    <3>1. Purged \in Row /\ \A q \in Rows : [rows[q] EXCEPT !.source = None] \in Row
      BY DEF Purged, Row, Inv, TypeOK
    <3>2. rows' \in [Rows -> Row]
      BY <2>1, <3>1 DEF Inv, TypeOK
    <3>3. QED
      BY <1>1, <1>2, <3>2 DEF Inv, TypeOK
  <2>5. KeysUnique' /\ KeysGiven'
    BY <1>2, <2>2, <2>3 DEF Inv, KeysUnique, KeysGiven
  <2>6. Alone'
    BY <1>1 DEF Inv, Alone
  <2>7. ActiveHasObject'
    BY <1>2, <1>5, <2>2, <2>3 DEF Inv, ActiveHasObject, Active
  <2>8. NoOrphanObject'
    <3> SUFFICES ASSUME NEW m \in objects, origin[m] = "server", m \notin lost,
                        \A d \in Clients : pc[d] \in Storing => job[d].key # m
                 PROVE  KeyTaken(m)'
      BY <1>1, <1>2 DEF NoOrphanObject
    <3>1. PICK q \in Rows : Exists(q) /\ rows[q].key = m
      BY DEF Inv, NoOrphanObject, KeyTaken
    <3>2. q # r
      BY <1>3, <3>1
    <3>3. QED
      BY <2>2, <2>3, <3>1, <3>2 DEF KeyTaken
  <2>9. NothingLeftDangling'
    <3>1. ASSUME NEW i \in Items, NEW q \in Rows, current[i] = q \/ q \in history[i]
          PROVE  Exists(q)' \/ Overlooked(q)
      BY <1>3, <2>3, <3>1 DEF Inv, NothingLeftDangling
    <3>2. ASSUME NEW q \in Rows, Exists(q)', rows'[q].variant, rows'[q].source = None
          PROVE  <<"source", q>> \in excused
      BY <1>3, <2>2, <2>3, <3>2 DEF Inv, NothingLeftDangling
    <3>3. QED
      BY <1>2, <3>1, <3>2 DEF NothingLeftDangling
  <2>10. ASSUME NEW d \in Clients, d # c PROVE CallInv(d)'
    <3>1. pc'[d] = pc[d] /\ job'[d] = job[d] /\ CallInv(d)
      BY <1>1, <2>10 DEF Inv
    <3>2. Holds(d)'
      BY <1>2, <2>2, <2>3, <3>1 DEF CallInv, Holds, KeyTaken
    <3>3. Knows(d)'
      BY <1>2, <2>2, <2>3, <3>1 DEF CallInv, Knows
    <3>4. RemovalExcused(d)'
      BY <1>2, <1>5, <2>2, <2>3, <3>1 DEF CallInv, RemovalExcused, Active
    <3>5. NotFound(d)'
      BY <1>2, <2>2, <2>3, <3>1 DEF CallInv, NotFound, Knows
    <3>6. QED
      BY <3>2, <3>3, <3>4, <3>5 DEF CallInv
  <2>11. QED
    BY <1>1, <2>4, <2>5, <2>6, <2>7, <2>8, <2>9, <2>10, IdleInv DEF Inv
<1>6. QED
  BY <1>4, <1>5

\* Content is written: the old reference moves to the history.
LEMMA CommitKeeps ==
  ASSUME Inv, NEW c \in Clients, Commit(c)
  PROVE  Inv'
<1> DEFINE i == job[c].item
           r == job[c].row
<1>1. /\ pc' \in [Clients -> Steps] /\ job' \in [Clients -> Job]
      /\ pc'[c] = "idle"
      /\ \A d \in Clients \ {c} : pc'[d] = pc[d] /\ job'[d] = job[d]
      /\ \A d \in Clients : pc'[d] # "idle" => pc'[d] = pc[d] /\ job'[d] = job[d]
  BY CallEnds DEF Inv, Commit
<1>2. /\ pc[c] = "commit"
      /\ UNCHANGED <<rows, objects, origin, tokens, fields, lost, faults>>
      /\ type' = [type EXCEPT ![i] = job[c].type]
      /\ history' = [history EXCEPT ![i] = (@ \cup {current[i]}) \ {None}]
      /\ current' = [current EXCEPT ![i] = r]
  BY DEF Commit, At
<1>3. /\ excused \subseteq excused' /\ excused' \subseteq Kinds \X Rows
      /\ r # None /\ (~Exists(r) \/ Purging(r, PastCurrent)) => <<"reference", r>> \in excused'
  <2>1. r \in Rows \cup {None}
    BY JobTyped DEF Inv
  <2>2. QED
    BY <2>1 DEF Commit, Inv, TypeOK, Kinds
<1>4. /\ \A j \in Items : current'[j] = current[j] \/ current'[j] = r
      /\ \A j \in Items : \A q \in Rows : q \in history'[j] => q \in history[j] \/ current[j] = q
  BY <1>2 DEF Inv, TypeOK
<1>5. TypeOK'
  <2>1. r \in Rows \cup {None}
    BY JobTyped DEF Inv
  <2>2. current' \in [Items -> Rows \cup {None}]
    BY <1>2, <2>1 DEF Inv, TypeOK
  <2>3. history' \in [Items -> SUBSET Rows]
    <3>1. i \in Items => (history[i] \cup {current[i]}) \ {None} \in SUBSET Rows
      BY DEF Inv, TypeOK
    <3>2. history \in [Items -> SUBSET Rows]
      BY DEF Inv, TypeOK
    <3>3. QED
      BY <1>2, <3>1, <3>2
  <2>4. type' \in [Items -> Types]
    BY <1>2 DEF Inv, TypeOK, CallInv, Holds
  <2>5. QED
    BY <1>1, <1>2, <1>3, <2>2, <2>3, <2>4 DEF Inv, TypeOK
<1>6. KeysUnique' /\ KeysGiven'
  BY <1>2 DEF Inv, KeysUnique, KeysGiven, Exists
<1>7. Alone'
  BY <1>1 DEF Inv, Alone
<1>8. ActiveHasObject'
  BY <1>2, <1>3 DEF Inv, ActiveHasObject, Active
<1>9. NoOrphanObject'
  BY <1>1, <1>2 DEF Inv, NoOrphanObject, KeyTaken, Exists
<1>10. NothingLeftDangling'
  BY <1>2, <1>3, <1>4 DEF Inv, NothingLeftDangling, Exists
<1>11. ASSUME NEW d \in Clients, d # c PROVE CallInv(d)'
  <2>1. pc'[d] = pc[d] /\ job'[d] = job[d] /\ CallInv(d)
    BY <1>1, <1>11 DEF Inv
  <2>2. Holds(d)' /\ Knows(d)' /\ RemovalExcused(d)'
    BY <1>2, <1>3, <2>1 DEF CallInv, Holds, Knows, RemovalExcused, KeyTaken, Exists, Active
  <2>3. pc[d] \in PastDerivatives => job[d].row \in Rows
    BY <2>1 DEF CallInv, Knows
  <2>4. NotFound(d)'
    BY <1>2, <1>3, <1>4, <2>1, <2>3 DEF CallInv, NotFound, Purging, Exists
  <2>5. QED
    BY <2>2, <2>4 DEF CallInv
<1>12. QED
  BY <1>1, <1>5, <1>6, <1>7, <1>8, <1>9, <1>10, <1>11, IdleInv DEF Inv

LEMMA DeleteItemKeeps ==
  ASSUME Inv, NEW i \in Items, DeleteItem(i)
  PROVE  Inv'
<1>1. /\ current' = [current EXCEPT ![i] = None]
      /\ history' = [history EXCEPT ![i] = {}]
      /\ UNCHANGED <<rows, objects, origin, tokens, type, fields, pc, job, excused, lost, faults>>
  BY DEF DeleteItem
<1>2. \A j \in Items : /\ \A q \in Rows : current'[j] = q => current[j] = q
                       /\ \A q \in Rows : q \in history'[j] => q \in history[j]
  BY <1>1 DEF Inv, TypeOK
<1>3. TypeOK'
  BY <1>1 DEF Inv, TypeOK
<1>4. KeysUnique' /\ KeysGiven' /\ Alone'
  BY <1>1 DEF Inv, KeysUnique, KeysGiven, Alone, Exists
<1>5. ActiveHasObject' /\ NothingLeftDangling' /\ NoOrphanObject'
  BY <1>1, <1>2 DEF Inv, ActiveHasObject, NothingLeftDangling, NoOrphanObject, KeyTaken,
     Exists, Active
<1>6. ASSUME NEW d \in Clients PROVE CallInv(d)'
  <2>1. Holds(d)' /\ Knows(d)' /\ RemovalExcused(d)'
    BY <1>1 DEF Inv, CallInv, Holds, Knows, RemovalExcused, KeyTaken, Exists, Active
  <2>2. NotFound(d)'
    BY <1>1, <1>2 DEF Inv, CallInv, NotFound, Knows, Exists
  <2>3. QED
    BY <2>1, <2>2 DEF CallInv
<1>7. QED
  BY <1>3, <1>4, <1>5, <1>6 DEF Inv

\* No reference is written: what has been looked for stays looked for.
LEMMA EditTypeKeeps ==
  ASSUME Inv, NEW t \in Types, EditType(t)
  PROVE  Inv'
<1>1. UNCHANGED <<rows, objects, origin, tokens, current, history, type, pc, job, excused, lost, faults>>
  BY DEF EditType
<1>2. TypeOK'
  BY <1>1 DEF Inv, TypeOK, EditType
<1>3. KeysUnique' /\ KeysGiven' /\ Alone'
  BY <1>1 DEF Inv, KeysUnique, KeysGiven, Alone, Exists
<1>4. ActiveHasObject' /\ NothingLeftDangling' /\ NoOrphanObject'
  BY <1>1 DEF Inv, ActiveHasObject, NothingLeftDangling, NoOrphanObject, KeyTaken, Exists, Active
<1>5. ASSUME NEW d \in Clients PROVE CallInv(d)'
  BY <1>1 DEF Inv, CallInv, Holds, Knows, RemovalExcused, NotFound, Exists, Active
<1>6. QED
  BY <1>2, <1>3, <1>4, <1>5 DEF Inv

\* The calls of one client that write nothing in common.
LEMMA MovesKeep ==
  ASSUME Inv, NEW c \in Clients
  PROVE  /\ \A t \in tokens : Complete(c, t) => Inv'
         /\ \A r \in Rows : Purge(c, r) => Inv'
         /\ ReadDerivatives(c) \/ ReadTypes(c) \/ ReadReferences(c) => Inv'
         /\ \A i \in Items : Validate(c, i) => Inv'
         /\ Lose(c) => Inv'
<1>1. ASSUME NEW t \in tokens, Complete(c, t) PROVE Inv'
  <2>1. /\ pc[c] = "idle" /\ pc' = [pc EXCEPT ![c] = "finalize"]
        /\ job' = [job EXCEPT ![c].key = t.key, ![c].source = t.source]
        /\ UNCHANGED <<rows, objects, origin, tokens, current, history, type, fields, excused, lost, faults>>
    BY <1>1 DEF Complete, At, Goto
  <2>2. t.key \in Keys /\ t.source \in Rows \cup {None} /\ origin[t.key] = "direct"
    BY DEF Inv, TypeOK, KeysGiven
  <2>3. /\ job' \in [Clients -> Job] /\ job'[c].key = t.key
        /\ \A d \in Clients \ {c} : job'[d] = job[d]
    <3>1. [job[c] EXCEPT !.key = t.key, !.source = t.source] \in Job
      BY <2>2, JobTyped DEF Inv, Job
    <3>2. job' = [job EXCEPT ![c] = [job[c] EXCEPT !.key = t.key, !.source = t.source]]
      BY <2>1 DEF Inv, TypeOK
    <3>3. QED
      BY <3>1, <3>2, JobTyped DEF Inv, TypeOK, Job
  <2>4. pc'[c] = "finalize" /\ \A d \in Clients \ {c} : pc'[d] = pc[d]
    BY <2>1 DEF Inv, TypeOK
  <2>5. TypeOK'
    BY <2>1, <2>3 DEF Inv, TypeOK, Steps
  <2>6. CallInv(c)'
    BY <2>1, <2>2, <2>3, <2>4 DEF CallInv, Holds, Knows, RemovalExcused, NotFound
  <2>7. QED
    BY <2>1, <2>3, <2>4, <2>5, <2>6, Moves
<1>2. ASSUME NEW r \in Rows, Purge(c, r) PROVE Inv'
  <2>1. /\ pc[c] = "idle" /\ pc' = [pc EXCEPT ![c] = "derivatives"]
        /\ rows[r].status = "deleted"
        /\ job' = [job EXCEPT ![c].row = r, ![c].key = rows[r].key]
        /\ UNCHANGED <<rows, objects, origin, tokens, current, history, type, fields, excused, lost, faults>>
    BY <1>2 DEF Purge, At, Goto
  <2>2. Exists(r) /\ ~Active(r) /\ rows[r].key \in Keys /\ origin[rows[r].key] # "fresh"
    BY <2>1 DEF Inv, KeysGiven, Exists, Active
  <2>3. /\ job' \in [Clients -> Job] /\ job'[c].key = rows[r].key /\ job'[c].row = r
        /\ \A d \in Clients \ {c} : job'[d] = job[d]
    <3>1. [job[c] EXCEPT !.row = r, !.key = rows[r].key] \in Job
      BY <2>2, JobTyped DEF Inv, Job
    <3>2. job' = [job EXCEPT ![c] = [job[c] EXCEPT !.row = r, !.key = rows[r].key]]
      BY <2>1 DEF Inv, TypeOK
    <3>3. QED
      BY <3>1, <3>2, JobTyped DEF Inv, TypeOK, Job
  <2>4. pc'[c] = "derivatives" /\ \A d \in Clients \ {c} : pc'[d] = pc[d]
    BY <2>1 DEF Inv, TypeOK
  <2>5. TypeOK'
    BY <2>1, <2>3 DEF Inv, TypeOK, Steps
  <2>6. \A q \in Rows : Active(q) /\ rows[q].key = rows[r].key => FALSE
    BY <2>2 DEF Inv, KeysUnique, Active, Exists
  <2>7. CallInv(c)'
    BY <2>1, <2>2, <2>3, <2>4, <2>6
       DEF CallInv, Holds, Knows, RemovalExcused, NotFound, Active, Exists
  <2>8. QED
    BY <2>1, <2>3, <2>4, <2>5, <2>7, Moves
<1>3. ASSUME NEW found \in BOOLEAN, NEW step \in {"types", "history", "remove"}, Reads(c, found, step),
             pc[c] \in PurgeSteps,
             excused \subseteq excused', excused' \subseteq Kinds \X Rows,
             ~found => CallInv(c)'
      PROVE  Inv'
  <2>1. UNCHANGED <<rows, objects, origin, tokens, current, history, type, fields, lost, faults>>
    BY <1>3 DEF Reads
  <2>2. CASE found
    <3>1. EndCall(c)
      BY <1>3, <2>2 DEF Reads
    <3>2. /\ TypeOK' /\ pc'[c] = "idle"
          /\ \A d \in Clients \ {c} : pc'[d] = pc[d] /\ job'[d] = job[d]
      BY <1>3, <2>1, <3>1, CallEnds DEF Inv, TypeOK
    <3>3. QED
      BY <1>3, <2>1, <3>2, Moves, IdleInv
  <2>3. CASE ~found
    <3>1. pc' = [pc EXCEPT ![c] = step] /\ job' = job
      BY <1>3, <2>3 DEF Reads, Goto
    <3>2. /\ TypeOK' /\ pc'[c] \notin Storing
          /\ \A d \in Clients \ {c} : pc'[d] = pc[d]
      BY <1>3, <2>1, <3>1 DEF Inv, TypeOK, Steps
    <3>3. QED
      BY <1>3, <2>1, <2>3, <3>1, <3>2, Moves
  <2>4. QED
    BY <2>2, <2>3
<1>4. ASSUME ReadDerivatives(c) PROVE Inv'
  <2> DEFINE found == \E q \in Rows : Exists(q) /\ rows[q].source = job[c].row
  <2>1. pc[c] = "derivatives" /\ Reads(c, found, "types") /\ excused' = excused
    BY <1>4 DEF ReadDerivatives, At
  <2>2. ASSUME ~found PROVE CallInv(c)'
    <3>1. /\ pc'[c] = "types" /\ job' = job
          /\ UNCHANGED <<rows, objects, origin, tokens, current, history, type, fields, excused>>
      BY <2>1, <2>2 DEF Reads, Goto, Inv, TypeOK
    <3>2. QED
      BY <2>1, <2>2, <3>1
         DEF Inv, CallInv, Holds, Knows, RemovalExcused, NotFound, Exists, Active
  <2>3. excused' \subseteq Kinds \X Rows
    BY <2>1 DEF Inv, TypeOK
  <2>4. QED
    BY <1>3, <2>1, <2>2, <2>3
<1>5. ASSUME ReadReferences(c) PROVE Inv'
  <2> DEFINE step == IF At(c, "current") THEN "history" ELSE "remove"
             r == job[c].row
             found == Found(r, pc[c], job[c].seen)
  <2>1. pc[c] \in {"current", "history"} /\ Reads(c, found, step)
    BY <1>5 DEF ReadReferences
  <2>2. step = IF pc[c] = "current" THEN "history" ELSE "remove"
    BY DEF At
  <2>3. r \in Rows
    BY <2>1 DEF Inv, CallInv, Knows
  <2>4. /\ excused \subseteq excused' /\ excused' \subseteq Kinds \X Rows
        /\ Hidden(r, pc[c], job[c].seen) => <<"hidden", r>> \in excused'
    BY <1>5, <2>3 DEF ReadReferences, Inv, TypeOK, Kinds
  <2>5. ASSUME ~found
        PROVE \A i \in Items :
                  (pc[c] = "current" /\ current[i] = r) \/ (pc[c] = "history" /\ r \in history[i])
                      => <<"hidden", r>> \in excused'
    BY <2>4, <2>5 DEF Found, Hidden, Referring
  <2>6. ASSUME ~found PROVE CallInv(c)'
    <3>1. /\ pc'[c] = step /\ job' = job
          /\ UNCHANGED <<rows, objects, origin, tokens, current, history>>
      BY <2>1, <2>6 DEF Reads, Goto, Inv, TypeOK
    <3>2. Holds(c)' /\ Knows(c)' /\ RemovalExcused(c)'
      BY <2>1, <2>2, <2>4, <3>1
         DEF Inv, CallInv, Holds, Knows, RemovalExcused, Exists, Active
    <3>3. NotFound(c)'
      <4>1. \A q \in Rows : Exists(q)' <=> Exists(q)
        BY <3>1 DEF Exists
      <4>2. NotFound(c)
        BY DEF Inv, CallInv
      <4> HIDE DEF found, step
      <4>3. CASE pc[c] = "current"
        <5>1. pc'[c] = "history" /\ job'[c].row = r
          BY <2>2, <3>1, <4>3
        <5>2. \A i \in Items : current[i] = r => Overlooked(r)'
          BY <2>5, <2>6, <3>1, <4>3
        <5>3. QED
          BY <2>4, <3>1, <4>1, <4>2, <4>3, <5>1, <5>2 DEF NotFound
      <4>4. CASE pc[c] = "history"
        BY <2>2, <2>4, <2>5, <2>6, <3>1, <4>1, <4>2, <4>4 DEF NotFound
      <4>5. QED
        BY <2>1, <4>3, <4>4
    <3>4. QED
      BY <3>2, <3>3 DEF CallInv
  <2>7. step \in {"history", "remove"} /\ found \in BOOLEAN
    BY DEF Found
  <2>8. QED
    BY <1>3, <2>1, <2>4, <2>6, <2>7
<1>6. ASSUME NEW i \in Items, Validate(c, i) PROVE Inv'
  <2>1. PICK r \in Rows \cup {None}, t \in Types :
          job' = [job EXCEPT ![c].row = r, ![c].item = i, ![c].type = t]
    BY <1>6 DEF Validate
  <2>2. /\ pc[c] = "idle" /\ pc' = [pc EXCEPT ![c] = "commit"]
        /\ UNCHANGED <<rows, objects, origin, tokens, current, history, type, fields, excused, lost, faults>>
    BY <1>6 DEF Validate, At, Goto
  <2>3. /\ job' \in [Clients -> Job] /\ job'[c].type = t
        /\ \A d \in Clients \ {c} : job'[d] = job[d]
    <3>1. [job[c] EXCEPT !.row = r, !.item = i, !.type = t] \in Job
      BY JobTyped DEF Inv, Job
    <3>2. job' = [job EXCEPT ![c] = [job[c] EXCEPT !.row = r, !.item = i, !.type = t]]
      BY <2>1 DEF Inv, TypeOK
    <3>3. QED
      BY <3>1, <3>2, JobTyped DEF Inv, TypeOK, Job
  <2>4. pc'[c] = "commit" /\ \A d \in Clients \ {c} : pc'[d] = pc[d]
    BY <2>2 DEF Inv, TypeOK
  <2>5. TypeOK'
    BY <2>2, <2>3 DEF Inv, TypeOK, Steps
  <2>6. CallInv(c)'
    BY <2>3, <2>4 DEF CallInv, Holds, Knows, RemovalExcused, NotFound
  <2>7. QED
    BY <2>2, <2>3, <2>4, <2>5, <2>6, Moves
<1>7. ASSUME Lose(c) PROVE Inv'
  <2>1. /\ EndCall(c) /\ faults < MaxFaults /\ faults' = faults + 1
        /\ lost' = IF pc[c] \in Storing THEN lost \cup {job[c].key} ELSE lost
        /\ UNCHANGED <<rows, objects, origin, tokens, current, history, type, fields, excused>>
    BY <1>7 DEF Lose
  <2>2. pc[c] \in Storing => job[c].key \in Keys
    BY DEF Inv, CallInv, Holds
  <2>3. /\ TypeOK' /\ pc'[c] = "idle"
        /\ \A d \in Clients \ {c} : pc'[d] = pc[d] /\ job'[d] = job[d]
    BY <2>1, <2>2, CallEnds DEF Inv, TypeOK
  <2>4. QED
    BY <2>1, <2>3, Moves, IdleInv
<1>8. ASSUME ReadTypes(c) PROVE Inv'
  <2>1. /\ pc[c] = "types" /\ pc' = [pc EXCEPT ![c] = "current"]
        /\ job' = [job EXCEPT ![c].seen = fields]
        /\ UNCHANGED <<rows, objects, origin, tokens, current, history, type, fields, excused, lost, faults>>
    BY <1>8 DEF ReadTypes, At, Goto
  <2>2. /\ job' \in [Clients -> Job] /\ job'[c].row = job[c].row /\ job'[c].key = job[c].key
        /\ \A d \in Clients \ {c} : job'[d] = job[d]
    <3>1. [job[c] EXCEPT !.seen = fields] \in Job
      BY JobTyped DEF Inv, TypeOK, Job
    <3>2. job' = [job EXCEPT ![c] = [job[c] EXCEPT !.seen = fields]]
      BY <2>1 DEF Inv, TypeOK
    <3>3. QED
      BY <3>1, <3>2, JobTyped DEF Inv, TypeOK, Job
  <2>3. pc'[c] = "current" /\ \A d \in Clients \ {c} : pc'[d] = pc[d]
    BY <2>1 DEF Inv, TypeOK
  <2>4. TypeOK'
    BY <2>1, <2>2 DEF Inv, TypeOK, Steps
  <2>5. CallInv(c)'
    BY <2>1, <2>2, <2>3 DEF Inv, CallInv, Holds, Knows, RemovalExcused, NotFound, Active, Exists
  <2>6. QED
    BY <2>1, <2>2, <2>3, <2>4, <2>5, Moves
<1>9. QED
  BY <1>1, <1>2, <1>4, <1>5, <1>6, <1>7, <1>8

LEMMA InsertKeeps ==
  ASSUME Inv, NEW c \in Clients, Insert(c)
  PROVE  Inv'
<1>1. /\ pc[c] = "insert" /\ ~KeyTaken(job[c].key)
      /\ UNCHANGED <<objects, origin, tokens, current, history, type, fields, lost>>
  BY DEF Insert, At, Inv, CallInv, Holds, KeyTaken
<1>2. faults' \in 0..MaxFaults
  BY DEF Insert, Inv, TypeOK
<1>3. CASE PersistAssetRecord(c) /\ EndCall(c)
  BY <1>1, <1>2, <1>3, PersistKeeps DEF PersistAssetRecord
<1>4. CASE PersistUnanswered(c) /\ Goto(c, "cleanup") /\ UNCHANGED job
  BY <1>1, <1>2, <1>4, PersistKeeps DEF PersistUnanswered
<1>5. CASE Goto(c, "cleanup") /\ UNCHANGED <<rows, excused, job>>
  <2>1. pc'[c] = "cleanup" /\ \A d \in Clients \ {c} : pc'[d] = pc[d]
    BY <1>5 DEF Goto, Inv, TypeOK
  <2>2. TypeOK'
    BY <1>1, <1>2, <1>5 DEF Goto, Inv, TypeOK, Steps
  <2>3. CallInv(c)'
    BY <1>1, <1>5, <2>1
       DEF Inv, CallInv, Holds, Knows, RemovalExcused, NotFound, KeyTaken, Exists
  <2>4. QED
    BY <1>1, <1>5, <2>1, <2>2, <2>3, Moves
<1>6. QED
  BY <1>3, <1>4, <1>5 DEF Insert

LEMMA FinalizeKeeps ==
  ASSUME Inv, NEW c \in Clients, Finalize(c)
  PROVE  Inv'
<1>1. /\ pc[c] = "finalize" /\ EndCall(c)
      /\ UNCHANGED <<objects, origin, tokens, current, history, type, fields, lost, faults>>
  BY DEF Finalize, At
<1>2. CASE SourceExists(job[c].source) /\ ~KeyTaken(job[c].key)
  BY <1>1, <1>2, PersistKeeps DEF Finalize, PersistAssetRecord, Inv, TypeOK
<1>3. CASE ~(SourceExists(job[c].source) /\ ~KeyTaken(job[c].key))
  <2>1. UNCHANGED <<rows, excused>>
    BY <1>3 DEF Finalize
  <2>2. /\ TypeOK' /\ pc'[c] = "idle"
        /\ \A d \in Clients \ {c} : pc'[d] = pc[d] /\ job'[d] = job[d]
    BY <1>1, <2>1, CallEnds DEF Inv, TypeOK
  <2>3. QED
    BY <1>1, <2>1, <2>2, Moves, IdleInv
<1>4. QED
  BY <1>2, <1>3

LEMMA StepKeeps == Inv /\ [Next]_vars => Inv'
<1> SUFFICES ASSUME Inv, [Next]_vars PROVE Inv'
  OBVIOUS
<1>1. ASSUME NEW c \in Clients, Call(c) PROVE Inv'
  BY <1>1, MovesKeep, CreateKeeps, InsertKeeps, CleanupKeeps, FinalizeKeeps, RemoveKeeps,
     DropKeeps, CommitKeeps DEF Call
<1>2. CASE UNCHANGED vars
  <2>1. UNCHANGED <<rows, objects, origin, tokens, current, history, type, fields, pc, job,
                    excused, lost, faults>>
    BY <1>2 DEF vars
  <2>2. TypeOK' /\ KeysUnique' /\ KeysGiven' /\ Alone'
    BY <2>1 DEF Inv, TypeOK, KeysUnique, KeysGiven, Alone, Exists
  <2>3. ActiveHasObject' /\ NoOrphanObject' /\ NothingLeftDangling'
    BY <2>1 DEF Inv, ActiveHasObject, NoOrphanObject, NothingLeftDangling, KeyTaken, Exists, Active
  <2>4. ASSUME NEW d \in Clients PROVE CallInv(d)'
    BY <2>1 DEF Inv, CallInv, Holds, Knows, RemovalExcused, NotFound, Exists, Active
  <2>5. QED
    BY <2>2, <2>3, <2>4 DEF Inv
<1>3. QED
  BY <1>1, <1>2, IssueKeeps, PutByUrlKeeps, SoftDeleteKeeps, RestoreKeeps, DeleteItemKeeps,
     EditTypeKeeps
     DEF Next

LEMMA Always == Spec => []Inv
  BY InitInv, StepKeeps, PTL DEF Spec

\* Rows, keys and calls keep their domains.
THEOREM TypeCorrect == Spec => []TypeOK
<1>1. Inv => TypeOK
  BY DEF Inv
<1>2. QED
  BY <1>1, Always, PTL

\* An active asset has its object unless it was made active around its own purge, or
\* by an insert whose answer its upload did not get.
THEOREM ObjectsKept == Spec => []ActiveHasObject
<1>1. Inv => ActiveHasObject
  BY DEF Inv
<1>2. QED
  BY <1>1, Always, PTL

\* Holds through the server leave no object without a row, but for faults.
THEOREM NothingOrphaned == Spec => []NoOrphanObject
<1>1. Inv => NoOrphanObject
  BY DEF Inv
<1>2. QED
  BY <1>1, Always, PTL

\* A purge takes nothing that content or a variant refers to, but for references
\* written after it has looked, or that it does not see because their item's type
\* has no asset field any more.
THEOREM ReferencesKept == Spec => []NothingLeftDangling
<1>1. Inv => NothingLeftDangling
  BY DEF Inv
<1>2. QED
  BY <1>1, Always, PTL
=============================================================================
