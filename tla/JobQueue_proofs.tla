--------------------------- MODULE JobQueue_proofs ---------------------------
(***************************************************************************)
(* Proofs about JobQueue for any number of jobs, of workers and of         *)
(* attempts, and for any number of failures.                               *)
(*                                                                         *)
(* Everything rests on the guarded claim: it gives a running row to one    *)
(* worker, and every other statement about a row either requires it to be  *)
(* queued or belongs to the worker that claimed it.                        *)
(***************************************************************************)
EXTENDS JobQueue, TLAPS

\* Where the attempts and effects of a job stand, by its status.
Counted ==
    \A j \in Jobs :
      /\ status[j] = "absent" => attempts[j] = 0 /\ effects[j] = 0
      /\ status[j] = "queued" => attempts[j] < MaxAttempts

\* What a sweep has selected was due, or has been attempted in the meantime.
SelectedDue ==
    \A w \in Workers : \A j \in candidates[w] :
      /\ status[j] # "absent"
      /\ due[j] \/ attempts[j] > 0

\* An attempt has not acted before it is executed, and has before it succeeds.
AttemptActs ==
    \A w \in Workers :
      /\ pc[w] \in Owning => attempts[job[w]] > 0
      /\ pc[w] = "execute" => effects[job[w]] < attempts[job[w]]
      /\ pc[w] \in {"submit", "succeed"} => effects[job[w]] > 0

\* A worker about to notify is the only one, and nobody has before it.
NotifierKnows ==
    \A w \in Workers : pc[w] \in Events =>
      /\ job[w] \in Drafts
      /\ status[job[w]] = IF pc[w] = "completed" THEN "succeeded" ELSE "failed"
      /\ \A v \in Workers : pc[v] \in Events /\ job[v] = job[w] => v = w
      /\ \A n \in Jobs : about[n] # None => about[n][1] # job[w]

IInv == /\ TypeOK
        /\ Exclusive
        /\ Counted
        /\ SelectedDue
        /\ AttemptActs
        /\ RetryCeiling
        /\ NotifierKnows
        /\ NoticesTruthful

-----------------------------------------------------------------------------
\* The empty queue satisfies the inductive invariant.
LEMMA InitIInv == Init => IInv
<1> SUFFICES ASSUME Init PROVE IInv
  OBVIOUS
<1> USE BoundsAssumption DEF Init
<1>1. TypeOK
  BY DEF TypeOK, Status, Steps
<1>2. Exclusive /\ AttemptActs /\ NotifierKnows
  BY DEF Exclusive, AttemptActs, NotifierKnows, Owning, Events
<1>3. Counted /\ SelectedDue /\ RetryCeiling /\ NoticesTruthful
  BY DEF Counted, SelectedDue, RetryCeiling, NoticesTruthful
<1>4. QED
  BY <1>1, <1>2, <1>3 DEF IInv

\* Every statement of a worker, every API call and every failure preserves it.
LEMMA StepIInv == IInv /\ [Next]_vars => IInv'
<1> SUFFICES ASSUME IInv, [Next]_vars PROVE IInv'
  OBVIOUS
<1> USE DraftsAssumption, NoneAssumption, BoundsAssumption
<1> USE DEF IInv, TypeOK, Exclusive, Counted, SelectedDue, AttemptActs, RetryCeiling,
            NotifierKnows, NoticesTruthful, Owning, Events, Terminal, Status,
            Steps, rows, sweeps, history, Goto, Release
<1>1. ASSUME NEW j \in Jobs, Create(j) PROVE IInv'
  BY <1>1 DEF Create
<1>2. ASSUME NEW j \in Jobs, Cancel(j) PROVE IInv'
  BY <1>2 DEF Cancel
<1>3. ASSUME NEW j \in Jobs, ComeDue(j) PROVE IInv'
  BY <1>3 DEF ComeDue
<1>4. ASSUME NEW w \in Workers, Sweep(w) PROVE IInv'
  BY <1>4 DEF Sweep, Due
<1>5. ASSUME NEW w \in Workers, NEW j \in Jobs, Claim(w, j) PROVE IInv'
  <2> USE <1>5 DEF Claim
  <2>1. TypeOK' /\ Exclusive' /\ AttemptActs'
    <3>1. TypeOK'
      <4>1. CASE status[j] = "queued"
        <5>1. /\ attempts' = [attempts EXCEPT ![j] = @ + 1]
              /\ status' = [status EXCEPT ![j] = "running"]
              /\ candidates' = [candidates EXCEPT ![w] = @ \ {j}]
              /\ job' = [job EXCEPT ![w] = j]
              /\ pc' = [pc EXCEPT ![w] = "execute"]
              /\ UNCHANGED <<due, effects, about, history>>
          BY <4>1
        <5>2. TypeOK
          OBVIOUS
        <5>3. QED
          BY ONLY <5>1, <5>2, BoundsAssumption DEF TypeOK, Status, Steps, Owning, history
      <4>2. CASE status[j] # "queued"
        BY <4>2
      <4>3. QED
        BY <4>1, <4>2
    <3>2. Exclusive'
      OBVIOUS
    <3>3. AttemptActs'
      OBVIOUS
    <3>4. QED
      BY <3>1, <3>2, <3>3
  <2>2. Counted' /\ SelectedDue' /\ RetryCeiling'
    OBVIOUS
  <2>3. NotifierKnows' /\ NoticesTruthful'
    OBVIOUS
  <2>4. QED
    BY <2>1, <2>2, <2>3
<1>6. ASSUME NEW w \in Workers, EndSweep(w) PROVE IInv'
  BY <1>6 DEF EndSweep
<1>7. ASSUME NEW w \in Workers, Execute(w) PROVE IInv'
  BY <1>7 DEF Execute
<1>8. ASSUME NEW w \in Workers, Submit(w) PROVE IInv'
  BY <1>8 DEF Submit
<1>9. ASSUME NEW w \in Workers, Succeed(w) PROVE IInv'
  BY <1>9 DEF Succeed
<1>10. ASSUME NEW w \in Workers, SucceedFails(w) PROVE IInv'
  BY <1>10 DEF SucceedFails
<1>11. ASSUME NEW w \in Workers, Fail(w) PROVE IInv'
  <2> USE <1>11 DEF Fail
  <2>1. PICK j \in Jobs : /\ j = job[w] /\ pc[w] = "fail" /\ status[j] = "running"
                         /\ attempts[j] <= MaxAttempts /\ effects[j] <= attempts[j]
    OBVIOUS
  <2>2. \A v \in Workers : pc[v] \in Owning \cup Events /\ job[v] = j => v = w
    <3>1. \A v \in Workers : pc[v] \in Owning /\ job[v] = j => v = w
      BY <2>1
    <3>2. \A v \in Workers : pc[v] \in Events =>
            status[job[v]] \in {"succeeded", "failed"}
      OBVIOUS
    <3>3. QED
      BY <2>1, <3>1, <3>2
  <2>3. TypeOK'
    <3>1. status' \in [Jobs -> Status] /\ due' \in [Jobs -> BOOLEAN]
      BY <2>1
    <3>2. pc' \in [Workers -> Steps] /\ job' \in [Workers -> Jobs \cup {None}]
      BY <2>1
    <3>3. UNCHANGED <<attempts, effects, about, candidates, abandoned, faults>>
      OBVIOUS
    <3> HIDE <1>11 DEF Fail, Goto, Release
    <3>4. QED
      BY <3>1, <3>2, <3>3
  <2>4. Exclusive' /\ AttemptActs'
    BY <2>1, <2>2
  <2>5. Counted' /\ RetryCeiling' /\ SelectedDue'
    <3>1. attempts[j] > 0 /\ candidates' = candidates /\ attempts' = attempts
      BY <2>1
    <3>2. \A i \in Jobs : /\ status[i] # "absent" => status'[i] # "absent"
                         /\ i # j => due'[i] = due[i]
      BY <2>1
    <3>3. SelectedDue'
      BY <3>1, <3>2
    <3>4. QED
      BY <2>1, <3>3
  <2>6. NotifierKnows'
    <3>1. \A n \in Jobs : about[n] # None => about[n][1] # j
      BY <2>1
    <3>2. CASE job'[w] = j /\ pc'[w] = "failed" /\ j \in Drafts /\ status'[j] = "failed"
      BY <2>1, <2>2, <3>1, <3>2
    <3>3. CASE Release(w)
      BY <2>1, <2>2, <3>3
    <3>4. QED
      BY <2>1, <3>2, <3>3
  <2>7. NoticesTruthful'
    BY <2>1
  <2>8. QED
    BY <2>3, <2>4, <2>5, <2>6, <2>7
<1>12. ASSUME NEW w \in Workers, Notify(w) PROVE IInv'
  <2> USE <1>12 DEF Notify
  <2>1. PICK j \in Drafts : j = job[w] /\ pc[w] \in Events
    OBVIOUS
  <2>2. CASE UNCHANGED <<status, due, about>>
    BY <2>1, <2>2
  <2>3. ASSUME NEW n \in Jobs \ Drafts,
               /\ status[n] = "absent"
               /\ status' = [status EXCEPT ![n] = "queued"]
               /\ due' = [due EXCEPT ![n] = TRUE]
               /\ about' = [about EXCEPT ![n] = <<job[w], pc[w]>>]
        PROVE  IInv'
    <3>1. <<j, pc[w]>> # None /\ <<j, pc[w]>> \in Drafts \X Events
      BY <2>1
    <3>2. TypeOK'
      BY <2>1, <2>3, <3>1
    <3>3. Exclusive' /\ AttemptActs'
      BY <2>1, <2>3
    <3>4. Counted' /\ RetryCeiling'
      BY <2>1, <2>3
    <3>5. NotifierKnows'
      BY <2>1, <2>3
    <3>6. NoticesTruthful'
      BY <2>1, <2>3, <3>1
    <3>7. QED
      BY <3>2, <3>3, <3>4, <3>5, <3>6
  <2>4. QED
    BY <2>2, <2>3
<1>13. ASSUME NEW w \in Workers, Crash(w) PROVE IInv'
  BY <1>13 DEF Crash
<1>14. CASE UNCHANGED vars
  BY <1>14 DEF vars
<1> HIDE DEF IInv, TypeOK, Exclusive, Counted, SelectedDue, AttemptActs, RetryCeiling,
             NotifierKnows, NoticesTruthful, Goto, Release
<1>15. QED
  BY <1>1, <1>2, <1>3, <1>4, <1>5, <1>6, <1>7, <1>8, <1>9, <1>10, <1>11,
     <1>12, <1>13, <1>14 DEF Next, Statement

\* The inductive invariant holds in every reachable state.
LEMMA Inductive == Spec => []IInv
  BY InitIInv, StepIInv, PTL DEF Spec

-----------------------------------------------------------------------------
\* Rows, selections and counters keep their domains.
THEOREM TypeCorrect == Spec => []TypeOK
<1>1. IInv => TypeOK
  BY DEF IInv
<1>2. QED
  BY <1>1, Inductive, PTL

\* However many processes sweep the queue, no two execute the same job, and
\* the row of a job being executed stays 'running' until its owner is done.
THEOREM OneOwner == Spec => []Exclusive
<1>1. IInv => Exclusive
  BY DEF IInv
<1>2. QED
  BY <1>1, Inductive, PTL

\* No job is claimed more often than maxAttempts, and none is given up before.
THEOREM CeilingKept == Spec => []RetryCeiling
<1>1. IInv => RetryCeiling
  BY DEF IInv
<1>2. QED
  BY <1>1, Inductive, PTL

\* At most one notification is sent about a draft generation, and it tells
\* how the job ended.
THEOREM NoticesTrue == Spec => []NoticesTruthful
<1>1. IInv => NoticesTruthful
  BY DEF IInv
<1>2. QED
  BY <1>1, Inductive, PTL

\* A job that has ended never changes its status or acts again: the claim and
\* the cancellation require a queued row, the rest a row that is owned.
THEOREM EndsForGood == Spec => TerminalIsFinal
<1> DEFINE Kept == \A j \in Jobs : status[j] \in Terminal =>
                     status'[j] = status[j] /\ effects'[j] = effects[j]
<1>1. IInv /\ [Next]_vars => [Kept]_vars
  <2> SUFFICES ASSUME IInv, Next PROVE Kept
    OBVIOUS
  <2> USE DEF IInv, TypeOK, Terminal
  <2>1. ASSUME NEW j \in Jobs, Create(j) \/ Cancel(j) \/ ComeDue(j) PROVE Kept
    BY <2>1 DEF Create, Cancel, ComeDue
  <2>2. ASSUME NEW w \in Workers, NEW j \in Jobs, Claim(w, j) PROVE Kept
    BY <2>2 DEF Claim
  <2>3. ASSUME NEW w \in Workers, Execute(w) \/ Succeed(w) \/ Fail(w) PROVE Kept
    <3>1. job[w] \in Jobs /\ status[job[w]] = "running"
      BY <2>3 DEF Execute, Succeed, Fail, Exclusive, Owning
    <3>2. \A j \in Jobs : j # job[w] =>
            status'[j] = status[j] /\ effects'[j] = effects[j]
      BY <2>3, <3>1 DEF Execute, Succeed, Fail
    <3>3. QED
      BY <3>1, <3>2
  <2>4. ASSUME NEW w \in Workers, Notify(w) PROVE Kept
    BY <2>4 DEF Notify
  <2>5. ASSUME NEW w \in Workers,
               \/ Sweep(w) \/ EndSweep(w) \/ Submit(w)
               \/ SucceedFails(w) \/ Crash(w)
        PROVE  Kept
    BY <2>5 DEF Sweep, EndSweep, Submit, SucceedFails, Crash, rows
  <2>6. QED
    BY <2>1, <2>2, <2>3, <2>4, <2>5 DEF Next, Statement
<1>2. QED
  BY <1>1, Inductive, PTL DEF Spec, TerminalIsFinal

\* The first attempt of a job is not made before its time: a selection only
\* becomes stale by an attempt, which makes the job due later than it says.
THEOREM StartedWhenDue == Spec => StartsWhenDue
<1> DEFINE Timely == \A j \in Jobs : status[j] = "queued" /\ status'[j] = "running" =>
                       due[j] \/ attempts[j] > 0
<1>1. IInv /\ [Next]_vars => [Timely]_vars
  <2> SUFFICES ASSUME IInv, Next,
                      NEW j \in Jobs, status[j] = "queued", status'[j] = "running"
               PROVE  due[j] \/ attempts[j] > 0
    OBVIOUS
  <2> USE DEF IInv, TypeOK
  <2>1. ASSUME NEW i \in Jobs, Create(i) \/ Cancel(i) \/ ComeDue(i) PROVE FALSE
    BY <2>1 DEF Create, Cancel, ComeDue
  <2>2. ASSUME NEW w \in Workers, NEW i \in Jobs, Claim(w, i)
        PROVE  due[j] \/ attempts[j] > 0
    BY <2>2 DEF Claim, SelectedDue
  <2>3. ASSUME NEW w \in Workers, Succeed(w) \/ Fail(w) \/ Notify(w) PROVE FALSE
    BY <2>3 DEF Succeed, Fail, Notify
  <2>4. ASSUME NEW w \in Workers,
               \/ Sweep(w) \/ EndSweep(w) \/ Execute(w) \/ Submit(w)
               \/ SucceedFails(w) \/ Crash(w)
        PROVE  FALSE
    BY <2>4 DEF Sweep, EndSweep, Execute, Submit, SucceedFails, Crash, rows
  <2>5. QED
    BY <2>1, <2>2, <2>3, <2>4 DEF Next, Statement
<1>2. QED
  BY <1>1, Inductive, PTL DEF Spec, StartsWhenDue

\* The sweeps of the processes do not overlap, as those of one process never do.
SweepsApart == \A v, w \in Workers : pc[v] # "idle" /\ pc[w] # "idle" => v = w

\* Then a selection holds only jobs that are due, or over, and never the one
\* that is being executed.
SelectionFresh ==
    \A w \in Workers :
      /\ pc[w] = "idle" => candidates[w] = {}
      /\ \A j \in candidates[w] : status[j] = "queued" => due[j]
      /\ pc[w] \in Owning => job[w] \notin candidates[w]

LEMMA StepSelectionFresh ==
  IInv /\ SweepsApart /\ SelectionFresh /\ [Next]_vars => SelectionFresh'
<1> SUFFICES ASSUME IInv, SweepsApart, SelectionFresh, [Next]_vars PROVE SelectionFresh'
  OBVIOUS
<1>0. TypeOK /\ Exclusive /\ SelectedDue
  BY DEF IInv
<1> USE DEF SelectionFresh, Owning
<1>1. ASSUME NEW j \in Jobs, Create(j) \/ Cancel(j) \/ ComeDue(j) PROVE SelectionFresh'
  BY <1>0, <1>1 DEF Create, Cancel, ComeDue, sweeps, SelectedDue, TypeOK
<1>2. ASSUME NEW w \in Workers, Sweep(w) PROVE SelectionFresh'
  BY <1>0, <1>2 DEF Sweep, Due, rows, TypeOK
<1>3. ASSUME NEW w \in Workers, NEW j \in Jobs, Claim(w, j) PROVE SelectionFresh'
  BY <1>0, <1>3 DEF Claim, TypeOK
<1>4. ASSUME NEW w \in Workers, EndSweep(w) \/ Execute(w) \/ Submit(w) \/ SucceedFails(w) \/ Crash(w)
      PROVE  SelectionFresh'
  BY <1>0, <1>4 DEF EndSweep, Execute, Submit, SucceedFails, Crash, Goto, rows, TypeOK
<1>5. ASSUME NEW w \in Workers, Succeed(w) PROVE SelectionFresh'
  BY <1>0, <1>5 DEF Succeed, Goto, Release, Exclusive, TypeOK
<1>6. ASSUME NEW w \in Workers, Fail(w) PROVE SelectionFresh'
  <2>1. PICK j \in Jobs : j = job[w] /\ j \notin candidates[w]
    BY <1>0, <1>6 DEF Fail, Exclusive
  <2>2. /\ \A i \in Jobs \ {j} : status'[i] = status[i] /\ due'[i] = due[i]
        /\ candidates' = candidates /\ pc[w] = "fail" /\ pc'[w] \in {"claim", "failed"}
        /\ \A v \in Workers \ {w} : pc'[v] = pc[v] /\ job'[v] = job[v]
    BY <1>0, <1>6, <2>1 DEF Fail, Goto, Release, TypeOK
  <2>3. \A v \in Workers \ {w} : candidates[v] = {}
    BY <2>2 DEF SweepsApart
  <2>4. QED
    BY <1>0, <2>1, <2>2, <2>3 DEF TypeOK
<1>7. ASSUME NEW w \in Workers, Notify(w) PROVE SelectionFresh'
  BY <1>0, <1>7 DEF Notify, Release, Events, SelectedDue, TypeOK
<1>8. CASE UNCHANGED vars
  BY <1>8 DEF vars, rows, sweeps
<1>9. QED
  BY <1>1, <1>2, <1>3, <1>4, <1>5, <1>6, <1>7, <1>8 DEF Next, Statement

\* While sweeps do not overlap, runAt is when a worker is allowed to claim a
\* job, retries included: only another process can have selected a job before
\* the failure that put it off.
THEOREM ClaimedInTime == Spec /\ []SweepsApart => ClaimedWhenDue
<1> DEFINE Timely == \A j \in Jobs : status[j] = "queued" /\ status'[j] = "running" => due[j]
<1>1. IInv /\ SelectionFresh /\ [Next]_vars => [Timely]_vars
  <2> SUFFICES ASSUME IInv, SelectionFresh, Next,
                      NEW j \in Jobs, status[j] = "queued", status'[j] = "running"
               PROVE  due[j]
    OBVIOUS
  <2> USE DEF IInv, TypeOK
  <2>1. ASSUME NEW i \in Jobs, Create(i) \/ Cancel(i) \/ ComeDue(i) PROVE FALSE
    BY <2>1 DEF Create, Cancel, ComeDue
  <2>2. ASSUME NEW w \in Workers, NEW i \in Jobs, Claim(w, i) PROVE due[j]
    BY <2>2 DEF Claim, SelectionFresh
  <2>3. ASSUME NEW w \in Workers, Succeed(w) \/ Fail(w) \/ Notify(w) PROVE FALSE
    BY <2>3 DEF Succeed, Fail, Notify
  <2>4. ASSUME NEW w \in Workers,
               \/ Sweep(w) \/ EndSweep(w) \/ Execute(w) \/ Submit(w)
               \/ SucceedFails(w) \/ Crash(w)
        PROVE  FALSE
    BY <2>4 DEF Sweep, EndSweep, Execute, Submit, SucceedFails, Crash, rows
  <2>5. QED
    BY <2>1, <2>2, <2>3, <2>4 DEF Next, Statement
<1>2. Init => SelectionFresh
  BY DEF Init, SelectionFresh, Owning
<1>3. QED
  BY <1>1, <1>2, StepSelectionFresh, Inductive, PTL DEF Spec, ClaimedWhenDue

-----------------------------------------------------------------------------
\* A running job is being executed, or its worker died on it: nobody gives one
\* up without writing its outcome.
LEMMA RunningOwnedStep == RunningIsOwned /\ IInv /\ [Next]_vars => RunningIsOwned'
<1> SUFFICES ASSUME RunningIsOwned, IInv, [Next]_vars PROVE RunningIsOwned'
  OBVIOUS
<1> USE NoneAssumption
        DEF RunningIsOwned, IInv, TypeOK, Exclusive, Owning, Events, Terminal, rows,
            history, sweeps, Goto, Release
<1>1. ASSUME NEW j \in Jobs, Create(j) \/ Cancel(j) \/ ComeDue(j) PROVE RunningIsOwned'
  BY <1>1 DEF Create, Cancel, ComeDue
<1>2. ASSUME NEW w \in Workers, NEW j \in Jobs, Claim(w, j) PROVE RunningIsOwned'
  BY <1>2 DEF Claim
<1>3. ASSUME NEW w \in Workers, Execute(w) \/ Submit(w) \/ SucceedFails(w)
      PROVE  RunningIsOwned'
  BY <1>3 DEF Execute, Submit, SucceedFails
<1>4. ASSUME NEW w \in Workers, Succeed(w) \/ Fail(w) PROVE RunningIsOwned'
  <2>1. PICK j \in Jobs : j = job[w] /\ status[j] = "running"
    BY <1>4 DEF Succeed, Fail
  <2>2. \A i \in Jobs : IF i = j THEN status'[i] # "running" ELSE status'[i] = status[i]
    <3>1. CASE Succeed(w)
      BY <2>1, <3>1 DEF Succeed
    <3>2. CASE Fail(w)
      BY <2>1, <3>2 DEF Fail
    <3>3. QED
      BY <1>4, <3>1, <3>2
  <2>3. abandoned' = abandoned
    BY <1>4 DEF Succeed, Fail
  <2>4. \A v \in Workers : v # w => pc'[v] = pc[v] /\ job'[v] = job[v]
    <3>1. CASE Succeed(w)
      BY <3>1 DEF Succeed
    <3>2. CASE Fail(w)
      BY <3>2 DEF Fail
    <3>3. QED
      BY <1>4, <3>1, <3>2
  <2>5. QED
    BY ONLY RunningIsOwned, <2>1, <2>2, <2>3, <2>4 DEF RunningIsOwned
<1>5. ASSUME NEW w \in Workers, Notify(w) PROVE RunningIsOwned'
  BY <1>5 DEF Notify
<1>6. ASSUME NEW w \in Workers, Sweep(w) \/ EndSweep(w) \/ Crash(w) PROVE RunningIsOwned'
  BY <1>6 DEF Sweep, EndSweep, Crash
<1>7. CASE UNCHANGED vars
  BY <1>7 DEF vars
<1> HIDE DEF RunningIsOwned, IInv
<1>8. QED
  BY <1>1, <1>2, <1>3, <1>4, <1>5, <1>6, <1>7 DEF Next, Statement

\* No job is left running without a worker, unless its worker died on it.
THEOREM RunningOwned == Spec => []RunningIsOwned
<1>1. Init => RunningIsOwned
  BY DEF Init, RunningIsOwned
<1>2. QED
  BY <1>1, RunningOwnedStep, Inductive, PTL DEF Spec

-----------------------------------------------------------------------------
(* The queue implements its contract.                                      *)

\* A step that moves no row and no owner is a stutter of the contract.
LEMMA Stutter ==
  ASSUME UNCHANGED <<status, attempts, effects>>, Holders' = Holders
  PROVE  UNCHANGED Contract!vars
<1>1. Stage' = Stage
  BY DEF Stage
<1>2. QED
  BY <1>1 DEF Contract!vars

\* A worker that owns a job is its only holder, and the contract sees it held.
LEMMA Held ==
  ASSUME IInv, NEW w \in Workers, pc[w] \in Owning
  PROVE  /\ job[w] \in Jobs
         /\ Holders[job[w]] = {w}
         /\ Stage[job[w]] = "held"
<1>1. job[w] \in Jobs /\ status[job[w]] = "running" /\ Holders[job[w]] = {w}
  BY DEF IInv, Exclusive, Holders
<1>2. QED
  BY <1>1 DEF Stage

\* A worker that lets go of its job leaves it without a holder.
LEMMA LetsGo ==
  ASSUME IInv, NEW w \in Workers, pc[w] \in Owning, pc'[w] \notin Owning,
         \A v \in Workers : v # w => pc'[v] = pc[v] /\ job'[v] = job[v]
  PROVE  Holders' = [Holders EXCEPT ![job[w]] = {}]
<1>1. job[w] \in Jobs /\ Holders[job[w]] = {w}
  BY Held
<1>2. Holders'[job[w]] = {}
  <2>1. \A v \in Workers : pc[v] \in Owning /\ job[v] = job[w] => v = w
    BY DEF IInv, Exclusive
  <2>2. \A v \in Workers : ~(pc'[v] \in Owning /\ job'[v] = job[w])
    BY <2>1
  <2>3. QED
    BY <1>1, <2>2 DEF Holders
<1>3. ASSUME NEW j \in Jobs, j # job[w] PROVE Holders'[j] = Holders[j]
  <2>1. \A v \in Workers : (pc'[v] \in Owning /\ job'[v] = j) <=> (pc[v] \in Owning /\ job[v] = j)
    BY <1>3
  <2>2. QED
    BY <2>1 DEF Holders
<1>4. /\ Holders = [j \in Jobs |-> Holders[j]]
      /\ Holders' = [j \in Jobs |-> Holders'[j]]
  BY DEF Holders
<1> HIDE DEF Holders
<1>5. \A j \in Jobs : Holders'[j] = IF j = job[w] THEN {} ELSE Holders[j]
  BY <1>1, <1>2, <1>3
<1>6. QED
  BY <1>1, <1>4, <1>5

\* A job whose row is rewritten while all its holders keep theirs.
LEMMA OneStage ==
  ASSUME NEW j \in Jobs, NEW stage,
         \A i \in Jobs : i # j => status'[i] = status[i] /\ Holders'[i] = Holders[i],
         Stage'[j] = stage
  PROVE  Stage' = [Stage EXCEPT ![j] = stage]
<1>1. Stage = [i \in Jobs |-> Stage[i]] /\ Stage' = [i \in Jobs |-> Stage'[i]]
  BY DEF Stage
<1>2. \A i \in Jobs : i # j => Stage'[i] = Stage[i]
  BY DEF Stage
<1> HIDE DEF Stage
<1>3. QED
  BY <1>1, <1>2

\* An empty queue is an empty contract.
LEMMA InitContract == Init => Contract!Init
BY DEF Init, Contract!Init, Stage, Holders, Owning

\* Holders only depend on what the workers that execute a job are doing.
LEMMA SameHolders ==
  ASSUME \A v \in Workers : /\ pc'[v] \in Owning <=> pc[v] \in Owning
                            /\ pc[v] \in Owning => job'[v] = job[v]
  PROVE  Holders' = Holders
<1>1. \A j \in Jobs, v \in Workers :
        (pc'[v] \in Owning /\ job'[v] = j) <=> (pc[v] \in Owning /\ job[v] = j)
  OBVIOUS
<1>2. QED
  BY <1>1 DEF Holders

\* Every step of the queue is one of the contract, or changes nothing it sees.
LEMMA StepContract == IInv /\ [Next]_vars => [Contract!Next]_(Contract!vars)
<1> SUFFICES ASSUME IInv, [Next]_vars
             PROVE  Contract!Next \/ UNCHANGED Contract!vars
  OBVIOUS
<1> USE NoneAssumption, BoundsAssumption DEF Owning, Events, rows, history, sweeps
<1>0. TypeOK
  BY DEF IInv
<1>1. ASSUME NEW j \in Jobs, Create(j) PROVE Contract!Next
  <2>1. Holders' = Holders
    BY <1>1, SameHolders DEF Create
  <2>2. Stage[j] = "none" /\ Stage'[j] = "waiting"
    BY <1>0, <1>1 DEF Create, Stage, TypeOK
  <2>3. Stage' = [Stage EXCEPT ![j] = "waiting"]
    BY <1>0, <1>1, <2>1, <2>2, OneStage DEF Create, TypeOK
  <2>4. Contract!Enqueue(j)
    BY <1>1, <2>1, <2>2, <2>3 DEF Create, Contract!Enqueue
  <2>5. QED
    BY <2>4 DEF Contract!Next
<1>2. ASSUME NEW j \in Jobs, Cancel(j) PROVE Contract!Next
  <2>1. Holders' = Holders
    BY <1>2, SameHolders DEF Cancel
  <2>2. Stage[j] = "waiting" /\ Stage'[j] = "over"
    BY <1>0, <1>2 DEF Cancel, Stage, TypeOK
  <2>3. Stage' = [Stage EXCEPT ![j] = "over"]
    BY <1>0, <1>2, <2>1, <2>2, OneStage DEF Cancel, TypeOK
  <2>4. Contract!Withdraw(j)
    BY <1>2, <2>1, <2>2, <2>3 DEF Cancel, Contract!Withdraw
  <2>5. QED
    BY <2>4 DEF Contract!Next
<1>3. ASSUME NEW j \in Jobs, ComeDue(j) PROVE UNCHANGED Contract!vars
  BY <1>3, SameHolders, Stutter DEF ComeDue
<1>4. ASSUME NEW w \in Workers, Sweep(w) \/ EndSweep(w) \/ Submit(w) \/ SucceedFails(w)
      PROVE  UNCHANGED Contract!vars
  <2>1. UNCHANGED <<status, attempts, effects>>
    BY <1>4 DEF Sweep, EndSweep, Submit, SucceedFails
  <2>2. \A v \in Workers : /\ pc'[v] \in Owning <=> pc[v] \in Owning
                           /\ job'[v] = job[v]
    BY <1>0, <1>4 DEF TypeOK, Sweep, EndSweep, Submit, SucceedFails, Goto
  <2>3. QED
    BY <2>1, <2>2, SameHolders, Stutter
<1>5. ASSUME NEW w \in Workers, NEW j \in Jobs, Claim(w, j)
      PROVE  Contract!Next \/ UNCHANGED Contract!vars
  <2>1. CASE status[j] = "queued"
    <3>1. /\ Holders[j] = {}
          /\ \A i \in Jobs : w \notin Holders[i]
      BY <1>5, <2>1 DEF IInv, Exclusive, Holders, Claim
    <3>2. /\ pc'[w] \in Owning /\ job'[w] = j
          /\ \A v \in Workers : v # w => pc'[v] = pc[v] /\ job'[v] = job[v]
      BY <1>0, <1>5, <2>1 DEF TypeOK, Claim
    <3>3. Holders'[j] = {w}
      <4>1. \A v \in Workers : (pc'[v] \in Owning /\ job'[v] = j) <=> v = w
        BY <3>1, <3>2 DEF Holders
      <4>2. QED
        BY <4>1 DEF Holders
    <3>4. ASSUME NEW i \in Jobs, i # j PROVE Holders'[i] = Holders[i]
      <4>1. \A v \in Workers :
              (pc'[v] \in Owning /\ job'[v] = i) <=> (pc[v] \in Owning /\ job[v] = i)
        BY <3>1, <3>2, <3>4 DEF Holders
      <4>2. QED
        BY <4>1 DEF Holders
    <3>5. Holders' = [Holders EXCEPT ![j] = {w}]
      <4>1. /\ Holders = [i \in Jobs |-> Holders[i]]
            /\ Holders' = [i \in Jobs |-> Holders'[i]]
        BY DEF Holders
      <4> HIDE DEF Holders
      <4>2. QED
        BY <3>3, <3>4, <4>1
    <3>6. Stage[j] = "waiting" /\ Stage'[j] = "held"
      BY <1>0, <1>5, <2>1, <3>3 DEF Claim, Stage, TypeOK
    <3>7. Stage' = [Stage EXCEPT ![j] = "held"]
      BY <1>0, <1>5, <2>1, <3>4, <3>6, OneStage DEF Claim, TypeOK
    <3>8. attempts[j] < MaxAttempts
      BY <2>1 DEF IInv, Counted
    <3>9. attempts' = [attempts EXCEPT ![j] = @ + 1] /\ effects' = effects
      BY <1>5, <2>1 DEF Claim
    <3>10. Contract!Take(w, j)
      BY <3>5, <3>6, <3>7, <3>8, <3>9 DEF Contract!Take
    <3>11. QED
      BY <3>10 DEF Contract!Next
  <2>2. CASE status[j] # "queued"
    BY <1>5, <2>2, SameHolders, Stutter DEF Claim
  <2>3. QED
    BY <2>1, <2>2
<1>6. ASSUME NEW w \in Workers, Execute(w)
      PROVE  Contract!Next \/ UNCHANGED Contract!vars
  <2>1. job[w] \in Jobs /\ Stage[job[w]] = "held" /\ effects[job[w]] < attempts[job[w]]
    BY <1>6, Held DEF Execute, IInv, AttemptActs
  <2>2. UNCHANGED <<status, attempts>>
    BY <1>6 DEF Execute
  <2>3. Holders' = Holders
    <3>1. \A v \in Workers : /\ pc'[v] \in Owning <=> pc[v] \in Owning
                             /\ job'[v] = job[v]
      BY <1>0, <1>6 DEF TypeOK, Execute, Goto
    <3>2. QED
      BY <3>1, SameHolders
  <2>4. Stage' = Stage
    BY <2>2, <2>3 DEF Stage
  <2>5. CASE effects' = [effects EXCEPT ![job[w]] = @ + 1]
    BY <2>1, <2>2, <2>3, <2>4, <2>5 DEF Contract!Act, Contract!Next
  <2>6. CASE effects' = effects
    BY <2>2, <2>3, <2>6, Stutter
  <2>7. QED
    BY <1>6, <2>5, <2>6 DEF Execute
<1>7. ASSUME NEW w \in Workers, pc[w] \in Owning, pc'[w] \notin Owning,
             \A v \in Workers : v # w => pc'[v] = pc[v] /\ job'[v] = job[v],
             \A i \in Jobs : i # job[w] => status'[i] = status[i],
             NEW next \in {"waiting", "over", "lost"}, Stage'[job[w]] = next,
             next = "waiting" => attempts[job[w]] < MaxAttempts,
             next = "over" => effects[job[w]] > 0 \/ attempts[job[w]] = MaxAttempts,
             UNCHANGED <<attempts, effects>>
      PROVE  Contract!Next
  <2>1. job[w] \in Jobs /\ Stage[job[w]] = "held"
    BY <1>7, Held
  <2>2. Holders' = [Holders EXCEPT ![job[w]] = {}]
    BY <1>7, LetsGo
  <2>3. \A i \in Jobs : i # job[w] => Holders'[i] = Holders[i]
    BY <2>2 DEF Holders
  <2>4. Stage' = [Stage EXCEPT ![job[w]] = next]
    BY <1>7, <2>1, <2>3, OneStage
  <2>5. Contract!LetGo(job[w], next)
    BY <1>7, <2>1, <2>2, <2>4 DEF Contract!LetGo
  <2>6. QED
    BY <2>1, <2>5 DEF Contract!Next
<1>8. ASSUME NEW w \in Workers, Succeed(w) PROVE Contract!Next
  <2>1. /\ job[w] \in Jobs /\ pc[w] = "succeed" /\ pc'[w] \notin Owning
        /\ \A v \in Workers : v # w => pc'[v] = pc[v] /\ job'[v] = job[v]
        /\ effects[job[w]] > 0
    BY <1>0, <1>8 DEF IInv, Exclusive, AttemptActs, TypeOK, Succeed, Goto, Release
  <2>2. status'[job[w]] = "succeeded" /\ \A i \in Jobs : i # job[w] => status'[i] = status[i]
    BY <1>0, <1>8, <2>1 DEF TypeOK, Succeed
  <2>3. Stage'[job[w]] = "over"
    BY <2>1, <2>2 DEF Stage
  <2>4. UNCHANGED <<attempts, effects>>
    BY <1>8 DEF Succeed
  <2>5. QED
    BY <1>7, <2>1, <2>2, <2>3, <2>4
<1>9. ASSUME NEW w \in Workers, Fail(w) PROVE Contract!Next
  <2> DEFINE next == IF attempts[job[w]] < MaxAttempts THEN "waiting" ELSE "over"
  <2>1. /\ job[w] \in Jobs /\ pc[w] = "fail" /\ pc'[w] \notin Owning
        /\ \A v \in Workers : v # w => pc'[v] = pc[v] /\ job'[v] = job[v]
    BY <1>0, <1>9 DEF IInv, Exclusive, TypeOK, Fail, Goto, Release
  <2>2. /\ status'[job[w]] = IF attempts[job[w]] < MaxAttempts THEN "queued" ELSE "failed"
        /\ \A i \in Jobs : i # job[w] => status'[i] = status[i]
    BY <1>0, <1>9, <2>1 DEF TypeOK, Fail
  <2>3. Stage'[job[w]] = next
    BY <2>1, <2>2 DEF Stage
  <2>4. UNCHANGED <<attempts, effects>>
    BY <1>9 DEF Fail
  <2>5. next = "over" => attempts[job[w]] = MaxAttempts
    BY <1>0, <2>1 DEF IInv, RetryCeiling, TypeOK
  <2>6. QED
    BY <1>7, <2>1, <2>2, <2>3, <2>4, <2>5
<1>10. ASSUME NEW w \in Workers, Notify(w)
       PROVE  Contract!Next \/ UNCHANGED Contract!vars
  <2>1. Holders' = Holders
    <3>1. \A v \in Workers : /\ pc'[v] \in Owning <=> pc[v] \in Owning
                             /\ pc[v] \in Owning => job'[v] = job[v]
      BY <1>0, <1>10 DEF TypeOK, Notify, Release
    <3>2. QED
      BY <3>1, SameHolders
  <2>2. UNCHANGED <<attempts, effects>>
    BY <1>10 DEF Notify
  <2>3. CASE UNCHANGED status
    BY <2>1, <2>2, <2>3, Stutter
  <2>4. ASSUME NEW n \in Jobs, status[n] = "absent",
               status' = [status EXCEPT ![n] = "queued"]
        PROVE  Contract!Next
    <3>1. Stage[n] = "none" /\ Stage'[n] = "waiting"
      BY <1>0, <2>4 DEF TypeOK, Stage
    <3>2. Stage' = [Stage EXCEPT ![n] = "waiting"]
      BY <1>0, <2>1, <2>4, <3>1, OneStage DEF TypeOK
    <3>3. Contract!Enqueue(n)
      BY <2>1, <2>2, <3>1, <3>2 DEF Contract!Enqueue
    <3>4. QED
      BY <3>3 DEF Contract!Next
  <2>5. QED
    BY <1>10, <2>3, <2>4 DEF Notify
<1>11. ASSUME NEW w \in Workers, Crash(w)
       PROVE  Contract!Next \/ UNCHANGED Contract!vars
  <2>1. /\ UNCHANGED <<status, attempts, effects>>
        /\ pc'[w] \notin Owning
        /\ \A v \in Workers : v # w => pc'[v] = pc[v] /\ job'[v] = job[v]
    BY <1>0, <1>11 DEF TypeOK, Crash
  <2>2. CASE pc[w] \in Owning
    <3>1. job[w] \in Jobs /\ status[job[w]] = "running"
      BY <2>2 DEF IInv, Exclusive
    <3>2. Holders'[job[w]] = {}
      BY <2>1, <2>2, <3>1, LetsGo DEF Holders
    <3>3. Stage'[job[w]] = "lost"
      BY <2>1, <3>1, <3>2 DEF Stage
    <3>4. QED
      BY <1>7, <2>1, <2>2, <3>3
  <2>3. CASE pc[w] \notin Owning
    BY <2>1, <2>3, SameHolders, Stutter
  <2>4. QED
    BY <2>2, <2>3
<1>12. CASE UNCHANGED vars
  BY <1>12, SameHolders, Stutter DEF vars
<1>13. QED
  BY <1>1, <1>2, <1>3, <1>4, <1>5, <1>6, <1>8, <1>9, <1>10, <1>11, <1>12
     DEF Next, Statement

\* The queue implements its contract: for any number of jobs, processes and
\* failures, a job is held by one worker at a time, acts at most once per try,
\* and is over for good once it has ended.
THEOREM Implements == Spec => KeepsContract
<1>1. Spec => Contract!Init /\ [][Contract!Next]_(Contract!vars)
  BY InitContract, StepContract, Inductive, PTL DEF Spec
<1>2. QED
  BY <1>1 DEF KeepsContract, Contract!Spec
=============================================================================
