--------------------------- MODULE AgentRuns_proofs ---------------------------
(***************************************************************************)
(* Proofs about AgentRuns for any plan, any number of operators' calls and *)
(* of server processes, and any number of retries and failures.            *)
(*                                                                         *)
(* The worker never looks at the run between two steps, so all that stops  *)
(* it is in the steps themselves: a claim needs a pending step, and only   *)
(* the resumption of a failed run makes one pending again, out of a step   *)
(* that failed and that nobody holds any more.                             *)
(*                                                                         *)
(* That a run which succeeded is done needs more than IInv, for a worker   *)
(* settles the run long after it has looked at the steps: DoneInv says     *)
(* that what it saw is still true, unless the run was cancelled since, and *)
(* so it is as long as no call revives a cancelled run.                    *)
(***************************************************************************)
EXTENDS AgentRuns, TLAPS

IInv == /\ TypeOK
        /\ StepOwned
        /\ CancelStops

-----------------------------------------------------------------------------
\* A new run has no steps and nobody works on it.
LEMMA InitIInv == Init => IInv
<1> SUFFICES ASSUME Init PROVE IInv
  OBVIOUS
<1> USE DEF Init
<1>1. status \in Statuses /\ retries \in Nat /\ faults \in 0..MaxFaults
  BY BoundsAssumption DEF Statuses
<1> started \in BOOLEAN /\ completed \in BOOLEAN /\ planned \subseteq Items
  OBVIOUS
<1>2. step \in [Items -> StepStatuses] /\ submissions \in [Items -> Nat]
      /\ pc \in [Workers -> Steps] /\ todo \in [Workers -> SUBSET Items]
  BY DEF StepStatuses, Steps
<1>3. held \in [Controllers -> Copies \cup {None}]
      /\ item \in [Workers -> Items \cup {None}]
      /\ abandoned \subseteq Items /\ misrecorded \subseteq Items
  OBVIOUS
<1>4. StepOwned /\ CancelStops
  BY DEF StepOwned, CancelStops, Owning
<1>5. QED
  BY <1>1, <1>2, <1>3, <1>4 DEF IInv, TypeOK

\* A transition that an action leads to keeps the domains of the steps, leaves
\* a held step with its holder, and leaves nothing pending when it cancels.
LEMMA StepsAfterKeeps ==
  ASSUME IInv, NEW from \in Statuses, NEW to \in Statuses
  PROVE  /\ StepsAfter(from, to) \in [Items -> StepStatuses]
         /\ \A i \in Items :
              /\ step[i] = "succeeded" => StepsAfter(from, to)[i] = "succeeded"
              /\ step[i] = "skipped" => StepsAfter(from, to)[i] = "skipped"
              /\ step[i] = "executing" =>
                   StepsAfter(from, to)[i] \in {"executing", "skipped"}
              /\ to = "cancelled" => StepsAfter(from, to)[i] # "pending"
BY DEF IInv, TypeOK, StepStatuses, StepsAfter

\* A step is left alone by everyone but its holder: it is enough to look at
\* the worker that moves.
LEMMA OthersUndisturbed ==
  ASSUME StepOwned, NEW w \in Workers,
         \A v \in Workers \ {w} : pc'[v] = pc[v] /\ item'[v] = item[v],
         \A v \in Workers \ {w} : pc[v] \in Owning => step'[item[v]] = step[item[v]],
         misrecorded \subseteq misrecorded',
         pc'[w] \in Owning =>
           /\ item'[w] \in Items
           /\ \/ step'[item'[w]] \in {"executing", "skipped"}
              \/ /\ step'[item'[w]] = "succeeded"
                 /\ item'[w] \in misrecorded' /\ pc'[w] = "fail"
           /\ \A v \in Workers \ {w} : pc[v] \in Owning => item[v] # item'[w]
  PROVE  StepOwned'
BY DEF StepOwned

\* Every statement of an operator's call or of a worker preserves it.
LEMMA StepIInv == IInv /\ [Next]_vars => IInv'
<1> SUFFICES ASSUME IInv, [Next]_vars PROVE IInv'
  OBVIOUS
<1> USE BoundsAssumption DEF IInv
<1>1. ASSUME NEW c \in Controllers, NEW to \in Statuses, NEW action, Control(c, action, to)
      PROVE  IInv'
  BY <1>1 DEF Control, Leads, TypeOK, StepOwned, CancelStops, Copies, run, sweeps, history
<1>2. ASSUME NEW c \in Controllers, Commit(c) PROVE IInv'
  <2>1. PICK h \in Copies : h = held[c]
    BY <1>2 DEF Commit, TypeOK
  <2>2. /\ status' = h.to /\ h.to \in Statuses /\ h.from \in Statuses
        /\ step' = StepsAfter(h.from, h.to)
        /\ UNCHANGED <<ahead, planned, submissions, sweeps, abandoned, misrecorded, faults>>
    BY <1>2, <2>1 DEF Commit, Copies
  <2>3. TypeOK'
    <3>1. step' \in [Items -> StepStatuses]
      BY <2>2, StepsAfterKeeps
    <3>2. started' \in BOOLEAN /\ completed' \in BOOLEAN
      <4>1. started \in BOOLEAN /\ completed \in BOOLEAN
        BY DEF TypeOK
      <4>2. started' = (started \/ held[c].to = "running")
        BY <1>2 DEF Commit
      <4>3. completed' \in {TRUE, FALSE, completed}
        BY <1>2 DEF Commit
      <4>4. QED
        BY <4>1, <4>2, <4>3
    <3>5. retries' \in Nat
      BY <1>2 DEF Commit, TypeOK
    <3>3. held' \in [Controllers -> Copies \cup {None}]
      <4>1. held' = [held EXCEPT ![c] = None]
        BY <1>2 DEF Commit
      <4>2. QED
        BY <4>1 DEF TypeOK
    <3>4. QED
      BY <2>2, <3>1, <3>2, <3>3, <3>5 DEF TypeOK, sweeps
  <2>4. StepOwned'
    <3> SUFFICES ASSUME NEW w \in Workers, pc[w] \in Owning
                 PROVE  /\ item[w] \in Items
                        /\ \/ step'[item[w]] \in {"executing", "skipped"}
                           \/ /\ step'[item[w]] = "succeeded"
                              /\ item[w] \in misrecorded /\ pc[w] = "fail"
                        /\ \A v \in Workers : pc[v] \in Owning /\ item[v] = item[w] => v = w
      BY <2>2 DEF StepOwned, sweeps
    <3>1. QED
      BY <2>2, StepsAfterKeeps DEF StepOwned
  <2>5. CancelStops'
    BY <2>2, StepsAfterKeeps DEF CancelStops
  <2>6. QED
    BY <2>3, <2>4, <2>5
<1> USE DEF TypeOK, StepOwned, CancelStops, Terminal, Statuses, StepStatuses, Owning,
            Steps, run, sweeps, history, Goto
<1>3. ASSUME NEW w \in Workers, Select(w) PROVE IInv'
  BY <1>3 DEF Select
<1>4. ASSUME NEW w \in Workers, List(w) PROVE IInv'
  BY <1>4 DEF List
<1>5. ASSUME NEW w \in Workers, NEW i \in Items, Claim(w, i) PROVE IInv'
  <2> HIDE DEF TypeOK, StepOwned, CancelStops, Owning, Steps, Statuses, StepStatuses
  <2>1. /\ todo' = [todo EXCEPT ![w] = @ \ {i}]
        /\ UNCHANGED <<run, ahead, planned, submissions, held, history>>
    BY <1>5 DEF Claim
  <2>2. CASE step[i] = "pending"
    <3>1. /\ step' = [step EXCEPT ![i] = "executing"]
          /\ item' = [item EXCEPT ![w] = i]
          /\ pc' = [pc EXCEPT ![w] = "submit"]
      BY <1>5, <2>2 DEF Claim
    <3>2. TypeOK'
      BY <2>1, <3>1 DEF TypeOK, StepStatuses, Steps, Owning
    <3>3. \A v \in Workers : pc[v] \in Owning => item[v] # i
      BY <2>2 DEF StepOwned
    <3>4. StepOwned'
      BY <2>1, <3>1, <3>3, OthersUndisturbed DEF TypeOK, Owning
    <3>5. CancelStops'
      BY <2>1, <3>1 DEF TypeOK, CancelStops
    <3>6. QED
      BY <3>2, <3>4, <3>5
  <2>3. CASE step[i] # "pending"
    <3>1. UNCHANGED <<step, item, pc>>
      BY <1>5, <2>3 DEF Claim
    <3>2. QED
      BY <2>1, <3>1 DEF TypeOK, StepOwned, CancelStops
  <2>4. QED
    BY <2>2, <2>3
<1>6. ASSUME NEW w \in Workers, Submit(w) PROVE IInv'
  <2> HIDE DEF TypeOK, StepOwned, CancelStops, Owning, Steps, Statuses, StepStatuses
  <2>1. /\ pc[w] = "submit"
        /\ pc' = [pc EXCEPT ![w] = "succeed"] \/ pc' = [pc EXCEPT ![w] = "fail"]
        /\ submissions' \in {submissions, [submissions EXCEPT ![item[w]] = @ + 1]}
        /\ UNCHANGED <<run, ahead, planned, step, held, todo, item, history>>
    BY <1>6 DEF Submit
  <2>2. /\ item[w] \in Items /\ step[item[w]] \in {"executing", "skipped"}
        /\ \A v \in Workers \ {w} : pc[v] \in Owning => item[v] # item[w]
    BY <2>1 DEF StepOwned, Owning
  <2>3. TypeOK'
    <3>1. submissions' \in [Items -> Nat]
      <4>1. [submissions EXCEPT ![item[w]] = @ + 1] \in [Items -> Nat]
        BY <2>2 DEF TypeOK
      <4>2. QED
        BY <2>1, <4>1 DEF TypeOK
    <3>3. pc' \in [Workers -> Steps]
      BY <2>1 DEF TypeOK, Steps, Owning
    <3>2. QED
      BY <2>1, <3>1, <3>3 DEF TypeOK
  <2>4. StepOwned'
    BY <2>1, <2>2, OthersUndisturbed DEF TypeOK, Owning
  <2>5. CancelStops'
    BY <2>1 DEF CancelStops
  <2>6. QED
    BY <2>3, <2>4, <2>5
<1>7. ASSUME NEW w \in Workers, NEW outcome \in {"succeeded", "failed"},
             pc[w] \in Owning, Record(w, outcome)
      PROVE  IInv'
  <2> HIDE DEF TypeOK, StepOwned, CancelStops, Owning, Steps, Statuses, StepStatuses
  <2>1. /\ step' = [step EXCEPT ![item[w]] = outcome]
        /\ item' = [item EXCEPT ![w] = None]
        /\ pc' = [pc EXCEPT ![w] = "claim"]
        /\ UNCHANGED <<run, ahead, planned, submissions, held, todo, history>>
    BY <1>7 DEF Record
  <2>2. /\ item[w] \in Items
        /\ \A v \in Workers \ {w} : pc[v] \in Owning => item[v] # item[w]
    BY <1>7 DEF StepOwned
  <2>3. TypeOK'
    BY <2>1, <2>2 DEF TypeOK, StepStatuses, Steps
  <2>4. StepOwned'
    <3>1. \A v \in Workers \ {w} : pc[v] \in Owning => step'[item[v]] = step[item[v]]
      BY <2>1, <2>2 DEF TypeOK, StepOwned
    <3>2. pc'[w] \notin Owning
      BY <2>1 DEF TypeOK, Owning
    <3>3. QED
      BY <2>1, <3>1, <3>2, OthersUndisturbed DEF TypeOK
  <2>5. CancelStops'
    BY <2>1 DEF TypeOK, CancelStops
  <2>6. QED
    BY <2>3, <2>4, <2>5
<1>8. ASSUME NEW w \in Workers, Succeed(w) \/ Fail(w) PROVE IInv'
  BY <1>7, <1>8 DEF Succeed, Fail
<1>9. ASSUME NEW w \in Workers, Tally(w) PROVE IInv'
  BY <1>9 DEF Tally
<1>10. ASSUME NEW w \in Workers, SettleSucceeded(w) PROVE IInv'
  BY <1>10 DEF SettleSucceeded, Settle
<1>11. ASSUME NEW w \in Workers, SettleFailed(w) PROVE IInv'
  BY <1>11 DEF SettleFailed, Settle
<1>12. ASSUME NEW w \in Workers, RecordFails(w) PROVE IInv'
  <2> HIDE DEF TypeOK, StepOwned, CancelStops, Owning, Steps, Statuses, StepStatuses
  <2>1. /\ pc[w] = "succeed" /\ faults < MaxFaults /\ faults' = faults + 1
        /\ misrecorded' = misrecorded \cup {item[w]}
        /\ step' \in {step, [step EXCEPT ![item[w]] = "succeeded"]}
        /\ pc' = [pc EXCEPT ![w] = "fail"]
        /\ UNCHANGED <<run, ahead, planned, submissions, held, todo, item, retries, abandoned>>
    BY <1>12 DEF RecordFails
  <2>2. /\ item[w] \in Items /\ step[item[w]] \in {"executing", "skipped"}
        /\ \A v \in Workers \ {w} : pc[v] \in Owning => item[v] # item[w]
    BY <2>1 DEF StepOwned, Owning
  <2>3. TypeOK'
    <3>1. step' \in [Items -> StepStatuses] /\ pc' \in [Workers -> Steps]
      BY <2>1, <2>2 DEF TypeOK, StepStatuses, Steps, Owning
    <3>2. faults' \in 0..MaxFaults /\ misrecorded' \subseteq Items
      BY <2>1, <2>2 DEF TypeOK
    <3>3. QED
      BY <2>1, <3>1, <3>2 DEF TypeOK
  <2>4. StepOwned'
    <3>1. \A v \in Workers \ {w} : pc[v] \in Owning => step'[item[v]] = step[item[v]]
      BY <2>1, <2>2 DEF TypeOK, StepOwned
    <3>2. step'[item[w]] \in {"executing", "skipped", "succeeded"}
      BY <2>1, <2>2 DEF TypeOK
    <3>3. QED
      BY <2>1, <2>2, <3>1, <3>2, OthersUndisturbed DEF TypeOK
  <2>5. CancelStops'
    BY <2>1 DEF TypeOK, CancelStops
  <2>6. QED
    BY <2>3, <2>4, <2>5
<1>13. ASSUME NEW w \in Workers, Crash(w) PROVE IInv'
  <2> HIDE DEF TypeOK, StepOwned, CancelStops, Owning, Steps, Statuses, StepStatuses
  <2>1. /\ faults < MaxFaults /\ faults' = faults + 1
        /\ pc' = [pc EXCEPT ![w] = "idle"]
        /\ todo' = [todo EXCEPT ![w] = {}]
        /\ item' = [item EXCEPT ![w] = None]
        /\ UNCHANGED <<run, ahead, planned, step, submissions, held, retries, misrecorded>>
    BY <1>13 DEF Crash
  <2>2. abandoned' \subseteq Items
    <3>1. abandoned' \in {abandoned, abandoned \cup {item[w]}}
      BY <1>13 DEF Crash
    <3>2. pc[w] \in Owning => item[w] \in Items
      BY DEF StepOwned
    <3>3. pc[w] \notin Owning => abandoned' = abandoned
      BY <1>13 DEF Crash
    <3>4. QED
      BY <3>1, <3>2, <3>3 DEF TypeOK
  <2>3. TypeOK'
    <3>1. faults' \in 0..MaxFaults
      BY <2>1 DEF TypeOK
    <3>2. /\ pc' \in [Workers -> Steps] /\ todo' \in [Workers -> SUBSET Items]
          /\ item' \in [Workers -> Items \cup {None}]
      BY <2>1 DEF TypeOK, Steps
    <3>3. QED
      BY <2>1, <2>2, <3>1, <3>2 DEF TypeOK
  <2>4. StepOwned'
    <3>1. pc'[w] = "idle" /\ pc'[w] \notin Owning
      BY <2>1 DEF TypeOK, Owning
    <3>2. \A v \in Workers \ {w} : pc'[v] = pc[v] /\ item'[v] = item[v]
      BY <2>1 DEF TypeOK
    <3>3. QED
      BY <2>1, <3>1, <3>2, OthersUndisturbed
  <2>5. CancelStops'
    BY <2>1 DEF CancelStops
  <2>6. QED
    BY <2>3, <2>4, <2>5
<1>14. CASE Elsewhere
  BY <1>14 DEF Elsewhere
<1>15. CASE UNCHANGED vars
  BY <1>15 DEF vars
<1> HIDE DEF IInv, Goto, run, sweeps, history, TypeOK, StepOwned, CancelStops
<1>16. QED
  BY <1>1, <1>2, <1>3, <1>4, <1>5, <1>6, <1>7, <1>8, <1>9, <1>10, <1>11,
     <1>12, <1>13, <1>14, <1>15 DEF Next, Statement

\* The inductive invariant holds in every reachable state.
LEMMA Inductive == Spec => []IInv
BY InitIInv, StepIInv, PTL DEF Spec

-----------------------------------------------------------------------------
\* The run, its steps and the calls about it keep their domains.
THEOREM TypeCorrect == Spec => []TypeOK
<1>1. IInv => TypeOK
  BY DEF IInv
<1>2. QED
  BY <1>1, Inductive, PTL

\* No two processes ever carry out the same step of the run, however its
\* operators pause, retry and cancel it meanwhile.
THEOREM StepsOwned == Spec => []StepOwned
<1>1. IInv => StepOwned
  BY DEF IInv
<1>2. QED
  BY <1>1, Inductive, PTL

\* A cancelled run has no step left that a worker could claim.
THEOREM NothingAfterCancel == Spec => []CancelStops
<1>1. IInv => CancelStops
  BY DEF IInv
<1>2. QED
  BY <1>1, Inductive, PTL

\* A recorded success stays recorded: only the worker that holds a step writes
\* its outcome, and holds it after a success only if recording that failed.
THEOREM SuccessStays == Spec => SuccessKept
<1> DEFINE Kept == \A i \in Items : step[i] = "succeeded" =>
                     step'[i] = "succeeded" \/ i \in misrecorded'
<1>1. IInv /\ [Next]_vars => [Kept]_vars
  <2> SUFFICES ASSUME IInv, Next, NEW i \in Items, step[i] = "succeeded",
                      step' # step, i \notin misrecorded'
               PROVE  step'[i] = "succeeded"
    OBVIOUS
  <2> USE DEF IInv, TypeOK
  <2>1. ASSUME NEW c \in Controllers, Commit(c) PROVE step'[i] = "succeeded"
    BY <2>1, StepsAfterKeeps DEF Commit, Copies
  <2>2. ASSUME NEW w \in Workers, NEW j \in Items, Claim(w, j)
        PROVE  step'[i] = "succeeded"
    BY <2>2 DEF Claim
  <2>3. ASSUME NEW w \in Workers, Succeed(w) \/ Fail(w) \/ RecordFails(w)
        PROVE  step'[i] = "succeeded"
    BY <2>3 DEF Succeed, Fail, RecordFails, Record, StepOwned, Owning, history
  <2>4. QED
    BY <2>1, <2>2, <2>3 DEF Next, Elsewhere, Statement, Control, Select, List, Submit, Tally,
       SettleSucceeded, SettleFailed, Settle, Crash
<1>2. QED
  BY <1>1, Inductive, PTL DEF Spec, SuccessKept

-----------------------------------------------------------------------------
(* What a run that succeeded has done.                                     *)

\* No call that was decided before the run was cancelled is still to be
\* written after that.
CancelUnrivalled ==
    \A c \in Controllers : status = "cancelled" /\ held[c] # None => held[c].to = "cancelled"

\* The calls about the run do not overlap.
CallsApart == \A c, d \in Controllers : held[c] # None /\ held[d] # None => c = d

Processed(i) == step[i] = "succeeded" \/ i \in misrecorded

\* No call decides that a run has ended by itself.
Decisions == \A c \in Controllers : held[c] # None => held[c].to \notin {"succeeded", "failed"}

\* The steps of the plan are made together, before any worker sees the run.
StepsMade ==
    /\ (\A i \in Items : step[i] = "none") \/ (\A i \in planned : step[i] # "none")
    /\ status \in {"running", "succeeded", "failed"} \/ (\E w \in Workers : pc[w] # "idle")
         => \A i \in planned : step[i] # "none"

\* Steps are skipped by a cancellation only.
SkippedMeansCancelled ==
    status # "cancelled" => \A i \in Items : step[i] # "skipped"

\* A worker that is about to settle has seen that everything is done.
VerdictTrue ==
    \A w \in Workers : pc[w] = "settle succeeded" =>
      status = "cancelled" \/ \A i \in planned : Processed(i)

\* What SucceededMeansDone needs to be inductive.
DoneInv ==
    /\ Decisions
    /\ StepsMade
    /\ SkippedMeansCancelled
    /\ VerdictTrue
    /\ SucceededMeansDone

\* Nothing is undone: a step that was made is not unmade, and one that was
\* processed stays so.
LEMMA NothingUndone ==
  ASSUME IInv, [Next]_vars, NEW i \in Items
  PROVE  /\ step[i] # "none" => step'[i] # "none"
         /\ Processed(i) => Processed(i)'
<1> USE DEF IInv, TypeOK
<1>1. misrecorded \subseteq misrecorded' /\ planned' = planned
  BY DEF Next, Elsewhere, vars, Statement, Control, Commit, Select, List, Claim, Submit, Succeed, Fail, Record,
         RecordFails, Tally, SettleSucceeded, SettleFailed, Settle, Crash, history, run, sweeps
<1>2. ASSUME NEW c \in Controllers, Commit(c)
      PROVE  /\ step[i] # "none" => step'[i] # "none"
             /\ step[i] = "succeeded" => step'[i] = "succeeded"
  <2>1. PICK h \in Copies : h = held[c]
    BY <1>2 DEF Commit
  <2>2. step' = StepsAfter(h.from, h.to)
    BY <1>2, <2>1 DEF Commit
  <2>3. QED
    BY <2>2 DEF StepsAfter
<1>3. ASSUME NEW w \in Workers, NEW j \in Items, Claim(w, j)
      PROVE  /\ step[i] # "none" => step'[i] # "none"
             /\ step[i] = "succeeded" => step'[i] = "succeeded"
  BY <1>3 DEF Claim
<1>4. ASSUME NEW w \in Workers, Succeed(w) \/ Fail(w) \/ RecordFails(w)
      PROVE  /\ step[i] # "none" => step'[i] # "none"
             /\ step[i] = "succeeded" => step'[i] = "succeeded" \/ i \in misrecorded'
  BY <1>1, <1>4 DEF Succeed, Fail, RecordFails, Record, StepOwned, Owning
<1>5. \/ UNCHANGED step
      \/ \E c \in Controllers : Commit(c)
      \/ \E w \in Workers, j \in Items : Claim(w, j)
      \/ \E w \in Workers : Succeed(w) \/ Fail(w) \/ RecordFails(w)
  BY DEF Next, Elsewhere, vars, Statement, Control, Select, List, Submit, Tally,
         SettleSucceeded, SettleFailed, Settle, Crash, history, run, sweeps
<1>6. QED
  BY <1>1, <1>2, <1>3, <1>4, <1>5 DEF Processed

\* Calls that do not overlap do not rival a cancellation.
LEMMA ApartUnrivalled == Spec /\ []CallsApart => []CancelUnrivalled
<1>1. Init => CancelUnrivalled
  BY DEF Init, CancelUnrivalled
<1>2. IInv /\ CallsApart /\ CancelUnrivalled /\ [Next]_vars => CancelUnrivalled'
  <2> SUFFICES ASSUME IInv, CallsApart, CancelUnrivalled, [Next]_vars PROVE CancelUnrivalled'
    OBVIOUS
  <2> USE DEF IInv, TypeOK, CancelUnrivalled
  <2>1. ASSUME NEW c \in Controllers, NEW to \in Statuses, NEW action, Control(c, action, to)
        PROVE  CancelUnrivalled'
    <3>1. /\ Leads(action, status, to) /\ status' = status
          /\ held' = [held EXCEPT ![c] = [from |-> status, to |-> to, completed |-> completed]]
      BY <2>1 DEF Control, run
    <3>2. status = "cancelled" => to = "cancelled"
      BY <3>1 DEF Leads
    <3>3. QED
      BY <3>1, <3>2
  <2>2. ASSUME NEW c \in Controllers, Commit(c) PROVE CancelUnrivalled'
    BY <2>2 DEF Commit, CallsApart
  <2>3. ASSUME NEW w \in Workers, SettleSucceeded(w) \/ SettleFailed(w) PROVE CancelUnrivalled'
    BY <2>3 DEF SettleSucceeded, SettleFailed, Settle
  <2>4. QED
    BY <2>1, <2>2, <2>3 DEF Next, Elsewhere, vars, Statement, Select, List, Claim, Submit, Succeed, Fail,
       Record, RecordFails, Tally, Crash, run
<1>3. QED
  BY <1>1, <1>2, Inductive, PTL DEF Spec

\* Every statement preserves it, if no call rivals a cancellation.
LEMMA StepDoneInv == IInv /\ CancelUnrivalled /\ DoneInv /\ [Next]_vars => DoneInv'
<1> SUFFICES ASSUME IInv, CancelUnrivalled, DoneInv, [Next]_vars PROVE DoneInv'
  OBVIOUS
<1>1. /\ \A i \in Items : step[i] # "none" => step'[i] # "none"
      /\ \A i \in Items : Processed(i) => Processed(i)'
      /\ \A i \in planned : i \in Items
  BY NothingUndone DEF IInv, TypeOK
<1>2. planned' = planned
  BY DEF Next, Elsewhere, vars, Statement, Control, Commit, Select, List, Claim, Submit, Succeed, Fail, Record,
         RecordFails, Tally, SettleSucceeded, SettleFailed, Settle, Crash, history, run, sweeps
<1> USE DEF IInv, TypeOK, DoneInv
<1>3. ASSUME NEW c \in Controllers, NEW to \in Statuses, NEW action, Control(c, action, to)
      PROVE  DoneInv'
  <2>1. /\ to \notin {"succeeded", "failed"}
        /\ held' = [held EXCEPT ![c] = [from |-> status, to |-> to, completed |-> completed]]
        /\ UNCHANGED <<status, step, pc, ahead, planned, misrecorded>>
    BY <1>3 DEF Control, Leads, run, sweeps, history
  <2>2. Decisions'
    BY <2>1 DEF Decisions
  <2>3. QED
    BY <2>1, <2>2 DEF StepsMade, SkippedMeansCancelled, VerdictTrue, SucceededMeansDone, Processed
<1>4. ASSUME NEW c \in Controllers, Commit(c) PROVE DoneInv'
  <2>1. PICK h \in Copies : h = held[c]
    BY <1>4 DEF Commit
  <2>2. /\ h # None /\ status' = h.to /\ step' = StepsAfter(h.from, h.to)
        /\ held' = [held EXCEPT ![c] = None]
        /\ UNCHANGED <<pc, misrecorded>>
        /\ h.to \notin {"succeeded", "failed"} /\ h.to \in Statuses
        /\ status = "cancelled" => h.to = "cancelled"
    BY <1>4, <2>1 DEF Commit, sweeps, Decisions, CancelUnrivalled, Copies
  <2>3. Decisions'
    BY <2>2 DEF Decisions, CancelUnrivalled
  <2>4. StepsMade'
    <3>1. CASE \A i \in planned : step[i] # "none"
      BY <1>1, <1>2, <3>1 DEF StepsMade
    <3>2. CASE ~\A i \in planned : step[i] # "none"
      <4>1. (\A i \in Items : step[i] = "none") /\ \A w \in Workers : pc[w] = "idle"
        BY <3>2 DEF StepsMade
      <4>2. CASE h.to = "running"
        <5>1. step' = [i \in Items |-> IF i \in planned THEN "pending" ELSE "none"]
          BY <2>2, <4>1, <4>2 DEF StepsAfter
        <5>2. QED
          BY <1>1, <1>2, <5>1 DEF StepsMade
      <4>3. CASE h.to # "running"
        <5>1. \A i \in Items : step'[i] = "none"
          BY <2>2, <4>1, <4>3 DEF StepsAfter
        <5>2. QED
          BY <2>2, <4>1, <4>3, <5>1 DEF StepsMade
      <4>4. QED
        BY <4>2, <4>3
    <3>3. QED
      BY <3>1, <3>2
  <2>5. SkippedMeansCancelled'
    <3>1. SUFFICES ASSUME h.to # "cancelled", NEW i \in Items PROVE step'[i] # "skipped"
      BY <2>2 DEF SkippedMeansCancelled
    <3>2. step[i] # "skipped"
      BY <2>2, <3>1 DEF SkippedMeansCancelled
    <3>3. QED
      BY <2>2, <3>1, <3>2 DEF StepsAfter
  <2>6. VerdictTrue'
    BY <1>1, <1>2, <2>2 DEF VerdictTrue
  <2>7. SucceededMeansDone'
    BY <2>2 DEF SucceededMeansDone
  <2>8. QED
    BY <2>3, <2>4, <2>5, <2>6, <2>7
<1>5. ASSUME NEW w \in Workers, Statement(w) \/ RecordFails(w) \/ Crash(w) PROVE DoneInv'
  <2>1. /\ held' = held
        /\ status' = status \/ status = "running"
        /\ \A v \in Workers \ {w} : pc'[v] = pc[v]
        /\ pc[w] = "idle" => status = "running"
    BY <1>5 DEF Statement, Select, List, Claim, Submit, Succeed, Fail, Record, RecordFails, Tally,
         SettleSucceeded, SettleFailed, Settle, Crash, run, sweeps, Goto
  <2>2. status' # status => status' \in {"succeeded", "failed"}
    BY <1>5 DEF Statement, Select, List, Claim, Submit, Succeed, Fail, Record, RecordFails, Tally,
         SettleSucceeded, SettleFailed, Settle, Crash, run
  <2>3. Decisions'
    BY <2>1 DEF Decisions
  <2>4. StepsMade'
    <3>1. \A i \in planned : step[i] # "none"
      BY <2>1 DEF StepsMade
    <3>2. QED
      BY <1>1, <1>2, <3>1 DEF StepsMade
  <2>5. SkippedMeansCancelled'
    <3>1. \A i \in Items : step'[i] = "skipped" => step[i] = "skipped"
      BY <1>5 DEF Statement, Select, List, Claim, Submit, Succeed, Fail, Record, RecordFails, Tally,
         SettleSucceeded, SettleFailed, Settle, Crash
    <3>2. QED
      BY <2>1, <3>1 DEF SkippedMeansCancelled
  <2>6. VerdictTrue'
    <3>1. CASE Tally(w) /\ pc'[w] = "settle succeeded"
      <4>1. /\ status' = status /\ \A i \in Items : step[i] \notin {"pending", "executing", "failed"}
        BY <3>1 DEF Tally, Goto, run
      <4>2. \A i \in planned : step[i] # "none"
        BY <3>1 DEF StepsMade, Tally
      <4>3. status # "cancelled" => \A i \in planned : step[i] = "succeeded"
        BY <1>1, <4>1, <4>2 DEF SkippedMeansCancelled, StepStatuses
      <4>4. QED
        BY <1>1, <1>2, <2>1, <3>1, <4>1, <4>3 DEF VerdictTrue, Processed
    <3>2. CASE ~(Tally(w) /\ pc'[w] = "settle succeeded")
      <4>1. pc'[w] # "settle succeeded"
        BY <1>5, <3>2 DEF Statement, Select, List, Claim, Submit, Succeed, Fail, Record, RecordFails,
             SettleSucceeded, SettleFailed, Settle, Crash, Goto
      <4>2. \A v \in Workers : pc'[v] = "settle succeeded" => pc[v] = "settle succeeded"
        BY <2>1, <4>1
      <4>3. status = "cancelled" => status' = "cancelled"
        BY <2>1
      <4>4. QED
        BY <1>1, <1>2, <4>2, <4>3 DEF VerdictTrue
    <3>3. QED
      BY <3>1, <3>2
  <2>7. SucceededMeansDone'
    <3>1. CASE status' = status
      BY <1>1, <1>2, <3>1 DEF SucceededMeansDone, Processed
    <3>2. CASE status' = "succeeded" /\ status' # status
      <4>1. pc[w] = "settle succeeded" /\ status = "running"
        BY <1>5, <3>2, <2>1 DEF Statement, Select, List, Claim, Submit, Succeed, Fail, Record,
             RecordFails, Tally, SettleSucceeded, SettleFailed, Settle, Crash, run
      <4>2. \A i \in planned : Processed(i)
        BY <4>1 DEF VerdictTrue
      <4>3. QED
        BY <1>1, <1>2, <4>2 DEF SucceededMeansDone, Processed
    <3>3. QED
      BY <2>2, <3>1, <3>2 DEF SucceededMeansDone
  <2>8. QED
    BY <2>3, <2>4, <2>5, <2>6, <2>7
<1>6. CASE UNCHANGED vars
  BY <1>6 DEF vars, run, sweeps, history, Decisions, StepsMade, SkippedMeansCancelled, VerdictTrue,
     SucceededMeansDone, Processed
<1>7. CASE Elsewhere
  BY <1>7 DEF Elsewhere, run, sweeps, history, Decisions, StepsMade, SkippedMeansCancelled,
     VerdictTrue, SucceededMeansDone, Processed
<1>8. QED
  BY <1>3, <1>4, <1>5, <1>6, <1>7 DEF Next

\* A run that is reported as succeeded has processed its plan, whatever pauses,
\* failures, retries and crashes there were on the way, if no call that was
\* decided before a cancellation is written after it.
THEOREM DoneUnlessRivalled == Spec /\ []CancelUnrivalled => []SucceededMeansDone
<1>1. Init => DoneInv
  BY DEF Init, DoneInv, Decisions, StepsMade, SkippedMeansCancelled, VerdictTrue, SucceededMeansDone
<1>2. DoneInv => SucceededMeansDone
  BY DEF DoneInv
<1>3. QED
  BY <1>1, <1>2, Inductive, StepDoneInv, PTL DEF Spec

\* In particular if the calls about the run do not overlap.
THEOREM SucceededIsDone == Spec /\ []CallsApart => []SucceededMeansDone
BY ApartUnrivalled, DoneUnlessRivalled, PTL
\* Under the same hypothesis a cancelled run stays cancelled.
THEOREM CancelledForGood == Spec /\ []CancelUnrivalled => CancelledIsFinal
<1>1. IInv /\ CancelUnrivalled /\ [Next]_vars =>
        [status = "cancelled" => status' = "cancelled"]_vars
  BY DEF CancelUnrivalled, Next, Elsewhere, vars, Statement, Control, Commit, Select, List, Claim, Submit,
         Succeed, Fail, Record, RecordFails, Tally, SettleSucceeded, SettleFailed, Settle, Crash, run
<1>2. QED
  BY <1>1, Inductive, PTL DEF Spec, CancelledIsFinal

-----------------------------------------------------------------------------
(* How often an item is submitted for review.                              *)

\* Somebody may still submit the item in this try of the run.
MaySubmit(i) == step[i] = "pending" \/ \E w \in Workers : pc[w] = "submit" /\ item[w] = i

\* Each try submits an item at most once.
Submitted(i) ==
    /\ submissions[i] <= retries + 1
    /\ step[i] = "none" => submissions[i] = 0
    /\ MaySubmit(i) => submissions[i] <= retries

SubmittedInv == \A i \in Items : Submitted(i)

\* The steps that submit nothing and make nothing pending.
LEMMA NoMoreSubmitted ==
  ASSUME SubmittedInv, TypeOK, submissions' = submissions, retries' = retries,
         \A i \in Items : (step'[i] = "none" => step[i] = "none") /\ (MaySubmit(i)' => MaySubmit(i))
  PROVE  SubmittedInv'
BY DEF SubmittedInv, Submitted

LEMMA StepSubmittedInv == IInv /\ SubmittedInv /\ [Next]_vars => SubmittedInv'
<1> SUFFICES ASSUME IInv, SubmittedInv, [Next]_vars PROVE SubmittedInv'
  OBVIOUS
<1>0. TypeOK /\ StepOwned
  BY DEF IInv
<1>1. ASSUME NEW c \in Controllers, Commit(c) PROVE SubmittedInv'
  <2>1. PICK h \in Copies : h = held[c]
    BY <1>0, <1>1 DEF Commit, TypeOK
  <2>2. /\ step' = StepsAfter(h.from, h.to) /\ h.from \in Statuses /\ h.to \in Statuses
        /\ retries' = IF h.from = "failed" THEN retries + 1 ELSE retries
        /\ UNCHANGED <<pc, item, submissions>> /\ retries \in Nat
    BY <1>0, <1>1, <2>1 DEF Commit, Copies, sweeps, TypeOK
  <2>3. SUFFICES ASSUME NEW i \in Items PROVE Submitted(i)'
    BY DEF SubmittedInv
  <2>4. \/ step'[i] = step[i] \/ step'[i] = "skipped"
        \/ step[i] = "none" /\ step'[i] = "pending"
        \/ step[i] = "failed" /\ step'[i] = "pending" /\ h.from = "failed"
    BY <1>0, <2>2 DEF StepsAfter, TypeOK
  <2>5. submissions[i] \in Nat /\ Submitted(i)
    BY <1>0 DEF TypeOK, SubmittedInv
  <2>6. CASE step'[i] = step[i] \/ step'[i] = "skipped"
    BY <2>2, <2>5, <2>6 DEF Submitted, MaySubmit
  <2>7. CASE step[i] = "none" /\ step'[i] = "pending"
    BY <2>2, <2>5, <2>7 DEF Submitted
  <2>8. CASE step[i] = "failed" /\ step'[i] = "pending" /\ h.from = "failed"
    BY <2>2, <2>5, <2>8 DEF Submitted
  <2>9. QED
    BY <2>4, <2>6, <2>7, <2>8
<1>2. ASSUME NEW w \in Workers, NEW j \in Items, Claim(w, j) PROVE SubmittedInv'
  <2>1. CASE step[j] = "pending"
    <3>1. /\ step' = [step EXCEPT ![j] = "executing"] /\ item' = [item EXCEPT ![w] = j]
          /\ pc' = [pc EXCEPT ![w] = "submit"]
          /\ UNCHANGED <<submissions, retries>>
      BY <1>2, <2>1 DEF Claim, Goto, history
    <3>2. ASSUME NEW i \in Items, MaySubmit(i)' PROVE MaySubmit(i)
      BY <1>0, <2>1, <3>1, <3>2 DEF MaySubmit, TypeOK
    <3>3. QED
      BY <1>0, <3>1, <3>2, NoMoreSubmitted DEF TypeOK
  <2>2. CASE step[j] # "pending"
    <3>1. UNCHANGED <<step, item, pc, submissions, retries>>
      BY <1>2, <2>2 DEF Claim, history
    <3>2. QED
      BY <1>0, <3>1, NoMoreSubmitted DEF MaySubmit
  <2>3. QED
    BY <2>1, <2>2
<1>3. ASSUME NEW w \in Workers, Submit(w) PROVE SubmittedInv'
  <2>1. PICK j \in Items : j = item[w]
    BY <1>0, <1>3 DEF Submit, StepOwned, Owning
  <2>2. /\ pc[w] = "submit" /\ UNCHANGED <<step, item, retries>>
        /\ pc'[w] \in {"succeed", "fail"} /\ \A v \in Workers \ {w} : pc'[v] = pc[v]
        /\ submissions' = submissions \/ submissions' = [submissions EXCEPT ![j] = @ + 1]
    BY <1>0, <1>3, <2>1 DEF Submit, Goto, history, TypeOK
  <2>3. SUFFICES ASSUME NEW i \in Items PROVE Submitted(i)'
    BY DEF SubmittedInv
  <2>4. submissions[i] \in Nat /\ Submitted(i) /\ retries \in Nat
    BY <1>0 DEF TypeOK, SubmittedInv
  <2>5. CASE i = j
    <3>1. MaySubmit(j) /\ step[j] \in {"executing", "skipped"}
      BY <1>0, <2>1, <2>2 DEF MaySubmit, StepOwned, Owning
    <3>2. ~MaySubmit(j)'
      BY <1>0, <2>1, <2>2, <3>1 DEF MaySubmit, StepOwned, Owning
    <3>3. submissions'[j] <= submissions[j] + 1
      BY <1>0, <2>2, <2>4, <2>5 DEF TypeOK
    <3>4. QED
      BY <1>0, <2>2, <2>4, <2>5, <3>1, <3>2, <3>3 DEF Submitted, TypeOK
  <2>6. CASE i # j
    <3>1. submissions'[i] = submissions[i] /\ (MaySubmit(i)' => MaySubmit(i))
      BY <1>0, <2>2, <2>6 DEF MaySubmit, TypeOK
    <3>2. QED
      BY <2>2, <2>4, <3>1 DEF Submitted
  <2>7. QED
    BY <2>5, <2>6
<1>4. ASSUME NEW w \in Workers, Succeed(w) \/ Fail(w) \/ RecordFails(w) PROVE SubmittedInv'
  <2>1. /\ UNCHANGED <<submissions, retries>> /\ pc'[w] # "submit"
        /\ \A v \in Workers \ {w} : pc'[v] = pc[v] /\ item'[v] = item[v]
        /\ \A i \in Items : step'[i] = step[i] \/ step'[i] \in {"succeeded", "failed"}
    BY <1>0, <1>4 DEF Succeed, Fail, Record, RecordFails, Goto, history, TypeOK
  <2>2. \A i \in Items : MaySubmit(i)' => MaySubmit(i)
    BY <2>1 DEF MaySubmit
  <2>3. QED
    BY <1>0, <2>1, <2>2, NoMoreSubmitted
<1>5. ASSUME NEW w \in Workers,
             \/ Select(w) \/ List(w) \/ Tally(w) \/ SettleSucceeded(w) \/ SettleFailed(w) \/ Crash(w)
      PROVE  SubmittedInv'
  <2>1. /\ UNCHANGED <<step, submissions, retries>> /\ pc'[w] # "submit"
        /\ \A v \in Workers \ {w} : pc'[v] = pc[v] /\ item'[v] = item[v]
    BY <1>0, <1>5 DEF Select, List, Tally, SettleSucceeded, SettleFailed, Settle, Crash, Goto,
       history, TypeOK
  <2>2. \A i \in Items : MaySubmit(i)' => MaySubmit(i)
    BY <2>1 DEF MaySubmit
  <2>3. QED
    BY <1>0, <2>1, <2>2, NoMoreSubmitted
<1>6. ASSUME UNCHANGED <<step, sweeps, submissions, retries>> PROVE SubmittedInv'
  BY <1>0, <1>6, NoMoreSubmitted DEF MaySubmit, sweeps
<1>7. QED
  BY <1>1, <1>2, <1>3, <1>4, <1>5, <1>6 DEF Next, Elsewhere, Statement, Control, vars, history

\* No item is submitted for review more often than the run was tried, for any
\* number of workers, of overlapping calls and of failures.
THEOREM SubmissionsBounded == Spec => []SubmittedOncePerTry
<1>1. Init => SubmittedInv
  BY DEF Init, SubmittedInv, Submitted, MaySubmit
<1>2. SubmittedInv => SubmittedOncePerTry
  BY DEF SubmittedInv, Submitted, SubmittedOncePerTry
<1>3. QED
  BY <1>1, <1>2, Inductive, StepSubmittedInv, PTL DEF Spec
===============================================================================
