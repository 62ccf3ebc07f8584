------------------------------- MODULE AgentRuns -------------------------------
(***************************************************************************)
(* One autonomous run (src/services/agent-runs.ts): operators control it   *)
(* over the API, and the worker of every server process                    *)
(* (src/workers/agent-run.worker.ts) sweeps the runs that are running and  *)
(* executes their steps, one for each content item of the plan.  A step of *)
(* a review_backlog_manager submits its item for review, a step of a       *)
(* quality_refiner validates it; the two kinds share all of the control.   *)
(*                                                                         *)
(* A worker claims a step with a guarded UPDATE and settles the run with   *)
(* another; an operator's call decides on a copy of the run and then       *)
(* writes by id alone.                                                     *)
(***************************************************************************)
EXTENDS Naturals, FiniteSets

CONSTANTS
    Items,        \* content items a plan may select
    Controllers,  \* calls of controlRun that may be in progress
    Workers,      \* server processes that run the worker, which a flag enables
    MaxRunsPerSweep, \* how many runs a sweep takes
    MaxRetries,   \* bound on the times a failed run is resumed
    MaxFaults,    \* bound on crashes and failed statements
    None          \* no copy, no item

ASSUME BoundsAssumption == MaxRetries \in Nat /\ MaxFaults \in Nat /\ MaxRunsPerSweep \in Nat

VARIABLES
    status,       \* agent_runs.status
    started,      \* startedAt is set
    completed,    \* completedAt is set
    ahead,        \* other runs a sweep takes before this one, no more than it takes
    planned,      \* the items in the checkpoint of the plan
    step,         \* agent_run_steps.status of the step for an item
    submissions,  \* how often an item was submitted for review by the run
    held,         \* what an operator's call has read and decided
    pc,           \* the next statement of a worker
    todo,         \* the pending steps it has read and not yet tried to claim
    item,         \* the item of the step it has claimed
    retries,      \* times the run was resumed after it failed
    abandoned,    \* items whose worker died while it held their step
    misrecorded,  \* items whose success could not be recorded
    faults        \* crashes and failed statements so far

run     == <<status, started, completed>>
sweeps  == <<pc, todo, item>>
history == <<retries, abandoned, misrecorded, faults>>
vars    == <<run, ahead, planned, step, submissions, held, sweeps, history>>

Terminal == {"succeeded", "failed", "cancelled"}
Statuses == {"queued", "waiting_approval", "running"} \cup Terminal
StepStatuses == {"none", "pending", "executing", "succeeded", "failed", "skipped"}
Owning == {"submit", "succeed", "fail"}
Steps  == {"idle", "list", "claim", "settle succeeded", "settle failed"} \cup Owning
Copies == [from : Statuses, to : Statuses, completed : BOOLEAN]

TypeOK ==
    /\ status \in Statuses
    /\ started \in BOOLEAN /\ completed \in BOOLEAN
    /\ ahead \in 0..MaxRunsPerSweep
    /\ planned \subseteq Items
    /\ step \in [Items -> StepStatuses]
    /\ submissions \in [Items -> Nat]
    /\ held \in [Controllers -> Copies \cup {None}]
    /\ pc \in [Workers -> Steps]
    /\ todo \in [Workers -> SUBSET Items]
    /\ item \in [Workers -> Items \cup {None}]
    /\ retries \in Nat
    /\ abandoned \subseteq Items /\ misrecorded \subseteq Items
    /\ faults \in 0..MaxFaults

\* createRun has stored the plan and the run, which may require approval.
Init ==
    /\ status \in {"queued", "waiting_approval"}
    /\ started = FALSE /\ completed = FALSE
    /\ ahead \in 0..MaxRunsPerSweep
    /\ planned \in SUBSET Items
    /\ step = [i \in Items |-> "none"]
    /\ submissions = [i \in Items |-> 0]
    /\ held = [c \in Controllers |-> None]
    /\ pc = [w \in Workers |-> "idle"]
    /\ todo = [w \in Workers |-> {}]
    /\ item = [w \in Workers |-> None]
    /\ retries = 0
    /\ abandoned = {} /\ misrecorded = {}
    /\ faults = 0

-----------------------------------------------------------------------------
(* controlRun.                                                             *)

\* resolveAgentRunTransition: where an action leads from a status.
Leads(action, from, to) ==
    \/ /\ action = "approve"
       /\ from \in {"queued", "waiting_approval", "running"}
       /\ to = "running"
    \/ /\ action = "pause"
       /\ from \in {"queued", "running", "waiting_approval"}
       /\ to = "waiting_approval"
    \/ /\ action = "resume"
       /\ \/ from = "waiting_approval" /\ to = IF started THEN "running" ELSE "queued"
          \/ from \in {"queued", "running"} /\ to = "running"
          \/ from = "failed" /\ to = "queued"
    \/ /\ action = "cancel"
       /\ from \notin {"succeeded", "failed"}
       /\ to = "cancelled"

\* The run is read and the transition resolved; a call that would change
\* nothing returns at once.
Control(c, action, to) ==
    /\ held[c] = None
    /\ Leads(action, status, to)
    /\ \/ to # status
       \/ to = "running" /\ ~started
       \/ to = "cancelled" /\ ~completed
       \/ to \notin Terminal /\ completed
    /\ status = "failed" => retries < MaxRetries
    /\ held' = [held EXCEPT ![c] = [from |-> status, to |-> to, completed |-> completed]]
    /\ UNCHANGED <<run, ahead, planned, step, submissions, sweeps, history>>

StepsRetriedFromTheStart(from, to) ==
    CASE to = "running" /\ \A i \in Items : step[i] = "none" ->
           [i \in Items |-> IF i \in planned THEN "pending" ELSE "none"]
      [] to = "queued" /\ from = "failed" ->
           [i \in Items |-> IF step[i] # "none" THEN "pending" ELSE "none"]
      [] to = "cancelled" ->
           [i \in Items |-> IF step[i] \in {"pending", "executing"}
                            THEN "skipped" ELSE step[i]]
      [] OTHER -> step

StepsLeftPending(from, to) ==
    CASE to = "running" /\ \A i \in Items : step[i] = "none" ->
           [i \in Items |-> IF i \in planned THEN "pending" ELSE "none"]
      [] to = "queued" /\ from = "failed" ->
           [i \in Items |-> IF step[i] = "failed" THEN "pending" ELSE step[i]]
      [] to = "cancelled" ->
           [i \in Items |-> IF step[i] = "executing" THEN "skipped" ELSE step[i]]
      [] OTHER -> step

\* What becomes of the steps: a run that starts is planned, a failed run that
\* is resumed tries its failed steps again, a cancelled run skips the rest.
StepsAfter(from, to) ==
    CASE to = "running" /\ \A i \in Items : step[i] = "none" ->
           [i \in Items |-> IF i \in planned THEN "pending" ELSE "none"]
      [] to = "queued" /\ from = "failed" ->
           [i \in Items |-> IF step[i] = "failed" THEN "pending" ELSE step[i]]
      [] to = "cancelled" ->
           [i \in Items |-> IF step[i] \in {"pending", "executing"}
                            THEN "skipped" ELSE step[i]]
      [] OTHER -> step

\* The transaction writes the run by id, which locks its row, so that it is
\* one step to everyone else.
Commit(c) ==
    LET h == held[c] IN
    /\ h # None
    /\ status' = h.to
    /\ started' = (started \/ h.to = "running")
    /\ completed' = CASE h.to \in Terminal /\ ~h.completed -> TRUE
                      [] h.to \notin Terminal /\ h.completed -> FALSE
                      [] OTHER -> completed
    /\ step' = StepsAfter(h.from, h.to)
    /\ retries' = IF h.from = "failed" THEN retries + 1 ELSE retries
    /\ held' = [held EXCEPT ![c] = None]
    /\ UNCHANGED <<ahead, planned, submissions, sweeps, abandoned, misrecorded, faults>>

-----------------------------------------------------------------------------
(* processPendingExecutions.                                               *)

Goto(w, s) == pc' = [pc EXCEPT ![w] = s]

\* Other runs are controlled, end, or are passed over: the oldest running ones come
\* first, and one without the flags of its kind is never touched.
Elsewhere ==
    /\ ahead' \in 0..MaxRunsPerSweep
    /\ UNCHANGED <<run, planned, step, submissions, held, sweeps, history>>

\* The sweep finds the run among those that are running, if it gets as far.
Select(w) ==
    /\ pc[w] = "idle"
    /\ status = "running"
    /\ ahead < MaxRunsPerSweep
    /\ Goto(w, "list")
    /\ UNCHANGED <<run, ahead, planned, step, submissions, held, todo, item, history>>

\* It reads the pending steps, whatever the status of the run is by now.
List(w) ==
    /\ pc[w] = "list"
    /\ todo' = [todo EXCEPT ![w] = {i \in Items : step[i] = "pending"}]
    /\ Goto(w, "claim")
    /\ UNCHANGED <<run, ahead, planned, step, submissions, held, item, history>>

\* UPDATE ... SET status = 'executing' WHERE id = i AND status = 'pending'
Claim(w, i) ==
    /\ pc[w] = "claim"
    /\ i \in todo[w]
    /\ todo' = [todo EXCEPT ![w] = @ \ {i}]
    /\ IF step[i] = "pending"
       THEN /\ step' = [step EXCEPT ![i] = "executing"]
            /\ item' = [item EXCEPT ![w] = i]
            /\ Goto(w, "submit")
       ELSE UNCHANGED <<step, item, pc>>
    /\ UNCHANGED <<run, ahead, planned, submissions, held, history>>

\* The step is refused by a check or the policy, or acts; submitForReview may
\* throw after it has acted.
Submit(w) ==
    /\ pc[w] = "submit"
    /\ \/ /\ submissions' = [submissions EXCEPT ![item[w]] = @ + 1]
          /\ Goto(w, "succeed") \/ Goto(w, "fail")
       \/ /\ Goto(w, "fail")
          /\ UNCHANGED submissions
    /\ UNCHANGED <<run, ahead, planned, step, held, todo, item, history>>

\* The outcome is written by id alone, and the worker lets go of the step.
Record(w, outcome) ==
    /\ step' = [step EXCEPT ![item[w]] = outcome]
    /\ item' = [item EXCEPT ![w] = None]
    /\ Goto(w, "claim")
    /\ UNCHANGED <<run, ahead, planned, submissions, held, todo, history>>

Succeed(w) == pc[w] = "succeed" /\ Record(w, "succeeded")

FailNotRecorded(w) == pc[w] = "fail" /\ Record(w, "executing")

Fail(w) == pc[w] = "fail" /\ Record(w, "failed")

\* The write of the success, or of the checkpoint after it, throws: the catch
\* goes on to record a failure.
RecordFails(w) ==
    /\ pc[w] = "succeed"
    /\ faults < MaxFaults
    /\ faults' = faults + 1
    /\ misrecorded' = misrecorded \cup {item[w]}
    /\ \/ step' = [step EXCEPT ![item[w]] = "succeeded"]
       \/ UNCHANGED step
    /\ Goto(w, "fail")
    /\ UNCHANGED <<run, ahead, planned, submissions, held, todo, item, retries, abandoned>>

TallyIgnoringExecuting(w) ==
    /\ pc[w] = "claim"
    /\ todo[w] = {}
    /\ Goto(w, IF \E i \in Items : step[i] = "pending" THEN "idle"
               ELSE IF \E i \in Items : step[i] = "failed" THEN "settle failed"
               ELSE "settle succeeded")
    /\ UNCHANGED <<run, ahead, planned, step, submissions, held, todo, item, history>>

\* All steps are read again: the run goes on while one is pending or being
\* executed, else it has failed if a step has.
Tally(w) ==
    /\ pc[w] = "claim"
    /\ todo[w] = {}
    /\ Goto(w, IF \E i \in Items : step[i] \in {"pending", "executing"} THEN "idle"
               ELSE IF \E i \in Items : step[i] = "failed" THEN "settle failed"
               ELSE "settle succeeded")
    /\ UNCHANGED <<run, ahead, planned, step, submissions, held, todo, item, history>>

\* UPDATE agent_runs SET status = verdict WHERE id = run AND status = 'running'
Settle(w, verdict) ==
    /\ IF status = "running" THEN status' = verdict /\ completed' = TRUE
                             ELSE UNCHANGED <<status, completed>>
    /\ Goto(w, "idle")
    /\ UNCHANGED <<started, ahead, planned, step, submissions, held, todo, item, history>>

SettleSucceeded(w) == pc[w] = "settle succeeded" /\ Settle(w, "succeeded")

SettleFailed(w) == pc[w] = "settle failed" /\ Settle(w, "failed")

\* The process dies, or the database fails and ends the sweep; no one looks
\* for the step it was executing.
Crash(w) ==
    /\ pc[w] # "idle"
    /\ faults < MaxFaults
    /\ faults' = faults + 1
    /\ abandoned' = IF pc[w] \in Owning THEN abandoned \cup {item[w]} ELSE abandoned
    /\ Goto(w, "idle")
    /\ todo' = [todo EXCEPT ![w] = {}]
    /\ item' = [item EXCEPT ![w] = None]
    /\ UNCHANGED <<run, ahead, planned, step, submissions, held, retries, misrecorded>>

-----------------------------------------------------------------------------
Statement(w) ==
    \/ Select(w)
    \/ List(w)
    \/ \E i \in Items : Claim(w, i)
    \/ Submit(w)
    \/ Succeed(w)
    \/ Fail(w)
    \/ Tally(w)
    \/ SettleSucceeded(w)
    \/ SettleFailed(w)

Next ==
    \/ \E c \in Controllers, to \in Statuses,
          action \in {"approve", "pause", "resume", "cancel"} : Control(c, action, to)
    \/ \E c \in Controllers : Commit(c)
    \/ Elsewhere
    \/ \E w \in Workers : Statement(w) \/ RecordFails(w) \/ Crash(w)

Spec == Init /\ [][Next]_vars

\* Every process with the worker sweeps at its interval, and every call runs to its end.
FairSpec ==
    /\ Spec
    /\ \A w \in Workers : WF_vars(Statement(w))
    /\ \A c \in Controllers : WF_vars(Commit(c))

-----------------------------------------------------------------------------
(* Properties.                                                             *)

\* "Prevents overlapping sweeps from double-running execution", across
\* processes too: a step that is carried out belongs to one worker, and only
\* the cancellation of the run may move it meanwhile.
StepOwned ==
    \A w \in Workers : pc[w] \in Owning =>
      /\ item[w] \in Items
      /\ \/ step[item[w]] \in {"executing", "skipped"}
         \/ step[item[w]] = "succeeded" /\ item[w] \in misrecorded /\ pc[w] = "fail"
      /\ \A v \in Workers : pc[v] \in Owning /\ item[v] = item[w] => v = w

\* Once a run is cancelled no further step of it can be claimed, although the
\* workers that are sweeping it never look at the run again.
CancelStops ==
    status = "cancelled" => \A i \in Items : step[i] # "pending"

\* A run is reported as succeeded only if each planned item was processed,
\* even if it was paused, failed, resumed or swept by several processes on
\* the way, except for a success that could not be recorded.
SucceededMeansDone ==
    status = "succeeded" =>
      \A i \in planned : step[i] = "succeeded" \/ i \in misrecorded

\* A success that was recorded is never undone, so that no pause, retry or
\* late worker makes the run process the item again.
SuccessKept ==
    [][\A i \in Items : step[i] = "succeeded" =>
         step'[i] = "succeeded" \/ i \in misrecorded']_vars

\* However often the sweeps, the calls and the retries of a run meet, no item is
\* submitted for review more often than the run was tried.
SubmittedOncePerTry == \A i \in Items : submissions[i] <= retries + 1

\* Where the worker is enabled, and its sweeps come to reach the run.
SweepsReach == Workers # {} /\ <>[](ahead < MaxRunsPerSweep)

\* A run that is running ends or is stopped, unless a worker died on a step: if the
\* sweeps reach it, which runs that are never touched may prevent for ever.
RunSettles == SweepsReach => (status = "running" ~> status # "running" \/ abandoned # {})

\* "Rejects cancelling already terminal succeeded runs", pausing likewise.
SucceededIsFinal == [][status = "succeeded" => status' = "succeeded"]_vars

\* Neither can a cancelled run be approved, resumed or paused.
CancelledIsFinal == [][status = "cancelled" => status' = "cancelled"]_vars
=============================================================================
