------------------------------- MODULE JobQueue -------------------------------
(***************************************************************************)
(* The background job queue (src/services/jobs.ts) and the workers that    *)
(* sweep it, one per server process (src/workers/jobs.worker.ts).  A sweep *)
(* selects the jobs that are due, claims them one after the other with a   *)
(* guarded UPDATE, executes each, and writes the outcome back by id alone. *)
(* A job that fails is queued again, to run later, until its attempts are  *)
(* used up.                                                                *)
(*                                                                         *)
(* Two kinds are told apart: a draft generation inserts a content item,    *)
(* may submit it for review, and in the end enqueues a webhook about its   *)
(* outcome; any other job has one external effect, a webhook delivery.     *)
(***************************************************************************)
EXTENDS Naturals, FiniteSets

CONSTANTS
    Jobs,         \* identifiers of job rows
    Drafts,       \* those of kind draft_generation
    Workers,      \* server processes
    MaxAttempts,  \* maxAttempts of every job
    MaxFaults,    \* bound on crashes and failed statements
    None          \* no job

ASSUME DraftsAssumption == Drafts \subseteq Jobs
ASSUME NoneAssumption ==
    None \notin Jobs /\ None \notin Drafts \X {"completed", "failed"}
ASSUME BoundsAssumption == MaxAttempts \in Nat \ {0} /\ MaxFaults \in Nat

VARIABLES
    status,      \* the status column, "absent" before the row is inserted
    attempts,    \* the attempts column
    due,         \* runAt has been reached
    effects,     \* deliveries made, or drafts inserted, by a job
    about,       \* the draft job and event a notification is about
    candidates,  \* what a sweep has selected and not yet tried to claim
    pc,          \* the next statement of a worker
    job,         \* the job it has claimed
    abandoned,   \* jobs whose worker died, or lost the database, on the way
    faults       \* crashes and failed statements so far

rows    == <<status, attempts, due, effects, about>>
sweeps  == <<candidates, pc, job>>
history == <<abandoned, faults>>
vars    == <<rows, sweeps, history>>

Terminal == {"succeeded", "failed", "cancelled"}
Status   == {"absent", "queued", "running"} \cup Terminal
Events   == {"completed", "failed"}
Owning   == {"execute", "submit", "succeed", "fail"}
Steps    == {"idle", "claim", "completed", "failed"} \cup Owning

TypeOK ==
    /\ status \in [Jobs -> Status]
    /\ attempts \in [Jobs -> Nat]
    /\ due \in [Jobs -> BOOLEAN]
    /\ effects \in [Jobs -> Nat]
    /\ about \in [Jobs -> (Drafts \X Events) \cup {None}]
    /\ candidates \in [Workers -> SUBSET Jobs]
    /\ pc \in [Workers -> Steps]
    /\ job \in [Workers -> Jobs \cup {None}]
    /\ abandoned \subseteq Jobs
    /\ faults \in 0..MaxFaults

Init ==
    /\ status = [j \in Jobs |-> "absent"]
    /\ attempts = [j \in Jobs |-> 0]
    /\ due = [j \in Jobs |-> FALSE]
    /\ effects = [j \in Jobs |-> 0]
    /\ about = [j \in Jobs |-> None]
    /\ candidates = [w \in Workers |-> {}]
    /\ pc = [w \in Workers |-> "idle"]
    /\ job = [w \in Workers |-> None]
    /\ abandoned = {}
    /\ faults = 0

-----------------------------------------------------------------------------
(* The API and the clock.                                                  *)

\* createJob, to run at once or at a later time.
Create(j) ==
    /\ status[j] = "absent"
    /\ status' = [status EXCEPT ![j] = "queued"]
    /\ \E now \in BOOLEAN : due' = [due EXCEPT ![j] = now]
    /\ UNCHANGED <<attempts, effects, about, sweeps, history>>

CancelUnguarded(j) ==
    /\ status[j] \in {"queued", "running"}
    /\ status' = [status EXCEPT ![j] = "cancelled"]
    /\ UNCHANGED <<attempts, due, effects, about, sweeps, history>>

\* cancelJob only matches a row that is still queued.
Cancel(j) ==
    /\ status[j] = "queued"
    /\ status' = [status EXCEPT ![j] = "cancelled"]
    /\ UNCHANGED <<attempts, due, effects, about, sweeps, history>>

\* The clock reaches the runAt of a queued job.
ComeDue(j) ==
    /\ status[j] = "queued" /\ ~due[j]
    /\ due' = [due EXCEPT ![j] = TRUE]
    /\ UNCHANGED <<status, attempts, effects, about, sweeps, history>>

-----------------------------------------------------------------------------
(* processPendingJobs.                                                     *)

Due == {j \in Jobs : status[j] = "queued" /\ due[j]}

SweepIgnoringRunAt(w) ==
    /\ pc[w] = "idle"
    /\ \E j \in Jobs : status[j] = "queued"
    /\ candidates' = [candidates EXCEPT ![w] = {j \in Jobs : status[j] = "queued"}]
    /\ pc' = [pc EXCEPT ![w] = "claim"]
    /\ UNCHANGED <<rows, job, history>>

\* The SELECT of a sweep.
Sweep(w) ==
    /\ pc[w] = "idle"
    /\ Due # {}
    /\ candidates' = [candidates EXCEPT ![w] = Due]
    /\ pc' = [pc EXCEPT ![w] = "claim"]
    /\ UNCHANGED <<rows, job, history>>

\* UPDATE ... SET status = 'running' WHERE id = j AND status = 'queued'
Claim(w, j) ==
    /\ pc[w] = "claim"
    /\ j \in candidates[w]
    /\ candidates' = [candidates EXCEPT ![w] = @ \ {j}]
    /\ IF status[j] = "queued"
       THEN /\ status' = [status EXCEPT ![j] = "running"]
            /\ attempts' = [attempts EXCEPT ![j] = @ + 1]
            /\ pc' = [pc EXCEPT ![w] = "execute"]
            /\ job' = [job EXCEPT ![w] = j]
       ELSE UNCHANGED <<status, attempts, pc, job>>
    /\ UNCHANGED <<due, effects, about, history>>

EndSweep(w) ==
    /\ pc[w] = "claim"
    /\ candidates[w] = {}
    /\ pc' = [pc EXCEPT ![w] = "idle"]
    /\ UNCHANGED <<rows, candidates, job, history>>

\* The worker goes on to another statement for its job.
Goto(w, step) == pc' = [pc EXCEPT ![w] = step] /\ UNCHANGED <<candidates, job>>

\* It is done with the job and goes on with the sweep.
Release(w) ==
    /\ pc' = [pc EXCEPT ![w] = "claim"]
    /\ job' = [job EXCEPT ![w] = None]
    /\ UNCHANGED candidates

\* executeJob: a delivery may fail after the receiver has seen it, when the
\* answer is late or not a 2xx; a draft may be refused before it is inserted.
Execute(w) ==
    LET j == job[w] IN
    /\ pc[w] = "execute"
    /\ \/ /\ effects' = [effects EXCEPT ![j] = @ + 1]
          /\ IF j \in Drafts THEN Goto(w, "submit")
             ELSE Goto(w, "succeed") \/ Goto(w, "fail")
       \/ /\ Goto(w, "fail")
          /\ UNCHANGED effects
    /\ UNCHANGED <<status, attempts, due, about, history>>

\* The rest of runDraftGenerationJob: the draft is in the database, the audit
\* entry and the submission for review may still throw.
Submit(w) ==
    /\ pc[w] = "submit"
    /\ Goto(w, "succeed") \/ Goto(w, "fail")
    /\ UNCHANGED <<rows, history>>

\* UPDATE ... SET status = 'succeeded' WHERE id = j; a draft job notifies.
Succeed(w) ==
    LET j == job[w] IN
    /\ pc[w] = "succeed"
    /\ status' = [status EXCEPT ![j] = "succeeded"]
    /\ IF j \in Drafts THEN Goto(w, "completed") ELSE Release(w)
    /\ UNCHANGED <<attempts, due, effects, about, history>>

\* That UPDATE throws inside the try, and counts as a failure of the job.
SucceedFails(w) ==
    /\ pc[w] = "succeed"
    /\ faults < MaxFaults
    /\ faults' = faults + 1
    /\ Goto(w, "fail")
    /\ UNCHANGED <<rows, abandoned>>

FailOneTooMany(w) ==
    LET j     == job[w]
        retry == attempts[j] <= MaxAttempts IN
    /\ pc[w] = "fail"
    /\ status' = [status EXCEPT ![j] = IF retry THEN "queued" ELSE "failed"]
    /\ due' = [due EXCEPT ![j] = IF retry THEN FALSE ELSE @]
    /\ IF ~retry /\ j \in Drafts THEN Goto(w, "failed") ELSE Release(w)
    /\ UNCHANGED <<attempts, effects, about, history>>

FailNotRecorded(w) ==
    /\ pc[w] = "fail"
    /\ Release(w)
    /\ UNCHANGED <<rows, history>>

FailAlwaysNotifies(w) ==
    LET j     == job[w]
        retry == attempts[j] < MaxAttempts IN
    /\ pc[w] = "fail"
    /\ status' = [status EXCEPT ![j] = IF retry THEN "queued" ELSE "failed"]
    /\ due' = [due EXCEPT ![j] = IF retry THEN FALSE ELSE @]
    /\ IF j \in Drafts THEN Goto(w, "failed") ELSE Release(w)
    /\ UNCHANGED <<attempts, effects, about, history>>

\* The catch: queued again with a later runAt, or failed for good.
Fail(w) ==
    LET j     == job[w]
        retry == attempts[j] < MaxAttempts IN
    /\ pc[w] = "fail"
    /\ status' = [status EXCEPT ![j] = IF retry THEN "queued" ELSE "failed"]
    /\ due' = [due EXCEPT ![j] = IF retry THEN FALSE ELSE @]
    /\ IF ~retry /\ j \in Drafts THEN Goto(w, "failed") ELSE Release(w)
    /\ UNCHANGED <<attempts, effects, about, history>>

\* enqueueDraftGenerationNotificationWebhook: a job of its own, unless the
\* form has no webhook or the insert throws, which is logged and forgotten.
Notify(w) ==
    /\ pc[w] \in Events
    /\ \/ \E n \in Jobs \ Drafts :
            /\ status[n] = "absent"
            /\ status' = [status EXCEPT ![n] = "queued"]
            /\ due' = [due EXCEPT ![n] = TRUE]
            /\ about' = [about EXCEPT ![n] = <<job[w], pc[w]>>]
       \/ UNCHANGED <<status, due, about>>
    /\ Release(w)
    /\ UNCHANGED <<attempts, effects, history>>

\* The process dies, or a statement outside the try throws and ends the
\* sweep.  Nothing looks for running jobs when a worker starts again.
Crash(w) ==
    /\ pc[w] # "idle"
    /\ faults < MaxFaults
    /\ faults' = faults + 1
    /\ abandoned' = IF pc[w] \in Owning THEN abandoned \cup {job[w]} ELSE abandoned
    /\ pc' = [pc EXCEPT ![w] = "idle"]
    /\ job' = [job EXCEPT ![w] = None]
    /\ candidates' = [candidates EXCEPT ![w] = {}]
    /\ UNCHANGED rows

-----------------------------------------------------------------------------
Statement(w) ==
    \/ Sweep(w)
    \/ \E j \in Jobs : Claim(w, j)
    \/ EndSweep(w)
    \/ Execute(w)
    \/ Submit(w)
    \/ Succeed(w)
    \/ Fail(w)
    \/ Notify(w)

Next ==
    \/ \E j \in Jobs : Create(j) \/ Cancel(j) \/ ComeDue(j)
    \/ \E w \in Workers : Statement(w) \/ SucceedFails(w) \/ Crash(w)

Spec == Init /\ [][Next]_vars

\* Every process sweeps at its interval and the clock goes on.
FairSpec ==
    /\ Spec
    /\ \A w \in Workers : WF_vars(Statement(w))
    /\ \A j \in Jobs : WF_vars(ComeDue(j))

-----------------------------------------------------------------------------
(* Properties.                                                             *)

\* The outcome of a job is written by id alone, which is safe because a job
\* being executed belongs to one worker and nobody else moves its row: not
\* another sweep with a stale selection, not a cancellation.
Exclusive ==
    \A w \in Workers : pc[w] \in Owning =>
      /\ job[w] \in Jobs
      /\ status[job[w]] = "running"
      /\ \A v \in Workers : pc[v] \in Owning /\ job[v] = job[w] => v = w

\* A running job is being executed, or its worker died on it.
RunningIsOwned ==
    \A j \in Jobs : status[j] = "running" =>
      j \in abandoned \/ \E w \in Workers : pc[w] \in Owning /\ job[w] = j

\* "Retry ceiling": a job is never claimed more often than maxAttempts, is
\* given up only when they are used up, and acts at most once per attempt.
RetryCeiling ==
    \A j \in Jobs :
      /\ attempts[j] <= MaxAttempts
      /\ status[j] = "failed" => attempts[j] = MaxAttempts
      /\ status[j] = "succeeded" => effects[j] > 0
      /\ effects[j] <= attempts[j]

\* A job that succeeded, failed or was cancelled stays so and never acts
\* again.
TerminalIsFinal ==
    [][\A j \in Jobs : status[j] \in Terminal =>
         status'[j] = status[j] /\ effects'[j] = effects[j]]_vars

\* What the form's owner is told about a draft generation is its outcome, and
\* is told once: "terminal form.draft_generation.failed".
NoticesTruthful ==
    \A n \in Jobs : about[n] # None =>
      LET j == about[n][1] IN
      /\ status[j] = IF about[n][2] = "completed" THEN "succeeded" ELSE "failed"
      /\ \A m \in Jobs : about[m] # None /\ about[m][1] = j => m = n

\* Every job that is queued ends, whatever fails, except one whose worker
\* died while executing it.
JobsEnd ==
    \A j \in Jobs : status[j] = "queued" ~> status[j] \in Terminal \/ j \in abandoned

\* A job is not started before its time: a first attempt is never claimed
\* ahead of runAt, however old the selection is that the claim comes from.
StartsWhenDue ==
    [][\A j \in Jobs : status[j] = "queued" /\ status'[j] = "running" =>
         due[j] \/ attempts[j] > 0]_vars

\* runAt is "when the worker is allowed to claim the job", retries included.
ClaimedWhenDue ==
    [][\A j \in Jobs : status[j] = "queued" /\ status'[j] = "running" => due[j]]_vars

\* A form submission becomes "a background AI drafting job that creates a
\* governed content item": one item.
DraftOnce == \A j \in Drafts : effects[j] <= 1

-----------------------------------------------------------------------------
(* The contract of the queue.                                              *)

\* The workers that execute a job, and where the contract sees it.
Holders == [j \in Jobs |-> {w \in Workers : pc[w] \in Owning /\ job[w] = j}]

Stage == [j \in Jobs |->
    CASE status[j] = "absent"  -> "none"
      [] status[j] = "queued"  -> "waiting"
      [] status[j] = "running" -> IF Holders[j] = {} THEN "lost" ELSE "held"
      [] OTHER                 -> "over"]

Contract == INSTANCE JobContract
    WITH state <- Stage, holders <- Holders, tries <- attempts, acts <- effects,
         MaxTries <- MaxAttempts

\* The table with its sweeps, stale selections, guarded claims and unguarded
\* outcomes implements the contract: what a row's outcome is written by is always
\* the one worker that holds the job.
KeepsContract == Contract!Spec
=============================================================================
