----------------------------- MODULE JobContract ------------------------------
(***************************************************************************)
(* What the job queue promises to those who enqueue jobs, without rows,    *)
(* sweeps or statements: a job that waits is taken by one worker at a      *)
(* time, for a bounded number of tries; only a worker that holds it makes  *)
(* it act, at most once per try; it ends once it has acted or its tries    *)
(* are used up, or is withdrawn before it is taken, and then nothing       *)
(* happens to it any more.  A worker may be lost with the job it holds.    *)
(***************************************************************************)
EXTENDS Naturals

CONSTANTS Jobs, Workers, MaxTries

VARIABLES
    state,   \* where a job is
    holders, \* the workers that hold it
    tries,   \* how often it was taken
    acts     \* how often it acted

vars == <<state, holders, tries, acts>>

Init ==
    /\ state = [j \in Jobs |-> "none"]
    /\ holders = [j \in Jobs |-> {}]
    /\ tries = [j \in Jobs |-> 0]
    /\ acts = [j \in Jobs |-> 0]

Enqueue(j) ==
    /\ state[j] = "none"
    /\ state' = [state EXCEPT ![j] = "waiting"]
    /\ UNCHANGED <<holders, tries, acts>>

Withdraw(j) ==
    /\ state[j] = "waiting"
    /\ state' = [state EXCEPT ![j] = "over"]
    /\ UNCHANGED <<holders, tries, acts>>

Take(w, j) ==
    /\ state[j] = "waiting" /\ tries[j] < MaxTries
    /\ state' = [state EXCEPT ![j] = "held"]
    /\ holders' = [holders EXCEPT ![j] = {w}]
    /\ tries' = [tries EXCEPT ![j] = @ + 1]
    /\ UNCHANGED acts

Act(j) ==
    /\ state[j] = "held" /\ acts[j] < tries[j]
    /\ acts' = [acts EXCEPT ![j] = @ + 1]
    /\ UNCHANGED <<state, holders, tries>>

\* The holder lets go of a job: it waits for another try, is over, or is lost.
LetGo(j, next) ==
    /\ state[j] = "held"
    /\ next = "waiting" => tries[j] < MaxTries
    /\ next = "over" => acts[j] > 0 \/ tries[j] = MaxTries
    /\ state' = [state EXCEPT ![j] = next]
    /\ holders' = [holders EXCEPT ![j] = {}]
    /\ UNCHANGED <<tries, acts>>

Next ==
    \E j \in Jobs :
        \/ Enqueue(j) \/ Withdraw(j) \/ Act(j)
        \/ \E w \in Workers : Take(w, j)
        \/ \E next \in {"waiting", "over", "lost"} : LetGo(j, next)

Spec == Init /\ [][Next]_vars
=============================================================================
