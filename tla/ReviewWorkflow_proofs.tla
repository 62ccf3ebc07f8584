------------------------ MODULE ReviewWorkflow_proofs -------------------------
(***************************************************************************)
(* Proofs about ReviewWorkflow: type correctness, and that without         *)
(* revisions, resubmitted statuses and rollbacks an item is published by   *)
(* the approval of a task, by a caller of a door that does not ask the     *)
(* workflow, and in no other way, for any number of requests and tasks and *)
(* any faults.                                                             *)
(*                                                                         *)
(* What the races of WorkflowRaces and of the findings break is proved for *)
(* requests that do not overlap, however many of them there are and with   *)
(* whatever operations and faults: the history is complete, decisions      *)
(* stand, and readers keep what is live.  Alone is a hypothesis about the  *)
(* behaviour, for nothing in the code serialises the requests.             *)
(***************************************************************************)
EXTENDS ReviewWorkflow, TLAPS

USE DEF requests, Statuses

\* The task a decision is about exists, and an existing task has its edge.
TasksExist ==
    /\ \A t \in Tasks : task[t].status # "absent" => task[t].edge \in Transitions
    /\ \A s \in Sessions : call[s].op = "decide" =>
          /\ call[s].task \in Tasks
          /\ task[call[s].task].status # "absent"
          /\ call[s].verdict \in {"approved", "rejected"}

\* A request carries what its next statement needs.
Carries ==
    \A s \in Sessions :
        /\ pc[s] = "insert" => call[s].op = "submit" /\ call[s].edge \in Transitions
        /\ pc[s] = "mark" => call[s].op = "decide"
        /\ pc[s] = "generate" => call[s].op = "revise"
        /\ pc[s] = "commit" => call[s].read \in Rows

IInv == TypeOK /\ TasksExist /\ Carries

\* Only an approval, or a door that asks nobody, is about to write "published".
Publishes(s) ==
    pc[s] \in {"begin", "commit"} /\ call[s].status = "published" =>
        \/ Approving(s) /\ task[call[s].task].edge.to = "published"
        \/ Overruling(s)

OnlyApprovalsPublish == \A s \in Sessions : Publishes(s)

\* The operations that write no status they have read.
Reviewing == {"submit", "decide", "edit", "overwrite", "archive"}

\* The assumptions about the constants, together.
LEMMA Constants ==
    /\ Transitions \subseteq [from : Statuses, to : Statuses]
    /\ None \notin Statuses /\ None \notin Tasks /\ None \notin Contents
    /\ None \notin Transitions /\ None # "decide" /\ None # "published"
    /\ MaxFaults \in Nat /\ Asked \subseteq Statuses
BY TransitionsAssumption, BoundsAssumption, NoneAssumption, OpsAssumption DEF AllOps

\* An idle request carries nothing, whatever it carried.
LEMMA ReturnTypes ==
    ASSUME TypeOK, NEW s \in Sessions, Return(s)
    PROVE  pc' \in [Sessions -> Steps] /\ call' \in [Sessions -> Calls]
BY DEF TypeOK, Return, Steps, Calls, NoCall

\* The item is a draft with no history and no tasks.
LEMMA InitIInv == Init => IInv
<1> SUFFICES ASSUME Init PROVE IInv
    OBVIOUS
<1>1. item \in Rows /\ archive \in Seq(Rows) /\ faults \in 0..MaxFaults
    BY Constants DEF Init, Rows
<1>2. task \in [Tasks -> [status : {"absent", "pending", "approved", "rejected"},
                           edge : Transitions \cup {None}]]
    BY DEF Init
<1>3. pc \in [Sessions -> Steps] /\ call \in [Sessions -> Calls]
    BY DEF Init, Steps, Calls, NoCall
<1>4. TasksExist /\ Carries
    BY Constants DEF Init, TasksExist, Carries, NoCall
<1> QED BY <1>1, <1>2, <1>3, <1>4 DEF IInv, TypeOK

\* The actions that begin a request and leave the tables alone.
LEMMA StartInv ==
    ASSUME IInv, NEW s \in Sessions, NEW op, NEW step \in Steps, NEW c \in Calls,
           Start(s, op, step, c), UNCHANGED <<item, archive, task, faults>>,
           c.op = "decide" =>
              c.task \in Tasks /\ Pending(c.task) /\ c.verdict \in {"approved", "rejected"},
           step = "insert" => c.op = "submit" /\ c.edge \in Transitions,
           step = "mark" => c.op = "decide",
           step = "generate" => c.op = "revise",
           step = "commit" => c.read \in Rows
    PROVE  IInv'
<1>1. /\ pc' \in [Sessions -> Steps] /\ call' \in [Sessions -> Calls]
      /\ pc' = [pc EXCEPT ![s] = step] /\ call' = [call EXCEPT ![s] = c]
    BY DEF IInv, TypeOK, Start
<1>2. TypeOK'
    BY <1>1 DEF IInv, TypeOK
<1>3. TasksExist'
    BY <1>1 DEF IInv, TypeOK, TasksExist, Pending
<1>4. Carries'
    BY <1>1 DEF IInv, TypeOK, Carries
<1> QED BY <1>2, <1>3, <1>4 DEF IInv

\* A request that ends leaves the others what they carry.
LEMMA ReturnInv ==
    ASSUME IInv, NEW s \in Sessions, Return(s), UNCHANGED task
    PROVE  TasksExist' /\ Carries'
<1>1. /\ pc' = [pc EXCEPT ![s] = "idle"] /\ call' = [call EXCEPT ![s] = NoCall]
      /\ pc \in [Sessions -> Steps] /\ call \in [Sessions -> Calls]
    BY DEF Return, IInv, TypeOK
<1>2. TasksExist'
    BY <1>1, Constants DEF IInv, TasksExist, NoCall
<1>3. Carries'
    BY <1>1 DEF IInv, Carries
<1> QED BY <1>2, <1>3

\* Every statement of every operation preserves it.
LEMMA StepIInv == IInv /\ [Next]_vars => IInv'
<1> SUFFICES ASSUME IInv, [Next]_vars PROVE IInv'
    OBVIOUS
<1> USE Constants
<1>0. CASE UNCHANGED vars
    BY <1>0 DEF IInv, TypeOK, TasksExist, Carries, vars
<1> SUFFICES ASSUME NEW s \in Sessions,
        \/ \E edge \in Transitions : Submit(s, edge)
        \/ \E t \in Tasks, verdict \in {"approved", "rejected"} : Decide(s, t, verdict)
        \/ \E t \in Tasks : Revise(s, t)
        \/ \E c \in Contents : Edit(s, c)
        \/ \E c \in Contents, status \in {item.status, "empty"} : Resave(s, c, status)
        \/ \E c \in Contents \cup {None}, status \in Asked : Overwrite(s, c, status)
        \/ LifecycleArchive(s)
        \/ \E i \in DOMAIN archive : Rollback(s, i)
        \/ Statement(s)
        \/ Abort(s)
             PROVE  IInv'
    BY <1>0 DEF Next
<1>1. ASSUME NEW edge \in Transitions, Submit(s, edge) PROVE IInv'
  <2> DEFINE c == [NoCall EXCEPT !.op = "submit", !.edge = edge]
  <2>1. c \in Calls /\ c.op = "submit" /\ c.edge = edge
      BY <1>1 DEF Submit, Start, Calls, NoCall
  <2>2. /\ pc' \in [Sessions -> Steps] /\ call' \in [Sessions -> Calls]
        /\ pc' = [pc EXCEPT ![s] = "insert"] /\ call' = [call EXCEPT ![s] = c]
    <3>1. pc' = [pc EXCEPT ![s] = "insert"] /\ call' = [call EXCEPT ![s] = c]
        BY <1>1 DEF Submit, Start
    <3> HIDE DEF c
    <3> QED BY <2>1, <3>1 DEF IInv, TypeOK, Steps
  <2>3. /\ task' \in [Tasks -> [status : {"absent", "pending", "approved", "rejected"},
                                edge : Transitions \cup {None}]]
        /\ \A t \in Tasks : /\ task'[t].edge = task[t].edge
                             /\ (task'[t].status # "absent") = (task[t].status # "absent")
      BY <1>1 DEF Submit, IInv, TypeOK, Pending
  <2>4. TypeOK'
      BY <1>1, <2>2, <2>3 DEF Submit, IInv, TypeOK
  <2>5. TasksExist'
    <3>1. \A t \in Tasks : task'[t].status # "absent" => task'[t].edge \in Transitions
        BY <2>3 DEF IInv, TasksExist
    <3>2. ASSUME NEW x \in Sessions, call'[x].op = "decide"
          PROVE  x # s /\ call'[x] = call[x]
        BY <2>1, <2>2, <3>2 DEF IInv, TypeOK
    <3> QED BY <2>3, <3>1, <3>2 DEF IInv, TasksExist
  <2>6. Carries'
      BY <2>1, <2>2 DEF IInv, TypeOK, Carries
  <2> QED BY <2>4, <2>5, <2>6 DEF IInv
<1>2. ASSUME NEW t \in Tasks, NEW verdict \in {"approved", "rejected"}, Decide(s, t, verdict)
      PROVE  IInv'
  <2> DEFINE c == [NoCall EXCEPT !.op = "decide", !.task = t, !.verdict = verdict]
  <2>1. /\ c \in Calls /\ c.op = "decide" /\ c.task = t /\ c.verdict = verdict
      BY <1>2 DEF Decide, Start, Calls, NoCall
  <2> HIDE DEF c
  <2> QED BY <1>2, <2>1, StartInv DEF Decide, Steps, c
<1>3. ASSUME NEW t \in Tasks, Revise(s, t) PROVE IInv'
  <2> DEFINE c == [NoCall EXCEPT !.op = "revise", !.task = t]
  <2>1. c \in Calls /\ c.op = "revise"
      BY <1>3 DEF Revise, Start, Calls, NoCall
  <2> QED BY <1>3, <2>1, StartInv DEF Revise, Steps
<1>4. ASSUME NEW d \in Contents, Edit(s, d) PROVE IInv'
  <2> DEFINE c == [NoCall EXCEPT !.op = "edit", !.content = d]
  <2>1. c \in Calls /\ c.op = "edit"
      BY <1>4 DEF Edit, Start, Calls, NoCall
  <2> QED BY <1>4, <2>1, StartInv DEF Edit, Steps
<1>5. ASSUME NEW d \in Contents, NEW status \in {item.status, "empty"}, Resave(s, d, status)
      PROVE  IInv'
  <2> DEFINE c == [NoCall EXCEPT !.op = "resave", !.content = d, !.status = status]
  <2>1. c \in Calls /\ c.op = "resave"
      BY <1>5 DEF Resave, Start, Calls, NoCall, IInv, TypeOK, Rows
  <2> QED BY <1>5, <2>1, StartInv DEF Resave, Steps
<1>17. ASSUME NEW d \in Contents \cup {None}, NEW status \in Asked, Overwrite(s, d, status)
       PROVE  IInv'
  <2> DEFINE c == [NoCall EXCEPT !.op = "overwrite", !.content = d, !.status = status]
  <2>1. c \in Calls /\ c.op = "overwrite"
      BY <1>17 DEF Overwrite, Start, Calls, NoCall
  <2> QED BY <1>17, <2>1, StartInv DEF Overwrite, Steps
<1>6. ASSUME LifecycleArchive(s) PROVE IInv'
  <2> DEFINE c == [NoCall EXCEPT !.op = "archive", !.status = "archived", !.read = item]
  <2>1. c \in Calls /\ c.op = "archive" /\ c.read = item /\ item \in Rows
      BY <1>6 DEF LifecycleArchive, Start, Calls, NoCall, IInv, TypeOK
  <2> QED BY <1>6, <2>1, StartInv DEF LifecycleArchive, Steps
<1>7. ASSUME NEW i \in DOMAIN archive, Rollback(s, i) PROVE IInv'
  <2> DEFINE c == [NoCall EXCEPT !.op = "rollback", !.status = archive[i].status,
                                 !.content = archive[i].content, !.read = item]
  <2>1. archive[i] \in Rows
      BY <1>7 DEF IInv, TypeOK
  <2>2. c \in Calls /\ c.op = "rollback" /\ c.read = item /\ item \in Rows
      BY <1>7, <2>1 DEF Rollback, Start, Calls, NoCall, IInv, TypeOK, Rows
  <2> QED BY <1>7, <2>2, StartInv DEF Rollback, Steps
<1>8. ASSUME NEW t \in Tasks, Insert(s, t) PROVE IInv'
  <2>1. call[s].edge \in Transitions /\ call[s].op = "submit" /\ call[s] \in Calls
      BY <1>8 DEF Insert, IInv, TypeOK, Carries
  <2>2. /\ call' = [call EXCEPT ![s] = [call[s] EXCEPT !.status = "in_review"]]
        /\ [call[s] EXCEPT !.status = "in_review"] \in Calls
        /\ pc' = [pc EXCEPT ![s] = "begin"]
      BY <1>8, <2>1 DEF Insert, Calls, IInv, TypeOK
  <2>3. TypeOK'
      BY <1>8, <2>1, <2>2 DEF Insert, IInv, TypeOK, Steps
  <2>4. TasksExist'
      BY <1>8, <2>1, <2>2 DEF Insert, IInv, TypeOK, TasksExist, Calls
  <2>5. Carries'
      BY <2>2 DEF IInv, TypeOK, Carries, Calls
  <2> QED BY <2>3, <2>4, <2>5 DEF IInv
<1>9. ASSUME Mark(s) PROVE IInv'
  <2>1. /\ call[s].op = "decide" /\ call[s].task \in Tasks /\ call[s] \in Calls
        /\ call[s].verdict \in {"approved", "rejected"}
        /\ task[call[s].task].status # "absent" /\ task[call[s].task].edge \in Transitions
      BY <1>9 DEF Mark, IInv, TypeOK, Carries, TasksExist
  <2>2. task' \in [Tasks -> [status : {"absent", "pending", "approved", "rejected"},
                             edge : Transitions \cup {None}]]
      BY <1>9, <2>1 DEF Mark, IInv, TypeOK
  <2>3. \A t \in Tasks : /\ task'[t].edge = task[t].edge
                          /\ (task'[t].status # "absent") = (task[t].status # "absent")
      BY <1>9, <2>1 DEF Mark, IInv, TypeOK
  <2>4. CASE call[s].verdict = "approved"
    <3> DEFINE c == [call[s] EXCEPT !.status = task[call[s].task].edge.to]
    <3>1. task[call[s].task].edge.to \in Statuses
        BY <2>1
    <3>2. c \in Calls /\ c.op = call[s].op /\ c.task = call[s].task /\ c.verdict = call[s].verdict
        BY <2>1, <3>1 DEF Calls
    <3>3. call' = [call EXCEPT ![s] = c] /\ pc' = [pc EXCEPT ![s] = "begin"]
        BY <1>9, <2>4 DEF Mark, IInv, TypeOK
    <3> HIDE DEF c
    <3>4. TypeOK'
        BY <1>9, <2>2, <3>2, <3>3 DEF Mark, IInv, TypeOK, Steps
    <3>5. TasksExist'
      <4>1. \A t \in Tasks : task'[t].status # "absent" => task'[t].edge \in Transitions
          BY <2>3 DEF IInv, TasksExist
      <4>2. call'[s] = c /\ \A x \in Sessions \ {s} : call'[x] = call[x]
          BY <3>3 DEF IInv, TypeOK
      <4>3. /\ c.task \in Tasks /\ task'[c.task].status # "absent"
            /\ c.verdict \in {"approved", "rejected"}
          BY <2>1, <2>3, <3>2
      <4> QED BY <2>3, <4>1, <4>2, <4>3 DEF IInv, TasksExist
    <3>6. Carries'
        BY <3>2, <3>3 DEF IInv, TypeOK, Carries
    <3> QED BY <3>4, <3>5, <3>6 DEF IInv
  <2>5. CASE call[s].verdict = "rejected"
    <3>1. Return(s)
        BY <1>9, <2>5 DEF Mark, Return
    <3>2. pc' = [pc EXCEPT ![s] = "idle"] /\ call' = [call EXCEPT ![s] = NoCall]
        BY <3>1 DEF Return
    <3>3. TypeOK'
        BY <1>9, <2>2, <3>1, ReturnTypes DEF Mark, IInv, TypeOK
    <3>4. TasksExist'
      <4>1. \A t \in Tasks : task'[t].status # "absent" => task'[t].edge \in Transitions
          BY <2>3 DEF IInv, TasksExist
      <4>2. ASSUME NEW x \in Sessions, call'[x].op = "decide"
            PROVE  call'[x] = call[x]
          BY <3>2, <4>2 DEF IInv, TypeOK, NoCall
      <4> QED BY <2>3, <4>1, <4>2 DEF IInv, TasksExist
    <3>5. Carries'
        BY <3>2 DEF IInv, TypeOK, Carries
    <3> QED BY <3>3, <3>4, <3>5 DEF IInv
  <2> QED BY <2>1, <2>4, <2>5
<1>10. ASSUME NEW d \in Contents, Generate(s, d) PROVE IInv'
  <2> DEFINE c == [call[s] EXCEPT !.status = item.status, !.content = d]
  <2>1. /\ call[s].op = "revise" /\ call[s] \in Calls /\ item.status \in Statuses
      BY <1>10 DEF Generate, IInv, TypeOK, Carries, Rows
  <2>2. c \in Calls /\ c.op = "revise"
      BY <2>1 DEF Calls
  <2>3. call' = [call EXCEPT ![s] = c] /\ pc' = [pc EXCEPT ![s] = "begin"]
      BY <1>10, <2>1 DEF Generate, IInv, TypeOK
  <2> HIDE DEF c
  <2>4. TypeOK'
    <3>1. pc' \in [Sessions -> Steps] /\ call' \in [Sessions -> Calls]
        BY <2>2, <2>3 DEF IInv, TypeOK, Steps
    <3> QED BY <1>10, <3>1 DEF Generate, IInv, TypeOK
  <2>5. TasksExist'
      BY <1>10, <2>2, <2>3 DEF Generate, IInv, TypeOK, TasksExist
  <2>6. Carries'
      BY <2>2, <2>3 DEF IInv, TypeOK, Carries
  <2> QED BY <2>4, <2>5, <2>6 DEF IInv
<1>11. ASSUME Begin(s) PROVE IInv'
  <2>1. CASE Settled(s) /\ Return(s)
    <3>1. TypeOK'
        BY <1>11, <2>1, ReturnTypes DEF Begin, IInv, TypeOK
    <3> QED BY <1>11, <2>1, <3>1, ReturnInv DEF Begin, IInv
  <2>2. CASE ~Settled(s)
    <3> DEFINE c == [call[s] EXCEPT !.read = item]
    <3>1. call[s] \in Calls /\ item \in Rows
        BY DEF IInv, TypeOK
    <3>2. /\ c \in Calls /\ c.op = call[s].op /\ c.task = call[s].task
          /\ c.verdict = call[s].verdict /\ c.read = item
        BY <3>1 DEF Calls
    <3>3. call' = [call EXCEPT ![s] = c] /\ pc' = [pc EXCEPT ![s] = "commit"]
        BY <1>11, <2>2 DEF Begin, IInv, TypeOK
    <3> HIDE DEF c
    <3>4. TypeOK'
        BY <1>11, <3>2, <3>3 DEF Begin, IInv, TypeOK, Steps
    <3>5. TasksExist'
        BY <1>11, <3>2, <3>3 DEF Begin, IInv, TypeOK, TasksExist
    <3>6. Carries'
        BY <3>1, <3>2, <3>3 DEF IInv, TypeOK, Carries
    <3> QED BY <3>4, <3>5, <3>6 DEF IInv
  <2> QED BY <1>11, <2>1, <2>2 DEF Begin
<1>12. ASSUME Commit(s) PROVE IInv'
  <2>1. call[s].read \in Rows /\ call[s] \in Calls /\ item \in Rows /\ archive \in Seq(Rows)
      BY <1>12 DEF Commit, IInv, TypeOK, Carries
  <2>2. Written(s) \in Rows
      BY <2>1 DEF Written, Rows, Calls
  <2>3. Append(archive, call[s].read) \in Seq(Rows)
      BY <2>1
  <2>4. TypeOK'
      BY <1>12, <2>2, <2>3, ReturnTypes DEF Commit, IInv, TypeOK
  <2> QED BY <1>12, <2>4, ReturnInv DEF Commit, IInv
<1>13. ASSUME Abort(s) PROVE IInv'
  <2>1. TypeOK'
      BY <1>13, ReturnTypes DEF Abort, IInv, TypeOK
  <2> QED BY <1>13, <2>1, ReturnInv DEF Abort, IInv
<1> QED BY <1>1, <1>2, <1>3, <1>4, <1>5, <1>6, <1>7, <1>8, <1>9, <1>10, <1>11, <1>12, <1>13,
   <1>17 DEF Statement

\* The inductive invariant holds in every reachable state.
LEMMA Inductive == Spec => []IInv
BY InitIInv, StepIInv, PTL DEF Spec

\* Type correctness, whatever operations are called and however they interleave.
THEOREM TypeCorrect == Spec => []TypeOK
<1>1. IInv => TypeOK
    BY DEF IInv
<1> QED BY <1>1, Inductive, PTL

-----------------------------------------------------------------------------
(* How an item becomes published.                                          *)

\* Requests keep to the rule that only an approval writes "published".
LEMMA StepPublishes ==
    ASSUME Ops \subseteq Reviewing, IInv, OnlyApprovalsPublish, [Next]_vars
    PROVE  OnlyApprovalsPublish'
<1> USE Constants
<1>0. CASE UNCHANGED vars
    BY <1>0 DEF OnlyApprovalsPublish, Publishes, Approving, Overruling, vars
<1>1. TypeOK
    BY DEF IInv
<1> SUFFICES ASSUME NEW s \in Sessions, NEW x \in Sessions,
        \/ \E edge \in Transitions : Submit(s, edge)
        \/ \E t \in Tasks, verdict \in {"approved", "rejected"} : Decide(s, t, verdict)
        \/ \E t \in Tasks : Revise(s, t)
        \/ \E c \in Contents : Edit(s, c)
        \/ \E c \in Contents, status \in {item.status, "empty"} : Resave(s, c, status)
        \/ \E c \in Contents \cup {None}, status \in Asked : Overwrite(s, c, status)
        \/ LifecycleArchive(s)
        \/ \E i \in DOMAIN archive : Rollback(s, i)
        \/ Statement(s)
        \/ Abort(s)
             PROVE  Publishes(x)'
    BY <1>0 DEF Next, OnlyApprovalsPublish
<1>2. Publishes(x) /\ Publishes(s)
    BY DEF OnlyApprovalsPublish
<1>3. ASSUME UNCHANGED task, pc'[x] = pc[x], call'[x] = call[x] PROVE Publishes(x)'
    BY <1>2, <1>3 DEF Publishes, Approving, Overruling
<1>4. ASSUME UNCHANGED task, Return(s) PROVE Publishes(x)'
  <2>1. CASE x = s
      BY <1>1, <1>4, <2>1 DEF Return, TypeOK, Publishes
  <2>2. CASE x # s
      BY <1>1, <1>3, <1>4, <2>2 DEF Return, TypeOK
  <2> QED BY <2>1, <2>2
<1>5. ASSUME NEW edge \in Transitions, Submit(s, edge) PROVE Publishes(x)'
  <2>5. \A t \in Tasks : task'[t].edge = task[t].edge
    <3>1. task' = [t \in Tasks |-> IF Pending(t) THEN [task[t] EXCEPT !.status = "rejected"]
                                                ELSE task[t]]
        BY <1>5 DEF Submit
    <3>2. task \in [Tasks -> [status : {"absent", "pending", "approved", "rejected"},
                              edge : Transitions \cup {None}]]
        BY <1>1 DEF TypeOK
    <3> QED BY <3>1, <3>2
  <2>6. pc' = [pc EXCEPT ![s] = "insert"] /\ \A y \in Sessions \ {s} : call'[y] = call[y]
      BY <1>1, <1>5 DEF Submit, Start, TypeOK
  <2>1. /\ \A t \in Tasks : task'[t].edge = task[t].edge
        /\ pc' = [pc EXCEPT ![s] = "insert"]
        /\ \A y \in Sessions \ {s} : call'[y] = call[y]
      BY <2>5, <2>6
  <2>2. x = s => pc'[x] = "insert"
      BY <1>1, <2>1 DEF TypeOK
  <2>3. x # s => pc'[x] = pc[x] /\ call'[x] = call[x]
      BY <1>1, <2>1 DEF TypeOK
  <2>4. call[x].op = "decide" => call[x].task \in Tasks
      BY DEF IInv, TasksExist
  <2> QED BY <1>2, <2>1, <2>2, <2>3, <2>4 DEF Publishes, Approving, Overruling
<1>7. ASSUME NEW t \in Tasks, NEW verdict \in {"approved", "rejected"}, Decide(s, t, verdict)
      PROVE  Publishes(x)'
  <2>1. CASE x = s
      BY <1>1, <1>7, <2>1 DEF Decide, Start, TypeOK, Publishes
  <2>2. CASE x # s
      BY <1>1, <1>3, <1>7, <2>2 DEF Decide, Start, TypeOK
  <2> QED BY <2>1, <2>2
<1>8. ASSUME NEW d \in Contents, Edit(s, d) PROVE Publishes(x)'
  <2>1. CASE x = s
      BY <1>1, <1>8, <2>1 DEF Edit, Start, TypeOK, Publishes, NoCall
  <2>2. CASE x # s
      BY <1>1, <1>3, <1>8, <2>2 DEF Edit, Start, TypeOK
  <2> QED BY <2>1, <2>2
<1>9. ASSUME LifecycleArchive(s) PROVE Publishes(x)'
  <2>1. CASE x = s
      BY <1>1, <1>9, <2>1 DEF LifecycleArchive, Start, TypeOK, Publishes, NoCall
  <2>2. CASE x # s
      BY <1>1, <1>3, <1>9, <2>2 DEF LifecycleArchive, Start, TypeOK
  <2> QED BY <2>1, <2>2
<1>17. ASSUME NEW d \in Contents \cup {None}, NEW status \in Asked, Overwrite(s, d, status)
       PROVE  Publishes(x)'
  <2>1. CASE x = s
    <3>1. call'[s].op = "overwrite"
        BY <1>1, <1>17 DEF Overwrite, Start, TypeOK, NoCall
    <3> QED BY <2>1, <3>1 DEF Publishes, Overruling
  <2>2. CASE x # s
      BY <1>1, <1>3, <1>17, <2>2 DEF Overwrite, Start, TypeOK
  <2> QED BY <2>1, <2>2
<1>10. /\ ~(\E t \in Tasks : Revise(s, t)) /\ ~(\E i \in DOMAIN archive : Rollback(s, i))
       /\ ~(\E c \in Contents, status \in {item.status, "empty"} : Resave(s, c, status))
    BY DEF Revise, Resave, Rollback, Start, Reviewing
<1>11. ASSUME NEW t \in Tasks, Insert(s, t) PROVE Publishes(x)'
  <2>1. CASE x = s
    <3>1. call'[s].status = "in_review"
        BY <1>1, <1>11 DEF Insert, TypeOK, Calls
    <3> QED BY <2>1, <3>1 DEF Publishes
  <2>2. CASE x # s
    <3>1. pc'[x] = pc[x] /\ call'[x] = call[x]
        BY <1>1, <1>11, <2>2 DEF Insert, TypeOK
    <3>2. call[x].op = "decide" => task'[call[x].task] = task[call[x].task]
        BY <1>1, <1>11 DEF Insert, TypeOK, IInv, TasksExist
    <3> QED BY <1>2, <3>1, <3>2 DEF Publishes, Approving, Overruling
  <2> QED BY <2>1, <2>2
<1>12. ASSUME Mark(s) PROVE Publishes(x)'
  <2>1. \A t \in Tasks : task'[t].edge = task[t].edge
      BY <1>1, <1>12 DEF Mark, TypeOK
  <2>2. call[s].op = "decide" /\ call[s].task \in Tasks /\ call[s] \in Calls
      BY <1>12 DEF Mark, IInv, TypeOK, Carries, TasksExist
  <2>3. CASE x = s /\ call[s].verdict = "approved"
    <3>1. call'[s] = [call[s] EXCEPT !.status = task[call[s].task].edge.to]
        BY <1>1, <1>12, <2>3 DEF Mark, TypeOK
    <3>2. /\ call'[s].op = "decide" /\ call'[s].verdict = "approved"
          /\ call'[s].task = call[s].task /\ call'[s].status = task[call[s].task].edge.to
        BY <2>2, <2>3, <3>1 DEF Calls
    <3> QED BY <2>1, <2>2, <2>3, <3>2 DEF Publishes, Approving, Overruling
  <2>4. CASE x = s /\ call[s].verdict # "approved"
      BY <1>1, <1>12, <2>4 DEF Mark, TypeOK, Publishes
  <2>5. CASE x # s
    <3>1. pc'[x] = pc[x] /\ call'[x] = call[x]
        BY <1>1, <1>12, <2>5 DEF Mark, TypeOK
    <3>2. call[x].op = "decide" => call[x].task \in Tasks
        BY DEF IInv, TasksExist
    <3> QED BY <1>2, <2>1, <3>1, <3>2 DEF Publishes, Approving, Overruling
  <2> QED BY <2>3, <2>4, <2>5
<1>13. ASSUME NEW d \in Contents, Generate(s, d) PROVE Publishes(x)'
  <2>1. call[s].op = "revise" /\ call[s].op \in Ops \cup {None}
      BY <1>1, <1>13 DEF Generate, IInv, Carries, TypeOK, Calls
  <2> QED BY <2>1, NoneAssumption DEF Reviewing, AllOps
<1>14. ASSUME Begin(s) PROVE Publishes(x)'
  <2>1. CASE Settled(s) /\ Return(s)
      BY <1>4, <1>14, <2>1 DEF Begin
  <2>2. CASE ~Settled(s)
    <3>1. pc[s] = "begin" /\ UNCHANGED task
        BY <1>14 DEF Begin
    <3>2. CASE x = s
      <4>1. call'[s] = [call[s] EXCEPT !.read = item] /\ call[s] \in Calls
          BY <1>1, <1>14, <2>2 DEF Begin, TypeOK
      <4>2. /\ call'[s].op = call[s].op /\ call'[s].verdict = call[s].verdict
            /\ call'[s].task = call[s].task /\ call'[s].status = call[s].status
          BY <4>1 DEF Calls
      <4> QED BY <1>2, <3>1, <3>2, <4>2 DEF Publishes, Approving, Overruling
    <3>3. CASE x # s
        BY <1>1, <1>3, <1>14, <2>2, <3>3 DEF Begin, TypeOK
    <3> QED BY <3>2, <3>3
  <2> QED BY <1>14, <2>1, <2>2 DEF Begin
<1>15. ASSUME Commit(s) PROVE Publishes(x)'
    BY <1>4, <1>15 DEF Commit
<1>16. ASSUME Abort(s) PROVE Publishes(x)'
    BY <1>4, <1>16 DEF Abort
<1> QED BY <1>5, <1>7, <1>8, <1>9, <1>10, <1>11, <1>12, <1>13, <1>14, <1>15, <1>16,
   <1>17 DEF Statement

\* A step that publishes the item is the last one of an approval.
LEMMA CommitPublishes ==
    ASSUME IInv, OnlyApprovalsPublish, [Next]_vars,
           item'.status = "published", item.status # "published"
    PROVE  \E s \in Sessions : pc[s] = "commit" /\
             \/ Approving(s) /\ task[call[s].task].edge.to = "published"
             \/ Overruling(s)
<1>1. item' # item
    OBVIOUS
<1>2. PICK s \in Sessions : Commit(s)
    BY <1>1 DEF Next, vars, Statement, Submit, Decide, Revise, Edit, Resave, Overwrite, LifecycleArchive,
                Rollback, Insert, Mark, Generate, Begin, Abort
<1>3. item'.status = IF call[s].status = None THEN item.status ELSE call[s].status
    BY <1>2 DEF Commit, Written
<1>4. call[s].status = "published" /\ pc[s] = "commit"
    BY <1>2, <1>3 DEF Commit
<1> QED BY <1>4 DEF OnlyApprovalsPublish, Publishes

\* Where no request revises, resubmits a status or rolls back, an item becomes
\* published only by the approval of a task whose transition publishes, or by a
\* caller who asks a door that does not look for an active workflow to write
\* "published": the statements of submitForReview, decideReviewTask and the other
\* writers let no interleaving and no failure publish it otherwise.
THEOREM PublishedOnlyByApproval ==
    ASSUME Ops \subseteq Reviewing
    PROVE  Spec => PublishedByApproval
<1>1. Init => OnlyApprovalsPublish
    BY DEF Init, OnlyApprovalsPublish, Publishes
<1>2. IInv /\ OnlyApprovalsPublish /\ [Next]_vars => OnlyApprovalsPublish'
    BY StepPublishes
<1>3. IInv /\ OnlyApprovalsPublish /\ [Next]_vars =>
         [item'.status = "published" /\ item.status # "published" =>
            \E s \in Sessions : pc[s] = "commit" /\
                \/ Approving(s) /\ task[call[s].task].edge.to = "published"
                \/ Overruling(s)]_vars
    BY CommitPublishes
<1> QED BY <1>1, <1>2, <1>3, Inductive, PTL DEF Spec, PublishedByApproval

-----------------------------------------------------------------------------
(* What requests that do not overlap do to the item, its history and its   *)
(* tasks.                                                                  *)

\* At most one request is being handled.
Alone == \A s, x \in Sessions : pc[s] # "idle" /\ pc[x] # "idle" => s = x

\* A request writes the row it has read, decides a task that is pending, and
\* moves the item where its operation does.
Faithful(s) ==
    /\ pc[s] = "commit" => call[s].read = item
    /\ pc[s] = "mark" => Pending(call[s].task)
    /\ pc[s] = "insert" => call[s].content = None
    /\ pc[s] \in {"begin", "commit"} =>
         \/ /\ call[s].op = "submit" /\ call[s].status = "in_review"
            /\ call[s].content = None
         \/ Approving(s)
         \/ call[s].op = "revise" /\ call[s].status = item.status
         \/ call[s].op = "resave" /\ call[s].status \in {item.status, "empty"}
         \/ call[s].op = "overwrite" /\ call[s].status \in Statuses
         \/ call[s].op = "edit" /\ call[s].status = None
         \/ call[s].op = "rollback"
         \/ /\ call[s].op = "archive" /\ call[s].status = "archived"
            /\ call[s].content = None

\* The history holds earlier versions of the row.
HistoryOlder == \A i \in DOMAIN archive : archive[i].version < item.version

SerialInv == HistoryOlder /\ \A s \in Sessions : Faithful(s)

\* A request that acts is the only one.
LEMMA OthersIdle ==
    ASSUME IInv, Alone, Alone', NEW s \in Sessions, pc[s] # "idle" \/ pc'[s] # "idle",
           \A x \in Sessions \ {s} : pc'[x] = pc[x]
    PROVE  \A x \in Sessions \ {s} : pc[x] = "idle" /\ pc'[x] = "idle"
BY DEF Alone

\* An idle request promises nothing.
LEMMA IdleFaithful ==
    ASSUME NEW s \in Sessions, pc[s] = "idle"
    PROVE  Faithful(s)
BY DEF Faithful

\* The same after a step.
LEMMA IdleFaithfulNext ==
    ASSUME NEW s \in Sessions, pc'[s] = "idle"
    PROVE  Faithful(s)'
BY DEF Faithful

\* The steps that leave the item and its history alone: it is enough to look at
\* the request that acts.
LEMMA OnlyActs ==
    ASSUME IInv, SerialInv, Alone, Alone', NEW s \in Sessions,
           pc[s] # "idle" \/ pc'[s] # "idle",
           \A x \in Sessions \ {s} : pc'[x] = pc[x],
           UNCHANGED <<item, archive>>, Faithful(s)'
    PROVE  SerialInv'
<1>1. \A x \in Sessions \ {s} : Faithful(x)'
    BY OthersIdle, IdleFaithfulNext
<1>2. HistoryOlder'
    BY DEF SerialInv, HistoryOlder
<1> QED BY <1>1, <1>2 DEF SerialInv

\* A request commits the row it has read: the history grows by the row that the
\* item leaves.
LEMMA CommitSerial ==
    ASSUME IInv, SerialInv, NEW s \in Sessions, Commit(s)
    PROVE  /\ archive' = Append(archive, item)
           /\ item'.version = item.version + 1
           /\ HistoryOlder'
<1>1. /\ call[s].read = item /\ archive' = Append(archive, item) /\ item' = Written(s)
      /\ item \in Rows /\ archive \in Seq(Rows)
    BY DEF Commit, SerialInv, Faithful, IInv, TypeOK
<1>2. item'.version = item.version + 1 /\ item.version \in Nat
    BY <1>1 DEF Written, Rows
<1>3. ASSUME NEW i \in DOMAIN archive' PROVE archive'[i].version < item'.version
  <2>1. i \in 1..Len(archive) + 1 /\ Len(archive) \in Nat
      BY <1>1, <1>3
  <2>2. CASE i = Len(archive) + 1
      BY <1>1, <1>2, <2>2
  <2>3. CASE i # Len(archive) + 1
    <3>1. i \in DOMAIN archive /\ archive'[i] = archive[i] /\ archive[i] \in Rows
        BY <1>1, <2>1, <2>3
    <3>2. archive[i].version < item.version /\ archive[i].version \in Nat
        BY <3>1 DEF SerialInv, HistoryOlder, Rows
    <3> QED BY <1>2, <3>1, <3>2
  <2> QED BY <2>2, <2>3
<1> QED BY <1>1, <1>2, <1>3 DEF HistoryOlder

\* Requests that do not overlap keep to it.
LEMMA StepSerialInv == IInv /\ Alone /\ Alone' /\ SerialInv /\ [Next]_vars => SerialInv'
<1> SUFFICES ASSUME IInv, Alone, Alone', SerialInv, [Next]_vars PROVE SerialInv'
    OBVIOUS
<1> USE Constants
<1>0. CASE UNCHANGED vars
    BY <1>0 DEF SerialInv, HistoryOlder, Faithful, Approving, Pending, vars
<1>1. TypeOK /\ \A x \in Sessions : Faithful(x)
    BY DEF IInv, SerialInv
<1> SUFFICES ASSUME NEW s \in Sessions,
        \/ \E edge \in Transitions : Submit(s, edge)
        \/ \E t \in Tasks, verdict \in {"approved", "rejected"} : Decide(s, t, verdict)
        \/ \E t \in Tasks : Revise(s, t)
        \/ \E c \in Contents : Edit(s, c)
        \/ \E c \in Contents, status \in {item.status, "empty"} : Resave(s, c, status)
        \/ \E c \in Contents \cup {None}, status \in Asked : Overwrite(s, c, status)
        \/ LifecycleArchive(s)
        \/ \E i \in DOMAIN archive : Rollback(s, i)
        \/ Statement(s)
        \/ Abort(s)
             PROVE  SerialInv'
    BY <1>0 DEF Next
<1>2. ASSUME NEW op, NEW step \in Steps \ {"idle"}, NEW c \in Calls, Start(s, op, step, c),
             UNCHANGED <<item, archive>>, Faithful(s)'
      PROVE  SerialInv'
  <2>1. pc'[s] = step /\ \A x \in Sessions \ {s} : pc'[x] = pc[x]
      BY <1>1, <1>2 DEF Start, TypeOK
  <2> QED BY <1>2, <2>1, OnlyActs
<1>3. ASSUME NEW op, NEW step \in Steps \ {"idle"}, NEW c, Start(s, op, step, c)
      PROVE  pc'[s] = step /\ call'[s] = c
    BY <1>1, <1>3 DEF Start, TypeOK
<1>4. ASSUME NEW edge \in Transitions, Submit(s, edge) PROVE SerialInv'
  <2> DEFINE c == [NoCall EXCEPT !.op = "submit", !.edge = edge]
  <2>1. /\ Start(s, "submit", "insert", c) /\ UNCHANGED <<item, archive>>
        /\ c \in Calls /\ c.content = None
      BY <1>4 DEF Submit, Start, NoCall, Calls
  <2> HIDE DEF c
  <2>2. Faithful(s)'
      BY <1>3, <2>1 DEF Faithful, Steps
  <2> QED BY <1>2, <2>1, <2>2 DEF Steps
<1>5. ASSUME NEW t \in Tasks, NEW verdict \in {"approved", "rejected"}, Decide(s, t, verdict)
      PROVE  SerialInv'
  <2> DEFINE c == [NoCall EXCEPT !.op = "decide", !.task = t, !.verdict = verdict]
  <2>1. /\ Start(s, "decide", "mark", c) /\ UNCHANGED <<item, archive, task>>
        /\ c \in Calls /\ c.task = t /\ Pending(t)
      BY <1>5 DEF Decide, Start, NoCall, Calls
  <2> HIDE DEF c
  <2>2. Faithful(s)'
      BY <1>3, <2>1 DEF Faithful, Steps, Pending
  <2> QED BY <1>2, <2>1, <2>2 DEF Steps
<1>6. ASSUME NEW t \in Tasks, Revise(s, t) PROVE SerialInv'
  <2> DEFINE c == [NoCall EXCEPT !.op = "revise", !.task = t]
  <2>1. Start(s, "revise", "generate", c) /\ UNCHANGED <<item, archive>> /\ c \in Calls
      BY <1>6 DEF Revise, Start, NoCall, Calls
  <2> HIDE DEF c
  <2>2. Faithful(s)'
      BY <1>3, <2>1 DEF Faithful, Steps
  <2> QED BY <1>2, <2>1, <2>2 DEF Steps
<1>7. ASSUME NEW d \in Contents, Edit(s, d) PROVE SerialInv'
  <2> DEFINE c == [NoCall EXCEPT !.op = "edit", !.content = d]
  <2>1. /\ Start(s, "edit", "begin", c) /\ UNCHANGED <<item, archive>>
        /\ c \in Calls /\ c.op = "edit" /\ c.status = None
      BY <1>7 DEF Edit, Start, NoCall, Calls
  <2> HIDE DEF c
  <2>2. Faithful(s)'
      BY <1>3, <2>1 DEF Faithful, Steps
  <2> QED BY <1>2, <2>1, <2>2 DEF Steps
<1>17. ASSUME NEW d \in Contents \cup {None}, NEW status \in Asked, Overwrite(s, d, status)
       PROVE  SerialInv'
  <2> DEFINE c == [NoCall EXCEPT !.op = "overwrite", !.content = d, !.status = status]
  <2>1. /\ Start(s, "overwrite", "begin", c) /\ UNCHANGED <<item, archive>>
        /\ c \in Calls /\ c.op = "overwrite" /\ c.status \in Statuses
      BY <1>17 DEF Overwrite, Start, NoCall, Calls
  <2> HIDE DEF c
  <2>2. Faithful(s)'
      BY <1>3, <2>1 DEF Faithful, Steps
  <2> QED BY <1>2, <2>1, <2>2 DEF Steps
<1>8. ASSUME NEW d \in Contents, NEW status \in {item.status, "empty"}, Resave(s, d, status)
      PROVE  SerialInv'
  <2> DEFINE c == [NoCall EXCEPT !.op = "resave", !.content = d, !.status = status]
  <2>1. /\ Start(s, "resave", "begin", c) /\ UNCHANGED <<item, archive>>
        /\ c \in Calls /\ c.op = "resave" /\ c.status \in {item.status, "empty"}
      BY <1>1, <1>8 DEF Resave, Start, NoCall, Calls, TypeOK, Rows
  <2> HIDE DEF c
  <2>2. Faithful(s)'
      BY <1>3, <2>1 DEF Faithful, Steps
  <2> QED BY <1>2, <2>1, <2>2 DEF Steps
<1>9. ASSUME LifecycleArchive(s) PROVE SerialInv'
  <2> DEFINE c == [NoCall EXCEPT !.op = "archive", !.status = "archived", !.read = item]
  <2>1. /\ Start(s, "archive", "commit", c) /\ UNCHANGED <<item, archive>>
        /\ c \in Calls /\ c.op = "archive" /\ c.status = "archived" /\ c.content = None
        /\ c.read = item
      BY <1>1, <1>9 DEF LifecycleArchive, Start, NoCall, Calls, TypeOK
  <2> HIDE DEF c
  <2>2. Faithful(s)'
      BY <1>3, <2>1 DEF Faithful, Steps
  <2> QED BY <1>2, <2>1, <2>2 DEF Steps
<1>10. ASSUME NEW i \in DOMAIN archive, Rollback(s, i) PROVE SerialInv'
  <2> DEFINE c == [NoCall EXCEPT !.op = "rollback", !.status = archive[i].status,
                                 !.content = archive[i].content, !.read = item]
  <2>1. archive[i] \in Rows
      BY <1>1 DEF TypeOK
  <2>2. /\ Start(s, "rollback", "commit", c) /\ UNCHANGED <<item, archive>>
        /\ c \in Calls /\ c.op = "rollback" /\ c.read = item
      BY <1>1, <1>10, <2>1 DEF Rollback, Start, NoCall, Calls, TypeOK, Rows
  <2> HIDE DEF c
  <2>3. Faithful(s)'
      BY <1>3, <2>2 DEF Faithful, Steps
  <2> QED BY <1>2, <2>2, <2>3 DEF Steps
<1>11. ASSUME NEW t \in Tasks, Insert(s, t) PROVE SerialInv'
  <2>1. /\ pc[s] = "insert" /\ call[s].op = "submit" /\ call[s].content = None /\ call[s] \in Calls
        /\ pc' = [pc EXCEPT ![s] = "begin"]
        /\ call'[s] = [call[s] EXCEPT !.status = "in_review"]
        /\ UNCHANGED <<item, archive>>
      BY <1>1, <1>11 DEF Insert, IInv, TypeOK, Carries, Faithful
  <2>2. call'[s].op = "submit" /\ call'[s].status = "in_review" /\ call'[s].content = None
      BY <2>1 DEF Calls
  <2>3. pc'[s] = "begin" /\ \A x \in Sessions \ {s} : pc'[x] = pc[x]
      BY <1>1, <2>1 DEF TypeOK
  <2>4. Faithful(s)'
      BY <2>2, <2>3 DEF Faithful
  <2> QED BY <2>1, <2>3, <2>4, OnlyActs
<1>12. ASSUME Mark(s) PROVE SerialInv'
  <2>1. /\ pc[s] = "mark" /\ call[s].op = "decide" /\ call[s] \in Calls
        /\ UNCHANGED <<item, archive>>
      BY <1>1, <1>12 DEF Mark, IInv, TypeOK, Carries
  <2>2. /\ pc'[s] \in {"begin", "idle"} /\ \A x \in Sessions \ {s} : pc'[x] = pc[x]
        /\ pc'[s] = "begin" => /\ call[s].verdict = "approved"
                               /\ call'[s] = [call[s] EXCEPT !.status = task[call[s].task].edge.to]
      BY <1>1, <1>12 DEF Mark, TypeOK
  <2>3. pc'[s] = "begin" => call'[s].op = "decide" /\ call'[s].verdict = "approved"
      BY <2>1, <2>2 DEF Calls
  <2>4. Faithful(s)'
      BY <2>2, <2>3 DEF Faithful, Approving
  <2> QED BY <2>1, <2>2, <2>4, OnlyActs
<1>13. ASSUME NEW d \in Contents, Generate(s, d) PROVE SerialInv'
  <2>1. /\ pc[s] = "generate" /\ call[s].op = "revise" /\ call[s] \in Calls
        /\ pc' = [pc EXCEPT ![s] = "begin"]
        /\ call'[s] = [call[s] EXCEPT !.status = item.status, !.content = d]
        /\ UNCHANGED <<item, archive>>
      BY <1>1, <1>13 DEF Generate, IInv, TypeOK, Carries
  <2>2. call'[s].op = "revise" /\ call'[s].status = item.status
      BY <2>1 DEF Calls
  <2>3. pc'[s] = "begin" /\ \A x \in Sessions \ {s} : pc'[x] = pc[x]
      BY <1>1, <2>1 DEF TypeOK
  <2>4. Faithful(s)'
      BY <2>1, <2>2, <2>3 DEF Faithful
  <2> QED BY <2>1, <2>3, <2>4, OnlyActs
<1>14. ASSUME Begin(s) PROVE SerialInv'
  <2>1. pc[s] = "begin" /\ UNCHANGED <<item, archive>> /\ call[s] \in Calls /\ Faithful(s)
      BY <1>1, <1>14 DEF Begin, TypeOK
  <2>2. CASE Return(s)
    <3>1. pc'[s] = "idle" /\ \A x \in Sessions \ {s} : pc'[x] = pc[x]
        BY <1>1, <2>2 DEF Return, TypeOK
    <3> QED BY <2>1, <3>1, IdleFaithfulNext, OnlyActs
  <2>3. CASE pc' = [pc EXCEPT ![s] = "commit"] /\ call' = [call EXCEPT ![s].read = item]
    <3>1. /\ pc'[s] = "commit" /\ \A x \in Sessions \ {s} : pc'[x] = pc[x]
          /\ call'[s] = [call[s] EXCEPT !.read = item]
        BY <1>1, <2>3 DEF TypeOK
    <3>2. /\ call'[s].op = call[s].op /\ call'[s].verdict = call[s].verdict
          /\ call'[s].status = call[s].status /\ call'[s].content = call[s].content
          /\ call'[s].read = item
        BY <2>1, <3>1 DEF Calls
    <3>3. Faithful(s)'
        BY <2>1, <3>1, <3>2 DEF Faithful, Approving
    <3> QED BY <2>1, <3>1, <3>3, OnlyActs
  <2> QED BY <1>14, <2>2, <2>3 DEF Begin
<1>15. ASSUME Commit(s) PROVE SerialInv'
  <2>1. pc[s] = "commit" /\ pc'[s] = "idle" /\ \A x \in Sessions \ {s} : pc'[x] = pc[x]
      BY <1>1, <1>15 DEF Commit, Return, TypeOK
  <2>2. \A x \in Sessions : Faithful(x)'
      BY <2>1, OthersIdle, IdleFaithfulNext
  <2> QED BY <1>15, <2>2, CommitSerial DEF SerialInv
<1>16. ASSUME Abort(s) PROVE SerialInv'
  <2>1. /\ pc[s] # "idle" /\ pc'[s] = "idle" /\ \A x \in Sessions \ {s} : pc'[x] = pc[x]
        /\ UNCHANGED <<item, archive>>
      BY <1>1, <1>16 DEF Abort, Return, TypeOK
  <2> QED BY <2>1, IdleFaithfulNext, OnlyActs
<1> QED BY <1>4, <1>5, <1>6, <1>7, <1>8, <1>9, <1>10, <1>11, <1>12, <1>13, <1>14, <1>15, <1>16,
   <1>17 DEF Statement

\* The serial invariant holds as long as requests do not overlap.
LEMMA AlwaysSerial == Spec /\ []Alone => []SerialInv
<1>1. Init => SerialInv
    BY DEF Init, SerialInv, HistoryOlder, Faithful
<1> QED BY <1>1, StepSerialInv, Inductive, PTL DEF Spec

\* The item and its history change with a commit only.
LEMMA OnlyCommits ==
    ASSUME [Next]_vars
    PROVE  UNCHANGED <<item, archive>> \/ \E s \in Sessions : Commit(s)
BY DEF Next, vars, Statement, Submit, Decide, Revise, Edit, Resave, Overwrite, LifecycleArchive,
       Rollback, Insert, Mark, Generate, Begin, Abort

\* While requests do not overlap, every state the item leaves is in its
\* history: whatever the operations, what a request read before its commit is
\* what its commit replaces.
THEOREM HistoryComplete == Spec /\ []Alone => SnapshotsTaken
<1>1. IInv /\ SerialInv /\ [Next]_vars => [item' # item => archive' = Append(archive, item)]_vars
    BY OnlyCommits, CommitSerial
<1> QED BY <1>1, AlwaysSerial, Inductive, PTL DEF Spec, SnapshotsTaken

\* While requests do not overlap, a decided task keeps its verdict: a request
\* marks the task it found pending.
THEOREM VerdictsStand == Spec /\ []Alone => DecidedOnce
<1> DEFINE Kept == \A t \in Tasks : task[t].status \in {"approved", "rejected"} =>
                                      task'[t].status = task[t].status
<1>1. IInv /\ SerialInv /\ [Next]_vars => [Kept]_vars
  <2> SUFFICES ASSUME IInv, SerialInv, Next, NEW t \in Tasks,
                      task[t].status \in {"approved", "rejected"}
               PROVE  task'[t].status = task[t].status
      OBVIOUS
  <2>1. TypeOK
      BY DEF IInv
  <2>2. ASSUME NEW s \in Sessions, NEW edge, Submit(s, edge)
        PROVE  task'[t].status = task[t].status
      BY <2>1, <2>2 DEF Submit, Pending, TypeOK
  <2>3. ASSUME NEW s \in Sessions, NEW u \in Tasks, Insert(s, u)
        PROVE  task'[t].status = task[t].status
      BY <2>1, <2>3 DEF Insert, TypeOK
  <2>4. ASSUME NEW s \in Sessions, Mark(s)
        PROVE  task'[t].status = task[t].status
    <3>1. call[s].task # t
        BY <2>4 DEF Mark, SerialInv, Faithful, Pending
    <3> QED BY <2>1, <2>4, <3>1 DEF Mark, TypeOK
  <2> QED BY <2>2, <2>3, <2>4 DEF Next, Statement, Decide, Revise, Edit, Resave, Overwrite, LifecycleArchive,
             Rollback, Generate, Begin, Commit, Abort
<1> QED BY <1>1, AlwaysSerial, Inductive, PTL DEF Spec, DecidedOnce

\* While requests do not overlap, the history is gapless: each commit archives
\* the newest version and makes the next one.
THEOREM HistoryHasNoGaps == Spec /\ []Alone => []HistoryNumbered
<1>1. Init => HistoryNumbered
    BY DEF Init, HistoryNumbered
<1>2. IInv /\ SerialInv /\ HistoryNumbered /\ [Next]_vars => HistoryNumbered'
  <2> SUFFICES ASSUME IInv, SerialInv, HistoryNumbered, [Next]_vars PROVE HistoryNumbered'
      OBVIOUS
  <2>1. CASE UNCHANGED <<item, archive>>
      BY <2>1 DEF HistoryNumbered
  <2>2. ASSUME NEW s \in Sessions, Commit(s) PROVE HistoryNumbered'
    <3>1. /\ archive' = Append(archive, item) /\ item'.version = item.version + 1
          /\ archive \in Seq(Rows) /\ item \in Rows
        BY <2>2, CommitSerial DEF IInv, TypeOK
    <3>2. /\ Len(archive') = Len(archive) + 1
          /\ \A i \in DOMAIN archive' :
               archive'[i] = IF i = Len(archive) + 1 THEN item ELSE archive[i]
          /\ DOMAIN archive' = 1..Len(archive) + 1 /\ DOMAIN archive = 1..Len(archive)
        BY <3>1
    <3> QED BY <3>1, <3>2 DEF HistoryNumbered
  <2> QED BY <2>1, <2>2, OnlyCommits
<1> QED BY <1>1, <1>2, AlwaysSerial, Inductive, PTL DEF Spec

\* A submission that is about to insert its task has closed the others.
OthersClosed == \A s \in Sessions : pc[s] = "insert" => \A t \in Tasks : ~Pending(t)

\* While requests do not overlap, at most one task is pending.
THEOREM OneTaskPending == Spec /\ []Alone => []OnePending
<1>1. Init => OnePending /\ OthersClosed
    BY DEF Init, OnePending, OthersClosed, Pending
<1>2. IInv /\ Alone /\ Alone' /\ OnePending /\ OthersClosed /\ [Next]_vars
        => OnePending' /\ OthersClosed'
  <2> SUFFICES ASSUME IInv, Alone, Alone', OnePending, OthersClosed, [Next]_vars
               PROVE  OnePending' /\ OthersClosed'
      OBVIOUS
  <2>1. TypeOK
      BY DEF IInv
  <2>2. ASSUME \A t \in Tasks : Pending(t)' => Pending(t),
               \A s \in Sessions : pc'[s] = "insert" => pc[s] = "insert"
        PROVE  OnePending' /\ OthersClosed'
      BY <2>2 DEF OnePending, OthersClosed
  <2>3. ASSUME NEW s \in Sessions, NEW edge, Submit(s, edge) PROVE OnePending' /\ OthersClosed'
    <3>1. \A t \in Tasks : ~Pending(t)'
        BY <2>1, <2>3 DEF Submit, Pending, TypeOK
    <3> QED BY <3>1 DEF OnePending, OthersClosed
  <2>4. ASSUME NEW s \in Sessions, NEW t \in Tasks, Insert(s, t)
        PROVE  OnePending' /\ OthersClosed'
    <3>1. /\ pc[s] = "insert" /\ pc'[s] = "begin"
          /\ \A x \in Sessions \ {s} : pc'[x] = pc[x]
          /\ \A u \in Tasks \ {t} : task'[u] = task[u]
        BY <2>1, <2>4 DEF Insert, TypeOK
    <3>2. \A u \in Tasks : Pending(u)' => u = t
        BY <3>1 DEF OthersClosed, Pending
    <3>3. \A x \in Sessions : pc'[x] # "insert"
        BY <3>1 DEF Alone
    <3> QED BY <3>2, <3>3 DEF OnePending, OthersClosed
  <2>5. ASSUME NEW s \in Sessions, Mark(s) PROVE OnePending' /\ OthersClosed'
    <3>1. /\ call[s].task \in Tasks /\ call[s].verdict \in {"approved", "rejected"}
          /\ task' = [task EXCEPT ![call[s].task].status = call[s].verdict]
        BY <2>5 DEF Mark, IInv, TasksExist, Carries
    <3>2. \A t \in Tasks : Pending(t)' => Pending(t)
        BY <2>1, <3>1 DEF Pending, TypeOK
    <3>3. \A x \in Sessions : pc'[x] = "insert" => pc[x] = "insert"
        BY <2>1, <2>5 DEF Mark, TypeOK
    <3> QED BY <2>2, <3>2, <3>3
  <2>6. ASSUME task' = task, \A s \in Sessions : pc'[s] = "insert" => pc[s] = "insert"
        PROVE  OnePending' /\ OthersClosed'
      BY <2>2, <2>6 DEF Pending
  <2>7. ASSUME NEW s \in Sessions,
               \/ \E t \in Tasks, verdict \in {"approved", "rejected"} : Decide(s, t, verdict)
               \/ \E t \in Tasks : Revise(s, t)
               \/ \E c \in Contents : Edit(s, c) \/ Generate(s, c)
               \/ \E c \in Contents, status \in {item.status, "empty"} : Resave(s, c, status)
               \/ \E c \in Contents \cup {None}, status \in Asked : Overwrite(s, c, status)
               \/ LifecycleArchive(s) \/ (\E i \in DOMAIN archive : Rollback(s, i))
               \/ Begin(s) \/ Commit(s) \/ Abort(s)
        PROVE  task' = task /\ \A x \in Sessions : pc'[x] = "insert" => pc[x] = "insert"
      BY <2>1, <2>7 DEF Decide, Revise, Edit, Resave, Overwrite, Generate, LifecycleArchive, Rollback, Begin,
         Commit, Abort, Start, Return, TypeOK
  <2>8. CASE UNCHANGED vars
      BY <2>6, <2>8 DEF vars
  <2> QED BY <2>3, <2>4, <2>5, <2>6, <2>7, <2>8 DEF Next, Statement
<1> QED BY <1>1, <1>2, Inductive, PTL DEF Spec

\* A row that is not published takes nothing from the readers when it goes into
\* the history, if what replaces it is not published either.
LEMMA DraftsUnseen ==
    ASSUME archive \in Seq(Rows), item \in Rows, archive' = Append(archive, item),
           item.status # "published", item'.status # "published"
    PROVE  Live' = Live
<1>1. PublishedRows' = PublishedRows
    BY DEF PublishedRows
<1>2. \A i \in PublishedRows : archive'[i] = archive[i]
    BY DEF PublishedRows
<1> QED BY <1>1, <1>2 DEF Live

\* The rows of history a, among those at P, that have the highest version.
Newest(P, a) == {i \in P : \A j \in P : a[j].version <= a[i].version}

\* A row whose version is above all others is the newest alone.
LEMMA NewestIsLast ==
    ASSUME NEW P, NEW n \in P, NEW a, a[n].version \in Nat,
           \A i \in P : i # n => a[i].version \in Nat /\ a[i].version < a[n].version
    PROVE  Newest(P, a) = {n}
<1>1. ASSUME NEW i \in P, i # n PROVE ~(a[n].version <= a[i].version)
    BY <1>1
<1>2. ASSUME NEW j \in P PROVE a[j].version <= a[n].version
    BY <1>2
<1> QED BY <1>1, <1>2 DEF Newest

\* A published row that is archived in favour of another status stays live: it
\* is the newest published version.
LEMMA PublishedStays ==
    ASSUME archive \in Seq(Rows), item \in Rows, archive' = Append(archive, item),
           HistoryOlder, item.status = "published", item'.status # "published"
    PROVE  Live' = Live
<1> DEFINE n == Len(archive) + 1
<1>1. /\ Len(archive) \in Nat /\ DOMAIN archive' = 1..n /\ archive'[n] = item
      /\ \A i \in 1..Len(archive) : archive'[i] = archive[i] /\ archive[i] \in Rows
      /\ DOMAIN archive = 1..Len(archive)
    OBVIOUS
<1>2. item.version \in Nat
    BY DEF Rows
<1>3. \A i \in 1..Len(archive) : archive'[i].version \in Nat /\ archive'[i].version < item.version
    BY <1>1 DEF HistoryOlder, Rows
<1>4. n \in PublishedRows' /\ PublishedRows' \subseteq 1..n
    BY <1>1 DEF PublishedRows
<1>5. \A j \in 1..n : j # n => j \in 1..Len(archive)
    BY <1>1
<1>6. \A i \in PublishedRows' : i # n =>
        archive'[i].version \in Nat /\ archive'[i].version < archive'[n].version
    BY <1>1, <1>3, <1>4, <1>5
<1>7. archive'[n].version \in Nat
    BY <1>1, <1>2
<1>8. Newest(PublishedRows', archive') = {n}
  <2> HIDE DEF n
  <2> QED BY <1>4, <1>6, <1>7, NewestIsLast
<1>9. Live' = {archive'[i].content : i \in Newest(PublishedRows', archive')}
    BY DEF Live, Newest
<1>10. Live' = {item.content}
  <2> HIDE DEF n
  <2> QED BY <1>1, <1>8, <1>9
<1> QED BY <1>10 DEF Live

\* While requests do not overlap, what readers are served changes by an approval,
\* a rollback, a door that writes "published" without asking the workflow, or a
\* write to what is published, and in no other way.
THEOREM LiveKept == Spec /\ []Alone => LiveKeptByWorkflow
<1> DEFINE Change == \E s \in Sessions : pc[s] = "commit" /\
                       \/ Approving(s)
                       \/ call[s].op = "rollback"
                       \/ Overruling(s)
                       \/ call[s].op \in {"edit", "resave", "revise"} /\ item.status = "published"
<1>1. IInv /\ SerialInv /\ [Next]_vars => [Live # {} /\ Live' # Live => Change]_vars
  <2> SUFFICES ASSUME IInv, SerialInv, [Next]_vars, ~Change PROVE Live' = Live
      OBVIOUS
  <2>1. CASE UNCHANGED <<item, archive>>
      BY <2>1 DEF Live, PublishedRows
  <2>2. ASSUME NEW s \in Sessions, Commit(s) PROVE Live' = Live
    <3>1. /\ archive' = Append(archive, item) /\ HistoryOlder
          /\ archive \in Seq(Rows) /\ item \in Rows
        BY <2>2, CommitSerial DEF IInv, TypeOK, SerialInv
    <3>2. /\ pc[s] = "commit" /\ Faithful(s)
          /\ item'.status = IF call[s].status = None THEN item.status ELSE call[s].status
        BY <2>2 DEF Commit, SerialInv, Written
    <3>3. item'.status # "published"
        BY <3>2, Constants DEF Faithful, Overruling
    <3> QED BY <3>1, <3>3, DraftsUnseen, PublishedStays
  <2> QED BY <2>1, <2>2, OnlyCommits
<1> QED BY <1>1, AlwaysSerial, Inductive, PTL DEF Spec, LiveKeptByWorkflow
===============================================================================
