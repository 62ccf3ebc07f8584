---------------------------- MODULE ReviewWorkflow ----------------------------
(***************************************************************************)
(* One content item of a type that an active workflow governs: the row,    *)
(* its version history and the review tasks about it.                      *)
(*                                                                         *)
(* The item is written by the workflow (src/services/workflow.ts), by      *)
(* plain edits and rollbacks (src/services/content-item.service.ts and the *)
(* routes), by the lifecycle archive (src/services/content-lifecycle.ts),  *)
(* and by the doors that set any status without asking whether a workflow  *)
(* is active: the MCP tool, the update batches of REST and MCP, and the    *)
(* atomic update batch of GraphQL.  Every writer reads the row, appends    *)
(* what it read to the history and updates the row by id alone, in a READ  *)
(* COMMITTED transaction, so that another writer can commit in between.    *)
(***************************************************************************)
EXTENDS Naturals, Sequences, FiniteSets

CONSTANTS
    Sessions,     \* requests being handled
    Tasks,        \* identifiers of review tasks
    Contents,     \* what the data column can hold
    Transitions,  \* the rows of workflow_transitions, [from, to]
    Ops,          \* the operations the clients call
    Asked,        \* the statuses that callers of the unchecked doors ask for
    MaxHistory,   \* bound on the rows of content_item_versions
    MaxFaults,    \* bound on crashes and failed statements
    None          \* absence of a task, a transition, a status or a content

\* The column is free text; "empty" is the empty text, which callers can write.
Statuses == {"draft", "in_review", "published", "archived", "empty"}
AllOps   == {"submit", "decide", "revise", "edit", "resave", "overwrite", "rollback",
             "archive"}

ASSUME TransitionsAssumption == Transitions \subseteq [from : Statuses, to : Statuses]
ASSUME OpsAssumption == Ops \subseteq AllOps /\ Asked \subseteq Statuses
ASSUME BoundsAssumption == MaxHistory \in Nat /\ MaxFaults \in Nat
ASSUME NoneAssumption ==
    /\ None \notin Statuses /\ None \notin AllOps
    /\ None \notin Tasks /\ None \notin Contents /\ None \notin Transitions

VARIABLES
    item,     \* the row of content_items
    archive,  \* its rows of content_item_versions, in the order of their ids
    task,     \* the rows of review_tasks
    pc,       \* the next statement of a request
    call,     \* what the request carries between its statements
    faults    \* crashes and failed statements so far

requests == <<pc, call>>
vars     == <<item, archive, task, requests, faults>>

Rows  == [version : Nat, status : Statuses, content : Contents]
Steps == {"idle", "insert", "mark", "generate", "begin", "commit"}
Calls == [op : Ops \cup {None}, task : Tasks \cup {None},
          edge : Transitions \cup {None}, verdict : {"approved", "rejected", None},
          status : Statuses \cup {None}, content : Contents \cup {None},
          read : Rows \cup {None}]
NoCall == [op |-> None, task |-> None, edge |-> None, verdict |-> None,
           status |-> None, content |-> None, read |-> None]

TypeOK ==
    /\ item \in Rows
    /\ archive \in Seq(Rows)
    /\ task \in [Tasks -> [status : {"absent", "pending", "approved", "rejected"},
                           edge : Transitions \cup {None}]]
    /\ pc \in [Sessions -> Steps]
    /\ call \in [Sessions -> Calls]
    /\ faults \in 0..MaxFaults

Init ==
    /\ item \in [version : {1}, status : {"draft"}, content : Contents]
    /\ archive = <<>>
    /\ task = [t \in Tasks |-> [status |-> "absent", edge |-> None]]
    /\ pc = [s \in Sessions |-> "idle"]
    /\ call = [s \in Sessions |-> NoCall]
    /\ faults = 0

-----------------------------------------------------------------------------
(* The first statements of each operation.                                 *)

Busy == {s \in Sessions : pc[s] # "idle"}

\* Request s, which has room for its version row, goes to step with call c.
Start(s, op, step, c) ==
    /\ pc[s] = "idle"
    /\ op \in Ops
    /\ Len(archive) + Cardinality(Busy) < MaxHistory
    /\ pc' = [pc EXCEPT ![s] = step]
    /\ call' = [call EXCEPT ![s] = c]

Pending(t) == task[t].status = "pending"

SubmitClosingAll(s, edge) ==
    /\ Start(s, "submit", "insert", [NoCall EXCEPT !.op = "submit", !.edge = edge])
    /\ task' = [t \in Tasks |->
                   IF task[t].status # "absent"
                   THEN [task[t] EXCEPT !.status = "rejected"] ELSE task[t]]
    /\ UNCHANGED <<item, archive, faults>>

\* submitForReview: every pending task about the item is closed first.
Submit(s, edge) ==
    /\ Start(s, "submit", "insert", [NoCall EXCEPT !.op = "submit", !.edge = edge])
    /\ task' = [t \in Tasks |->
                   IF Pending(t) THEN [task[t] EXCEPT !.status = "rejected"] ELSE task[t]]
    /\ UNCHANGED <<item, archive, faults>>

InsertPublishing(s, t) ==
    /\ pc[s] = "insert"
    /\ task[t].status = "absent"
    /\ task' = [task EXCEPT ![t] = [status |-> "pending", edge |-> call[s].edge]]
    /\ pc' = [pc EXCEPT ![s] = "begin"]
    /\ call' = [call EXCEPT ![s].status = call[s].edge.to]
    /\ UNCHANGED <<item, archive, faults>>

\* The new task is inserted, then the item is to be marked as under review.
Insert(s, t) ==
    /\ pc[s] = "insert"
    /\ task[t].status = "absent"
    /\ task' = [task EXCEPT ![t] = [status |-> "pending", edge |-> call[s].edge]]
    /\ pc' = [pc EXCEPT ![s] = "begin"]
    /\ call' = [call EXCEPT ![s].status = "in_review"]
    /\ UNCHANGED <<item, archive, faults>>

\* decideReviewTask checks that the task is pending (authorizePendingReviewTask).
Decide(s, t, verdict) ==
    /\ Pending(t)
    /\ Start(s, "decide", "mark",
             [NoCall EXCEPT !.op = "decide", !.task = t, !.verdict = verdict])
    /\ UNCHANGED <<item, archive, task, faults>>

MarkOnly(s) ==
    /\ pc[s] = "mark"
    /\ task' = [task EXCEPT ![call[s].task].status = call[s].verdict]
    /\ pc' = [pc EXCEPT ![s] = "idle"]
    /\ call' = [call EXCEPT ![s] = NoCall]
    /\ UNCHANGED <<item, archive, faults>>

\* It writes the decision to the task by id, whatever its status is now; an
\* approval goes on to move the item along the edge of the task.
Mark(s) ==
    /\ pc[s] = "mark"
    /\ task' = [task EXCEPT ![call[s].task].status = call[s].verdict]
    /\ \/ /\ call[s].verdict = "approved"
          /\ pc' = [pc EXCEPT ![s] = "begin"]
          /\ call' = [call EXCEPT ![s].status = task[call[s].task].edge.to]
       \/ /\ call[s].verdict = "rejected"
          /\ pc' = [pc EXCEPT ![s] = "idle"]
          /\ call' = [call EXCEPT ![s] = NoCall]
    /\ UNCHANGED <<item, archive, faults>>

\* reviseReviewTask checks that the task is pending, then loads the draft.
Revise(s, t) ==
    /\ Pending(t)
    /\ Start(s, "revise", "generate", [NoCall EXCEPT !.op = "revise", !.task = t])
    /\ UNCHANGED <<item, archive, task, faults>>

\* The draft is loaded, with its status, and an agent rewrites its content.
Generate(s, c) ==
    /\ pc[s] = "generate"
    /\ pc' = [pc EXCEPT ![s] = "begin"]
    /\ call' = [call EXCEPT ![s].status = item.status, ![s].content = c]
    /\ UNCHANGED <<item, archive, task, faults>>

\* PUT /content-items/:id with new data only.
Edit(s, c) ==
    /\ Start(s, "edit", "begin", [NoCall EXCEPT !.op = "edit", !.content = c])
    /\ UNCHANGED <<item, archive, task, faults>>

\* The same with a status, which has to be the status the item has now: the
\* test takes an empty status for none, and the UPDATE writes it.
Resave(s, c, status) ==
    /\ Start(s, "resave", "begin",
             [NoCall EXCEPT !.op = "resave", !.content = c, !.status = status])
    /\ UNCHANGED <<item, archive, task, faults>>

\* A door that does not look for an active workflow takes any status.
Overwrite(s, c, status) ==
    /\ Start(s, "overwrite", "begin",
             [NoCall EXCEPT !.op = "overwrite", !.content = c, !.status = status])
    /\ UNCHANGED <<item, archive, task, faults>>

\* A reader finds the item past its time to live and goes on to archive the
\* row it has read (ensureContentItemLifecycleState).
LifecycleArchive(s) ==
    /\ item.status # "archived"
    /\ Start(s, "archive", "commit",
             [NoCall EXCEPT !.op = "archive", !.status = "archived", !.read = item])
    /\ UNCHANGED <<item, archive, task, faults>>

\* rollbackContentItem reads the item and the version to restore.
Rollback(s, i) ==
    /\ Start(s, "rollback", "commit",
             [NoCall EXCEPT !.op = "rollback", !.status = archive[i].status,
                            !.content = archive[i].content, !.read = item])
    /\ UNCHANGED <<item, archive, task, faults>>

-----------------------------------------------------------------------------
(* The transaction that writes the item.                                   *)

Return(s) ==
    /\ pc' = [pc EXCEPT ![s] = "idle"]
    /\ call' = [call EXCEPT ![s] = NoCall]

\* Only the workflow leaves the row alone when the status is what it wants.
Settled(s) == call[s].op \in {"submit", "decide"} /\ item.status = call[s].status

\* The SELECT: the request now holds the row as of this moment.
Begin(s) ==
    /\ pc[s] = "begin"
    /\ \/ /\ Settled(s)
          /\ Return(s)
       \/ /\ ~Settled(s)
          /\ pc' = [pc EXCEPT ![s] = "commit"]
          /\ call' = [call EXCEPT ![s].read = item]
    /\ UNCHANGED <<item, archive, task, faults>>

\* The row as the UPDATE leaves it.
Written(s) ==
    [version |-> call[s].read.version + 1,
     status  |-> IF call[s].status = None THEN item.status ELSE call[s].status,
     content |-> IF call[s].content = None THEN item.content ELSE call[s].content]

CommitUnversioned(s) ==
    /\ pc[s] = "commit"
    /\ item' = Written(s)
    /\ Return(s)
    /\ UNCHANGED <<archive, task, faults>>

CommitArchivingNew(s) ==
    /\ pc[s] = "commit"
    /\ archive' = Append(archive, Written(s))
    /\ item' = Written(s)
    /\ Return(s)
    /\ UNCHANGED <<task, faults>>

\* The INSERT into the history and the UPDATE, which become visible together.
Commit(s) ==
    /\ pc[s] = "commit"
    /\ archive' = Append(archive, call[s].read)
    /\ item' = Written(s)
    /\ Return(s)
    /\ UNCHANGED <<task, faults>>

\* A statement fails or the process dies; an open transaction is rolled back.
Abort(s) ==
    /\ pc[s] # "idle"
    /\ faults < MaxFaults
    /\ faults' = faults + 1
    /\ Return(s)
    /\ UNCHANGED <<item, archive, task>>

-----------------------------------------------------------------------------

\* A request goes on to its next statement.
Statement(s) ==
    \/ \E t \in Tasks : Insert(s, t)
    \/ Mark(s)
    \/ \E c \in Contents : Generate(s, c)
    \/ Begin(s)
    \/ Commit(s)

Next ==
    \E s \in Sessions :
        \/ \E edge \in Transitions : Submit(s, edge)
        \/ \E t \in Tasks, verdict \in {"approved", "rejected"} : Decide(s, t, verdict)
        \/ \E t \in Tasks : Revise(s, t)
        \/ \E c \in Contents : Edit(s, c)
        \/ \E c \in Contents, status \in {item.status, "empty"} : Resave(s, c, status)
        \/ \E c \in Contents \cup {None}, status \in Asked : Overwrite(s, c, status)
        \/ LifecycleArchive(s)
        \/ \E i \in DOMAIN archive : Rollback(s, i)
        \/ Statement(s)
        \/ Abort(s)

Spec == Init /\ [][Next]_vars

\* A request runs to its end: the database answers every statement.
Fairness == \A s \in Sessions : WF_vars(Statement(s))
FairSpec == Spec /\ Fairness

-----------------------------------------------------------------------------
(* What should be true.                                                    *)

Approving(s) == call[s].op = "decide" /\ call[s].verdict = "approved"

\* A door that does not ask the workflow was told to write "published".
Overruling(s) == call[s].op = "overwrite" /\ call[s].status = "published"

\* The item becomes published only as the last statement of an approval of a
\* task whose edge leads there, or because a caller of a door that does not look
\* for an active workflow said so: no submission, rejection, edit or archival
\* publishes it, in whatever order their statements come.
PublishedByApproval ==
    [][item'.status = "published" /\ item.status # "published" =>
         \E s \in Sessions : pc[s] = "commit" /\
             \/ Approving(s) /\ task[call[s].task].edge.to = "published"
             \/ Overruling(s)]_vars

\* What a reader who asks for draft=false is served: the item while it is
\* published, else the published version of the highest number
\* (getLatestPublishedVersionsForItems, resolveReadSourceItem).
PublishedRows == {i \in DOMAIN archive : archive[i].status = "published"}
Live ==
    IF item.status = "published" THEN {item.content}
    ELSE {archive[i].content : i \in
            {i \in PublishedRows : \A j \in PublishedRows :
                archive[j].version <= archive[i].version}}

\* Once there is published content, it stays live, whatever is submitted,
\* revised, rejected or archived, until an approval replaces it.
LiveUntilApproval ==
    [][Live # {} /\ Live' # Live =>
         \E s \in Sessions : pc[s] = "commit" /\ Approving(s)]_vars

\* While requests do not overlap, readers see a change in four ways only: an
\* approval, a rollback, a caller of a door that does not look for an active
\* workflow who leaves the item published, or a write to what is published, be it
\* an edit or the revision of a task that a rollback or a half-done submission
\* has left pending.  Nothing written to a draft by the other doors reaches them,
\* and no submission, rejection or archival, and no status written over a
\* published item, takes from them what they were served.
LiveKeptByWorkflow ==
    [][Live # {} /\ Live' # Live =>
         \E s \in Sessions : pc[s] = "commit" /\
           \/ Approving(s)
           \/ call[s].op = "rollback"
           \/ Overruling(s)
           \/ call[s].op \in {"edit", "resave", "revise"} /\ item.status = "published"]_vars

\* Every state the item leaves is in its history.
SnapshotsTaken ==
    [][item' # item => archive' = Append(archive, item)]_vars

\* The history is gapless: versions are numbered in their order, up to the
\* version before the item's.
HistoryNumbered ==
    /\ item.version = Len(archive) + 1
    /\ \A i \in DOMAIN archive : archive[i].version = i

\* At most one review task about the item is pending: submitForReview closes
\* the others before it opens one.
OnePending == \A t, u \in Tasks : Pending(t) /\ Pending(u) => t = u

\* A decision is made once: a task that is decided keeps its verdict.
DecidedOnce ==
    [][\A t \in Tasks : task[t].status \in {"approved", "rejected"} =>
                            task'[t].status = task[t].status]_vars

\* An approval that is under way moves the item where the task's transition
\* leads: no other request can make decideReviewTask stop half way.
ApprovalTakesEffect ==
    \A s \in Sessions, edge \in Transitions :
        (Approving(s) /\ task[call[s].task].edge = edge) ~> (item.status = edge.to)
===============================================================================
