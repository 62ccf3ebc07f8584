----------------------------- MODULE ContentWrites -----------------------------
(***************************************************************************)
(* The doors through which content items are created, updated and deleted: *)
(* REST (src/api/routes.ts), GraphQL (src/graphql/resolvers.ts), MCP       *)
(* (src/mcp/server.ts), public writes and forms (src/services/forms.ts).   *)
(* Every adapter has its own copy of the same handlers, and the copies     *)
(* differ in what they check.  A handler checks an entry against the rows  *)
(* it can see, then writes it; a batch does so entry by entry, either in   *)
(* one transaction (atomic) or in one statement or transaction per entry   *)
(* (partial).  A singleton type should have one item at most, and the      *)
(* status of an item under an active workflow is the workflow's to set.    *)
(*                                                                         *)
(* Of an item only its type and status are kept; the version history is in *)
(* ReviewWorkflow.  A transaction of the pool of src/db/index.ts holds one *)
(* connection, and the checks of an atomic create or update that look up   *)
(* references or the workflow ask the pool for another one.                *)
(***************************************************************************)
EXTENDS Naturals, Sequences, FiniteSets

CONSTANTS
    Items,        \* identifiers of content_items rows
    Existing,     \* those of the items there are at the start
    Types,        \* content types
    Singletons,   \* those of kind singleton
    Governed,     \* those with an active workflow
    Requests,     \* requests, one call each
    Calls,        \* the calls a request may make: a door and its entries
    Pool,         \* connections of the pool
    MaxDecisions, \* bound on the decisions of the workflow
    MaxFaults,    \* bound on the statements that fail
    None          \* no item, no type, or a field the entry leaves out

ASSUME TypesAssumption == Singletons \subseteq Types /\ Governed \subseteq Types
ASSUME ItemsAssumption == Existing \subseteq Items
ASSUME NoneAssumption == None \notin Items \cup Types \cup {"draft", "published", "empty"}
ASSUME BoundsAssumption == Pool \in Nat \ {0} /\ MaxDecisions \in Nat /\ MaxFaults \in Nat

\* The column is free text; "empty" is the empty text.
Statuses == {"draft", "published", "empty"}
Row      == [type : Types \cup {None}, status : Statuses \cup {"unused", "deleted"}]
Unused   == [type |-> None, status |-> "unused"]
Deleted  == [type |-> None, status |-> "deleted"]

Ops   == {"create", "update", "delete", "global", "public", "form"}
Entry == [item : Items \cup {None}, type : Types \cup {None}, status : Statuses \cup {None}]
Door  == [op : Ops, mode : {"single", "partial", "atomic"}, checks : SUBSET {"singleton", "workflow"}]

ASSUME CallsAssumption ==
    \A c \in Calls :
        /\ DOMAIN c = {"door", "entries"}
        /\ c.door \in Door /\ c.entries \in Seq(Entry)
        /\ c.door.mode = "single" => Len(c.entries) = 1
        /\ c.door.op \in {"create", "global", "form"} =>
               \A k \in DOMAIN c.entries : c.entries[k].type \in Types
        /\ c.door.op = "delete" => \A k \in DOMAIN c.entries : c.entries[k].item \in Items

-----------------------------------------------------------------------------
(* The doors of the three adapters, and what each checks.                  *)

Single(op, checks) == [op |-> op, mode |-> "single", checks |-> checks]
Batch(op, atomic, checks) ==
    [op |-> op, mode |-> IF atomic THEN "atomic" ELSE "partial", checks |-> checks]

RestCreate        == Single("create", {"singleton", "workflow"})
RestCreateOfType  == Single("create", {"singleton", "workflow"})
RestUpdate        == Single("update", {"singleton", "workflow"})
RestDelete        == Single("delete", {})
RestGlobal        == Single("global", {"singleton", "workflow"})
RestCreateBatch(atomic) == Batch("create", atomic, {"singleton"})
RestUpdateBatch(atomic) == Batch("update", atomic, {"singleton"})
RestDeleteBatch(atomic) == Batch("delete", atomic, {})
PublicCreate      == Single("create", {})
PublicUpdate      == Single("public", {})
FormSubmit        == Single("form", {})

GraphqlCreate     == Single("create", {"singleton", "workflow"})
GraphqlUpdate     == Single("update", {"singleton", "workflow"})
GraphqlDelete     == Single("delete", {})
GraphqlGlobal     == Single("global", {"singleton", "workflow"})
GraphqlCreateBatch(atomic) == Batch("create", atomic, {"singleton", "workflow"})
GraphqlUpdateBatch(atomic) ==
    Batch("update", atomic, IF atomic THEN {"singleton"} ELSE {"singleton", "workflow"})
GraphqlDeleteBatch(atomic) == Batch("delete", atomic, {})

McpCreate         == Single("create", {"singleton"})
McpUpdate         == Single("update", {"singleton"})
McpDelete         == Single("delete", {})
McpGlobal         == Single("global", {"singleton", "workflow"})
McpCreateBatch(atomic) == Batch("create", atomic, {"singleton"})
McpUpdateBatch(atomic) == Batch("update", atomic, {"singleton"})
McpDeleteBatch(atomic) == Batch("delete", atomic, {})

Doors ==
    {RestCreate, RestCreateOfType, RestUpdate, RestDelete, RestGlobal,
     PublicCreate, PublicUpdate, FormSubmit,
     GraphqlCreate, GraphqlUpdate, GraphqlDelete, GraphqlGlobal,
     McpCreate, McpUpdate, McpDelete, McpGlobal}
    \cup UNION {{RestCreateBatch(atomic), RestUpdateBatch(atomic), RestDeleteBatch(atomic),
                 GraphqlCreateBatch(atomic), GraphqlUpdateBatch(atomic), GraphqlDeleteBatch(atomic),
                 McpCreateBatch(atomic), McpUpdateBatch(atomic), McpDeleteBatch(atomic)} :
                    atomic \in BOOLEAN}

ASSUME DoorsAssumption == \A c \in Calls : c.door \in Doors

-----------------------------------------------------------------------------
VARIABLES
    rows,       \* the committed rows
    call,       \* the call of a request
    pc,         \* what a request does next
    own,        \* rows written, and so locked, by an open transaction
    read,       \* the item an entry is about, and the copy it was checked on
    reserved,   \* singleton types a batch has assigned, with the item
    results,    \* outcome of the entries so far
    answer,     \* what the caller was told
    applied,    \* the entries of a call whose writes are committed
    lost,       \* those of them whose commit was never confirmed
    excused,    \* types two requests raced for, or written without the check
    decisions,  \* decisions of the workflow so far
    faults      \* statements that failed so far

requests == <<call, pc, own, read, reserved, results, answer, applied, lost>>
vars == <<rows, requests, excused, decisions, faults>>

Nothing  == [item |-> None, row |-> Unused]
NoCall   == [door |-> RestDelete, entries |-> <<>>]
Answers  == {"none", "listed", "refused", "error"}

TypeOK ==
    /\ rows \in [Items -> Row]
    /\ call \in [Requests -> Calls \cup {NoCall}]
    /\ pc \in [Requests -> {"idle", "begin", "check", "write", "follow", "done"}]
    /\ \A r \in Requests : DOMAIN own[r] \subseteq Items /\ \A i \in DOMAIN own[r] : own[r][i] \in Row
    /\ read \in [Requests -> [item : Items \cup {None}, row : Row]]
    /\ reserved \in [Requests -> SUBSET (Types \X (Items \cup {None}))]
    /\ results \in [Requests -> Seq({"ok", "failed"})]
    /\ answer \in [Requests -> Answers]
    /\ applied \in [Requests -> SUBSET (Nat \ {0})]
    /\ lost \in [Requests -> SUBSET (Nat \ {0})]
    /\ excused \subseteq Types
    /\ decisions \in 0..MaxDecisions
    /\ faults \in 0..MaxFaults

\* Every singleton type starts with one item at most.
Init ==
    /\ \E start \in [Existing -> [type : Types, status : {"draft", "published"}]] :
        /\ \A i, j \in Existing :
               start[i].type = start[j].type /\ start[i].type \in Singletons => i = j
        /\ rows = [i \in Items |-> IF i \in Existing THEN start[i] ELSE Unused]
    /\ call = [r \in Requests |-> NoCall]
    /\ pc = [r \in Requests |-> "idle"]
    /\ own = [r \in Requests |-> <<>>]
    /\ read = [r \in Requests |-> Nothing]
    /\ reserved = [r \in Requests |-> {}]
    /\ results = [r \in Requests |-> <<>>]
    /\ answer = [r \in Requests |-> "none"]
    /\ applied = [r \in Requests |-> {}]
    /\ lost = [r \in Requests |-> {}]
    /\ excused = {}
    /\ decisions = 0
    /\ faults = 0

-----------------------------------------------------------------------------
(* What a request sees and holds.                                          *)

Op(r)      == call[r].door.op
Atomic(r)  == call[r].door.mode = "atomic"
Checks(r)  == call[r].door.checks
More(r)    == Len(results[r]) < Len(call[r].entries)
Current(r) == call[r].entries[Len(results[r]) + 1]

\* A transaction reads its own writes over what others have committed.
Visible(r) == [i \in Items |-> IF i \in DOMAIN own[r] THEN own[r][i] ELSE rows[i]]
Present(row) == row.status \in Statuses
Locked(r, i) == \E q \in Requests \ {r} : i \in DOMAIN own[q]

Open == {r \in Requests : Atomic(r) /\ pc[r] \in {"check", "write"}}
PoolExhausted == Cardinality(Open) >= Pool

\* The rows of a singleton type other than i, as findSingletonContentConflict sees them.
Occupants(r, t) == {i \in Items : Visible(r)[i].type = t}

SingletonTakenByCreate(r, t, i) ==
    t \in Singletons /\ i = None /\ Occupants(r, t) # {}

SingletonTaken(r, t, i) ==
    /\ t \in Singletons
    /\ \/ Occupants(r, t) \ {i} # {}
       \/ \E p \in reserved[r] : p[1] = t /\ (Op(r) = "create" \/ p[2] # i)

ForbiddenOnCreate(e, t, row) ==
    t \in Governed /\ ~Present(row) /\ e.status \notin {None, "empty", "draft"}

\* A status that may not be set by hand under an active workflow.  The test is of
\* truth, so that an empty status counts as none.
Forbidden(e, t, row) ==
    /\ t \in Governed /\ e.status \notin {None, "empty"}
    /\ e.status # IF Present(row) THEN row.status ELSE "draft"

TargetType(e, row) == IF e.type = None THEN row.type ELSE e.type

\* The item an entry is about: a new one, the one it names, or the one row of a global.
Subjects(r, e) ==
    CASE Op(r) \in {"create", "form"} -> {None}
      [] Op(r) = "global" ->
             IF Occupants(r, e.type) = {} THEN {None} ELSE Occupants(r, e.type)
      [] OTHER -> {i \in {e.item} : i \in Items /\ Present(Visible(r)[i])}

CopyOf(r, i) == IF i = None THEN Unused ELSE Visible(r)[i]

Refused(r, e, i) ==
    LET copy == CopyOf(r, i)
        t    == TargetType(e, copy)
    IN \/ "singleton" \in Checks(r) /\ SingletonTaken(r, t, i)
       \/ "workflow" \in Checks(r) /\ Forbidden(e, t, copy)
       \/ Op(r) = "public" /\ copy.status # "draft"

-----------------------------------------------------------------------------
(* The steps of a request.                                                 *)

FirstStep(c) == IF c.door.op = "delete" THEN "write" ELSE "check"

Receive(r) ==
    /\ pc[r] = "idle"
    /\ \E c \in Calls :
        /\ call' = [call EXCEPT ![r] = c]
        /\ pc' = [pc EXCEPT ![r] = IF c.door.mode = "atomic" THEN "begin" ELSE FirstStep(c)]
    /\ UNCHANGED <<rows, own, read, reserved, results, answer, applied, lost, excused, decisions, faults>>

\* db.transaction takes a connection and keeps it.
Begin(r) ==
    /\ pc[r] = "begin" /\ ~PoolExhausted
    /\ pc' = [pc EXCEPT ![r] = FirstStep(call[r])]
    /\ UNCHANGED <<rows, call, own, read, reserved, results, answer, applied, lost, excused, decisions, faults>>

FailWithoutRollback(r) ==
    /\ IF call[r].door.mode = "partial"
       THEN /\ results' = [results EXCEPT ![r] = Append(@, "failed")]
            /\ pc' = [pc EXCEPT ![r] = FirstStep(call[r])]
            /\ UNCHANGED <<rows, own, answer, applied>>
       ELSE /\ pc' = [pc EXCEPT ![r] = "done"]
            /\ answer' = [answer EXCEPT ![r] = "refused"]
            /\ rows' = Visible(r)
            /\ applied' = [applied EXCEPT ![r] = DOMAIN results[r]]
            /\ own' = [own EXCEPT ![r] = <<>>]
            /\ UNCHANGED results
    /\ UNCHANGED <<call, read, reserved, lost, excused, decisions, faults>>

\* An entry that fails: the next one in partial mode, else the call is refused
\* and the transaction rolled back.
Fail(r) ==
    /\ IF call[r].door.mode = "partial"
       THEN /\ results' = [results EXCEPT ![r] = Append(@, "failed")]
            /\ pc' = [pc EXCEPT ![r] = FirstStep(call[r])]
            /\ UNCHANGED <<own, answer>>
       ELSE /\ pc' = [pc EXCEPT ![r] = "done"]
            /\ answer' = [answer EXCEPT ![r] = "refused"]
            /\ own' = [own EXCEPT ![r] = <<>>]
            /\ UNCHANGED results
    /\ UNCHANGED <<rows, call, read, reserved, applied, lost, excused, decisions, faults>>

\* A statement throws.  A partial creation has a handler around every entry, an
\* atomic batch one around its transaction; nobody else has one, and the caller
\* gets an error that says nothing of the entries written before.
Thrown(r) ==
    IF call[r].door.mode = "partial" /\ Op(r) = "create"
    THEN /\ results' = [results EXCEPT ![r] = Append(@, "failed")]
         /\ pc' = [pc EXCEPT ![r] = FirstStep(call[r])]
         /\ UNCHANGED answer
    ELSE /\ pc' = [pc EXCEPT ![r] = "done"]
         /\ answer' = [answer EXCEPT ![r] = IF Atomic(r) THEN "refused" ELSE "error"]
         /\ UNCHANGED results

Fault == faults < MaxFaults /\ faults' = faults + 1

\* A statement of request r fails: a connection breaks, or Postgres refuses it.
Throw(r) ==
    /\ pc[r] \in {"begin", "check", "write"} /\ (More(r) \/ Atomic(r))
    /\ Fault
    /\ Thrown(r)
    /\ own' = [own EXCEPT ![r] = <<>>]
    /\ UNCHANGED <<rows, call, read, reserved, applied, lost, excused, decisions>>

Accept(r, e, i) ==
    /\ read' = [read EXCEPT ![r] = [item |-> i, row |-> CopyOf(r, i)]]
    /\ LET t == TargetType(e, CopyOf(r, i)) IN
       reserved' = [reserved EXCEPT ![r] =
           IF "singleton" \in Checks(r) /\ t \in Singletons THEN @ \cup {<<t, i>>} ELSE @]
    /\ pc' = [pc EXCEPT ![r] = "write"]
    /\ UNCHANGED <<rows, call, own, results, answer, applied, lost, excused, decisions, faults>>

\* The checks of one entry, on a copy of the item.
Check(r) ==
    /\ pc[r] = "check" /\ More(r) /\ ~PoolExhausted
    /\ LET e == Current(r) IN
       IF Subjects(r, e) = {} THEN Fail(r)
       ELSE \E i \in Subjects(r, e) :
                IF Refused(r, e, i) THEN Fail(r) ELSE Accept(r, e, i)

\* The singleton type another request has looked up and not yet written.
Claims(q) ==
    LET pending == IF pc[q] = "write" /\ Op(q) # "delete" /\ More(q)
                   THEN {TargetType(Current(q), read[q].row)} ELSE {}
    IN pending \cup {own[q][i].type : i \in DOMAIN own[q]}

\* A row of type t becomes visible to everybody.
Excuse(r, t) ==
    \/ \E q \in Requests \ {r} : t \in Claims(q)
    \/ "singleton" \notin Checks(r)

Publish(r, changed) ==
    /\ rows' = [i \in Items |-> IF i \in DOMAIN changed THEN changed[i] ELSE rows[i]]
    /\ excused' = excused \cup
           {t \in Types : Excuse(r, t) /\ \E i \in DOMAIN changed : changed[i].type = t /\ rows[i].type # t}

\* The entry is written, and the handler is told so; or the connection breaks
\* after the commit of a statement that is its own transaction.
Confirmed(r) ==
    /\ results' = [results EXCEPT ![r] = Append(@, "ok")]
    /\ pc' = [pc EXCEPT ![r] = IF Op(r) = "form" THEN "follow" ELSE FirstStep(call[r])]
    /\ UNCHANGED <<answer, lost, faults>>

Unconfirmed(r) ==
    /\ ~Atomic(r) /\ Fault
    /\ lost' = [lost EXCEPT ![r] = @ \cup {Len(results[r]) + 1}]
    /\ Thrown(r)

\* The row is written: at once, or by the transaction at its commit.
Put(r, i, row) ==
    /\ IF Atomic(r)
       THEN /\ own' = [own EXCEPT ![r] =
                         [j \in DOMAIN @ \cup {i} |-> IF j = i THEN row ELSE @[j]]]
            /\ UNCHANGED <<rows, applied, excused>>
       ELSE /\ Publish(r, [j \in {i} |-> row])
            /\ applied' = [applied EXCEPT ![r] = @ \cup {Len(results[r]) + 1}]
            /\ UNCHANGED own
    /\ Confirmed(r) \/ Unconfirmed(r)
    /\ UNCHANGED <<call, read, reserved, decisions>>

\* Identifiers the sequence has not given out; which one is next does not matter.
FreshIds(r) == {i \in Items : Visible(r)[i].status = "unused" /\ ~Locked(r, i)}

\* A creation takes an empty status for none; the global of a type does not.
NewStatus(r, e) ==
    IF e.status = None \/ (e.status = "empty" /\ Op(r) = "create") THEN "draft" ELSE e.status

Insert(r) ==
    /\ pc[r] = "write" /\ More(r) /\ Op(r) # "delete" /\ read[r].item = None
    /\ Atomic(r) \/ ~PoolExhausted
    /\ FreshIds(r) # {}
    /\ LET e == Current(r) IN
       Put(r, CHOOSE i \in FreshIds(r) : TRUE,
           [type |-> e.type, status |-> NewStatus(r, e)])

\* The fields an update sets; a global writes back the status it has read.
UpdatedFromCopy(r, e, row) ==
    [type   |-> TargetType(e, row),
     status |-> IF e.status # None THEN e.status ELSE read[r].row.status]

Updated(r, e, row) ==
    [type   |-> IF Op(r) = "global" THEN row.type ELSE TargetType(e, row),
     status |-> IF e.status # None THEN e.status
                ELSE IF Op(r) = "global" THEN read[r].row.status ELSE row.status]

\* The UPDATE, behind an insert into the history that needs the item to exist.
\* Only a single update has read the item again and can say that it is gone.
Update(r) ==
    /\ pc[r] = "write" /\ More(r) /\ read[r].item # None
    /\ Op(r) # "delete"
    /\ Atomic(r) \/ ~PoolExhausted
    /\ LET i   == read[r].item
           row == Visible(r)[i]
       IN /\ ~Locked(r, i)
          /\ IF Present(row) THEN Put(r, i, Updated(r, Current(r), row))
             ELSE IF call[r].door.mode = "partial" \/ Op(r) = "global"
             THEN /\ Thrown(r)
                  /\ UNCHANGED <<rows, call, own, read, reserved, applied, lost, excused, decisions, faults>>
             ELSE Fail(r)

Delete(r) ==
    /\ pc[r] = "write" /\ More(r) /\ Op(r) = "delete"
    /\ Atomic(r) \/ ~PoolExhausted
    /\ LET i == Current(r).item IN
       /\ ~Locked(r, i)
       /\ IF Present(Visible(r)[i]) THEN Put(r, i, Deleted) ELSE Fail(r)

\* Postgres ends one of the transactions that wait for each other in a circle.
Waiting(r) == IF Op(r) = "delete" THEN Current(r).item ELSE read[r].item
Blocks(q, r) == pc[r] = "write" /\ More(r) /\ q # r /\ Waiting(r) \in DOMAIN own[q]

VictimWithoutLocks(r) ==
    /\ own[r] = <<>>
    /\ \E q \in Requests : Blocks(q, r) /\ Blocks(r, q)
    /\ Fail(r)

DeadlockVictim(r) ==
    /\ \E S \in SUBSET Requests :
        /\ r \in S
        /\ \A q \in S : \E p \in S : Blocks(p, q)
        /\ \A q \in S : \E p \in S : Blocks(q, p)
    /\ Fail(r)

\* The end of the loop: a transaction commits, and the caller gets the results.
\* If the answer to the COMMIT is lost, the handler takes it for a failure.
Finish(r) ==
    /\ pc[r] \in {"check", "write"} /\ ~More(r)
    /\ pc' = [pc EXCEPT ![r] = "done"]
    /\ \/ answer' = [answer EXCEPT ![r] = "listed"] /\ UNCHANGED <<lost, faults>>
       \/ /\ Atomic(r) /\ Fault
          /\ answer' = [answer EXCEPT ![r] = "refused"]
          /\ lost' = [lost EXCEPT ![r] = DOMAIN results[r]]
    /\ IF Atomic(r)
       THEN /\ Publish(r, own[r])
            /\ own' = [own EXCEPT ![r] = <<>>]
            /\ applied' = [applied EXCEPT ![r] = DOMAIN results[r]]
       ELSE UNCHANGED <<rows, own, applied, excused>>
    /\ UNCHANGED <<call, read, reserved, results, decisions>>

\* What a form does once its item is inserted: submission for review, the draft
\* job and the webhook job.  One that throws leaves the item.
FollowUp(r) ==
    /\ pc[r] = "follow" /\ ~PoolExhausted
    /\ pc' = [pc EXCEPT ![r] = "done"]
    /\ \E outcome \in {"listed", "error"} : answer' = [answer EXCEPT ![r] = outcome]
    /\ UNCHANGED <<rows, call, own, read, reserved, results, applied, lost, excused, decisions, faults>>

\* The decision on a review task sets the status of a governed item.
Decide(i) ==
    /\ decisions < MaxDecisions /\ ~PoolExhausted
    /\ rows[i].type \in Governed /\ \A r \in Requests : i \notin DOMAIN own[r]
    /\ \E s \in Statuses \ {rows[i].status} : rows' = [rows EXCEPT ![i].status = s]
    /\ decisions' = decisions + 1
    /\ UNCHANGED <<requests, excused, faults>>

-----------------------------------------------------------------------------
RequestStep(r) ==
    \/ Receive(r) \/ Begin(r) \/ Check(r) \/ Insert(r) \/ Update(r) \/ Delete(r)
    \/ DeadlockVictim(r) \/ Finish(r) \/ FollowUp(r)

Next ==
    \/ \E r \in Requests : RequestStep(r) \/ Throw(r)
    \/ \E i \in Items : Decide(i)

Spec == Init /\ [][Next]_vars

\* A request that can go on does: the event loop and the database run it.  No
\* statement is obliged to fail.
FairSpec == Spec /\ \A r \in Requests : WF_vars(RequestStep(r))

-----------------------------------------------------------------------------
(* Properties.                                                             *)

\* A singleton type has one item at most, unless two requests were between
\* their look-up and their write at once, or a door without the look-up (public
\* writes, forms) wrote the second: findSingletonContentConflict is a SELECT,
\* and no constraint of the table stands behind it.
SingletonUnlessRaced ==
    \A i, j \in Items :
        i # j /\ rows[i].type = rows[j].type /\ rows[i].type \in Singletons
            => rows[i].type \in excused

\* The entries of request r that its handler knows to be written.
Reported(r) == {k \in DOMAIN results[r] : results[r][k] = "ok"}

\* What the caller is told is what happened, but for commits whose confirmation
\* was lost.  A refused call, an atomic batch rolled back included, has changed
\* nothing.  A list of results has every entry and calls written exactly those
\* that were.  An error, which names no entry, is never the answer of an atomic
\* batch or of a partial creation; what a partial update or deletion wrote before
\* it is what the handler had counted, and nothing is written after it.
ReportsTruthful ==
    \A r \in Requests :
        /\ answer[r] = "refused" => applied[r] = lost[r]
        /\ answer[r] = "listed" =>
               /\ Len(results[r]) = Len(call[r].entries)
               /\ applied[r] = Reported(r) \cup lost[r]
        /\ answer[r] = "error" =>
               /\ ~Atomic(r) /\ (call[r].door.mode = "partial" => Op(r) # "create")
               /\ applied[r] = Reported(r) \cup lost[r]
               /\ lost[r] \subseteq {Len(results[r]) + 1}

\* Request r writes one entry in this step.
Written(r) ==
    pc[r] = "write" /\ More(r) /\ (results'[r] = Append(results[r], "ok") \/ lost'[r] # lost[r])

\* The copy its entry was checked on is no longer the row.
Overtaken(r) == read[r].item # None /\ read[r].row # Visible(r)[read[r].item]

\* A door that checks the workflow never sets the status of a governed item,
\* but for a new draft, unless the item was changed between check and write, or
\* the caller names the empty status, which the guards take for no status and the
\* UPDATE, and the INSERT of a global, write.
StatusGuarded ==
    [][\A r \in Requests, i \in Items :
        Written(r) /\ "workflow" \in Checks(r) /\ Visible(r)'[i].type \in Governed
                   /\ Visible(r)'[i].status # Visible(r)[i].status
            => \/ Visible(r)[i].status = "unused" /\ Visible(r)'[i].status = "draft"
               \/ Visible(r)'[i].status = "empty" /\ Current(r).status = "empty"
               \/ Overtaken(r)]_vars

\* An update that names no status leaves the status alone, a decision taken
\* since the check included; only a global writes back the status it has read.
UnnamedStatusKept ==
    [][\A r \in Requests, i \in Items :
        Written(r) /\ Op(r) # "delete" /\ Current(r).status = None /\ Present(Visible(r)[i])
            => \/ Visible(r)'[i].status = Visible(r)[i].status
               \/ Op(r) = "global" /\ Overtaken(r)]_vars

\* Open transactions hold the whole pool, and none of them can go on: one at
\* least waits for another connection, the others for that or for its rows.
WaitsForPool(r) == pc[r] = "check" /\ More(r)
Starved ==
    /\ PoolExhausted
    /\ \E r \in Open : WaitsForPool(r)
    /\ \A r \in Open : WaitsForPool(r) \/ \E q \in Open : Blocks(q, r)

\* Every call is answered unless the pool is starved: atomic batches that lock
\* rows in opposite orders end each other's wait.
Over(r) == pc[r] \in {"idle", "done"}
RequestsEnd ==
    (\E r \in Requests : ~Over(r)) ~> ((\A r \in Requests : Over(r)) \/ Starved)
=============================================================================
