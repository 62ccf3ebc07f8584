---------------------------- MODULE EmbeddingIndex -----------------------------
(***************************************************************************)
(* The semantic index (src/services/embedding.ts): the chunks of an item's *)
(* text kept beside it in the table content_item_embeddings.  A handler    *)
(* that has committed a write of the item reacts to it without waiting: it *)
(* synchronises the index if the item is now published, else it deletes    *)
(* the item's chunks.  A process without an API key synchronises nothing   *)
(* and marks the item instead.  Any other runs its synchronisations one    *)
(* after the other and joins a request to one for the same item that has   *)
(* not ended; deletions are not queued, and processes do not know each     *)
(* other.                                                                  *)
(*                                                                         *)
(* An item's chunks and their vectors stand for the text they were made    *)
(* of.  Not every door reacts: batches, MCP tools, public writes, rollback *)
(* and lifecycle archiving write an item and leave its index alone.        *)
(***************************************************************************)
EXTENDS Naturals, Sequences, FiniteSets

CONSTANTS
    Items,      \* content items
    Texts,      \* their possible texts
    Blank,      \* the text that yields no chunks
    Processes,  \* server processes
    Keyless,    \* those started without OPENAI_API_KEY, which is the default
    Handlers,   \* requests and job workers, which write items
    Scheduled,  \* the job workers among them
    Home,       \* the process a handler runs in
    Silent,     \* whether there are writes that do not react
    MaxWrites,  \* bound on the writes of an item
    MaxFaults,  \* bound on crashes and failed statements or provider calls
    Nothing     \* no item, no text

ASSUME TextsAssumption == Blank \in Texts /\ Nothing \notin Texts \cup Items
ASSUME HomeAssumption ==
    Home \in [Handlers -> Processes] /\ Scheduled \subseteq Handlers /\ Silent \in BOOLEAN
ASSUME KeylessAssumption == Keyless \subseteq Processes
ASSUME BoundsAssumption == MaxWrites \in Nat /\ MaxFaults \in Nat

VARIABLES
    status,     \* status of an item, "absent" without a row
    text,       \* its text
    index,      \* the text its chunks were made of
    state,      \* the column embeddingStatus
    todo,       \* what a handler does next
    item,       \* the item it has written, or read
    inflight,   \* inFlightSyncs: the items a process is synchronising
    queue,      \* syncQueue: those whose run has not ended, in order
    stage,      \* the next statement of the run at its head
    copy,       \* the text that run has read
    edits,      \* writes so far
    faults,     \* faults so far
    excused     \* items whose index may be wrong, and why

row       == <<status, text>>
stored    == <<index, state>>
handler   == <<todo, item>>
syncs     == <<inflight, queue, stage, copy>>
counts    == <<edits, faults>>
indexVars == <<row, stored, handler, syncs, counts, excused>>

Statuses == {"absent", "draft", "published"}
States   == {"disabled", "pending", "synced", "failed"}
Stages   == {"select", "clear", "request", "store", "fail", "settle"}
Reasons  == {"silent", "keyless", "joined", "crossed", "failed", "unrecorded", "crashed"}

IndexTypeOK ==
    /\ status \in [Items -> Statuses]
    /\ text \in [Items -> Texts]
    /\ index \in [Items -> Texts \cup {Nothing}]
    /\ state \in [Items -> States]
    /\ todo \in [Handlers -> {"idle", "publish", "retract", "sync", "mark", "delete"}]
    /\ item \in [Handlers -> Items \cup {Nothing}]
    /\ inflight \in [Processes -> SUBSET Items]
    /\ queue \in [Processes -> Seq(Items)]
    /\ stage \in [Processes -> Stages]
    /\ copy \in [Processes -> Texts \cup {Nothing}]
    /\ edits \in 0..MaxWrites /\ faults \in 0..MaxFaults
    /\ excused \in [Items -> SUBSET Reasons]

IndexInit ==
    /\ status = [i \in Items |-> "draft"]
    /\ text \in [Items -> Texts]
    /\ index = [i \in Items |-> Nothing]
    /\ state = [i \in Items |-> "disabled"]
    /\ todo = [h \in Handlers |-> "idle"]
    /\ item = [h \in Handlers |-> Nothing]
    /\ inflight = [p \in Processes |-> {}]
    /\ queue = [p \in Processes |-> <<>>]
    /\ stage = [p \in Processes |-> "select"]
    /\ copy = [p \in Processes |-> Nothing]
    /\ edits = 0 /\ faults = 0
    /\ excused = [i \in Items |-> {}]

-----------------------------------------------------------------------------
(* What the index should hold, and who is about to write it.               *)

Wanted(i) == IF status[i] = "published" /\ text[i] # Blank THEN text[i] ELSE Nothing

\* Process p has read item i and not yet written what follows from it.
HasRead(p, i) == queue[p] # <<>> /\ Head(queue[p]) = i /\ stage[p] # "select"
Reading(p, i) == HasRead(p, i) /\ stage[p] # "settle"

Excuse(i, reasons) == excused' = [excused EXCEPT ![i] = @ \cup reasons]

-----------------------------------------------------------------------------
(* The writers.                                                            *)

\* A create, update, global, review decision or scheduled transition commits, and its
\* handler goes on to react to the row it got back.
React(h, i, s) ==
    /\ todo' = [todo EXCEPT ![h] = IF s = "published" THEN "sync" ELSE "delete"]
    /\ item' = [item EXCEPT ![h] = i]

Write(h, i) ==
    /\ todo[h] = "idle" /\ status[i] # "absent" /\ edits < MaxWrites
    /\ \E s \in {"draft", "published"}, t \in Texts :
        /\ status' = [status EXCEPT ![i] = s]
        /\ text' = [text EXCEPT ![i] = t]
        /\ React(h, i, s)
    /\ edits' = edits + 1
    /\ UNCHANGED <<stored, syncs, faults, excused>>

\* runContentStatusTransitionJob reads the item, and skips one that already has
\* the status it is to set; else it sets the status, whatever happened since.
ReadForTransition(h, i) ==
    /\ todo[h] = "idle" /\ status[i] # "absent" /\ edits < MaxWrites
    /\ todo' = [todo EXCEPT ![h] = IF status[i] = "published" THEN "retract" ELSE "publish"]
    /\ item' = [item EXCEPT ![h] = i]
    /\ UNCHANGED <<row, stored, syncs, counts, excused>>

Transition(h) ==
    /\ todo[h] \in {"publish", "retract"}
    /\ LET i      == item[h]
           target == IF todo[h] = "publish" THEN "published" ELSE "draft"
       IN IF status[i] = "absent"
          THEN /\ todo' = [todo EXCEPT ![h] = "idle"]
               /\ item' = [item EXCEPT ![h] = Nothing]
               /\ UNCHANGED <<status, edits>>
          ELSE /\ edits < MaxWrites
               /\ edits' = edits + 1
               /\ status' = [status EXCEPT ![i] = target]
               /\ React(h, i, target)
    /\ UNCHANGED <<text, stored, syncs, faults, excused>>

\* A door that does not react.
WriteSilently(i) ==
    /\ Silent /\ status[i] # "absent" /\ edits < MaxWrites
    /\ \E s \in {"draft", "published"}, t \in Texts :
        /\ <<s, t>> # <<status[i], text[i]>>
        /\ status' = [status EXCEPT ![i] = s]
        /\ text' = [text EXCEPT ![i] = t]
    /\ edits' = edits + 1
    /\ Excuse(i, {"silent"})
    /\ UNCHANGED <<stored, handler, syncs, faults>>

\* Deleting an item deletes its chunks with it.
Remove(i) ==
    /\ status[i] # "absent" /\ edits < MaxWrites
    /\ status' = [status EXCEPT ![i] = "absent"]
    /\ index' = [index EXCEPT ![i] = Nothing]
    /\ state' = [state EXCEPT ![i] = "disabled"]
    /\ edits' = edits + 1
    /\ UNCHANGED <<text, handler, syncs, faults, excused>>

-----------------------------------------------------------------------------
(* The reactions.                                                          *)

Rest(h) ==
    /\ todo' = [todo EXCEPT ![h] = "idle"]
    /\ item' = [item EXCEPT ![h] = Nothing]

\* Without an API key nothing is synchronised: the item is marked 'disabled',
\* and chunks that another process, or an earlier configuration, left stay.
SyncDisabled(h) ==
    /\ todo[h] = "sync" /\ Home[h] \in Keyless
    /\ \/ /\ state' = [state EXCEPT ![item[h]] = "disabled"]
          /\ UNCHANGED faults
       \/ /\ faults < MaxFaults /\ faults' = faults + 1
          /\ UNCHANGED state
    /\ Excuse(item[h], {"keyless"})
    /\ Rest(h)
    /\ UNCHANGED <<row, index, syncs, edits>>

\* syncItemEmbeddings joins a synchronisation of the item that has not ended in
\* this process, even one that has read the item before this change.
Sync(h) ==
    /\ todo[h] = "sync" /\ Home[h] \notin Keyless
    /\ LET i == item[h]
           p == Home[h]
       IN IF i \in inflight[p]
          THEN /\ Rest(h)
               /\ Excuse(i, IF HasRead(p, i) THEN {"joined"} ELSE {})
               /\ UNCHANGED inflight
          ELSE /\ todo' = [todo EXCEPT ![h] = "mark"]
               /\ inflight' = [inflight EXCEPT ![p] = @ \cup {i}]
               /\ Excuse(i, IF \E q \in Processes \ {p} : i \in inflight[q]
                            THEN {"crossed"} ELSE {})
               /\ UNCHANGED item
    /\ UNCHANGED <<row, stored, queue, stage, copy, counts>>

\* The item is marked 'pending' and queued; if the UPDATE fails, the key goes.
Mark(h) ==
    /\ todo[h] = "mark"
    /\ \/ /\ state' = [state EXCEPT ![item[h]] = IF status[item[h]] = "absent" THEN @ ELSE "pending"]
          /\ queue' = [queue EXCEPT ![Home[h]] = Append(@, item[h])]
          /\ UNCHANGED <<inflight, faults, excused>>
       \/ /\ faults < MaxFaults /\ faults' = faults + 1
          /\ inflight' = [inflight EXCEPT ![Home[h]] = @ \ {item[h]}]
          /\ Excuse(item[h], {"failed"})
          /\ UNCHANGED <<state, queue>>
    /\ Rest(h)
    /\ UNCHANGED <<row, index, stage, copy, edits>>

\* deleteItemEmbeddings, in one transaction.  It may come after the item was
\* published again, or while a synchronisation holds the published text.
DeleteIndex(h) ==
    /\ todo[h] = "delete"
    /\ LET i == item[h] IN
       \/ /\ index' = [index EXCEPT ![i] = Nothing]
          /\ state' = [state EXCEPT ![i] = "disabled"]
          /\ Excuse(i, IF status[i] = "published" \/ \E p \in Processes : Reading(p, i)
                       THEN {"crossed"} ELSE {})
          /\ UNCHANGED faults
       \/ /\ faults < MaxFaults /\ faults' = faults + 1
          /\ Excuse(i, {"failed"})
          /\ UNCHANGED stored
    /\ Rest(h)
    /\ UNCHANGED <<row, syncs, edits>>

-----------------------------------------------------------------------------
(* The run at the head of a process's queue.                               *)

SelectIgnoringStatus(p) ==
    /\ queue[p] # <<>> /\ stage[p] = "select"
    /\ LET i == Head(queue[p]) IN
       /\ stage' = [stage EXCEPT ![p] =
              IF status[i] = "absent" THEN "settle"
              ELSE IF text[i] = Blank THEN "clear" ELSE "request"]
       /\ copy' = [copy EXCEPT ![p] = text[i]]
    /\ UNCHANGED <<row, stored, handler, inflight, queue, counts, excused>>

Select(p) ==
    /\ queue[p] # <<>> /\ stage[p] = "select"
    /\ LET i == Head(queue[p]) IN
       /\ stage' = [stage EXCEPT ![p] =
              IF status[i] = "absent" THEN "settle"
              ELSE IF Wanted(i) = Nothing THEN "clear" ELSE "request"]
       /\ copy' = [copy EXCEPT ![p] = IF status[i] = "published" THEN text[i] ELSE Nothing]
    /\ UNCHANGED <<row, stored, handler, inflight, queue, counts, excused>>

\* The chunks of an item that is not published, or yields none, are deleted.
Clear(p) ==
    /\ queue[p] # <<>> /\ stage[p] = "clear"
    /\ LET i == Head(queue[p]) IN
       \/ /\ index' = [index EXCEPT ![i] = Nothing]
          /\ state' = [state EXCEPT ![i] = IF copy[p] = Blank /\ status[i] # "absent"
                                           THEN "synced" ELSE "disabled"]
          /\ stage' = [stage EXCEPT ![p] = "settle"]
          /\ UNCHANGED <<faults, excused>>
       \/ /\ faults < MaxFaults /\ faults' = faults + 1
          /\ stage' = [stage EXCEPT ![p] = "fail"]
          /\ Excuse(i, {"failed"})
          /\ UNCHANGED stored
    /\ UNCHANGED <<row, handler, inflight, queue, copy, edits>>

\* The provider answers, or refuses once its retries, or the budget, are used up.
Request(p) ==
    /\ queue[p] # <<>> /\ stage[p] = "request"
    /\ \/ /\ stage' = [stage EXCEPT ![p] = "store"]
          /\ UNCHANGED <<faults, excused>>
       \/ /\ faults < MaxFaults /\ faults' = faults + 1
          /\ stage' = [stage EXCEPT ![p] = "fail"]
          /\ Excuse(Head(queue[p]), {"failed"})
    /\ UNCHANGED <<row, stored, handler, inflight, queue, copy, edits>>

\* The chunks are replaced in one transaction, which fails without an item.
Store(p) ==
    /\ queue[p] # <<>> /\ stage[p] = "store"
    /\ LET i == Head(queue[p]) IN
       IF status[i] = "absent"
       THEN stage' = [stage EXCEPT ![p] = "fail"] /\ UNCHANGED stored
       ELSE /\ stage' = [stage EXCEPT ![p] = "settle"]
            /\ index' = [index EXCEPT ![i] = copy[p]]
            /\ state' = [state EXCEPT ![i] = "synced"]
    /\ UNCHANGED <<row, handler, inflight, queue, copy, counts, excused>>

\* The handler of a failed run records it, and may itself fail.
RecordFailure(p) ==
    /\ queue[p] # <<>> /\ stage[p] = "fail"
    /\ LET i == Head(queue[p]) IN
       \/ /\ state' = [state EXCEPT ![i] = IF status[i] = "absent" THEN @ ELSE "failed"]
          /\ UNCHANGED <<faults, excused>>
       \/ /\ faults < MaxFaults /\ faults' = faults + 1
          /\ Excuse(i, {"unrecorded"})
          /\ UNCHANGED state
    /\ stage' = [stage EXCEPT ![p] = "settle"]
    /\ UNCHANGED <<row, index, handler, inflight, queue, copy, edits>>

SettleKeepsKey(p) ==
    /\ queue[p] # <<>> /\ stage[p] = "settle"
    /\ queue' = [queue EXCEPT ![p] = Tail(@)]
    /\ stage' = [stage EXCEPT ![p] = "select"]
    /\ copy' = [copy EXCEPT ![p] = Nothing]
    /\ UNCHANGED <<row, stored, handler, inflight, counts, excused>>

\* The run has ended, well or not: its key goes, and the next run starts.
Settle(p) ==
    /\ queue[p] # <<>> /\ stage[p] = "settle"
    /\ inflight' = [inflight EXCEPT ![p] = @ \ {Head(queue[p])}]
    /\ queue' = [queue EXCEPT ![p] = Tail(@)]
    /\ stage' = [stage EXCEPT ![p] = "select"]
    /\ copy' = [copy EXCEPT ![p] = Nothing]
    /\ UNCHANGED <<row, stored, handler, counts, excused>>

\* A process dies with its keys, its queue and the reactions of its handlers; its
\* successor does not look for items that were left behind.
Crash(p) ==
    /\ faults < MaxFaults /\ faults' = faults + 1
    /\ LET gone == {h \in Handlers : Home[h] = p}
           lost == inflight[p] \cup {item[h] : h \in {g \in gone : todo[g] \in {"sync", "mark", "delete"}}}
       IN /\ todo' = [h \in Handlers |-> IF h \in gone THEN "idle" ELSE todo[h]]
          /\ item' = [h \in Handlers |-> IF h \in gone THEN Nothing ELSE item[h]]
          /\ excused' = [i \in Items |-> excused[i] \cup IF i \in lost THEN {"crashed"} ELSE {}]
    /\ inflight' = [inflight EXCEPT ![p] = {}]
    /\ queue' = [queue EXCEPT ![p] = <<>>]
    /\ stage' = [stage EXCEPT ![p] = "select"]
    /\ copy' = [copy EXCEPT ![p] = Nothing]
    /\ UNCHANGED <<row, stored, edits>>

-----------------------------------------------------------------------------
HandlerStep(h) ==
    Transition(h) \/ SyncDisabled(h) \/ Sync(h) \/ Mark(h) \/ DeleteIndex(h)

RunStep(p) ==
    Select(p) \/ Clear(p) \/ Request(p) \/ Store(p) \/ RecordFailure(p) \/ Settle(p)

IndexNext ==
    \/ \E h \in Handlers \ Scheduled, i \in Items : Write(h, i)
    \/ \E h \in Scheduled, i \in Items : ReadForTransition(h, i)
    \/ \E h \in Handlers : HandlerStep(h)
    \/ \E i \in Items : WriteSilently(i) \/ Remove(i)
    \/ \E p \in Processes : RunStep(p) \/ Crash(p)

IndexSpec == IndexInit /\ [][IndexNext]_indexVars

\* Reactions and runs are continuations on the event loop: they go on.
FairIndexSpec ==
    /\ IndexSpec
    /\ \A h \in Handlers : WF_indexVars(HandlerStep(h))
    /\ \A p \in Processes : WF_indexVars(RunStep(p))

-----------------------------------------------------------------------------
(* Properties.                                                             *)

\* Nobody is about to react to a change of the item, or to write its index.
AtRest(i) ==
    /\ \A h \in Handlers : item[h] = i => todo[h] \in {"publish", "retract"}
    /\ \A p \in Processes : i \notin inflight[p]

\* At rest the index holds the text of a published item and nothing of any
\* other, and the item says so, unless a door did not react, a process without
\* an API key did, a reaction joined a run that had read the item before,
\* reactions crossed, or a fault hit one.
IndexFollows ==
    \A i \in Items : AtRest(i) /\ excused[i] = {} =>
        /\ index[i] = Wanted(i)
        /\ state[i] = IF status[i] = "published" THEN "synced" ELSE "disabled"

\* Every synchronisation ends.
SyncsEnd == \A p \in Processes, i \in Items : i \in inflight[p] ~> i \notin inflight[p]

\* doc/guides/native-vector-rag.md:11 says that the vectors "can never drift out
\* of sync with your true content state".
NeverDrifts == \A i \in Items : AtRest(i) => index[i] = Wanted(i)
=============================================================================
