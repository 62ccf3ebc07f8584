-------------------------------- MODULE Assets ---------------------------------
(***************************************************************************)
(* Media assets: the rows of src/services/assets.ts, the objects of the    *)
(* storage provider (src/services/asset-storage.ts) and the content items  *)
(* that refer to assets.  Nothing spans the row and the object: an upload  *)
(* stores the object and then inserts the row, a purge removes the object  *)
(* and then deletes the row, and a content write validates its references  *)
(* (src/services/content-schema.ts) before its transaction.  A purge reads *)
(* derivatives, the types with an asset field, current and historical      *)
(* references one after the other (src/services/reference-usage.ts), each  *)
(* in a statement of its own.  It reads an item and all of its versions by *)
(* the type the item has now, and only if that type has an asset field;    *)
(* an update may change an item's type, and an edit of a type its fields.  *)
(*                                                                         *)
(* A client does one call at a time.  A call in progress may be lost with  *)
(* its process.                                                            *)
(***************************************************************************)
EXTENDS Naturals

CONSTANTS
    Rows,      \* identifiers of assets rows
    Keys,      \* storage keys, one per upload
    Items,     \* content items
    Types,     \* content types
    Clients,   \* calls in progress
    MaxFaults, \* bound on lost calls and failed statements
    None       \* no row, no key, no item, no type

ASSUME NoneAssumption == None \notin Rows \cup Keys \cup Items \cup Types
ASSUME FaultsAssumption == MaxFaults \in Nat

VARIABLES
    rows,      \* the assets table
    objects,   \* keys of the objects the provider holds
    origin,    \* the keys given out: to an upload through the server, or a direct one
    tokens,    \* direct uploads issued
    current,   \* the asset a content item refers to
    history,   \* those its earlier versions refer to
    type,      \* its type
    fields,    \* the types whose schema has an asset field
    pc,        \* what a client does next
    job,       \* its row, key, source asset, item and type, and the types it has read
    excused,   \* what was done to a row that a purge was about, or what it cannot see
    lost,      \* keys whose upload died or could not be cleaned up
    faults

content == <<current, history, type, fields>>
vars == <<rows, objects, origin, tokens, content, pc, job, excused, lost, faults>>

Row     == [status  : {"unused", "active", "deleted", "purged"},
            key     : Keys \cup {None},
            source  : Rows \cup {None},
            variant : BOOLEAN]
Unused  == [status |-> "unused", key |-> None, source |-> None, variant |-> FALSE]
Purged  == [status |-> "purged", key |-> None, source |-> None, variant |-> FALSE]
Job     == [row : Rows \cup {None}, key : Keys \cup {None},
            source : Rows \cup {None}, item : Items \cup {None},
            type : Types \cup {None}, seen : SUBSET Types]
NoJob   == [row |-> None, key |-> None, source |-> None, item |-> None,
            type |-> None, seen |-> {}]
Kinds   == {"object", "reference", "hidden", "source"}
Steps   == {"idle", "insert", "cleanup", "finalize", "commit",
            "derivatives", "types", "current", "history", "remove", "drop"}

TypeOK ==
    /\ rows \in [Rows -> Row]
    /\ objects \subseteq Keys /\ lost \subseteq Keys
    /\ origin \in [Keys -> {"fresh", "server", "direct"}]
    /\ tokens \subseteq [key : Keys, source : Rows \cup {None}]
    /\ current \in [Items -> Rows \cup {None}]
    /\ history \in [Items -> SUBSET Rows]
    /\ type \in [Items -> Types] /\ fields \subseteq Types
    /\ pc \in [Clients -> Steps]
    /\ job \in [Clients -> Job]
    /\ excused \subseteq Kinds \X Rows
    /\ faults \in 0..MaxFaults

Init ==
    /\ rows = [r \in Rows |-> Unused]
    /\ objects = {} /\ tokens = {} /\ excused = {} /\ lost = {}
    /\ origin = [k \in Keys |-> "fresh"]
    /\ current = [i \in Items |-> None]
    /\ history = [i \in Items |-> {}]
    /\ type \in [Items -> Types] /\ fields \in SUBSET Types
    /\ pc = [c \in Clients |-> "idle"]
    /\ job = [c \in Clients |-> NoJob]
    /\ faults = 0

-----------------------------------------------------------------------------
(* What a call reads.                                                      *)

Exists(r) == rows[r].status \in {"active", "deleted"}
Active(r) == rows[r].status = "active"

\* normalizeDerivativeSource: no source, or an active asset.
ValidSource(s) == s = None \/ (s \in Rows /\ Active(s))

\* The foreign key of source_asset_id and the unique index on storage_key.
SourceExists(s) == s = None \/ (s \in Rows /\ Exists(s))
KeyTaken(k)     == \E r \in Rows : Exists(r) /\ rows[r].key = k

FreshRows == {r \in Rows : rows[r].status = "unused"}
FreshKeys == {k \in Keys : origin[k] = "fresh"}

\* A purge of row r, or of the object k, that has come as far as one of the steps.
Purging(r, steps)    == \E c \in Clients : pc[c] \in steps /\ job[c].row = r
PurgingKey(k, steps) == \E c \in Clients : pc[c] \in steps /\ job[c].key = k

Removing        == {"derivatives", "types", "current", "history", "remove"}
PastDerivatives == {"types", "current", "history", "remove", "drop"}
PastCurrent     == {"history", "remove", "drop"}

At(c, step) == pc[c] = step
Goto(c, step) == pc' = [pc EXCEPT ![c] = step]
EndCall(c) == Goto(c, "idle") /\ job' = [job EXCEPT ![c] = NoJob]

-----------------------------------------------------------------------------
(* createAsset: the object is stored, then the row inserted.               *)

Create(c) ==
    /\ At(c, "idle") /\ Goto(c, "insert") /\ FreshKeys # {}
    /\ LET k == CHOOSE k \in FreshKeys : TRUE IN
       \E s \in Rows \cup {None} :
        /\ ValidSource(s)
        /\ objects' = objects \cup {k}
        /\ origin' = [origin EXCEPT ![k] = "server"]
        /\ job' = [job EXCEPT ![c].key = k, ![c].source = s]
    /\ UNCHANGED <<rows, tokens, content, excused, lost, faults>>

\* The row of a stored object.  Its source may be under purge, its object too, or
\* its caller may never learn of it.
Persist(c, answer) ==
    /\ FreshRows # {}
    /\ LET r == CHOOSE r \in FreshRows : TRUE
           k == job[c].key
           s == job[c].source
       IN /\ rows' = [rows EXCEPT ![r] =
                 [status |-> "active", key |-> k, source |-> s, variant |-> s # None]]
          /\ excused' = excused
                 \cup (IF s # None /\ Purging(s, PastDerivatives) THEN {<<"source", r>>} ELSE {})
                 \cup (IF answer = "lost" \/ k \notin objects \/ PurgingKey(k, Removing)
                       THEN {<<"object", r>>} ELSE {})

PersistAssetRecord(c) == Persist(c, "sent")
PersistUnanswered(c)  == Persist(c, "lost")

InsertWithoutCleanup(c) ==
    /\ At(c, "insert")
    /\ IF SourceExists(job[c].source) THEN PersistAssetRecord(c) ELSE UNCHANGED <<rows, excused>>
    /\ EndCall(c)
    /\ UNCHANGED <<objects, origin, tokens, content, lost, faults>>

\* The insert fails when the source has been purged, or for a fault of the database;
\* one that was committed without an answer has failed for the handler, too.
Insert(c) ==
    /\ At(c, "insert")
    /\ \/ /\ SourceExists(job[c].source)
          /\ PersistAssetRecord(c) /\ EndCall(c)
          /\ UNCHANGED faults
       \/ /\ ~SourceExists(job[c].source) /\ Goto(c, "cleanup")
          /\ UNCHANGED <<rows, excused, job, faults>>
       \/ /\ faults < MaxFaults /\ faults' = faults + 1 /\ Goto(c, "cleanup")
          /\ UNCHANGED job
          /\ \/ UNCHANGED <<rows, excused>>
             \/ SourceExists(job[c].source) /\ PersistUnanswered(c)
    /\ UNCHANGED <<objects, origin, tokens, content, lost>>

\* The object is removed again; a failure to do so is swallowed.
Cleanup(c) ==
    /\ At(c, "cleanup") /\ EndCall(c)
    /\ \/ objects' = objects \ {job[c].key} /\ UNCHANGED <<lost, faults>>
       \/ /\ faults < MaxFaults /\ faults' = faults + 1
          /\ lost' = lost \cup {job[c].key} /\ UNCHANGED objects
    /\ UNCHANGED <<rows, origin, tokens, content, excused>>

-----------------------------------------------------------------------------
(* Direct upload: a URL and a token, the client's own PUT, completion.     *)

Issue ==
    /\ FreshKeys # {}
    /\ LET k == CHOOSE k \in FreshKeys : TRUE IN
       \E s \in Rows \cup {None} :
        /\ ValidSource(s)
        /\ tokens' = tokens \cup {[key |-> k, source |-> s]}
        /\ origin' = [origin EXCEPT ![k] = "direct"]
    /\ UNCHANGED <<rows, objects, content, pc, job, excused, lost, faults>>

PutByUrl(t) ==
    /\ t.key \notin objects
    /\ objects' = objects \cup {t.key}
    /\ UNCHANGED <<rows, origin, tokens, content, pc, job, excused, lost, faults>>

\* A key that has a row is complete: the row is the answer.  Else the object is
\* looked at, and the call ends if there is none.  A token may expire unused.
Complete(c, t) ==
    /\ At(c, "idle") /\ ~KeyTaken(t.key) /\ t.key \in objects /\ Goto(c, "finalize")
    /\ job' = [job EXCEPT ![c].key = t.key, ![c].source = t.source]
    /\ UNCHANGED <<rows, objects, origin, tokens, content, excused, lost, faults>>

FinalizeWithCleanup(c) ==
    /\ At(c, "finalize") /\ EndCall(c)
    /\ IF SourceExists(job[c].source) /\ ~KeyTaken(job[c].key)
       THEN PersistAssetRecord(c) /\ UNCHANGED objects
       ELSE objects' = objects \ {job[c].key} /\ UNCHANGED <<rows, excused>>
    /\ UNCHANGED <<origin, tokens, content, lost, faults>>

\* No clean-up: the object of a failed completion may be that of another's.
Finalize(c) ==
    /\ At(c, "finalize") /\ EndCall(c)
    /\ IF SourceExists(job[c].source) /\ ~KeyTaken(job[c].key)
       THEN PersistAssetRecord(c)
       ELSE UNCHANGED <<rows, excused>>
    /\ UNCHANGED <<objects, origin, tokens, content, lost, faults>>

-----------------------------------------------------------------------------
(* Soft delete, restore, purge.                                            *)

SoftDelete(r) ==
    /\ Active(r)
    /\ rows' = [rows EXCEPT ![r].status = "deleted"]
    /\ UNCHANGED <<objects, origin, tokens, content, pc, job, excused, lost, faults>>

\* Restoring does not ask for the object.
Restore(r) ==
    /\ rows[r].status = "deleted"
    /\ rows' = [rows EXCEPT ![r].status = "active"]
    /\ excused' = IF rows[r].key \notin objects \/ PurgingKey(rows[r].key, Removing)
                  THEN excused \cup {<<"object", r>>} ELSE excused
    /\ UNCHANGED <<objects, origin, tokens, content, pc, job, lost, faults>>

Purge(c, r) ==
    /\ At(c, "idle") /\ rows[r].status = "deleted" /\ Goto(c, "derivatives")
    /\ job' = [job EXCEPT ![c].row = r, ![c].key = rows[r].key]
    /\ UNCHANGED <<rows, objects, origin, tokens, content, excused, lost, faults>>

\* One of the reads of a purge: it ends the call when it finds something.
Reads(c, found, step) ==
    /\ IF found THEN EndCall(c) ELSE Goto(c, step) /\ UNCHANGED job
    /\ UNCHANGED <<rows, objects, origin, tokens, content, lost, faults>>

ReadDerivatives(c) ==
    /\ At(c, "derivatives")
    /\ Reads(c, \E q \in Rows : Exists(q) /\ rows[q].source = job[c].row, "types")
    /\ UNCHANGED excused

\* loadReferenceCandidateTypes.
ReadTypes(c) ==
    /\ At(c, "types") /\ Goto(c, "current")
    /\ job' = [job EXCEPT ![c].seen = fields]
    /\ UNCHANGED <<rows, objects, origin, tokens, content, excused, lost, faults>>

ReferringInHistoryFirst(r, step) ==
    {i \in Items : \/ step = "history" /\ current[i] = r
                   \/ step = "current" /\ r \in history[i]}

\* Current content is looked at first: a reference only moves from there to the history.
Referring(r, step) ==
    {i \in Items : \/ step = "current" /\ current[i] = r
                   \/ step = "history" /\ r \in history[i]}

\* What refers to row r and is seen, by the type its item has now.
Found(r, step, seen) == \E i \in Referring(r, step) : type[i] \in seen
Hidden(r, step, seen) == \E i \in Referring(r, step) : type[i] \notin seen

ReadReferences(c) ==
    /\ pc[c] \in {"current", "history"}
    /\ Reads(c, Found(job[c].row, pc[c], job[c].seen), IF At(c, "current") THEN "history" ELSE "remove")
    /\ excused' = IF Hidden(job[c].row, pc[c], job[c].seen)
                  THEN excused \cup {<<"hidden", job[c].row>>} ELSE excused

Remove(c) ==
    /\ At(c, "remove") /\ Goto(c, "drop")
    /\ objects' = objects \ {job[c].key}
    /\ UNCHANGED <<rows, origin, tokens, content, job, excused, lost, faults>>

\* The row goes if it is still deleted; the foreign key sets its variants' source to null.
Drop(c) ==
    /\ At(c, "drop") /\ EndCall(c)
    /\ LET r == job[c].row IN
       rows' = IF rows[r].status # "deleted" THEN rows
               ELSE [q \in Rows |-> IF q = r THEN Purged
                                    ELSE IF rows[q].source = r THEN [rows[q] EXCEPT !.source = None]
                                    ELSE rows[q]]
    /\ UNCHANGED <<objects, origin, tokens, content, excused, lost, faults>>

-----------------------------------------------------------------------------
(* Content that refers to assets.                                          *)

\* The references of new content are checked, against the schema of the type it
\* is to have: the asset exists and is active.
Validate(c, i) ==
    /\ At(c, "idle") /\ Goto(c, "commit")
    /\ \E r \in Rows \cup {None}, t \in Types :
        /\ ValidSource(r) /\ (r # None => t \in fields)
        /\ job' = [job EXCEPT ![c].row = r, ![c].item = i, ![c].type = t]
    /\ UNCHANGED <<rows, objects, origin, tokens, content, excused, lost, faults>>

\* The transaction that keeps the old content as a version and writes the new.
Commit(c) ==
    /\ At(c, "commit") /\ EndCall(c)
    /\ LET i == job[c].item
           r == job[c].row
       IN /\ history' = [history EXCEPT ![i] = (@ \cup {current[i]}) \ {None}]
          /\ current' = [current EXCEPT ![i] = r]
          /\ type' = [type EXCEPT ![i] = job[c].type]
          /\ excused' = IF r # None /\ (~Exists(r) \/ Purging(r, PastCurrent))
                        THEN excused \cup {<<"reference", r>>} ELSE excused
    /\ UNCHANGED <<rows, objects, origin, tokens, fields, lost, faults>>

DeleteItem(i) ==
    /\ current' = [current EXCEPT ![i] = None]
    /\ history' = [history EXCEPT ![i] = {}]
    /\ UNCHANGED <<rows, objects, origin, tokens, type, fields, pc, job, excused, lost, faults>>

\* An edit of a type adds the field or drops it, and asks no item.
EditType(t) ==
    /\ fields' = IF t \in fields THEN fields \ {t} ELSE fields \cup {t}
    /\ UNCHANGED <<rows, objects, origin, tokens, current, history, type, pc, job, excused, lost, faults>>

\* A call dies with its process, or a statement or the provider fails in it.
Lose(c) ==
    /\ faults < MaxFaults /\ ~At(c, "idle") /\ EndCall(c)
    /\ faults' = faults + 1
    /\ lost' = IF pc[c] \in {"insert", "cleanup"} THEN lost \cup {job[c].key} ELSE lost
    /\ UNCHANGED <<rows, objects, origin, tokens, content, excused>>

-----------------------------------------------------------------------------
Call(c) ==
    \/ Create(c) \/ Insert(c) \/ Cleanup(c)
    \/ \E t \in tokens : Complete(c, t)
    \/ Finalize(c)
    \/ \E r \in Rows : Purge(c, r)
    \/ ReadDerivatives(c) \/ ReadTypes(c) \/ ReadReferences(c) \/ Remove(c) \/ Drop(c)
    \/ \E i \in Items : Validate(c, i)
    \/ Commit(c) \/ Lose(c)

Next ==
    \/ \E c \in Clients : Call(c)
    \/ Issue
    \/ \E t \in tokens : PutByUrl(t)
    \/ \E r \in Rows : SoftDelete(r) \/ Restore(r)
    \/ \E i \in Items : DeleteItem(i)
    \/ \E t \in Types : EditType(t)

Spec == Init /\ [][Next]_vars

-----------------------------------------------------------------------------
(* Properties.                                                             *)

\* An active asset has its object, unless it became active while a purge of its
\* key was on its way to remove the object, or after one had: a restore checks
\* the row alone, a completion the object some time before its insert.  Or unless
\* its insert was committed and its upload told otherwise, and so cleaned up.
ActiveHasObject ==
    \A r \in Rows : Active(r) => rows[r].key \in objects \/ <<"object", r>> \in excused

\* An object of an upload through the server has a row, or a call that will give
\* it one or remove it, unless that call died or could not remove it.
NoOrphanObject ==
    \A k \in objects :
        origin[k] = "server" =>
            \/ KeyTaken(k) \/ k \in lost
            \/ \E c \in Clients : pc[c] \in {"insert", "cleanup"} /\ job[c].key = k

\* Content never refers to a purged asset, its earlier versions included, nor a
\* variant loses its source, unless it was written while the purge was past the
\* look for it: the look at current content comes before the look at history.  Or
\* unless the look was by a type without an asset field: its item had moved to
\* another type, or the type had lost the field, since the reference was written.
Overlooked(r) == <<"reference", r>> \in excused \/ <<"hidden", r>> \in excused
NothingLeftDangling ==
    /\ \A i \in Items, r \in Rows :
           current[i] = r \/ r \in history[i] => Exists(r) \/ Overlooked(r)
    /\ \A r \in Rows :
           Exists(r) /\ rows[r].variant => rows[r].source # None \/ <<"source", r>> \in excused
=============================================================================
