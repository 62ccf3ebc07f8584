----------------------------- MODULE Idempotency -----------------------------
(***************************************************************************)
(* The Idempotency-Key plugin of the HTTP server                           *)
(* (src/middleware/idempotency.ts): an in-memory cache of responses by     *)
(* method, path and key, and a set of the keys being processed.  The keys  *)
(* here are those cache keys, and a response is its class of status code.  *)
(*                                                                         *)
(* The hooks of a request wait for nothing but the event loop's own queue, *)
(* so a request is three steps at most: it arrives, and is answered at     *)
(* once or passed on; its handler runs, while others arrive and end; it    *)
(* ends, with the hooks behind the handler.  The /mcp routes of server.ts   *)
(* answer on the raw response instead, and no hook runs behind them.       *)
(***************************************************************************)
EXTENDS Naturals, FiniteSets

CONSTANTS
    Requests,   \* writes that carry an Idempotency-Key
    Keys,       \* method:path:key
    McpKeys,    \* the keys whose method and path are POST or DELETE /mcp
    MaxLapses,  \* bound on expired cache entries and on restarts
    None        \* no response, or no key yet

ASSUME NoneAssumption == None \notin Keys /\ None \notin {"done", "refused", "conflict", "error", "raw"}
ASSUME McpAssumption == McpKeys \subseteq Keys
ASSUME MaxLapsesAssumption == MaxLapses \in Nat

\* 2xx, 4xx and 409 responses are cached, 5xx responses are not, and what the
\* MCP transport writes on the raw response is never seen.
Cacheable == {"done", "refused", "conflict"}
Answers   == Cacheable \cup {"error", "raw"}

VARIABLES
    cache,     \* the response cached under a key
    inFlight,  \* the keys being processed
    pc,        \* whether a request is to come, in its handler, or over
    key,       \* its idempotencyCacheKey
    answer,    \* its response
    writes,    \* handlers that have written, by key
    lapses,    \* 5xx answers, expired entries and restarts, by key
    forgotten  \* expired entries and restarts in all, for the bound

requests == <<pc, key, answer>>
vars     == <<cache, inFlight, requests, writes, lapses, forgotten>>

TypeOK ==
    /\ cache \in [Keys -> Cacheable \cup {None}]
    /\ inFlight \subseteq Keys
    /\ pc \in [Requests -> {"new", "handler", "over"}]
    /\ key \in [Requests -> Keys \cup {None}]
    /\ answer \in [Requests -> Answers \cup {None}]
    /\ writes \in [Keys -> Nat]
    /\ lapses \in [Keys -> Nat]
    /\ forgotten \in 0..MaxLapses

Init ==
    /\ cache = [k \in Keys |-> None]
    /\ inFlight = {}
    /\ pc = [r \in Requests |-> "new"]
    /\ key = [r \in Requests |-> None]
    /\ answer = [r \in Requests |-> None]
    /\ writes = [k \in Keys |-> 0]
    /\ lapses = [k \in Keys |-> 0]
    /\ forgotten = 0

\* The onSend hook releases the key and caches a response below 500.
OnSend(k, response) ==
    /\ inFlight' = inFlight \ {k}
    /\ cache' = [cache EXCEPT ![k] = IF response = "error" THEN @ ELSE response]

-----------------------------------------------------------------------------
(* The onRequest hook.                                                     *)

Arrive(r, k, step, response) ==
    /\ pc[r] = "new"
    /\ pc' = [pc EXCEPT ![r] = step]
    /\ key' = [key EXCEPT ![r] = k]
    /\ answer' = [answer EXCEPT ![r] = response]
    /\ UNCHANGED <<writes, lapses, forgotten>>

\* A cached response is sent again; onSend leaves a replay alone.
Replay(r, k) ==
    /\ cache[k] # None
    /\ Arrive(r, k, "over", cache[k])
    /\ UNCHANGED <<cache, inFlight>>

\* The 409 for a key being processed goes through onSend like any response.
Conflict(r, k) ==
    /\ cache[k] = None /\ k \in inFlight
    /\ Arrive(r, k, "over", "conflict")
    /\ OnSend(k, "conflict")

AdmitUnlocked(r, k) ==
    /\ cache[k] = None
    /\ Arrive(r, k, "handler", None)
    /\ UNCHANGED <<cache, inFlight>>

Admit(r, k) ==
    /\ cache[k] = None /\ k \notin inFlight
    /\ Arrive(r, k, "handler", None)
    /\ inFlight' = inFlight \cup {k}
    /\ UNCHANGED cache

-----------------------------------------------------------------------------
EndKeepsKey(r, response, wrote) ==
    LET k == key[r] IN
    /\ pc[r] = "handler"
    /\ response = "done" => wrote
    /\ response = "refused" => ~wrote
    /\ pc' = [pc EXCEPT ![r] = "over"]
    /\ answer' = [answer EXCEPT ![r] = response]
    /\ writes' = [writes EXCEPT ![k] = IF wrote THEN @ + 1 ELSE @]
    /\ lapses' = [lapses EXCEPT ![k] = IF response = "error" THEN @ + 1 ELSE @]
    /\ IF response = "error" THEN UNCHANGED <<cache, inFlight>>
       ELSE OnSend(k, response)
    /\ UNCHANGED <<key, forgotten>>

\* The handler has written, has refused, or has failed with or without having
\* written; onError adds nothing to what onSend does.
End(r, response, wrote) ==
    LET k == key[r] IN
    /\ pc[r] = "handler"
    /\ response = "done" => wrote
    /\ response = "refused" => ~wrote
    /\ pc' = [pc EXCEPT ![r] = "over"]
    /\ answer' = [answer EXCEPT ![r] = response]
    /\ writes' = [writes EXCEPT ![k] = IF wrote THEN @ + 1 ELSE @]
    /\ lapses' = [lapses EXCEPT ![k] = IF response = "error" THEN @ + 1 ELSE @]
    /\ OnSend(k, response)
    /\ UNCHANGED <<key, forgotten>>

\* A session of /mcp answers on reply.raw and its route returns the reply: the
\* key stays in flight, whatever the tool it called has written.
HandOver(r, wrote) ==
    LET k == key[r] IN
    /\ pc[r] = "handler" /\ k \in McpKeys
    /\ pc' = [pc EXCEPT ![r] = "over"]
    /\ answer' = [answer EXCEPT ![r] = "raw"]
    /\ writes' = [writes EXCEPT ![k] = IF wrote THEN @ + 1 ELSE @]
    /\ UNCHANGED <<cache, inFlight, key, lapses, forgotten>>

\* The time to live of an entry runs out.
Expire(k) ==
    /\ cache[k] # None
    /\ forgotten < MaxLapses
    /\ forgotten' = forgotten + 1
    /\ cache' = [cache EXCEPT ![k] = None]
    /\ lapses' = [lapses EXCEPT ![k] = @ + 1]
    /\ UNCHANGED <<inFlight, requests, writes>>

\* The process restarts: its memory and the requests in progress are gone,
\* but what a handler got to write is not.
Restart ==
    /\ forgotten < MaxLapses
    /\ forgotten' = forgotten + 1
    /\ cache' = [k \in Keys |-> None]
    /\ inFlight' = {}
    /\ \E committed \in SUBSET {r \in Requests : pc[r] = "handler"} :
         writes' = [k \in Keys |->
                      writes[k] + Cardinality({r \in committed : key[r] = k})]
    /\ lapses' = [k \in Keys |-> lapses[k] + 1]
    /\ pc' = [r \in Requests |-> IF pc[r] = "new" THEN "new" ELSE "over"]
    /\ UNCHANGED <<key, answer>>

Next ==
    \/ \E r \in Requests, k \in Keys : Replay(r, k) \/ Conflict(r, k) \/ Admit(r, k)
    \/ \E r \in Requests, response \in {"done", "refused", "error"}, wrote \in BOOLEAN :
         End(r, response, wrote)
    \/ \E r \in Requests, wrote \in BOOLEAN : HandOver(r, wrote)
    \/ \E k \in Keys : Expire(k)
    \/ Restart

Spec == Init /\ [][Next]_vars

-----------------------------------------------------------------------------
(* Properties.                                                             *)

\* The requests being processed under a key.
Busy(k) == {r \in Requests : key[r] = k /\ pc[r] = "handler"}

\* "Replayed POST/PUT/DELETE requests can return cached responses instead of
\* creating duplicate writes": every write after the first under a key is owed
\* to a 5xx answer, to an expired entry or to a restart.
WritesOwed == \A k \in Keys : writes[k] <= 1 + lapses[k]

\* The requests of a key that were answered on the raw response.
Raw(k) == {r \in Requests : key[r] = k /\ answer[r] = "raw"}

\* A key is locked only while a request is processed that will release it; the
\* one cause of a lock left behind is a request of /mcp answered raw.
NoLeakedLock == \A k \in inFlight : Busy(k) # {} \/ (k \in McpKeys /\ Raw(k) # {})

\* "A request with this Idempotency-Key is already being processed. Wait for
\* it to complete before retrying": whoever is told so is told the truth.
ConflictMeansBusy ==
    [][\A r \in Requests : pc[r] = "new" /\ answer'[r] = "conflict" =>
         Busy(key'[r]) # {}]_vars
=============================================================================
