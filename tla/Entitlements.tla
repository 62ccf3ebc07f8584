---------------------------- MODULE Entitlements ----------------------------
(***************************************************************************)
(* The entitlements a buyer holds on licensed content, as the database     *)
(* keeps them (src/services/licensing.ts).  A sale provisions an inert     *)
(* entitlement, the payment activates it, every read of the content spends *)
(* one read of its quota, and a holder may delegate part of the quota to   *)
(* another agent.                                                          *)
(*                                                                         *)
(* Requests run concurrently, each inside a Postgres transaction at the    *)
(* default READ COMMITTED level.  A transaction that spends quota is two   *)
(* steps here: the SELECT that copies the row into the request, and the    *)
(* guarded UPDATE that writes a value computed from the copy.  Nothing     *)
(* else of a transaction can be seen from outside: the UPDATE takes the    *)
(* row lock and re-evaluates its WHERE clause on the committed row, and    *)
(* the lock is held until the commit.                                      *)
(***************************************************************************)
EXTENDS Integers

CONSTANTS
    Ents,       \* identifiers of entitlement rows
    Sessions,   \* requests that may be running at the same time
    Quotas,     \* the maxReads a licence policy may carry
    Amounts,    \* the readsAmount a delegation may ask for
    Unlimited,  \* stands for null in maxReads and remainingReads
    NoEnt       \* stands for null in delegatedFrom

ASSUME UnlimitedAssumption == Unlimited \notin Int
ASSUME QuotasAssumption == Quotas \subseteq Nat \cup {Unlimited}
\* The route takes any number; the integer column refuses a fraction, and
\* nothing refuses a negative amount.
ASSUME AmountsAssumption == Amounts \subseteq Int
ASSUME NoEntAssumption == NoEnt \notin Ents

VARIABLES
    status,         \* the status column, "absent" before the row is inserted
    remaining,      \* the remainingReads column
    delegatedFrom,  \* the delegatedFrom column
    quota,          \* remainingReads at the time the row was inserted
    granted,        \* reads of a metered entitlement that were served
    delegated,      \* reads handed on to delegated entitlements
    credited,       \* reads gained by delegating negative amounts
    deadlinePassed, \* the clock has passed the policy's expiresAt
    pc,             \* what the transaction of a session does next
    target,         \* the entitlement it read
    snapshot,       \* remainingReads as it read it
    amount          \* readsAmount of a delegation

rows == <<status, remaining, delegatedFrom, quota, granted, delegated, credited>>
txs  == <<pc, target, snapshot, amount>>
vars == <<rows, deadlinePassed, txs>>

Status == {"absent", "pending_payment", "active", "exhausted", "expired"}
Steps  == {"idle", "expire", "exhaust", "decrement", "delegate"}

TypeOK ==
    /\ status \in [Ents -> Status]
    /\ remaining \in [Ents -> Int \cup {Unlimited}]
    /\ delegatedFrom \in [Ents -> Ents \cup {NoEnt}]
    /\ quota \in [Ents -> Int \cup {Unlimited}]
    /\ granted \in [Ents -> Nat]
    /\ delegated \in [Ents -> Nat]
    /\ credited \in [Ents -> Nat]
    /\ deadlinePassed \in BOOLEAN
    /\ pc \in [Sessions -> Steps]
    /\ target \in [Sessions -> Ents \cup {NoEnt}]
    /\ snapshot \in [Sessions -> Int \cup {Unlimited}]
    /\ amount \in [Sessions -> Int]

Init ==
    /\ status = [e \in Ents |-> "absent"]
    /\ remaining = [e \in Ents |-> 0]
    /\ delegatedFrom = [e \in Ents |-> NoEnt]
    /\ quota = [e \in Ents |-> 0]
    /\ granted = [e \in Ents |-> 0]
    /\ delegated = [e \in Ents |-> 0]
    /\ credited = [e \in Ents |-> 0]
    /\ deadlinePassed = FALSE
    /\ pc = [s \in Sessions |-> "idle"]
    /\ target = [s \in Sessions |-> NoEnt]
    /\ snapshot = [s \in Sessions |-> 0]
    /\ amount = [s \in Sessions |-> 0]

-----------------------------------------------------------------------------
(* The sale and the payment, single statements guarded by the status.      *)

\* An insert of a row with the given quota, part of the actions below.
Insert(e, st, reads, parent) ==
    /\ status' = [status EXCEPT ![e] = st]
    /\ quota' = [quota EXCEPT ![e] = reads]
    /\ delegatedFrom' = [delegatedFrom EXCEPT ![e] = parent]

Provision(e) ==
    /\ status[e] = "absent"
    /\ \E reads \in Quotas :
         /\ Insert(e, "pending_payment", reads, NoEnt)
         /\ remaining' = [remaining EXCEPT ![e] = reads]
    /\ UNCHANGED <<granted, delegated, credited, deadlinePassed, txs>>

\* activateEntitlementForPayment leaves every other status alone.
Activate(e) ==
    /\ status[e] = "pending_payment"
    /\ status' = [status EXCEPT ![e] = "active"]
    /\ UNCHANGED <<remaining, delegatedFrom, quota, granted, delegated, credited,
                   deadlinePassed, txs>>

\* The ledger expires the entitlement of an invoice that ran out.
ExpireUnpaid(e) ==
    /\ status[e] = "pending_payment"
    /\ status' = [status EXCEPT ![e] = "expired"]
    /\ UNCHANGED <<remaining, delegatedFrom, quota, granted, delegated, credited,
                   deadlinePassed, txs>>

PassDeadline ==
    /\ ~deadlinePassed
    /\ deadlinePassed' = TRUE
    /\ UNCHANGED <<rows, txs>>

-----------------------------------------------------------------------------
(* atomicallyDecrementRead.                                                *)

\* What the transaction does with the active row it has read.
Decision(e) == IF deadlinePassed THEN "expire"
               ELSE IF remaining[e] <= 0 THEN "exhaust" ELSE "decrement"

\* The SELECT.  An entitlement that is not active is refused at once, and a
\* read of an unlimited one is served, neither with a change of any row.
BeginRead(s, e) ==
    /\ pc[s] = "idle"
    /\ status[e] = "active"
    /\ deadlinePassed \/ remaining[e] # Unlimited
    /\ pc' = [pc EXCEPT ![s] = Decision(e)]
    /\ target' = [target EXCEPT ![s] = e]
    /\ snapshot' = [snapshot EXCEPT ![s] = remaining[e]]
    /\ UNCHANGED <<rows, deadlinePassed, amount>>

\* Back to the pool; the copy the request held is gone.
Finish(s) ==
    /\ pc' = [pc EXCEPT ![s] = "idle"]
    /\ target' = [target EXCEPT ![s] = NoEnt]
    /\ snapshot' = [snapshot EXCEPT ![s] = 0]
    /\ amount' = [amount EXCEPT ![s] = 0]

\* UPDATE ... SET status WHERE id = current.id AND status = 'active'
Close(s, step, terminal) ==
    LET e == target[s] IN
    /\ pc[s] = step
    /\ status' = [status EXCEPT ![e] = IF @ = "active" THEN terminal ELSE @]
    /\ Finish(s)
    /\ UNCHANGED <<remaining, delegatedFrom, quota, granted, delegated, credited,
                   deadlinePassed>>

CommitExpire(s)  == Close(s, "expire", "expired")
CommitExhaust(s) == Close(s, "exhaust", "exhausted")

CommitDecrementOneTooEarly(s) ==
    LET e    == target[s]
        left == snapshot[s] - 1 IN
    /\ pc[s] = "decrement"
    /\ remaining[e] > 0
    /\ remaining' = [remaining EXCEPT ![e] = left]
    /\ granted' = [granted EXCEPT ![e] = @ + 1]
    /\ status' = [status EXCEPT ![e] = IF left <= 1 /\ @ = "active"
                                       THEN "exhausted" ELSE @]
    /\ Finish(s)
    /\ UNCHANGED <<delegatedFrom, quota, delegated, credited, deadlinePassed>>

CommitDecrementForgotten(s) ==
    LET e == target[s] IN
    /\ pc[s] = "decrement"
    /\ remaining[e] > 0
    /\ granted' = [granted EXCEPT ![e] = IF @ <= quota[e] THEN @ + 1 ELSE @]
    /\ Finish(s)
    /\ UNCHANGED <<status, remaining, delegatedFrom, quota, delegated, credited,
                   deadlinePassed>>

\* UPDATE ... SET remainingReads = <copy> - 1 WHERE remainingReads > 0, then
\* the row that reached zero is closed.
CommitDecrement(s) ==
    LET e    == target[s]
        left == snapshot[s] - 1 IN
    /\ pc[s] = "decrement"
    /\ remaining[e] > 0
    /\ remaining' = [remaining EXCEPT ![e] = left]
    /\ granted' = [granted EXCEPT ![e] = @ + 1]
    /\ status' = [status EXCEPT ![e] = IF left = 0 /\ @ = "active"
                                       THEN "exhausted" ELSE @]
    /\ Finish(s)
    /\ UNCHANGED <<delegatedFrom, quota, delegated, credited, deadlinePassed>>

\* The UPDATE matched no row: race_condition_exhaustion, nothing is served.
LoseRace(s) ==
    /\ pc[s] = "decrement"
    /\ remaining[target[s]] <= 0
    /\ Finish(s)
    /\ UNCHANGED <<rows, deadlinePassed>>

-----------------------------------------------------------------------------
(* delegateEntitlement.                                                    *)

Positive(n) == IF n > 0 THEN n ELSE 0

BeginDelegate(s, e, n) ==
    /\ pc[s] = "idle"
    /\ status[e] = "active"
    /\ delegatedFrom[e] = NoEnt
    /\ remaining[e] # Unlimited => remaining[e] >= n
    /\ pc' = [pc EXCEPT ![s] = "delegate"]
    /\ target' = [target EXCEPT ![s] = e]
    /\ snapshot' = [snapshot EXCEPT ![s] = remaining[e]]
    /\ amount' = [amount EXCEPT ![s] = n]
    /\ UNCHANGED <<rows, deadlinePassed>>

CommitDelegateUnsaved(s) ==
    LET e == target[s]
        n == amount[s] IN
    /\ pc[s] = "delegate"
    /\ snapshot[s] # Unlimited /\ remaining[e] > n - 1
    /\ remaining' = [remaining EXCEPT ![e] = snapshot[s] - n]
    /\ Finish(s)
    /\ UNCHANGED <<status, delegatedFrom, quota, granted, delegated, credited,
                   deadlinePassed>>

\* UPDATE ... SET remainingReads = <copy> - n WHERE remainingReads > n - 1,
\* and the INSERT of the child row, in one transaction.
CommitDelegate(s) ==
    LET e       == target[s]
        n       == amount[s]
        metered == snapshot[s] # Unlimited IN
    /\ pc[s] = "delegate"
    /\ metered => remaining[e] > n - 1
    /\ \E c \in Ents :
         /\ status[c] = "absent"
         /\ Insert(c, "active", n, e)
         /\ remaining' = [remaining EXCEPT
                            ![e] = IF metered THEN snapshot[s] - n ELSE @,
                            ![c] = n]
    /\ delegated' = [delegated EXCEPT ![e] = IF metered THEN @ + Positive(n) ELSE @]
    /\ credited' = [credited EXCEPT ![e] = IF metered THEN @ + Positive(-n) ELSE @]
    /\ Finish(s)
    /\ UNCHANGED <<granted, deadlinePassed>>

\* A transaction that throws (CONCURRENT_DELEGATION_FAILURE among others) or
\* whose process dies is rolled back.
Abort(s) ==
    /\ pc[s] # "idle"
    /\ Finish(s)
    /\ UNCHANGED <<rows, deadlinePassed>>

-----------------------------------------------------------------------------
Next ==
    \/ PassDeadline
    \/ \E e \in Ents : Provision(e) \/ Activate(e) \/ ExpireUnpaid(e)
    \/ \E s \in Sessions :
         \/ \E e \in Ents : BeginRead(s, e)
         \/ \E e \in Ents, n \in Amounts : BeginDelegate(s, e, n)
         \/ CommitExpire(s)
         \/ CommitExhaust(s)
         \/ CommitDecrement(s)
         \/ LoseRace(s)
         \/ CommitDelegate(s)
         \/ Abort(s)

Spec == Init /\ [][Next]_vars

-----------------------------------------------------------------------------
(* Properties.                                                             *)

Held(e)    == status[e] # "absent"
Metered(e) == Held(e) /\ quota[e] # Unlimited
Spent(e)   == granted[e] + delegated[e]
Balance(e) == remaining[e] + Spent(e)
Account(e) == Balance(e) - credited[e]

\* A request is about to write a copy of e that another one has overtaken.
Overtaken(e) ==
    \E s \in Sessions : /\ pc[s] \in {"decrement", "delegate"}
                        /\ target[s] = e
                        /\ snapshot[s] # remaining[e]

\* The buyer is never shortchanged: whatever the interleaving of reads and
\* delegations, the reads served, the reads delegated and the reads left
\* always add up to at least the quota bought (atomicallyDecrementRead and
\* delegateEntitlement write back a value computed from a stale copy).
NoReadLost ==
    \A e \in Ents : Metered(e) => Balance(e) >= quota[e]

\* An entitlement is closed as exhausted only after every read it was sold
\* with has been served or delegated.
ExhaustedMeansServed ==
    \A e \in Ents : status[e] = "exhausted" =>
                      quota[e] # Unlimited /\ Spent(e) >= quota[e]

\* Reads are accounted for exactly: what has been spent and what is left of a
\* metered entitlement, less what negative delegations have added to it, only
\* ever add up to something else when a request writes back a copy that another
\* one has overtaken.
BalanceKept ==
    [][\A e \in Ents : Metered(e) /\ Account(e)' # Account(e) => Overtaken(e)]_vars

\* remainingReads is negative only in a row that was inserted so, by delegating
\* a negative amount: no statement takes an entitlement below zero, although
\* each subtracts from a copy that may be stale.
NegativeFromBirth ==
    \A e \in Ents : remaining[e] # Unlimited /\ remaining[e] < 0 =>
                      delegatedFrom[e] # NoEnt /\ remaining[e] = quota[e]

\* "Read requests decrement reads exactly once under concurrency": the reads
\* served and delegated never exceed the quota sold.
NeverOverspent ==
    \A e \in Ents : Metered(e) => Spent(e) <= quota[e]

\* What is left of that when requests do not race: the reads served and
\* delegated exceed the quota by what negative delegations have added, at most.
SpentWithinMeans ==
    \A e \in Ents : Metered(e) /\ quota[e] >= 0 => Spent(e) <= quota[e] + credited[e]

\* Entitlement states follow the life cycle pending_payment, active, then
\* one of the terminal states, which nothing leaves: a request that acts on
\* a copy of an active row cannot revive or relabel a closed one.
LifeCycle ==
    [][\A e \in Ents : status'[e] # status[e] =>
         <<status[e], status'[e]>> \in
           {<<"absent", "pending_payment">>, <<"absent", "active">>,
            <<"pending_payment", "active">>, <<"pending_payment", "expired">>,
            <<"active", "exhausted">>, <<"active", "expired">>}]_vars

-----------------------------------------------------------------------------
(* The contract of an entitlement.                                         *)

Contract == INSTANCE QuotaContract
    WITH state <- status, left <- remaining, parent <- delegatedFrom,
         spent <- [e \in Ents |-> Spent(e)]

\* The transaction of s ends, on a row another one has changed since its SELECT.
Stale(s) ==
    /\ pc[s] \in {"exhaust", "decrement", "delegate"} /\ pc'[s] = "idle"
    /\ status[target[s]] # "active" \/ snapshot[s] # remaining[target[s]]

\* "Atomically tries to decrement": the SELECT and the guarded UPDATE of a read
\* or a delegation amount to one atomic step on the entitlements, or to none,
\* for every transaction that ends on the row it has read.
ServesAtomically ==
    Contract!Init /\ [][Contract!Next \/ \E s \in Sessions : Stale(s)]_(Contract!vars)
=============================================================================
