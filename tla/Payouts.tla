------------------------------- MODULE Payouts --------------------------------
(***************************************************************************)
(* From revenue to payouts: the allocations a purchase leaves to the       *)
(* contributing agents (src/services/revenue-allocator.service.ts), the    *)
(* worker that clears them once they are old enough                        *)
(* (src/workers/allocation-state.worker.ts), and the worker that pays out  *)
(* what is cleared and not yet paid (src/workers/payout.worker.ts).  A     *)
(* process runs both workers if a flag of its environment says so, while   *)
(* all of them allocate.  Each sweep is a series of statements without a   *)
(* transaction: the payout sweep computes the balances, inserts transfers  *)
(* for them domain by domain, executes them and records how they went.     *)
(*                                                                         *)
(* The status of an allocation is that of its latest status event; no code *)
(* writes the status 'disputed', which the clearing worker also reads.     *)
(* Batches are left out: nothing reads their rows.                         *)
(***************************************************************************)
EXTENDS Naturals, FiniteSets, Functions

CONSTANTS
    Agents,       \* agent profiles
    Reachable,    \* those with a payout address the provider can pay
    Domains,      \* tenants
    Allocations,  \* rows of revenue_allocations
    Share,        \* agent, domain and amount of an allocation
    Threshold,    \* the least balance that is paid out
    MaxTransfers, \* rows of payout_transfers
    Processes,    \* server processes
    MaxFaults     \* bound on failed statements, failed payments and deaths

ASSUME SharesAssumption ==
    /\ Share \in [Allocations -> [agent : Agents, domain : Domains, amount : Nat]]
    /\ Reachable \subseteq Agents
ASSUME TablesAssumption ==
    IsFiniteSet(Agents) /\ IsFiniteSet(Domains) /\ IsFiniteSet(Allocations)
ASSUME BoundsAssumption ==
    Threshold \in Nat \ {0} /\ MaxTransfers \in Nat /\ MaxFaults \in Nat

VARIABLES
    enabled,   \* processes with ENABLE_EXPERIMENTAL_REVENUE
    event,     \* latest status event of an allocation
    transfer,  \* the transfers
    due,       \* balances a sweep has computed and not yet batched
    mine,      \* transfers of its batch still to execute
    sent,      \* what the provider has paid an agent
    raced,     \* agents in the balances of two sweeps at once
    faults     \* faults so far

payoutVars == <<enabled, event, transfer, due, mine, sent, raced, faults>>

Transfers == 1..MaxTransfers
\* An allocation that stays "allocated" is one whose first event was not written.
Events    == {"none", "allocated", "pending", "cleared"}
BalanceRow   == [agent : Agents, domain : Domains, amount : Nat]
Outcomes  == {"pending", "completed", "failed_permanent"}
Absent    == [status |-> "absent"]

PayoutTypeOK ==
    /\ enabled \subseteq Processes
    /\ event \in [Allocations -> Events]
    /\ transfer \in [Transfers -> {Absent} \cup [status : Outcomes, balance : BalanceRow]]
    /\ due \in [Processes -> SUBSET BalanceRow]
    /\ mine \in [Processes -> SUBSET Transfers]
    /\ sent \in [Agents -> Nat]
    /\ raced \subseteq Agents
    /\ faults \in 0..MaxFaults

PayoutInit ==
    /\ enabled \in SUBSET Processes
    /\ event = [a \in Allocations |-> "none"]
    /\ transfer = [t \in Transfers |-> Absent]
    /\ due = [p \in Processes |-> {}]
    /\ mine = [p \in Processes |-> {}]
    /\ sent = [g \in Agents |-> 0]
    /\ raced = {}
    /\ faults = 0

Fault == faults < MaxFaults /\ faults' = faults + 1

-----------------------------------------------------------------------------
(* The books.                                                              *)

Allocated(S) == SumFunctionOnSet([a \in Allocations |-> Share[a].amount], S)

RowAmount == [t \in Transfers |->
    IF transfer[t].status = "absent" THEN 0 ELSE transfer[t].balance.amount]
Booked(T) == SumFunctionOnSet(RowAmount, T)

Cleared(g, d) ==
    {a \in Allocations : event[a] = "cleared" /\ Share[a].agent = g /\ Share[a].domain = d}
Made(g, outcomes) ==
    {t \in Transfers : transfer[t].status \in outcomes /\ transfer[t].balance.agent = g}

PastPayoutsCompleted(g) == Booked(Made(g, {"completed"}))
PastPayoutsFailedToo(g) == Booked(Made(g, Outcomes))

\* Those of the agent in any domain.
PastPayouts(g) == Booked(Made(g, {"pending", "completed"}))

Available(g, d) ==
    IF Allocated(Cleared(g, d)) > PastPayouts(g)
    THEN Allocated(Cleared(g, d)) - PastPayouts(g) ELSE 0

Balances ==
    {b \in {[agent |-> g, domain |-> d, amount |-> Available(g, d)] : g \in Agents, d \in Domains} :
        b.amount >= Threshold}

-----------------------------------------------------------------------------
(* Allocation and clearing.                                                *)

\* allocateRevenue inserts the allocation and, next, its first status event; in
\* between, and for ever when the second statement fails, no query sees it.
Allocate(a) ==
    /\ event[a] = "none"
    /\ \/ event' = [event EXCEPT ![a] = "pending"] /\ UNCHANGED faults
       \/ event' = [event EXCEPT ![a] = "allocated"] /\ Fault
    /\ UNCHANGED <<enabled, transfer, due, mine, sent, raced>>

\* processAutoClear inserts a 'cleared' event for each allocation of S, pending
\* and old enough.  What another sweep clears in between is cleared again, which
\* leaves it cleared.
Clear(S) ==
    /\ enabled # {}
    /\ S # {} /\ \A a \in S : event[a] = "pending"
    /\ event' = [a \in Allocations |-> IF a \in S THEN "cleared" ELSE event[a]]
    /\ UNCHANGED <<enabled, transfer, due, mine, sent, raced, faults>>

-----------------------------------------------------------------------------
(* The payout sweep, one at a time in a process.                           *)

Sweeping(p) == due[p] # {} \/ mine[p] # {}

\* What the query finds past due is kept until its domain's turn; nothing stops
\* two processes from finding the same balances.
ComputeBalances(p) ==
    /\ p \in enabled /\ ~Sweeping(p) /\ Balances # {}
    /\ due' = [due EXCEPT ![p] = Balances]
    /\ raced' = raced \cup ({b.agent : b \in Balances}
                           \cap {b.agent : b \in UNION {due[q] : q \in Processes}})
    /\ UNCHANGED <<enabled, event, transfer, mine, sent, faults>>

\* The rows a batch is written to; the row of a transfer that failed for good is
\* used again, for nothing reads it.
FreeRows(n) ==
    LET free == {t \in Transfers : transfer[t].status \in {"absent", "failed_permanent"}}
    IN {t \in free : Cardinality({u \in free : u <= t}) <= n}

\* The pending transfers of a domain, in one INSERT.
InsertTransfers(p) ==
    /\ mine[p] = {}
    /\ \E d \in Domains :
       LET balances == {b \in due[p] : b.domain = d}
           rows     == FreeRows(Cardinality(balances)) IN
       /\ balances # {} /\ Cardinality(rows) = Cardinality(balances)
       /\ LET row == CHOOSE n \in [rows -> balances] : \A b \in balances : \E t \in rows : n[t] = b
          IN transfer' = [t \in Transfers |->
                 IF t \in rows THEN [status |-> "pending", balance |-> row[t]] ELSE transfer[t]]
       /\ mine' = [mine EXCEPT ![p] = rows]
       /\ due' = [due EXCEPT ![p] = @ \ balances]
    /\ UNCHANGED <<enabled, event, sent, raced, faults>>

Settle(p, t, outcome) ==
    /\ transfer' = [transfer EXCEPT ![t].status = outcome]
    /\ mine' = [mine EXCEPT ![p] = @ \ {t}]

\* Without an address, or once three attempts have failed, a transfer fails for
\* good, and no longer counts as paid.
Refuse(p, t) ==
    /\ t \in mine[p]
    /\ IF transfer[t].balance.agent \in Reachable THEN Fault ELSE UNCHANGED faults
    /\ Settle(p, t, "failed_permanent")
    /\ UNCHANGED <<enabled, event, due, sent, raced>>

\* A process dies, or a statement of the sweep throws: the transfers it has
\* inserted and not executed stay pending, the domains to come are dropped.
Abandon(p) ==
    /\ Fault
    /\ due' = [due EXCEPT ![p] = {}]
    /\ mine' = [mine EXCEPT ![p] = {}]

PayBooksFirst(p, t) ==
    /\ t \in mine[p] /\ transfer[t].balance.agent \in Reachable
    /\ transfer' = [transfer EXCEPT ![t].status = "completed"]
    /\ \/ /\ sent' = [sent EXCEPT ![transfer[t].balance.agent] = @ + Booked({t})]
          /\ mine' = [mine EXCEPT ![p] = @ \ {t}] /\ UNCHANGED <<due, faults>>
       \/ Abandon(p) /\ UNCHANGED sent
    /\ UNCHANGED <<enabled, event, raced>>

\* The money goes first, the row is updated next: a sweep that ends in between
\* leaves the transfer pending.
Pay(p, t) ==
    /\ t \in mine[p] /\ transfer[t].balance.agent \in Reachable
    /\ sent' = [sent EXCEPT ![transfer[t].balance.agent] = @ + Booked({t})]
    /\ \/ Settle(p, t, "completed") /\ UNCHANGED <<due, faults>>
       \/ Abandon(p) /\ UNCHANGED transfer
    /\ UNCHANGED <<enabled, event, raced>>

Die(p) ==
    /\ Sweeping(p) /\ Abandon(p)
    /\ UNCHANGED <<enabled, event, transfer, sent, raced>>

-----------------------------------------------------------------------------
PayoutStep(p) ==
    \/ ComputeBalances(p) \/ InsertTransfers(p)
    \/ \E t \in Transfers : Refuse(p, t) \/ Pay(p, t)

PayoutNext ==
    \/ \E a \in Allocations : Allocate(a)
    \/ \E S \in SUBSET Allocations : Clear(S)
    \/ \E p \in Processes : PayoutStep(p) \/ Die(p)

PayoutSpec == PayoutInit /\ [][PayoutNext]_payoutVars

\* The workers sweep again and again where they run, and what is pending grows old.
FairPayoutSpec ==
    /\ PayoutSpec
    /\ WF_payoutVars(\E S \in SUBSET Allocations : Clear(S))
    /\ \A p \in Processes : WF_payoutVars(PayoutStep(p))

-----------------------------------------------------------------------------
(* Properties.                                                             *)

Of(g)        == {a \in Allocations : Share[a].agent = g}
DomainsOf(g) == {Share[a].domain : a \in Of(g)}

\* An agent is never booked more than its cleared allocations, whatever the
\* domains they are in, unless the sweeps of two processes computed the same
\* balance: the query and the INSERT are apart, and nothing holds the balance.
NeverOverpaid ==
    \A g \in Agents \ raced :
        Booked(Made(g, {"pending", "completed"}))
            <= Allocated({a \in Of(g) : event[a] = "cleared"})

\* The provider has paid an agent what its completed transfers say, and beyond
\* that at most what is pending: no payment is ever unbooked, and none is booked
\* as made or refused that was not.
BooksMatchPayments ==
    \A g \in Agents :
        /\ Booked(Made(g, {"completed"})) <= sent[g]
        /\ sent[g] <= Booked(Made(g, {"pending", "completed"}))

\* What the agent was allocated in a domain, as far as it was announced: the first
\* status event of the allocation was written.
Announced(g, d) ==
    {a \in Of(g) : Share[a].domain = d /\ event[a] \in {"pending", "cleared"}}

\* Transfers that a sweep has inserted and did not get to settle: nothing takes
\* them up, and they count as paid for ever.
Stranded(g) == Made(g, {"pending"}) \ UNION {mine[p] : p \in Processes}

\* Where a process runs the workers, what a reachable agent was allocated in a
\* domain ends up below the threshold, received or stranded, after deaths, failed
\* payments, and sweeps that overlap.  It is received from any domain: the query
\* takes the payouts of all domains off the balance of each.
EarningsReceived ==
    enabled # {} =>
        \A g \in Reachable :
            <>[](\A d \in DomainsOf(g) :
                     Allocated(Announced(g, d)) < sent[g] + Booked(Stranded(g)) + Threshold)
=============================================================================
