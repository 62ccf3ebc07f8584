---------------------------- MODULE PaymentLedger ----------------------------
(***************************************************************************)
(* The payment ledger (src/services/payment-ledger.ts) and everything that *)
(* moves a payment: the purchase routes, the provider's settlement         *)
(* webhook, the reconciliation worker, and requests gated by an L402       *)
(* token.  They run concurrently, in one or several server processes, and  *)
(* all of them go through transitionPaymentStatus, which reads the row,    *)
(* checks the transition against the copy, updates the row by its hash     *)
(* alone, and then carries out the side effects the copy calls for.  Each  *)
(* database statement is a step, and a process may die between two.        *)
(***************************************************************************)
EXTENDS Naturals, FiniteSets

CONSTANTS
    Payments,    \* payment hashes
    Offers,      \* those that pay for an offer and so carry an entitlement
    ItemOffers,  \* those whose offer is scoped to one content item
    Handlers,    \* requests of buyers that may be in progress at the same time
    Notifiers,   \* settlement webhooks that may be
    Workers,     \* reconciliation workers, one per server process
    MaxRows,     \* the rows one sweep of a worker takes at most (200)
    MaxIssued,   \* bound on the payments that are issued
    MaxFaults,   \* bound on the number of statements that fail
    MaxServed,   \* bound on the requests one token may serve
    NoCall       \* the call of an idle actor

ASSUME OffersAssumption == ItemOffers \subseteq Offers /\ Offers \subseteq Payments
ASSUME ActorsAssumption ==
    /\ Workers \cap (Handlers \cup Notifiers) = {}
    /\ Notifiers \cap Handlers = {}
ASSUME BoundsAssumption ==
    MaxFaults \in Nat /\ MaxServed \in Nat /\ MaxRows \in Nat /\ MaxIssued \in Nat

Actors == Handlers \cup Notifiers \cup Workers

Outcomes   == {"paid", "expired", "failed"}
Persisted  == Outcomes \cup {"pending", "consumed"}

VARIABLES
    invoice,   \* the provider's view of the invoice
    status,    \* payments.status, "none" before the row is inserted
    ent,       \* entitlements.status of the row with this hash
    revenue,   \* number of revenue_events rows with this sourceRef
    served,    \* requests answered with 2xx on this token
    events,    \* rows of payment_provider_events
    others,    \* pending rows beside those of Payments, counted up to MaxRows
    pc,        \* the next statement of an actor
    call,      \* the call it is executing, see Call
    overlapped,\* the payments two calls have worked on at the same time
    faults     \* statements that failed so far

ledger == <<status, ent, revenue, served, events>>
vars   == <<invoice, ledger, others, pc, call, overlapped, faults>>

Steps  == {"idle", "provision", "verify", "read", "write", "activate",
           "allocate", "expire", "reactivate", "serve"}
Phases == {"purchase", "webhook", "confirm", "reconcile", "observe",
           "verified", "consume", "implicit", "final"}

\* A call works on a payment, for a caller, towards a status (nextStatus),
\* and holds the status it has read (current.status).
Call   == [hash : Payments, phase : Phases, goal : Persisted, seen : Persisted]

ASSUME NoCallAssumption == NoCall \notin Call

TypeOK ==
    /\ invoice \in [Payments -> {"none", "open"} \cup Outcomes]
    /\ status \in [Payments -> Persisted \cup {"none"}]
    /\ ent \in [Payments -> {"none", "pending_payment", "active", "expired"}]
    /\ revenue \in [Payments -> Nat]
    /\ served \in [Payments -> Nat]
    /\ events \subseteq Payments \X (Outcomes \cup {"pending"})
    /\ others \in 0..MaxRows
    /\ pc \in [Actors -> Steps]
    /\ call \in [Actors -> Call \cup {NoCall}]
    /\ overlapped \subseteq Payments
    /\ faults \in 0..MaxFaults
    /\ \A a \in Actors : pc[a] # "idle" => call[a] \in Call

Init ==
    /\ invoice = [p \in Payments |-> "none"]
    /\ status = [p \in Payments |-> "none"]
    /\ ent = [p \in Payments |-> "none"]
    /\ revenue = [p \in Payments |-> 0]
    /\ served = [p \in Payments |-> 0]
    /\ events = {}
    /\ others = 0
    /\ pc = [a \in Actors |-> "idle"]
    /\ call = [a \in Actors |-> NoCall]
    /\ overlapped = {}
    /\ faults = 0

\* The steps of an actor: it takes up a call, goes to another statement with
\* the call as it now is, or is done with it.
Start(a, step, p, ph, st) ==
    /\ pc[a] = "idle"
    /\ pc' = [pc EXCEPT ![a] = step]
    /\ call' = [call EXCEPT ![a] =
                  [hash |-> p, phase |-> ph, goal |-> st, seen |-> "pending"]]
    /\ overlapped' = IF \E b \in Actors : pc[b] # "idle" /\ call[b].hash = p
                     THEN overlapped \cup {p} ELSE overlapped

Goto(a, step, c) ==
    /\ pc' = [pc EXCEPT ![a] = step]
    /\ call' = [call EXCEPT ![a] = c]
    /\ UNCHANGED overlapped

Finish(a) == Goto(a, "idle", NoCall)

-----------------------------------------------------------------------------
(* The invoice: issued by the purchase or challenge, settled outside.      *)

\* createL402Challenge inserts the payment; the purchase of an offer goes on
\* to provision its entitlement, a challenge answers 402 at once.
Issue(a, p) ==
    /\ status[p] = "none"
    /\ Cardinality({q \in Payments : status[q] # "none"}) < MaxIssued
    /\ IF p \in Offers THEN Start(a, "provision", p, "purchase", "pending")
       ELSE pc[a] = "idle" /\ UNCHANGED <<pc, call, overlapped>>
    /\ invoice' = [invoice EXCEPT ![p] = "open"]
    /\ status' = [status EXCEPT ![p] = "pending"]
    /\ UNCHANGED <<ent, revenue, served, events, others, faults>>

Provision(a) ==
    /\ pc[a] = "provision"
    /\ ent' = [ent EXCEPT ![call[a].hash] = "pending_payment"]
    /\ Finish(a)
    /\ UNCHANGED <<invoice, status, revenue, served, events, others, faults>>

\* The buyer can only pay an invoice the 402 answer has shown.
Disclosed(p) == p \in Offers => ent[p] # "none"

\* The provider settles, expires or fails an open invoice, once.
Resolve(p, outcome) ==
    /\ invoice[p] = "open"
    /\ outcome = "paid" => Disclosed(p)
    /\ invoice' = [invoice EXCEPT ![p] = outcome]
    /\ UNCHANGED <<ledger, others, pc, call, overlapped, faults>>

\* Other buyers ask for challenges, pay, or let them be.
Elsewhere ==
    /\ others' \in 0..MaxRows
    /\ UNCHANGED <<invoice, ledger, pc, call, overlapped, faults>>

-----------------------------------------------------------------------------
(* The callers of transitionPaymentStatus.                                 *)

\* What the provider may have sent of an invoice: that it is pending, which
\* may arrive late, and the outcome once there is one.
Notices(p) == IF invoice[p] = "none" THEN {}
              ELSE {"pending"} \cup ({invoice[p]} \cap Outcomes)

\* The webhook records the event first; an event already recorded is
\* answered as a duplicate and changes nothing.
Webhook(a, p, notice) ==
    /\ notice \in Notices(p)
    /\ <<p, notice>> \notin events
    /\ events' = events \cup {<<p, notice>>}
    /\ Start(a, "read", p, "webhook", notice)
    /\ UNCHANGED <<invoice, status, ent, revenue, served, others, faults>>

\* POST /offers/:id/purchase/confirm finds a pending entitlement.
Confirm(a, p) ==
    /\ ent[p] = "pending_payment"
    /\ Start(a, "verify", p, "confirm", "pending")
    /\ UNCHANGED <<invoice, ledger, others, faults>>

Pending == {p \in Payments : status[p] = "pending"}

\* Whether one sweep can take every pending row.
Room == Cardinality(Pending) + others <= MaxRows

ReconcileUnreported(w, p) ==
    /\ p \in Pending
    /\ ~ \E outcome \in Outcomes : <<p, outcome>> \in events
    /\ Start(w, "verify", p, "reconcile", "pending")
    /\ UNCHANGED <<invoice, ledger, others, faults>>

\* A sweep visits pending rows older than five minutes one after the other.
\* A visit begins at the row's selection: the worker may be long in coming to
\* ask the provider, and asks whatever has become of the row.  No order is
\* kept among the rows, so any may come next, and any may never come.
Reconcile(w, p) ==
    /\ p \in Pending
    /\ Start(w, "verify", p, "reconcile", "pending")
    /\ UNCHANGED <<invoice, ledger, others, faults>>

\* A request presents the token of p; a token whose payment is consumed,
\* expired or failed is turned away by getPaymentStatus.
Gate(a, p) ==
    /\ p \notin Offers
    /\ status[p] \in {"pending", "paid"}
    /\ Start(a, "verify", p, "observe", "pending")
    /\ UNCHANGED <<invoice, ledger, others, faults>>

VerifyTakesOpenForPaid(a) ==
    LET outcome == invoice[call[a].hash] IN
    /\ pc[a] = "verify"
    /\ Goto(a, "read", [call[a] EXCEPT !.goal =
                          IF outcome \in Outcomes THEN outcome ELSE "paid"])
    /\ UNCHANGED <<invoice, ledger, others, faults>>

VerifyRecordsPending(a) ==
    LET outcome == invoice[call[a].hash] IN
    /\ pc[a] = "verify"
    /\ Goto(a, "read", [call[a] EXCEPT !.goal =
                          IF outcome \in Outcomes THEN outcome ELSE "pending"])
    /\ UNCHANGED <<invoice, ledger, others, faults>>

\* verifyPayment or getInvoiceStatus asks the provider; an invoice still
\* open ends the call.
Verify(a) ==
    LET outcome == invoice[call[a].hash] IN
    /\ pc[a] = "verify"
    /\ IF outcome \in Outcomes
       THEN Goto(a, "read", [call[a] EXCEPT !.goal = outcome])
       ELSE Finish(a)
    /\ UNCHANGED <<invoice, ledger, others, faults>>

-----------------------------------------------------------------------------
(* transitionPaymentStatus.                                                *)

AllowedTransitions ==
    {<<"pending", "paid">>, <<"pending", "expired">>, <<"pending", "failed">>,
     <<"paid", "consumed">>}

CanTransition(from, to) == from = to \/ <<from, to>> \in AllowedTransitions

\* markConsumed books a payment that has become pending again as paid before
\* it consumes it.
SettleImplicitly(a) ==
    Goto(a, "read", [call[a] EXCEPT !.phase = "implicit", !.goal = "paid"])

\* The copy is taken and checked; an invalid transition throws, which ends
\* the call in every other caller.
ReadRow(a) ==
    LET current == status[call[a].hash] IN
    /\ pc[a] = "read"
    /\ CASE CanTransition(current, call[a].goal) ->
              Goto(a, "write", [call[a] EXCEPT !.seen = current])
         [] current = "pending" /\ call[a].phase = "consume" ->
              SettleImplicitly(a)
         [] OTHER -> Finish(a)
    /\ UNCHANGED <<invoice, ledger, others, faults>>

ReturnWithoutReactivation(a) ==
    LET c == call[a] IN
    CASE c.phase = "observe" /\ c.goal = "paid" ->
           Goto(a, "read", [c EXCEPT !.phase = "verified"])
      [] c.phase = "verified" -> Goto(a, "serve", c)
      [] c.phase = "implicit" ->
           Goto(a, "read", [c EXCEPT !.phase = "final", !.goal = "consumed"])
      [] OTHER -> Finish(a)

\* What the caller does once the transition has returned.
Return(a) ==
    LET c == call[a] IN
    CASE c.phase = "confirm" /\ c.goal = "paid" -> Goto(a, "reactivate", c)
      [] c.phase = "observe" /\ c.goal = "paid" ->
           Goto(a, "read", [c EXCEPT !.phase = "verified"])
      [] c.phase = "verified" -> Goto(a, "serve", c)
      [] c.phase = "implicit" ->
           Goto(a, "read", [c EXCEPT !.phase = "final", !.goal = "consumed"])
      [] OTHER -> Finish(a)

WriteRowSettlesAgain(a) ==
    LET c == call[a] IN
    /\ pc[a] = "write"
    /\ status' = [status EXCEPT ![c.hash] = c.goal]
    /\ CASE c.goal = "paid"    -> Goto(a, "activate", c)
         [] c.goal = "expired" -> Goto(a, "expire", c)
         [] OTHER -> Return(a)
    /\ UNCHANGED <<invoice, ent, revenue, served, events, others, faults>>

\* UPDATE payments SET status = nextStatus WHERE paymentHash = hash
WriteRow(a) ==
    LET c == call[a] IN
    /\ pc[a] = "write"
    /\ status' = [status EXCEPT ![c.hash] = c.goal]
    /\ CASE c.seen = "pending" /\ c.goal = "paid"    -> Goto(a, "activate", c)
         [] c.seen = "pending" /\ c.goal = "expired" -> Goto(a, "expire", c)
         [] OTHER -> Return(a)
    /\ UNCHANGED <<invoice, ent, revenue, served, events, others, faults>>

\* Activation is a guarded update of the entitlement.
Activated(p) ==
    ent' = [ent EXCEPT ![p] = IF @ = "pending_payment" THEN "active" ELSE @]

ActivateAllocatesIfUpdated(a) ==
    LET p == call[a].hash IN
    /\ pc[a] = "activate"
    /\ Activated(p)
    /\ IF p \in ItemOffers /\ ent[p] = "pending_payment"
       THEN Goto(a, "allocate", call[a]) ELSE Return(a)
    /\ UNCHANGED <<invoice, status, revenue, served, events, others, faults>>

Activate(a) ==
    LET p == call[a].hash IN
    /\ pc[a] = "activate"
    /\ Activated(p)
    /\ IF p \in ItemOffers /\ ent[p] # "none" THEN Goto(a, "allocate", call[a])
                                              ELSE Return(a)
    /\ UNCHANGED <<invoice, status, revenue, served, events, others, faults>>

Allocate(a) ==
    /\ pc[a] = "allocate"
    /\ revenue' = [revenue EXCEPT ![call[a].hash] = @ + 1]
    /\ Return(a)
    /\ UNCHANGED <<invoice, status, ent, served, events, others, faults>>

ExpireEntitlement(a) ==
    /\ pc[a] = "expire"
    /\ ent' = [ent EXCEPT ![call[a].hash] =
                 IF @ = "pending_payment" THEN "expired" ELSE @]
    /\ Return(a)
    /\ UNCHANGED <<invoice, status, revenue, served, events, others, faults>>

-----------------------------------------------------------------------------
(* What the callers do after it.                                           *)

\* The confirm route activates the entitlement a second time, which repairs
\* a settlement whose handler died before the first.
Reactivate(a) ==
    /\ pc[a] = "reactivate"
    /\ Activated(call[a].hash)
    /\ Finish(a)
    /\ UNCHANGED <<invoice, status, revenue, served, events, others, faults>>

ServeWithoutConsuming(a) ==
    /\ pc[a] = "serve"
    /\ served[call[a].hash] < MaxServed
    /\ served' = [served EXCEPT ![call[a].hash] = @ + 1]
    /\ Finish(a)
    /\ UNCHANGED <<invoice, status, ent, revenue, events, others, faults>>

\* The gated handler runs; after a 2xx answer the payment is consumed, after
\* any other it is left as it is.
Serve(a) ==
    /\ pc[a] = "serve"
    /\ \/ /\ served[call[a].hash] < MaxServed
          /\ served' = [served EXCEPT ![call[a].hash] = @ + 1]
          /\ Goto(a, "read", [call[a] EXCEPT !.phase = "consume",
                                             !.goal = "consumed"])
       \/ /\ Finish(a)
          /\ UNCHANGED served
    /\ UNCHANGED <<invoice, status, ent, revenue, events, others, faults>>

\* The handler dies: its process is killed, or a statement throws outside
\* of a catch.  Of a sweep it may be the visit of one row.
Crash(a) ==
    /\ pc[a] # "idle"
    /\ faults < MaxFaults
    /\ faults' = faults + 1
    /\ Finish(a)
    /\ UNCHANGED <<invoice, ledger, others>>

\* A side effect throws: the ledger logs it and returns as if it had worked.
SideEffectFails(a) ==
    /\ pc[a] \in {"activate", "allocate", "expire"}
    /\ faults < MaxFaults
    /\ faults' = faults + 1
    /\ Return(a)
    /\ UNCHANGED <<invoice, ledger, others>>

-----------------------------------------------------------------------------
Statement(a) ==
    \/ Provision(a)
    \/ Verify(a)
    \/ ReadRow(a)
    \/ WriteRow(a)
    \/ Activate(a)
    \/ Allocate(a)
    \/ ExpireEntitlement(a)
    \/ Reactivate(a)
    \/ Serve(a)

Next ==
    \/ Elsewhere
    \/ \E p \in Payments, outcome \in Outcomes : Resolve(p, outcome)
    \/ \E a \in Handlers, p \in Payments :
         Issue(a, p) \/ Confirm(a, p) \/ Gate(a, p)
    \/ \E a \in Notifiers, p \in Payments, notice \in Persisted : Webhook(a, p, notice)
    \/ \E w \in Workers, p \in Payments : Reconcile(w, p)
    \/ \E a \in Actors : Statement(a) \/ Crash(a) \/ SideEffectFails(a)

Spec == Init /\ [][Next]_vars

\* A handler that is not killed runs on, and sweeps come back at their
\* interval: while one of them has room for all pending rows, it visits every
\* row.  Which rows it selects of more than it takes is left to the database.
Fairness ==
    /\ \A a \in Actors : WF_vars(Statement(a))
    /\ \A w \in Workers, p \in Payments : SF_vars(Room /\ Reconcile(w, p))

\* From some time on one sweep has room for every row that is pending.  The
\* rows nobody ever pays stay pending unless the provider reports them
\* expired, and may fill every sweep.
SweepsSuffice == <>[]Room

\* The buyer keeps confirming, as the route's 409 answer asks.
BuyerPersists == \A a \in Handlers, p \in Payments : SF_vars(Confirm(a, p))

FairSpec == Spec /\ Fairness

-----------------------------------------------------------------------------
(* Properties.                                                             *)

\* The ledger never contradicts the provider, whichever callers race: money
\* that arrived is never booked as expired or failed, an entitlement is
\* active only if the invoice was settled, and nothing is served unpaid.
AgreesWithProvider ==
    \A p \in Payments :
      /\ status[p] \in {"paid", "consumed"} => invoice[p] = "paid"
      /\ status[p] \in {"expired", "failed"} => invoice[p] = status[p]
      /\ ent[p] = "active" => invoice[p] = "paid"
      /\ ent[p] = "expired" => invoice[p] = "expired"
      /\ served[p] > 0 => invoice[p] = "paid"

Moves(p) ==
    status'[p] # status[p] =>
      \/ status[p] = "none" /\ status'[p] = "pending"
      \/ <<status[p], status'[p]>> \in AllowedTransitions

\* "No other transitions are allowed": the persisted status only moves along
\* the state machine of the ledger, although every UPDATE overwrites whatever
\* the row has become since its copy was checked.
StateMachine == [][\A p \in Payments : Moves(p)]_vars

\* A notice that the invoice is still pending, checked before the outcome was
\* booked and written after it.
Reopened(p) ==
    /\ status[p] \in Outcomes /\ status'[p] = "pending"
    /\ <<p, "pending">> \in events
    /\ p \in overlapped

\* The payment of an offer, which no request consumes, leaves the state
\* machine in one way only: the UPDATE for a late notice that it is pending
\* overwrites an outcome booked by another call at the same time.  The other
\* callers, however they race, agree.
PurchaseStateMachine == [][\A p \in Offers : Moves(p) \/ Reopened(p)]_vars

\* "Offer purchase creates revenue events once, not per read."
RevenueOnce == \A p \in Payments : revenue[p] <= 1

\* "This L402 token has already been consumed for a previous request": a
\* token serves one request, and another one only if the handler of the
\* first died after its answer and before it consumed the payment.
TokenServesOnce == \A p \in Payments : served[p] <= 1 + faults

\* The last three hold of every payment whose calls came one after the other,
\* whatever happened to other payments and whichever of its calls died: what
\* breaks them is two calls at the same time, and nothing else.
Alone == Payments \ overlapped

\* The revenue of such a payment is recorded at most once.
RevenueOnceAlone == \A p \in Alone : revenue[p] <= 1

\* Such a token serves once, and again only after a fault.
TokenServesOnceAlone == \A p \in Alone : served[p] <= 1 + faults

\* The persisted status of such a payment makes the allowed transitions only.
StateMachineAlone == [][\A p \in Alone' : Moves(p)]_vars

\* A settled invoice is eventually booked, although webhooks may be lost,
\* handlers may die, and a late notice may undo a booking: the sweeps find it,
\* provided that the rows nobody pays do not fill them.
SettlementBooked ==
    SweepsSuffice =>
      \A p \in Payments : invoice[p] = "paid" ~> status[p] \in {"paid", "consumed"}

\* A buyer who paid and keeps confirming gets an active entitlement, although
\* the handler that booked the payment may have died before activating it.
BuyerServed ==
    BuyerPersists => \A p \in Offers : invoice[p] = "paid" ~> ent[p] = "active"

\* Unless a side effect fails or its handler dies, the revenue of an item
\* offer that was paid for is eventually recorded, whoever books the payment,
\* provided that the sweeps have room for it.
RevenueRecordedUnlessFault ==
    SweepsSuffice =>
      \A p \in ItemOffers : invoice[p] = "paid" ~> revenue[p] > 0 \/ faults > 0

\* The revenue of every item offer that was paid for is eventually recorded.
RevenueRecorded ==
    SweepsSuffice => \A p \in ItemOffers : invoice[p] = "paid" ~> revenue[p] > 0
=============================================================================
