------------------------ MODULE PaymentLedger_proofs -------------------------
(***************************************************************************)
(* Proofs about PaymentLedger for any number of payments, of concurrent    *)
(* requests and workers, and of failures.                                  *)
(*                                                                         *)
(* The UPDATE of transitionPaymentStatus is not guarded by the status it   *)
(* has checked, so nothing about the row can be concluded from the copy.   *)
(* What saves the ledger is that a call past the provider's answer carries *)
(* an outcome, and the outcome of an invoice is final: every two of them   *)
(* agree, up to the consumption of a settled payment.  Only a notice that  *)
(* the invoice is pending, which may be late, makes a writer of another    *)
(* mind, and what it writes contradicts nobody.                            *)
(***************************************************************************)
EXTENDS PaymentLedger, TLAPS

\* An invoice and its row come into being together.
IssuedTogether ==
    \A p \in Payments : status[p] = "none" <=> invoice[p] = "none"

Informed == {"read", "write", "activate", "allocate", "expire", "reactivate",
             "serve"}

\* What the provider has answered to a call that writes goal.
Answer(goal) == IF goal = "consumed" THEN "paid" ELSE goal

\* What is true of a call c about to take a step.  Past the provider's answer
\* it works towards the final outcome of its invoice, or carries a notice that
\* the invoice is pending, and the steps after a write match what was written.
Settling(step, c) ==
    /\ c.goal = "pending" =>
         /\ c.phase = "webhook" /\ step \in {"read", "write"}
         /\ invoice[c.hash] # "none" /\ <<c.hash, "pending">> \in events
    /\ c.goal # "pending" => invoice[c.hash] = Answer(c.goal)
    /\ step \in {"activate", "allocate", "reactivate", "serve"} => c.goal = "paid"
    /\ step = "expire" => c.goal = "expired"
    /\ step = "serve" => c.phase = "verified"
    /\ c.phase \in {"verified", "implicit"} => c.goal = "paid"
    /\ c.phase \in {"consume", "final"} => c.goal = "consumed"

\* Only some callers ask the provider, and the payment of an offer is never
\* presented to a gate.
Asking(step, c) ==
    /\ step = "verify" => c.phase \in {"confirm", "reconcile", "observe"}
    /\ c.hash \in Offers =>
         /\ c.phase \in {"purchase", "webhook", "confirm", "reconcile"}
         /\ c.goal # "consumed"

Fits(step, c) ==
    step # "idle" =>
      /\ c \in Call
      /\ Asking(step, c)
      /\ step \in Informed => Settling(step, c)

CallsFit == \A a \in Actors : Fits(pc[a], call[a])

CallsTyped == pc \in [Actors -> Steps] /\ call \in [Actors -> Call \cup {NoCall}]

OffersNeverConsumed == \A p \in Offers : status[p] # "consumed"

Rows == /\ IssuedTogether
        /\ OffersNeverConsumed
        /\ AgreesWithProvider

IInv == TypeOK /\ CallsFit /\ Rows

-----------------------------------------------------------------------------
\* Before any invoice is issued the inductive invariant holds.
LEMMA InitIInv == Init => IInv
<1> SUFFICES ASSUME Init PROVE IInv
  OBVIOUS
<1> USE OffersAssumption DEF Init
<1>1. TypeOK
  BY BoundsAssumption DEF TypeOK, Steps, Persisted, Outcomes
<1>2. CallsFit
  BY DEF CallsFit, Fits
<1>3. Rows
  BY DEF Rows, IssuedTogether, OffersNeverConsumed, AgreesWithProvider
<1>4. QED
  BY <1>1, <1>2, <1>3 DEF IInv

\* An actor that goes to a step it fits leaves all calls fitting.
LEMMA Moved ==
  ASSUME IInv, NEW a \in Actors, NEW step \in Steps, NEW c,
         c \in Call \/ c = NoCall, Fits(step, c),
         pc' = [pc EXCEPT ![a] = step], call' = [call EXCEPT ![a] = c],
         UNCHANGED invoice, events \subseteq events'
  PROVE  CallsFit' /\ CallsTyped' /\ (\A b \in Actors : pc'[b] # "idle" => call'[b] \in Call)
<1>1. CallsTyped'
  BY DEF IInv, TypeOK, CallsTyped
<1>2. ASSUME NEW b \in Actors PROVE Fits(pc[b], call[b])' /\ (pc'[b] # "idle" => call'[b] \in Call)
  <2>1. CASE b = a
    <3>1. pc'[b] = step /\ call'[b] = c
      BY <2>1 DEF IInv, TypeOK
    <3>2. QED
      BY <3>1 DEF Fits, Settling, Asking
  <2>2. CASE b # a
    <3>1. pc'[b] = pc[b] /\ call'[b] = call[b]
      BY <2>2 DEF IInv, TypeOK
    <3>2. Fits(pc[b], call[b])
      BY DEF IInv, CallsFit
    <3>3. QED
      BY <3>1, <3>2 DEF Fits, Settling, Asking
  <2>3. QED
    BY <2>1, <2>2
<1>3. QED
  BY <1>1, <1>2 DEF CallsFit

\* So does an actor that is done.
LEMMA Finished ==
  ASSUME IInv, NEW a \in Actors, Finish(a), UNCHANGED invoice, events \subseteq events'
  PROVE  CallsFit' /\ CallsTyped' /\ (\A b \in Actors : pc'[b] # "idle" => call'[b] \in Call)
<1>1. Fits("idle", NoCall) /\ "idle" \in Steps
  BY DEF Fits, Steps
<1>2. QED
  BY <1>1, Moved DEF Finish, Goto

\* A transition returns to one of five places.
LEMMA Returns ==
  ASSUME NEW a \in Actors, Return(a)
  PROVE  \/ call[a].phase = "confirm" /\ call[a].goal = "paid"
              /\ Goto(a, "reactivate", call[a])
         \/ call[a].phase = "observe" /\ call[a].goal = "paid"
              /\ Goto(a, "read", [call[a] EXCEPT !.phase = "verified"])
         \/ call[a].phase = "verified" /\ Goto(a, "serve", call[a])
         \/ call[a].phase = "implicit"
              /\ Goto(a, "read", [call[a] EXCEPT !.phase = "final", !.goal = "consumed"])
         \/ Finish(a)
BY DEF Return

\* A call keeps its payment and its goal while its phase changes.
LEMMA PhaseChanged ==
  ASSUME NEW c \in Call, NEW ph \in Phases, NEW d, d = [c EXCEPT !.phase = ph]
  PROVE  d \in Call /\ d.hash = c.hash /\ d.phase = ph /\ d.goal = c.goal
BY DEF Call

\* Wherever a transition returns to, the call fits.
LEMMA ReturnFits ==
  ASSUME IInv, NEW a \in Actors, pc[a] \in {"write", "activate", "allocate", "expire"},
         Return(a), UNCHANGED invoice, UNCHANGED events
  PROVE  CallsFit' /\ CallsTyped' /\ (\A b \in Actors : pc'[b] # "idle" => call'[b] \in Call)
<1> DEFINE c == call[a]
<1>1. /\ c \in Call /\ Asking(pc[a], c) /\ Settling(pc[a], c)
      /\ {"read", "serve", "reactivate"} \subseteq Steps
  BY DEF IInv, CallsFit, Fits, Informed, Steps
<1> HIDE DEF c
<1>2. CASE c.phase = "confirm" /\ c.goal = "paid" /\ Goto(a, "reactivate", c)
  <2>1. Fits("reactivate", c)
    BY <1>1, <1>2 DEF Fits, Asking, Settling
  <2>2. QED
    BY <1>1, <1>2, <2>1, Moved DEF Goto
<1>3. CASE c.phase = "observe" /\ c.goal = "paid"
           /\ Goto(a, "read", [c EXCEPT !.phase = "verified"])
  <2>1. PICK d : d = [c EXCEPT !.phase = "verified"]
    OBVIOUS
  <2>2. d \in Call /\ d.hash = c.hash /\ d.phase = "verified" /\ d.goal = c.goal
    <3>1. "verified" \in Phases
      BY DEF Phases
    <3>2. QED
      BY <1>1, <2>1, <3>1, PhaseChanged
  <2>3. Fits("read", d)
    BY <1>1, <1>3, <2>2 DEF Fits, Asking, Settling
  <2>4. QED
    BY <1>1, <1>3, <2>1, <2>2, <2>3, Moved DEF Goto
<1>4. CASE c.phase = "verified" /\ Goto(a, "serve", c)
  <2>1. Fits("serve", c)
    BY <1>1, <1>4 DEF Fits, Asking, Settling
  <2>2. QED
    BY <1>1, <1>4, <2>1, Moved DEF Goto
<1>5. CASE c.phase = "implicit"
           /\ Goto(a, "read", [c EXCEPT !.phase = "final", !.goal = "consumed"])
  <2>1. PICK d : d = [c EXCEPT !.phase = "final", !.goal = "consumed"]
    OBVIOUS
  <2>2. d \in Call /\ d.hash = c.hash /\ d.phase = "final" /\ d.goal = "consumed"
    <3>1. "final" \in Phases /\ "consumed" \in Persisted
      BY DEF Phases, Persisted
    <3>2. QED
      BY <1>1, <2>1, <3>1 DEF Call
  <2>3. Fits("read", d)
    BY <1>1, <1>5, <2>2 DEF Fits, Asking, Settling, Answer
  <2>4. QED
    BY <1>1, <1>5, <2>1, <2>2, <2>3, Moved DEF Goto
<1>6. CASE Finish(a)
  BY <1>6, Finished
<1>7. QED
  BY <1>2, <1>3, <1>4, <1>5, <1>6, Returns DEF c

\* A call that starts fits if it knows what it has to.
LEMMA Started ==
  ASSUME IInv, NEW a \in Actors, NEW step \in Steps, NEW p \in Payments,
         NEW ph \in Phases, NEW g \in Persisted, Start(a, step, p, ph, g),
         UNCHANGED invoice, events \subseteq events',
         step \notin Informed \/
           Settling(step, [hash |-> p, phase |-> ph, goal |-> g, seen |-> "pending"])',
         Asking(step, [hash |-> p, phase |-> ph, goal |-> g, seen |-> "pending"])
  PROVE  CallsFit' /\ CallsTyped' /\ (\A b \in Actors : pc'[b] # "idle" => call'[b] \in Call)
<1> DEFINE c == [hash |-> p, phase |-> ph, goal |-> g, seen |-> "pending"]
<1>1. c \in Call /\ pc' = [pc EXCEPT ![a] = step] /\ call' = [call EXCEPT ![a] = c]
  BY DEF Start, Call, Persisted
<1> HIDE DEF c
<1>2. CallsTyped'
  BY <1>1 DEF IInv, TypeOK, CallsTyped
<1>3. ASSUME NEW b \in Actors PROVE Fits(pc[b], call[b])' /\ (pc'[b] # "idle" => call'[b] \in Call)
  <2>1. CASE b = a
    <3>1. pc'[b] = step /\ call'[b] = c
      BY <1>1, <2>1 DEF IInv, TypeOK
    <3>2. QED
      BY <1>1, <3>1 DEF Fits, Asking, c
  <2>2. CASE b # a
    <3>1. pc'[b] = pc[b] /\ call'[b] = call[b]
      BY <1>1, <2>2 DEF IInv, TypeOK
    <3>2. Fits(pc[b], call[b])
      BY DEF IInv, CallsFit
    <3>3. QED
      BY <3>1, <3>2 DEF Fits, Settling, Asking
  <2>3. QED
    BY <2>1, <2>2
<1>4. QED
  BY <1>2, <1>3 DEF CallsFit

\* An activation, an allocation, an expiry or a failure of one of them changes
\* the entitlement and the revenue of the call's payment, and goes on.
LEMMA SideEffect ==
  ASSUME IInv, NEW a \in Actors, NEW p, NEW e, NEW r \in Nat,
         p = call[a].hash,
         pc[a] \in {"activate", "allocate", "expire"},
         Return(a) \/ (pc[a] = "activate" /\ Goto(a, "allocate", call[a])),
         ent' = [ent EXCEPT ![p] = e],
         revenue' = [revenue EXCEPT ![p] = r],
         e = ent[p] \/ (pc[a] = "activate" /\ e = "active")
           \/ (pc[a] = "expire" /\ e = "expired"),
         faults' = faults \/ (faults < MaxFaults /\ faults' = faults + 1),
         UNCHANGED invoice, UNCHANGED status, UNCHANGED served,
         UNCHANGED events, UNCHANGED others
  PROVE  IInv'
<1> USE OffersAssumption, ActorsAssumption, BoundsAssumption, NoCallAssumption
<1>0. "allocate" \in Steps
  BY DEF Steps
<1>1. call[a] \in Call /\ Asking(pc[a], call[a]) /\ Settling(pc[a], call[a])
  BY DEF IInv, CallsFit, Fits, Informed
<1>2. /\ ent' \in [Payments -> {"none", "pending_payment", "active", "expired"}]
      /\ revenue' \in [Payments -> Nat] /\ faults' \in 0..MaxFaults /\ Rows'
  <2>1. p \in Payments
    BY <1>1 DEF Call
  <2>2. /\ pc[a] = "activate" => invoice[p] = "paid"
        /\ pc[a] = "expire" => invoice[p] = "expired"
    BY <1>1, <2>1 DEF Settling, Answer
  <2>3. ent' \in [Payments -> {"none", "pending_payment", "active", "expired"}] /\ Rows'
    BY <2>1, <2>2 DEF IInv, TypeOK, Rows, IssuedTogether, OffersNeverConsumed,
       AgreesWithProvider
  <2>4. revenue' \in [Payments -> Nat] /\ faults' \in 0..MaxFaults
    <3>1. revenue \in [Payments -> Nat] /\ faults \in 0..MaxFaults
      BY DEF IInv, TypeOK
    <3>2. revenue' \in [Payments -> Nat]
      BY <2>1, <3>1
    <3>3. faults' \in 0..MaxFaults
      BY <3>1
    <3>4. QED
      BY <3>2, <3>3
  <2>5. QED
    BY <2>3, <2>4
<1>3. SUFFICES CallsFit' /\ CallsTyped' /\ UNCHANGED overlapped
               /\ (\A b \in Actors : pc'[b] # "idle" => call'[b] \in Call)
  BY <1>2, <1>3 DEF IInv, TypeOK, CallsTyped
<1>4. CASE pc[a] = "activate" /\ Goto(a, "allocate", call[a])
  <2>1. Fits("allocate", call[a])
    BY <1>1, <1>4 DEF Fits, Asking, Settling
  <2>2. QED
    BY <1>0, <1>1, <1>4, <2>1, Moved DEF Goto
<1>5. CASE Return(a)
  <2>1. UNCHANGED overlapped
    BY <1>5, Returns DEF Goto, Finish
  <2>2. QED
    BY <1>5, <2>1, ReturnFits
<1>6. QED
  BY <1>4, <1>5

\* Every statement of every call, and every failure, preserves the invariant.
LEMMA StepIInv == IInv /\ [Next]_vars => IInv'
<1> SUFFICES ASSUME IInv, [Next]_vars PROVE IInv'
  OBVIOUS
<1> USE OffersAssumption, ActorsAssumption, BoundsAssumption, NoCallAssumption
<1>0. /\ Handlers \subseteq Actors /\ Notifiers \subseteq Actors /\ Workers \subseteq Actors
      /\ {"provision", "verify", "read", "write", "activate", "allocate", "expire"} \subseteq Steps
      /\ {"purchase", "webhook", "confirm", "reconcile", "observe", "consume", "implicit"} \subseteq Phases
      /\ {"pending", "paid", "consumed"} \cup Outcomes \subseteq Persisted
  BY DEF Actors, Steps, Phases, Persisted, Outcomes
<1>1. ASSUME NEW p \in Payments, NEW outcome \in Outcomes, Resolve(p, outcome)
      PROVE  IInv'
  <2>1. TypeOK' /\ Rows'
    BY <1>1 DEF Resolve, IInv, TypeOK, Rows, IssuedTogether, OffersNeverConsumed,
       AgreesWithProvider, Outcomes, ledger
  <2>2. CallsFit'
    BY <1>1 DEF Resolve, IInv, TypeOK, CallsFit, Fits, Settling, Asking, Answer,
       Outcomes, ledger, Call, Persisted
  <2>3. QED
    BY <2>1, <2>2 DEF IInv
<1>2. ASSUME NEW a \in Handlers, NEW p \in Payments, Issue(a, p) PROVE IInv'
  <2>1. Rows' /\ invoice' \in [Payments -> {"none", "open"} \cup Outcomes]
        /\ status' \in [Payments -> Persisted \cup {"none"}]
    BY <1>2 DEF Issue, IInv, TypeOK, Rows, IssuedTogether, OffersNeverConsumed,
       AgreesWithProvider, Persisted, Outcomes
  <2>2. overlapped' \subseteq Payments /\ UNCHANGED <<ent, revenue, served, events, others, faults>>
    BY <1>2 DEF Issue, Start, IInv, TypeOK
  <2>3. ASSUME NEW b \in Actors, pc'[b] # "idle" => call'[b] \in Call,
               b # a \/ p \notin Offers, pc'[b] = pc[b], call'[b] = call[b]
        PROVE  Fits(pc[b], call[b])'
    <3>1. Fits(pc[b], call[b])
      BY DEF IInv, CallsFit
    <3>2. invoice[p] = "none"
      BY <1>2 DEF Issue, IInv, Rows, IssuedTogether
    <3>3. \A q \in Payments : q # p => invoice'[q] = invoice[q]
      BY <1>2 DEF Issue, IInv, TypeOK
    <3>4. pc[b] \in Informed => call[b].hash # p
      BY <3>1, <3>2 DEF Fits, Settling, Answer, Informed, Call, Persisted, Outcomes
    <3>5. QED
      BY <2>2, <2>3, <3>1, <3>3, <3>4 DEF Fits, Settling, Asking, Call
  <2>4. CASE p \in Offers
    <3>1. /\ pc' = [pc EXCEPT ![a] = "provision"]
          /\ call' = [call EXCEPT ![a] = [hash |-> p, phase |-> "purchase",
                                          goal |-> "pending", seen |-> "pending"]]
      BY <1>2, <2>4 DEF Issue, Start
    <3>2. [hash |-> p, phase |-> "purchase", goal |-> "pending", seen |-> "pending"] \in Call
      BY DEF Call, Phases, Persisted
    <3>3. CallsTyped' /\ \A b \in Actors : pc'[b] # "idle" => call'[b] \in Call
      BY <1>0, <3>1, <3>2 DEF CallsTyped, IInv, TypeOK
    <3>4. Fits(pc[a], call[a])'
      <4>1. pc'[a] = "provision" /\ call'[a] = [hash |-> p, phase |-> "purchase",
                                                goal |-> "pending", seen |-> "pending"]
        BY <1>0, <3>1 DEF IInv, TypeOK
      <4>2. QED
        BY <3>2, <4>1 DEF Fits, Asking, Informed
    <3>5. CallsFit'
      <4> SUFFICES ASSUME NEW b \in Actors, b # a PROVE Fits(pc[b], call[b])'
        BY <3>4 DEF CallsFit
      <4>1. pc'[b] = pc[b] /\ call'[b] = call[b]
        BY <1>0, <3>1 DEF IInv, TypeOK
      <4>2. QED
        BY <2>3, <3>3, <4>1
    <3>6. QED
      BY <2>1, <2>2, <3>3, <3>5 DEF IInv, TypeOK, CallsTyped
  <2>5. CASE p \notin Offers
    <3>1. UNCHANGED <<pc, call>>
      BY <1>2, <2>5 DEF Issue
    <3>2. CallsFit'
      BY <2>3, <2>5, <3>1 DEF IInv, TypeOK, CallsFit
    <3>3. QED
      BY <2>1, <2>2, <3>1, <3>2 DEF IInv, TypeOK
  <2>6. QED
    BY <2>4, <2>5
<1>3. ASSUME NEW a \in Notifiers, NEW p \in Payments, NEW notice \in Persisted,
             Webhook(a, p, notice)
      PROVE  IInv'
  <2>1. /\ invoice[p] # "none" /\ notice \in {"pending"} \cup Outcomes
        /\ notice # "pending" => invoice[p] = notice
        /\ events' = events \cup {<<p, notice>>}
        /\ Start(a, "read", p, "webhook", notice)
        /\ UNCHANGED <<invoice, status, ent, revenue, served, others, faults>>
    BY <1>3 DEF Webhook, Notices
  <2>2. Settling("read", [hash |-> p, phase |-> "webhook", goal |-> notice, seen |-> "pending"])'
    BY <2>1 DEF Settling, Answer, Outcomes
  <2>3. Asking("read", [hash |-> p, phase |-> "webhook", goal |-> notice, seen |-> "pending"])
    BY <2>1 DEF Asking, Outcomes
  <2>4. CallsFit' /\ CallsTyped' /\ (\A b \in Actors : pc'[b] # "idle" => call'[b] \in Call)
    BY <1>0, <2>1, <2>2, <2>3, Started
  <2>5. overlapped' \subseteq Payments
    BY <2>1 DEF Start, IInv, TypeOK
  <2>6. QED
    BY <2>1, <2>4, <2>5 DEF IInv, TypeOK, CallsTyped, Rows, IssuedTogether,
       OffersNeverConsumed, AgreesWithProvider
<1>4. ASSUME NEW a \in Actors, NEW p \in Payments,
             Confirm(a, p) \/ Gate(a, p) \/ Reconcile(a, p)
      PROVE  IInv'
  <2>1. PICK ph \in {"confirm", "observe", "reconcile"} :
             /\ Start(a, "verify", p, ph, "pending")
             /\ ph = "observe" => p \notin Offers
             /\ UNCHANGED <<invoice, ledger, others, faults>>
    BY <1>4 DEF Confirm, Gate, Reconcile
  <2>2. Asking("verify", [hash |-> p, phase |-> ph, goal |-> "pending", seen |-> "pending"])
    BY <2>1 DEF Asking
  <2>3. CallsFit' /\ CallsTyped' /\ (\A b \in Actors : pc'[b] # "idle" => call'[b] \in Call)
    BY <1>0, <2>1, <2>2, Started DEF ledger, Informed
  <2>4. overlapped' \subseteq Payments
    BY <2>1 DEF Start, IInv, TypeOK
  <2>5. QED
    BY <2>1, <2>3, <2>4 DEF IInv, TypeOK, CallsTyped, Rows, IssuedTogether,
       OffersNeverConsumed, AgreesWithProvider, ledger
<1>7. ASSUME NEW a \in Actors, Provision(a) PROVE IInv'
  <2>1. CallsFit' /\ CallsTyped' /\ (\A b \in Actors : pc'[b] # "idle" => call'[b] \in Call)
    BY <1>7, Finished DEF Provision
  <2>2. ent' \in [Payments -> {"none", "pending_payment", "active", "expired"}] /\ Rows'
    BY <1>7 DEF Provision, IInv, TypeOK, Rows, IssuedTogether, OffersNeverConsumed,
       AgreesWithProvider
  <2>3. QED
    BY <1>7, <2>1, <2>2 DEF Provision, Finish, Goto, IInv, TypeOK, CallsTyped
<1>8. ASSUME NEW a \in Actors, Verify(a) PROVE IInv'
  <2>1. pc[a] = "verify" /\ UNCHANGED <<invoice, ledger, others, faults>>
    BY <1>8 DEF Verify
  <2>2. call[a] \in Call /\ Asking("verify", call[a])
    BY <2>1 DEF IInv, CallsFit, Fits
  <2>3. CASE Finish(a)
    BY <2>1, <2>3, Finished DEF IInv, TypeOK, CallsTyped, Rows, IssuedTogether,
       OffersNeverConsumed, AgreesWithProvider, ledger, Finish, Goto
  <2>4. CASE /\ invoice[call[a].hash] \in Outcomes
             /\ Goto(a, "read", [call[a] EXCEPT !.goal = invoice[call[a].hash]])
    <3>1. PICK d : d = [call[a] EXCEPT !.goal = invoice[call[a].hash]]
      OBVIOUS
    <3>2. /\ d \in Call /\ d.hash = call[a].hash /\ d.phase = call[a].phase
          /\ d.goal = invoice[call[a].hash]
      BY <1>0, <2>2, <2>4, <3>1 DEF Call
    <3>3. Fits("read", d)
      BY <2>2, <2>4, <3>2 DEF Fits, Asking, Settling, Answer, Outcomes, Informed
    <3>4. CallsFit' /\ CallsTyped' /\ (\A b \in Actors : pc'[b] # "idle" => call'[b] \in Call)
      BY <1>0, <2>1, <2>4, <3>1, <3>2, <3>3, Moved DEF Goto, ledger
    <3>5. QED
      BY <2>1, <2>4, <3>4 DEF IInv, TypeOK, CallsTyped, Rows, IssuedTogether,
         OffersNeverConsumed, AgreesWithProvider, ledger, Goto
  <2>5. QED
    BY <1>8, <2>3, <2>4 DEF Verify
<1>9. ASSUME NEW a \in Actors, ReadRow(a) PROVE IInv'
  <2>1. pc[a] = "read" /\ UNCHANGED <<invoice, ledger, others, faults>>
    BY <1>9 DEF ReadRow
  <2>2. call[a] \in Call /\ Asking("read", call[a]) /\ Settling("read", call[a])
    BY <2>1 DEF IInv, CallsFit, Fits, Informed
  <2>3. SUFFICES CallsFit' /\ CallsTyped' /\ UNCHANGED overlapped
                 /\ (\A b \in Actors : pc'[b] # "idle" => call'[b] \in Call)
    BY <2>1, <2>3 DEF IInv, TypeOK, CallsTyped, Rows, IssuedTogether,
       OffersNeverConsumed, AgreesWithProvider, ledger
  <2>4. CASE Finish(a)
    BY <2>1, <2>4, Finished DEF Finish, Goto, ledger
  <2>5. CASE /\ CanTransition(status[call[a].hash], call[a].goal)
             /\ Goto(a, "write", [call[a] EXCEPT !.seen = status[call[a].hash]])
    <3>1. PICK d : d = [call[a] EXCEPT !.seen = status[call[a].hash]]
      OBVIOUS
    <3>2. status[call[a].hash] \in Persisted
      BY <1>0, <2>2, <2>5 DEF CanTransition, AllowedTransitions, Call
    <3>3. /\ d \in Call /\ d.hash = call[a].hash /\ d.phase = call[a].phase
          /\ d.goal = call[a].goal
      BY <2>2, <3>1, <3>2 DEF Call
    <3>4. Fits("write", d)
      BY <2>2, <3>3 DEF Fits, Asking, Settling
    <3>5. QED
      BY <1>0, <2>1, <2>5, <3>1, <3>3, <3>4, Moved DEF Goto, ledger
  <2>6. CASE call[a].phase = "consume" /\ SettleImplicitly(a)
    <3>1. PICK d : d = [call[a] EXCEPT !.phase = "implicit", !.goal = "paid"]
      OBVIOUS
    <3>2. d \in Call /\ d.hash = call[a].hash /\ d.phase = "implicit" /\ d.goal = "paid"
      <4>1. "implicit" \in Phases /\ "paid" \in Persisted
        BY <1>0
      <4>2. QED
        BY <2>2, <3>1, <4>1 DEF Call
    <3>3. Fits("read", d)
      BY <2>2, <2>6, <3>2 DEF Fits, Asking, Settling, Answer
    <3>4. QED
      BY <1>0, <2>1, <2>6, <3>1, <3>2, <3>3, Moved DEF SettleImplicitly, Goto, ledger
  <2>7. QED
    BY <1>9, <2>4, <2>5, <2>6 DEF ReadRow
<1>10. ASSUME NEW a \in Actors, WriteRow(a) PROVE IInv'
  <2>1. /\ pc[a] = "write" /\ status' = [status EXCEPT ![call[a].hash] = call[a].goal]
        /\ UNCHANGED <<invoice, ent, revenue, served, events, others, faults>>
    BY <1>10 DEF WriteRow
  <2>2. call[a] \in Call /\ Asking("write", call[a]) /\ Settling("write", call[a])
    BY <2>1 DEF IInv, CallsFit, Fits, Informed
  <2>3. status' \in [Payments -> Persisted \cup {"none"}] /\ Rows'
    <3>1. PICK p \in Payments, g \in Persisted : p = call[a].hash /\ g = call[a].goal
      BY <2>2 DEF Call
    <3>2. /\ p \in Offers => g # "consumed"
          /\ g = "pending" => invoice[p] # "none"
          /\ g # "pending" => invoice[p] = Answer(g)
      BY <2>2, <3>1 DEF Asking, Settling
    <3>3. QED
      BY <2>1, <3>1, <3>2 DEF IInv, TypeOK, Rows, IssuedTogether, OffersNeverConsumed,
         AgreesWithProvider, Answer, Persisted, Outcomes
  <2>4. SUFFICES CallsFit' /\ CallsTyped' /\ UNCHANGED overlapped
                 /\ (\A b \in Actors : pc'[b] # "idle" => call'[b] \in Call)
    BY <2>1, <2>3, <2>4 DEF IInv, TypeOK, CallsTyped
  <2>5. CASE call[a].goal = "paid" /\ Goto(a, "activate", call[a])
    <3>1. Fits("activate", call[a])
      BY <2>2, <2>5 DEF Fits, Asking, Settling
    <3>2. QED
      BY <1>0, <2>1, <2>2, <2>5, <3>1, Moved DEF Goto
  <2>6. CASE call[a].goal = "expired" /\ Goto(a, "expire", call[a])
    <3>1. Fits("expire", call[a])
      BY <2>2, <2>6 DEF Fits, Asking, Settling
    <3>2. QED
      BY <1>0, <2>1, <2>2, <2>6, <3>1, Moved DEF Goto
  <2>7. CASE Return(a)
    <3>1. UNCHANGED overlapped
      BY <2>7, Returns DEF Goto, Finish
    <3>2. QED
      BY <2>1, <2>7, <3>1, ReturnFits
  <2>8. QED
    BY <1>10, <2>5, <2>6, <2>7 DEF WriteRow
<1>12. ASSUME NEW a \in Actors,
              Activate(a) \/ Allocate(a) \/ ExpireEntitlement(a) \/ SideEffectFails(a)
       PROVE  IInv'
  <2>1. PICK p \in Payments : p = call[a].hash
    BY <1>12 DEF Activate, Allocate, ExpireEntitlement, SideEffectFails, IInv, CallsFit, Fits, Call
  <2>2. /\ ent = [ent EXCEPT ![p] = ent[p]] /\ revenue = [revenue EXCEPT ![p] = revenue[p]]
        /\ revenue[p] \in Nat
    BY DEF IInv, TypeOK
  <2>3. CASE Activate(a)
    <3>1. PICK e : e = IF ent[p] = "pending_payment" THEN "active" ELSE ent[p]
      OBVIOUS
    <3>2. /\ pc[a] = "activate" /\ ent' = [ent EXCEPT ![p] = e]
          /\ e = ent[p] \/ e = "active"
          /\ Goto(a, "allocate", call[a]) \/ Return(a)
          /\ UNCHANGED <<invoice, status, revenue, served, events, others, faults>>
      BY <2>1, <2>3, <3>1 DEF Activate, Activated
    <3>3. revenue' = [revenue EXCEPT ![p] = revenue[p]]
      BY <2>2, <3>2
    <3>4. QED
      BY <2>1, <2>2, <3>2, <3>3, SideEffect
  <2>4. CASE Allocate(a)
    <3>1. /\ pc[a] = "allocate" /\ Return(a)
          /\ revenue' = [revenue EXCEPT ![p] = revenue[p] + 1]
          /\ UNCHANGED <<invoice, status, ent, served, events, others, faults>>
      BY <2>1, <2>4 DEF Allocate
    <3>2. revenue[p] + 1 \in Nat
      BY <2>2
    <3>3. ent' = [ent EXCEPT ![p] = ent[p]]
      BY <2>2, <3>1
    <3>4. QED
      BY <2>1, <3>1, <3>2, <3>3, SideEffect
  <2>5. CASE ExpireEntitlement(a)
    <3>1. PICK e : e = IF ent[p] = "pending_payment" THEN "expired" ELSE ent[p]
      OBVIOUS
    <3>2. /\ pc[a] = "expire" /\ ent' = [ent EXCEPT ![p] = e] /\ Return(a)
          /\ e = ent[p] \/ e = "expired"
          /\ UNCHANGED <<invoice, status, revenue, served, events, others, faults>>
      BY <2>1, <2>5, <3>1 DEF ExpireEntitlement
    <3>3. revenue' = [revenue EXCEPT ![p] = revenue[p]]
      BY <2>2, <3>2
    <3>4. QED
      BY <2>1, <2>2, <3>2, <3>3, SideEffect
  <2>6. CASE SideEffectFails(a)
    <3>1. /\ pc[a] \in {"activate", "allocate", "expire"} /\ Return(a)
          /\ faults < MaxFaults /\ faults' = faults + 1
          /\ UNCHANGED <<invoice, status, ent, revenue, served, events, others>>
      BY <2>6 DEF SideEffectFails, ledger
    <3>2. ent' = [ent EXCEPT ![p] = ent[p]] /\ revenue' = [revenue EXCEPT ![p] = revenue[p]]
      BY <2>2, <3>1
    <3>3. PICK e : e = ent[p]
      OBVIOUS
    <3>4. PICK r \in Nat : r = revenue[p]
      BY <2>2
    <3>5. ent' = [ent EXCEPT ![p] = e] /\ revenue' = [revenue EXCEPT ![p] = r]
      BY <3>2, <3>3, <3>4
    <3>6. CASE pc[a] = "activate"
      BY <2>1, <3>1, <3>3, <3>5, <3>6, SideEffect
    <3>7. CASE pc[a] = "allocate"
      BY <2>1, <3>1, <3>3, <3>5, <3>7, SideEffect
    <3>8. CASE pc[a] = "expire"
      BY <2>1, <3>1, <3>3, <3>5, <3>8, SideEffect
    <3>9. QED
      BY <3>1, <3>6, <3>7, <3>8
  <2>7. QED
    BY <1>12, <2>3, <2>4, <2>5, <2>6
<1>14. ASSUME NEW a \in Actors, Reactivate(a) PROVE IInv'
  <2>1. PICK p \in Payments : p = call[a].hash /\ invoice[p] = "paid"
    <3>1. pc[a] = "reactivate"
      BY <1>14 DEF Reactivate
    <3>2. call[a] \in Call /\ Settling("reactivate", call[a])
      BY <3>1 DEF IInv, CallsFit, Fits, Informed
    <3>3. QED
      BY <3>2 DEF Settling, Answer, Call
  <2>2. CallsFit' /\ CallsTyped' /\ (\A b \in Actors : pc'[b] # "idle" => call'[b] \in Call)
    BY <1>14, Finished DEF Reactivate
  <2>3. ent' \in [Payments -> {"none", "pending_payment", "active", "expired"}] /\ Rows'
    BY <1>14, <2>1 DEF Reactivate, Activated, IInv, TypeOK, Rows, IssuedTogether,
       OffersNeverConsumed, AgreesWithProvider
  <2>4. QED
    BY <1>14, <2>2, <2>3 DEF Reactivate, Finish, Goto, IInv, TypeOK, CallsTyped
<1>15. ASSUME NEW a \in Actors, Serve(a) PROVE IInv'
  <2>1. /\ pc[a] = "serve" /\ UNCHANGED <<invoice, status, ent, revenue, events, others, faults>>
    BY <1>15 DEF Serve
  <2>2. call[a] \in Call /\ Asking("serve", call[a]) /\ Settling("serve", call[a])
    BY <2>1 DEF IInv, CallsFit, Fits, Informed
  <2>3. CASE UNCHANGED served /\ Finish(a)
    BY <2>1, <2>3, Finished DEF IInv, TypeOK, CallsTyped, Rows, IssuedTogether,
       OffersNeverConsumed, AgreesWithProvider, Finish, Goto
  <2>4. CASE /\ served' = [served EXCEPT ![call[a].hash] = @ + 1]
             /\ Goto(a, "read", [call[a] EXCEPT !.phase = "consume",
                                                !.goal = "consumed"])
    <3>1. PICK d : d = [call[a] EXCEPT !.phase = "consume", !.goal = "consumed"]
      OBVIOUS
    <3>2. d \in Call /\ d.hash = call[a].hash /\ d.phase = "consume" /\ d.goal = "consumed"
      <4>1. "consume" \in Phases /\ "consumed" \in Persisted
        BY <1>0
      <4>2. QED
        BY <2>2, <3>1, <4>1 DEF Call
    <3>3. Fits("read", d)
      BY <2>2, <3>2 DEF Fits, Asking, Settling, Answer
    <3>4. CallsFit' /\ CallsTyped' /\ (\A b \in Actors : pc'[b] # "idle" => call'[b] \in Call)
      BY <1>0, <2>1, <2>4, <3>1, <3>2, <3>3, Moved DEF Goto
    <3>5. served' \in [Payments -> Nat] /\ Rows'
      <4>1. PICK p \in Payments : p = call[a].hash /\ invoice[p] = "paid"
        BY <2>2 DEF Call, Settling, Answer
      <4>2. QED
        BY <2>1, <2>4, <4>1 DEF IInv, TypeOK, Rows, IssuedTogether, OffersNeverConsumed,
           AgreesWithProvider
    <3>6. QED
      BY <2>1, <2>4, <3>4, <3>5 DEF IInv, TypeOK, CallsTyped, Goto
  <2>5. QED
    BY <1>15, <2>3, <2>4 DEF Serve
<1>16. ASSUME NEW a \in Actors, Crash(a) PROVE IInv'
  <2>1. /\ Finish(a) /\ faults < MaxFaults /\ faults' = faults + 1
        /\ UNCHANGED <<invoice, ledger, others>>
    BY <1>16 DEF Crash
  <2>2. CallsFit' /\ CallsTyped' /\ (\A b \in Actors : pc'[b] # "idle" => call'[b] \in Call)
    BY <2>1, Finished DEF ledger
  <2>3. Rows' /\ UNCHANGED overlapped
    BY <2>1 DEF IInv, Rows, IssuedTogether, OffersNeverConsumed, AgreesWithProvider,
       ledger, Finish, Goto
  <2>4. faults' \in 0..MaxFaults
    BY <2>1 DEF IInv, TypeOK
  <2>5. QED
    BY <2>1, <2>2, <2>3, <2>4 DEF IInv, TypeOK, CallsTyped, ledger
<1>18. CASE UNCHANGED vars \/ Elsewhere
  BY <1>18 DEF vars, ledger, Elsewhere, IInv, TypeOK, CallsFit, Fits, Settling, Asking, Rows,
     IssuedTogether, OffersNeverConsumed, AgreesWithProvider
<1>19. QED
  BY <1>0, <1>1, <1>2, <1>3, <1>4, <1>7, <1>8, <1>9, <1>10, <1>12, <1>14, <1>15,
     <1>16, <1>18 DEF Next, Statement

\* The inductive invariant holds in every reachable state.
LEMMA Inductive == Spec => []IInv
  BY InitIInv, StepIInv, PTL DEF Spec

-----------------------------------------------------------------------------
\* Rows, calls and counters keep their domains.
THEOREM TypeCorrect == Spec => []TypeOK
<1>1. IInv => TypeOK
  BY DEF IInv
<1>2. QED
  BY <1>1, Inductive, PTL

\* However the webhook, the worker, confirmations and gated requests race, and
\* whichever of them fail, the ledger never contradicts the provider.
THEOREM LedgerAgrees == Spec => []AgreesWithProvider
<1>1. IInv => AgreesWithProvider
  BY DEF IInv, Rows
<1>2. QED
  BY <1>1, Inductive, PTL

-----------------------------------------------------------------------------
(* Payments whose calls came one after the other.  Such a payment has one  *)
(* call at most, whose copy is the row itself; how often it was served and *)
(* booked follows from how far that call has come.                         *)

Working(a, p) == pc[a] # "idle" /\ call[a].hash = p

OneCall ==
    \A p \in Alone : \A a, b \in Actors : Working(a, p) /\ Working(b, p) => a = b

\* The only call of a payment knows its row.
CopiesCurrent ==
    \A p \in Alone : \A a \in Actors : Working(a, p) =>
      /\ pc[a] = "write" => /\ call[a].seen = status[p]
                            /\ CanTransition(status[p], call[a].goal)
      /\ pc[a] \in {"activate", "allocate", "reactivate", "serve"} => status[p] = "paid"
      /\ call[a].phase \in {"verified", "consume"} => status[p] = "paid"
      /\ call[a].goal = "consumed" => call[a].phase = "consume"
      /\ call[a].phase \notin {"implicit", "final"}
      /\ call[a].phase = "consume" =>
           pc[a] \in {"read", "write"} /\ call[a].goal = "consumed"

\* Revenue is booked only on the way from pending to paid.
NotYetBooked ==
    \A p \in Alone :
      /\ status[p] \in {"none", "pending"} => revenue[p] = 0
      /\ \A a \in Actors :
           Working(a, p) /\ pc[a] \in {"activate", "allocate"} => revenue[p] = 0

\* A request that was served consumes its payment, or costs a fault.
ServedOrFault ==
    \A p \in Alone :
      \/ served[p] <= faults
      \/ /\ served[p] = 1 + faults
         /\ \/ status[p] = "consumed"
            \/ \E a \in Actors : Working(a, p) /\ call[a].phase = "consume"

AInv == /\ OneCall
        /\ CopiesCurrent
        /\ NotYetBooked
        /\ ServedOrFault
        /\ RevenueOnceAlone

\* No call, no payment: the invariant holds at first.
LEMMA InitAInv == Init => AInv
BY BoundsAssumption
   DEF Init, AInv, OneCall, CopiesCurrent, NotYetBooked, ServedOrFault,
       RevenueOnceAlone, Alone, Working

\* Every step preserves it: a call that starts on a payment another call works
\* on takes the payment out of Alone, and a call by itself acts on the row it
\* has read.
LEMMA StepAInv == IInv /\ AInv /\ [Next]_vars => AInv'
<1> SUFFICES ASSUME IInv, AInv, [Next]_vars PROVE AInv'
  OBVIOUS
<1> USE OffersAssumption, ActorsAssumption, BoundsAssumption, NoCallAssumption
<1> USE DEF IInv, TypeOK, CallsFit, Fits, Settling, Asking, Informed, AInv, OneCall, CopiesCurrent,
            NotYetBooked, ServedOrFault, RevenueOnceAlone, Alone, Working,
            Actors, Call, Phases, Steps, Persisted, Outcomes, ledger, Start,
            Goto, Finish, CanTransition, AllowedTransitions
<1>1. ASSUME NEW p \in Payments, NEW outcome \in Outcomes, Resolve(p, outcome) PROVE AInv'
  BY <1>1 DEF Resolve
<1>2. ASSUME NEW a \in Handlers, NEW p \in Payments, Issue(a, p) PROVE AInv'
  BY <1>2 DEF Issue
<1>3. ASSUME NEW a \in Notifiers, NEW p \in Payments, NEW notice \in Persisted,
             Webhook(a, p, notice)
      PROVE  AInv'
  BY <1>3 DEF Webhook, Notices
<1>4. ASSUME NEW a \in Handlers, NEW p \in Payments, Confirm(a, p) PROVE AInv'
  BY <1>4 DEF Confirm
<1>5. ASSUME NEW a \in Handlers, NEW p \in Payments, Gate(a, p) PROVE AInv'
  BY <1>5 DEF Gate
<1>6. ASSUME NEW w \in Workers, NEW p \in Payments, Reconcile(w, p) PROVE AInv'
  BY <1>6 DEF Reconcile
<1>7. ASSUME NEW a \in Actors, Provision(a) PROVE AInv'
  BY <1>7 DEF Provision
<1>8. ASSUME NEW a \in Actors, Verify(a) PROVE AInv'
  <2>1. /\ pc[a] = "verify" /\ call[a] \in Call
        /\ UNCHANGED <<invoice, status, ent, revenue, served, events, others, faults>>
    BY <1>8 DEF Verify
  <2>2. CASE Finish(a)
    BY <2>1, <2>2
  <2>3. CASE /\ invoice[call[a].hash] \in Outcomes
             /\ Goto(a, "read", [call[a] EXCEPT !.goal = invoice[call[a].hash]])
    BY <2>1, <2>3
  <2>4. QED
    BY <1>8, <2>2, <2>3 DEF Verify
<1>9. ASSUME NEW a \in Actors, ReadRow(a) PROVE AInv'
  <2>1. /\ pc[a] = "read" /\ call[a] \in Call
        /\ UNCHANGED <<invoice, status, ent, revenue, served, events, others, faults>>
    BY <1>9 DEF ReadRow
  <2>2. CASE ~CanTransition(status[call[a].hash], call[a].goal) /\ Finish(a)
    BY <2>1, <2>2
  <2>3. CASE /\ CanTransition(status[call[a].hash], call[a].goal)
             /\ Goto(a, "write", [call[a] EXCEPT !.seen = status[call[a].hash]])
    <3> DEFINE c == [call[a] EXCEPT !.seen = status[call[a].hash]]
    <3>1. /\ status[call[a].hash] \in Persisted /\ c \in Call
          /\ c.hash = call[a].hash /\ c.phase = call[a].phase
          /\ c.goal = call[a].goal /\ c.seen = status[call[a].hash]
          /\ Goto(a, "write", c)
      BY <2>1, <2>3
    <3> HIDE DEF c
    <3>2. OneCall' /\ CopiesCurrent'
      BY <2>1, <2>3, <3>1
    <3>3. NotYetBooked' /\ ServedOrFault' /\ RevenueOnceAlone'
      BY <2>1, <3>1
    <3>4. QED
      BY <3>2, <3>3
  <2>4. CASE /\ ~CanTransition(status[call[a].hash], call[a].goal)
             /\ status[call[a].hash] = "pending" /\ call[a].phase = "consume"
             /\ SettleImplicitly(a)
    <3>1. call[a].hash \notin Alone
      BY <2>1, <2>4
    <3>2. /\ pc' = [pc EXCEPT ![a] = "read"] /\ UNCHANGED overlapped
          /\ call' = [call EXCEPT ![a] =
                        [call[a] EXCEPT !.phase = "implicit", !.goal = "paid"]]
          /\ call'[a].hash = call[a].hash
      BY <2>1, <2>4 DEF SettleImplicitly
    <3>3. ASSUME NEW p \in Alone', NEW b \in Actors
          PROVE  /\ p \in Alone
                 /\ Working(b, p)' <=> Working(b, p)
                 /\ Working(b, p) => b # a /\ pc'[b] = pc[b] /\ call'[b] = call[b]
      BY <2>1, <3>1, <3>2
    <3> HIDE DEF Working, Alone
    <3>4. OneCall' /\ CopiesCurrent' /\ NotYetBooked' /\ RevenueOnceAlone'
      BY <2>1, <3>3
    <3>5. ServedOrFault'
      BY <2>1, <3>3
    <3>6. QED
      BY <3>4, <3>5
  <2>5. QED
    BY <1>9, <2>2, <2>3, <2>4 DEF ReadRow
<1>10. ASSUME NEW a \in Actors, WriteRow(a) PROVE AInv'
  <2>1. /\ pc[a] = "write" /\ call[a] \in Call
        /\ call[a].goal \in Persisted
        /\ status' = [status EXCEPT ![call[a].hash] = call[a].goal]
        /\ UNCHANGED <<invoice, ent, revenue, served, events, others, faults>>
    BY <1>10 DEF WriteRow
  <2>2. CASE call[a].seen = "pending" /\ call[a].goal \in {"paid", "expired"}
    BY <1>10, <2>1, <2>2 DEF WriteRow
  <2>3. CASE Return(a)
    <3>1. CASE call[a].goal = "paid" /\ Goto(a, "reactivate", call[a])
      BY <2>1, <3>1
    <3>2. CASE call[a].goal = "paid"
               /\ Goto(a, "read", [call[a] EXCEPT !.phase = "verified"])
      BY <2>1, <3>2
    <3>3. CASE call[a].phase = "verified" /\ Goto(a, "serve", call[a])
      BY <2>1, <3>3
    <3>4. CASE Finish(a)
      BY <2>1, <3>4
    <3>5. CASE call[a].phase = "implicit"
               /\ Goto(a, "read", [call[a] EXCEPT !.phase = "final",
                                                  !.goal = "consumed"])
      BY <2>1, <3>5
    <3>6. QED
      BY <2>3, <3>1, <3>2, <3>3, <3>4, <3>5, Returns
  <2>4. QED
    BY <1>10, <2>2, <2>3 DEF WriteRow
<1>11. ASSUME NEW a \in Actors, Activate(a) PROVE AInv'
  <2>1. /\ pc[a] = "activate" /\ call[a] \in Call
        /\ UNCHANGED <<invoice, status, revenue, served, events, others, faults>>
    BY <1>11 DEF Activate
  <2>2. CASE Goto(a, "allocate", call[a])
    BY <2>1, <2>2
  <2>3. CASE Return(a)
    <3>1. CASE Goto(a, "reactivate", call[a])
      BY <2>1, <3>1
    <3>2. CASE Goto(a, "read", [call[a] EXCEPT !.phase = "verified"])
      BY <2>1, <3>2
    <3>3. CASE call[a].phase = "verified" /\ Goto(a, "serve", call[a])
      BY <2>1, <3>3
    <3>4. CASE Finish(a)
      BY <2>1, <3>4
    <3>5. CASE call[a].phase = "implicit"
               /\ Goto(a, "read", [call[a] EXCEPT !.phase = "final",
                                                  !.goal = "consumed"])
      BY <2>1, <3>5
    <3>6. QED
      BY <2>3, <3>1, <3>2, <3>3, <3>4, <3>5, Returns
  <2>4. QED
    BY <1>11, <2>2, <2>3 DEF Activate
<1>12. ASSUME NEW a \in Actors, Allocate(a) PROVE AInv'
  <2>1. /\ pc[a] = "allocate" /\ call[a] \in Call /\ call[a].goal = "paid"
        /\ revenue' = [revenue EXCEPT ![call[a].hash] = @ + 1]
        /\ UNCHANGED <<invoice, status, ent, served, events, others, faults>>
    BY <1>12 DEF Allocate
  <2>2. CASE Goto(a, "reactivate", call[a])
    BY <2>1, <2>2
  <2>3. CASE Goto(a, "read", [call[a] EXCEPT !.phase = "verified"])
    BY <2>1, <2>3
  <2>4. CASE call[a].phase = "verified" /\ Goto(a, "serve", call[a])
    BY <2>1, <2>4
  <2>5. CASE Finish(a)
    BY <2>1, <2>5
  <2>6. CASE call[a].phase = "implicit"
             /\ Goto(a, "read", [call[a] EXCEPT !.phase = "final", !.goal = "consumed"])
    BY <2>1, <2>6
  <2>7. QED
    BY <1>12, <2>2, <2>3, <2>4, <2>5, <2>6, Returns DEF Allocate
<1>13. ASSUME NEW a \in Actors, ExpireEntitlement(a) PROVE AInv'
  <2>1. /\ pc[a] = "expire" /\ Return(a) /\ call[a].goal = "expired"
        /\ call[a].phase \notin {"verified", "implicit"}
        /\ UNCHANGED <<invoice, status, revenue, served, events, others, faults>>
    BY <1>13 DEF ExpireEntitlement
  <2>2. Finish(a)
    BY <2>1 DEF Return
  <2>3. QED
    BY <2>1, <2>2
<1>14. ASSUME NEW a \in Actors, Reactivate(a) PROVE AInv'
  <2>1. /\ pc[a] = "reactivate" /\ Finish(a)
        /\ UNCHANGED <<invoice, status, revenue, served, events, others, faults>>
    BY <1>14 DEF Reactivate
  <2>2. QED
    BY <2>1
<1>15. ASSUME NEW a \in Actors, Serve(a) PROVE AInv'
  <2>1. /\ pc[a] = "serve" /\ call[a] \in Call /\ call[a].phase = "verified"
        /\ UNCHANGED <<invoice, status, ent, revenue, events, others, faults>>
    BY <1>15 DEF Serve
  <2>2. CASE Finish(a) /\ UNCHANGED served
    BY <2>1, <2>2
  <2>3. CASE /\ served' = [served EXCEPT ![call[a].hash] = @ + 1]
             /\ Goto(a, "read", [call[a] EXCEPT !.phase = "consume",
                                                !.goal = "consumed"])
    <3>1. OneCall' /\ CopiesCurrent'
      BY <2>1, <2>3
    <3>2. NotYetBooked' /\ RevenueOnceAlone'
      BY <2>1, <2>3
    <3>3. ASSUME NEW p \in Alone, p = call[a].hash PROVE served[p] <= faults
      BY <2>1, <3>3
    <3>4. /\ call'[a].phase = "consume" /\ call'[a].hash = call[a].hash
          /\ pc'[a] # "idle" /\ served[call[a].hash] \in Nat /\ faults \in Nat
          /\ served'[call[a].hash] = served[call[a].hash] + 1
      BY <2>1, <2>3
    <3>5. ASSUME NEW p \in Alone, p # call[a].hash,
                 NEW b \in Actors, Working(b, p), call[b].phase = "consume"
          PROVE  Working(b, p)' /\ call'[b].phase = "consume"
      BY <2>3, <3>5
    <3>6. ServedOrFault'
      <4> SUFFICES ASSUME NEW p \in Alone
                   PROVE  \/ served'[p] <= faults
                          \/ /\ served'[p] = 1 + faults
                             /\ \/ status[p] = "consumed"
                                \/ \E b \in Actors : /\ Working(b, p)'
                                                     /\ call'[b].phase = "consume"
        BY <2>1, <2>3
      <4>1. CASE p = call[a].hash
        <5>1. served[p] <= faults
          BY <3>3, <4>1
        <5>2. Working(a, p)' /\ call'[a].phase = "consume"
          BY <3>4, <4>1 DEF Working
        <5>3. served'[p] <= faults \/ served'[p] = 1 + faults
          <6>1. served[p] \in Nat /\ faults \in Nat /\ served'[p] = served[p] + 1
            BY <3>4, <4>1
          <6>2. QED
            BY ONLY <5>1, <6>1
        <5>4. QED
          BY <5>2, <5>3
      <4>2. CASE p # call[a].hash
        <5>1. served'[p] = served[p]
          <6>1. served \in [Payments -> Nat] /\ p \in Payments
            OBVIOUS
          <6>2. QED
            BY ONLY <2>3, <4>2, <6>1
        <5>2. CASE \E b \in Actors : Working(b, p) /\ call[b].phase = "consume"
          <6>1. PICK b \in Actors : Working(b, p) /\ call[b].phase = "consume"
            BY <5>2
          <6>2. Working(b, p)' /\ call'[b].phase = "consume"
            BY <3>5, <4>2, <6>1
          <6>3. served[p] \in Nat /\ served[p] <= 1 + faults
            BY <2>1
          <6>4. QED
            BY <5>1, <6>2, <6>3, <3>4
        <5>3. CASE ~ \E b \in Actors : Working(b, p) /\ call[b].phase = "consume"
          BY <5>1, <5>3
        <5>4. QED
          BY <5>2, <5>3
      <4>3. QED
        BY <4>1, <4>2
    <3>7. QED
      BY <3>1, <3>2, <3>6
  <2>4. QED
    BY <1>15, <2>2, <2>3 DEF Serve
<1>16. ASSUME NEW a \in Actors, Crash(a) PROVE AInv'
  BY <1>16 DEF Crash
<1>17. ASSUME NEW a \in Actors, SideEffectFails(a) PROVE AInv'
  <2>1. /\ pc[a] \in {"activate", "allocate", "expire"} /\ call[a] \in Call
        /\ faults' = faults + 1 /\ faults \in Nat
        /\ call[a].goal = "paid" => pc[a] # "expire"
        /\ UNCHANGED <<invoice, status, ent, revenue, served, events, others>>
    <3>1. /\ pc[a] \in {"activate", "allocate", "expire"} /\ faults' = faults + 1
          /\ UNCHANGED <<invoice, status, ent, revenue, served, events, others>>
      BY <1>17 DEF SideEffectFails
    <3>2. call[a] \in Call /\ (pc[a] = "expire" => call[a].goal = "expired")
      BY <3>1
    <3>3. QED
      BY <3>1, <3>2
  <2>2. CASE call[a].goal = "paid" /\ Goto(a, "reactivate", call[a])
    BY <2>1, <2>2
  <2>3. CASE call[a].goal = "paid"
             /\ Goto(a, "read", [call[a] EXCEPT !.phase = "verified"])
    BY <2>1, <2>3
  <2>4. CASE call[a].phase = "verified" /\ Goto(a, "serve", call[a])
    BY <2>1, <2>4
  <2>5. CASE Finish(a)
    BY <2>1, <2>5
  <2>6. CASE call[a].phase = "implicit"
             /\ Goto(a, "read", [call[a] EXCEPT !.phase = "final", !.goal = "consumed"])
    BY <2>1, <2>6
  <2>7. QED
    BY <1>17, <2>2, <2>3, <2>4, <2>5, <2>6, Returns DEF SideEffectFails
<1>18. CASE UNCHANGED vars
  BY <1>18 DEF vars
<1>20. ASSUME Elsewhere PROVE AInv'
  BY <1>20 DEF Elsewhere
<1> HIDE DEF AInv, IInv
<1>19. QED
  BY <1>20, <1>1, <1>2, <1>3, <1>4, <1>5, <1>6, <1>7, <1>8, <1>9, <1>10, <1>11, <1>12, <1>13, <1>14, <1>15, <1>16, <1>17, <1>18 DEF Next, Statement

\* It holds in every reachable state.
LEMMA InductiveA == Spec => []AInv
<1>1. IInv /\ AInv /\ [Next]_vars => AInv'
  BY StepAInv
<1>2. QED
  BY <1>1, InitAInv, Inductive, PTL DEF Spec

\* Two calls on one payment at the same time are what it takes to book its
\* revenue twice: a lone call allocates only on the way from pending to paid.
THEOREM RevenueOnceUnraced == Spec => []RevenueOnceAlone
<1>1. AInv => RevenueOnceAlone
  BY DEF AInv
<1>2. QED
  BY <1>1, InductiveA, PTL

\* And to have a token serve twice, unless the process died in between.
THEOREM TokenServesOnceUnraced == Spec => []TokenServesOnceAlone
<1>1. IInv /\ AInv => TokenServesOnceAlone
  <2> SUFFICES ASSUME IInv, AInv, NEW p \in Alone PROVE served[p] <= 1 + faults
    BY DEF TokenServesOnceAlone
  <2>1. served[p] \in Nat /\ faults \in Nat
    BY BoundsAssumption DEF IInv, TypeOK, Alone
  <2>2. served[p] <= faults \/ served[p] = 1 + faults
    BY DEF AInv, ServedOrFault
  <2>3. QED
    BY <2>1, <2>2
<1>2. QED
  BY <1>1, InductiveA, Inductive, PTL

\* The row of such a payment only moves along the ledger's state machine: the
\* copy the transition was checked against is still the row it overwrites.
THEOREM StateMachineUnraced == Spec => StateMachineAlone
<1>1. IInv /\ AInv /\ [Next]_vars => [\A p \in Alone' : Moves(p)]_vars
  <2> SUFFICES ASSUME IInv, AInv, Next, NEW p \in Alone', status'[p] # status[p]
               PROVE  \/ status[p] = "none" /\ status'[p] = "pending"
                      \/ <<status[p], status'[p]>> \in AllowedTransitions
    BY DEF Moves
  <2> USE DEF IInv, TypeOK, Alone
  <2>1. CASE \E a \in Actors : WriteRow(a)
    <3>1. PICK a \in Actors : WriteRow(a)
      BY <2>1
    <3>2. p \in Alone /\ call[a] \in Call /\ pc[a] = "write"
      BY <3>1, NoCallAssumption DEF WriteRow, Return, Goto, Finish
    <3>3. call[a].hash = p /\ status'[p] = call[a].goal
      BY <3>1, <3>2 DEF WriteRow
    <3>4. CanTransition(status[p], status'[p])
      BY <3>2, <3>3 DEF AInv, CopiesCurrent, Working
    <3>5. QED
      BY <3>4 DEF CanTransition
  <2>2. CASE \E a \in Handlers, q \in Payments : Issue(a, q)
    BY <2>2 DEF Issue
  <2>3. CASE UNCHANGED status
    BY <2>3
  <2>4. QED
    BY <2>1, <2>2, <2>3 DEF Next, Statement, Resolve, Webhook, Confirm, Gate,
       Reconcile, Provision, Verify, ReadRow, Activate, Allocate,
       ExpireEntitlement, Reactivate, Serve, Crash, SideEffectFails, Elsewhere, ledger
<1>2. QED
  BY <1>1, InductiveA, Inductive, PTL DEF StateMachineAlone, Spec

\* The payment of an offer follows the state machine, although nothing guards
\* the UPDATE: a late writer repeats what the row already holds, unless it has
\* been told that the invoice is pending and works at the same time as another.
THEOREM PurchaseFollows == Spec => PurchaseStateMachine
<1> DEFINE OfferMoves == \A p \in Offers : Moves(p) \/ Reopened(p)
<1>1. IInv /\ AInv /\ [Next]_vars => [OfferMoves]_vars
  <2> SUFFICES ASSUME IInv, AInv, Next PROVE OfferMoves
    OBVIOUS
  <2> USE OffersAssumption DEF IInv, TypeOK, Moves, Actors
  <2>1. ASSUME NEW a \in Handlers, NEW p \in Payments, Issue(a, p)
        PROVE  OfferMoves
    BY <2>1 DEF Issue
  <2>2. ASSUME NEW a \in Actors, WriteRow(a) PROVE OfferMoves
    <3>1. PICK p \in Payments : p = call[a].hash
      BY <2>2 DEF WriteRow, Call
    <3>2. status' = [status EXCEPT ![p] = call[a].goal]
      BY <2>2, <3>1 DEF WriteRow
    <3>3. /\ pc[a] = "write" /\ call[a].goal \in Persisted
          /\ Asking("write", call[a]) /\ Settling("write", call[a])
      BY <2>2 DEF WriteRow, CallsFit, Fits, Informed, Call
    <3>4. CASE p \in Offers /\ call[a].goal # "pending"
      <4>1. call[a].goal \in Outcomes /\ invoice[p] = call[a].goal
        BY <3>1, <3>3, <3>4 DEF Settling, Asking, Answer, Persisted
      <4>2. status[p] \in {"pending", call[a].goal}
        BY <3>4, <4>1 DEF Rows, AgreesWithProvider, IssuedTogether,
           OffersNeverConsumed, Persisted, Outcomes
      <4>3. QED
        BY <3>2, <4>1, <4>2 DEF AllowedTransitions, Outcomes
    <3>5. CASE p \in Offers /\ call[a].goal = "pending"
      <4>1. <<p, "pending">> \in events /\ invoice[p] # "none"
        BY <3>1, <3>3, <3>5 DEF Settling
      <4>2. status[p] \in Outcomes \cup {"pending"}
        BY <3>5, <4>1 DEF Rows, IssuedTogether, OffersNeverConsumed, Persisted
      <4>3. status[p] \in Outcomes => p \in overlapped
        BY <3>1, <3>3, <3>5
           DEF AInv, CopiesCurrent, Working, Alone, CanTransition,
               AllowedTransitions, Outcomes
      <4>4. status'[p] = "pending" /\ \A q \in Offers : q # p => status'[q] = status[q]
        BY <3>2, <3>5
      <4>5. Moves(p) \/ Reopened(p)
        BY <3>1, <4>1, <4>2, <4>3, <4>4 DEF Reopened
      <4>6. QED
        BY <4>4, <4>5
    <3>6. CASE p \notin Offers
      BY <3>2, <3>6
    <3>7. QED
      BY <3>4, <3>5, <3>6
  <2>3. CASE UNCHANGED status
    BY <2>3
  <2>4. QED
    BY <2>1, <2>2, <2>3 DEF Next, Statement, Resolve, Webhook, Confirm, Gate,
       Reconcile, Provision, Verify, ReadRow, Activate, Allocate, Elsewhere,
       ExpireEntitlement, Reactivate, Serve, Crash, SideEffectFails, ledger
<1>2. QED
  BY <1>1, Inductive, InductiveA, PTL DEF Spec, PurchaseStateMachine
=============================================================================
