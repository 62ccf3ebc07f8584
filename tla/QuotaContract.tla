---------------------------- MODULE QuotaContract -----------------------------
(***************************************************************************)
(* What the entitlements of a buyer promise, without transactions: an      *)
(* entitlement is sold, becomes active or is refused, and while it is      *)
(* active every read takes one off what is left of it, at once.  What is   *)
(* handed on is taken off too, and cannot be handed on again; to hand on a *)
(* negative amount, which nothing refuses, adds to it.  It is exhausted    *)
(* when nothing is left, and never serves or changes after that.           *)
(***************************************************************************)
EXTENDS Integers

CONSTANTS Ents, Quotas, Amounts, Unlimited, NoEnt

VARIABLES
    state,  \* where an entitlement is in its life
    left,   \* what is left of it, or Unlimited
    spent,  \* what was read of it and handed on
    parent  \* the entitlement it was handed on from

vars == <<state, left, spent, parent>>

Init ==
    /\ state = [e \in Ents |-> "absent"]
    /\ left = [e \in Ents |-> 0]
    /\ spent = [e \in Ents |-> 0]
    /\ parent = [e \in Ents |-> NoEnt]

Sell(e, n) ==
    /\ state[e] = "absent"
    /\ state' = [state EXCEPT ![e] = "pending_payment"]
    /\ left' = [left EXCEPT ![e] = n]
    /\ parent' = [parent EXCEPT ![e] = NoEnt]
    /\ UNCHANGED spent

Conclude(e, outcome) ==
    /\ state[e] = "pending_payment"
    /\ state' = [state EXCEPT ![e] = outcome]
    /\ UNCHANGED <<left, spent, parent>>

\* A read; the last one exhausts the entitlement.
Serve(e) ==
    /\ state[e] = "active" /\ left[e] # Unlimited /\ left[e] > 0
    /\ left' = [left EXCEPT ![e] = @ - 1]
    /\ spent' = [spent EXCEPT ![e] = @ + 1]
    /\ state' = [state EXCEPT ![e] = IF left[e] = 1 THEN "exhausted" ELSE @]
    /\ UNCHANGED parent

\* Part of an entitlement that was not handed on itself becomes another one.
HandOn(e, c, n) ==
    LET metered == left[e] # Unlimited IN
    /\ state[e] = "active" /\ parent[e] = NoEnt /\ state[c] = "absent"
    /\ metered => left[e] >= n
    /\ state' = [state EXCEPT ![c] = "active"]
    /\ left' = [left EXCEPT ![e] = IF metered THEN @ - n ELSE @, ![c] = n]
    /\ spent' = [spent EXCEPT ![e] = IF metered /\ n > 0 THEN @ + n ELSE @]
    /\ parent' = [parent EXCEPT ![c] = e]

Close(e, end) ==
    /\ state[e] = "active"
    /\ end = "exhausted" => left[e] # Unlimited /\ left[e] <= 0
    /\ state' = [state EXCEPT ![e] = end]
    /\ UNCHANGED <<left, spent, parent>>

Next ==
    \E e \in Ents :
        \/ \E n \in Quotas : Sell(e, n)
        \/ \E outcome \in {"active", "expired"} : Conclude(e, outcome)
        \/ Serve(e)
        \/ \E c \in Ents, n \in Amounts : HandOn(e, c, n)
        \/ \E end \in {"exhausted", "expired"} : Close(e, end)

Spec == Init /\ [][Next]_vars
=============================================================================
