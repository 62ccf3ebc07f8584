--------------------- MODULE Entitlements_Payouts_proofs ---------------------
(***************************************************************************)
(* Proofs that the invariants of Entitlements hold for any number of rows, *)
(* of concurrent requests, and for any quotas and delegated amounts, and   *)
(* that those of Payouts hold for any number of agents, domains, rows and  *)
(* sweeping processes, and for any amounts and threshold.                  *)
(*                                                                         *)
(* NoReadLost is not inductive: an UPDATE writes a value computed from the *)
(* copy its transaction holds, so the copies must satisfy the same         *)
(* inequality as the rows.  They do, because what was served or delegated  *)
(* since the copy was taken only adds to the left hand side.  NeverOverpaid*)
(* is not inductive for the like reason: the INSERT of a sweep writes the  *)
(* balances it computed earlier, so these must fit in what is cleared too. *)
(*                                                                         *)
(* The contract of an entitlement is kept for each request whose row is    *)
(* still its copy.  ReadsApart, a hypothesis about the requests, makes     *)
(* that every request.                                                     *)
(*                                                                         *)
(* The books of Payouts are sums over tables.  SumFunctionOnSet is defined *)
(* by a CHOOSE over recursive functions; the lemmas on sums derive from it *)
(* the laws of addition over a finite set, by an induction for which the   *)
(* minimum of a nonempty set of numbers is enough.                         *)
(***************************************************************************)
EXTENDS Entitlements, Payouts, FiniteSetTheorems, TLAPS

-----------------------------------------------------------------------------
(* Entitlements.                                                           *)

\* A row is unlimited in both columns or in neither.
UnlimitedTogether ==
    \A e \in Ents : remaining[e] = Unlimited <=> quota[e] = Unlimited

\* A transaction in progress works on a row that has been inserted.
TargetsHeld ==
    \A s \in Sessions : pc[s] # "idle" => target[s] \in Ents /\ Held(target[s])

\* What the copy tells about the row, per kind of transaction.
Covers(s) == snapshot[s] + Spent(target[s]) >= quota[target[s]]

CopiesCover ==
    \A s \in Sessions :
      /\ pc[s] = "exhaust" =>
           quota[target[s]] # Unlimited /\ Spent(target[s]) >= quota[target[s]]
      /\ pc[s] = "decrement" =>
           /\ quota[target[s]] # Unlimited /\ snapshot[s] # Unlimited
           /\ snapshot[s] > 0 /\ Covers(s)
      /\ pc[s] = "delegate" =>
           /\ snapshot[s] = Unlimited <=> quota[target[s]] = Unlimited
           /\ snapshot[s] # Unlimited => snapshot[s] >= amount[s] /\ Covers(s)

IInv == /\ TypeOK
        /\ UnlimitedTogether
        /\ TargetsHeld
        /\ CopiesCover
        /\ NoReadLost
        /\ ExhaustedMeansServed
        /\ NegativeFromBirth

-----------------------------------------------------------------------------
\* The initial state, in which no row has been inserted, satisfies the
\* inductive invariant.
LEMMA InitIInv == Init => IInv
<1> SUFFICES ASSUME Init PROVE IInv
  OBVIOUS
<1>1. TypeOK
  <2>1. /\ remaining \in [Ents -> Int \cup {Unlimited}] /\ quota \in [Ents -> Int \cup {Unlimited}]
        /\ snapshot \in [Sessions -> Int \cup {Unlimited}] /\ amount \in [Sessions -> Int]
    BY DEF Init
  <2>2. granted \in [Ents -> Nat] /\ delegated \in [Ents -> Nat] /\ credited \in [Ents -> Nat]
    BY DEF Init
  <2>3. QED
    BY <2>1, <2>2 DEF Init, TypeOK, Status, Steps
<1>2. UnlimitedTogether /\ NegativeFromBirth
  BY UnlimitedAssumption DEF Init, UnlimitedTogether, NegativeFromBirth
<1>3. TargetsHeld /\ CopiesCover
  BY DEF Init, TargetsHeld, CopiesCover
<1>4. NoReadLost /\ ExhaustedMeansServed
  BY DEF Init, NoReadLost, ExhaustedMeansServed, Metered, Held, Balance, Spent
<1>5. QED
  BY <1>1, <1>2, <1>3, <1>4 DEF IInv

\* Every statement of every request preserves the inductive invariant.
LEMMA StepIInv == IInv /\ [Next]_vars => IInv'
<1> SUFFICES ASSUME IInv, [Next]_vars PROVE IInv'
  OBVIOUS
<1> USE UnlimitedAssumption, QuotasAssumption, AmountsAssumption, NoEntAssumption
<1> USE DEF IInv, TypeOK, UnlimitedTogether, TargetsHeld, CopiesCover, Covers,
            NoReadLost, ExhaustedMeansServed, NegativeFromBirth, Balance, Spent,
            Metered, Held, Status, Steps, rows, txs
<1>1. CASE PassDeadline
  BY <1>1 DEF PassDeadline
<1>2. ASSUME NEW e \in Ents, Provision(e) PROVE IInv'
  BY <1>2 DEF Provision, Insert
<1>3. ASSUME NEW e \in Ents, Activate(e) PROVE IInv'
  BY <1>3 DEF Activate
<1>4. ASSUME NEW e \in Ents, ExpireUnpaid(e) PROVE IInv'
  BY <1>4 DEF ExpireUnpaid
<1>5. ASSUME NEW s \in Sessions, NEW e \in Ents, BeginRead(s, e) PROVE IInv'
  BY <1>5 DEF BeginRead, Decision
<1>6. ASSUME NEW s \in Sessions, NEW e \in Ents, NEW n \in Amounts,
             BeginDelegate(s, e, n)
      PROVE  IInv'
  BY <1>6 DEF BeginDelegate
<1>7. ASSUME NEW s \in Sessions, CommitExpire(s) PROVE IInv'
  BY <1>7 DEF CommitExpire, Close, Finish
<1>8. ASSUME NEW s \in Sessions, CommitExhaust(s) PROVE IInv'
  BY <1>8 DEF CommitExhaust, Close, Finish
<1>9. ASSUME NEW s \in Sessions, CommitDecrement(s) PROVE IInv'
  <2> USE <1>9 DEF CommitDecrement, Finish
  <2>1. PICK e \in Ents : /\ e = target[s]
                         /\ Held(e) /\ quota[e] # Unlimited /\ snapshot[s] > 0
    OBVIOUS
  <2>2. TypeOK' /\ UnlimitedTogether' /\ TargetsHeld' /\ NegativeFromBirth'
    BY <2>1
  <2>3. \* the read is taken from the copy and added to the reads granted
        remaining'[e] + Spent(e)' = snapshot[s] + Spent(e)
    BY <2>1
  <2>4. \* the copies of the others still cover the quota
        \A f \in Ents : Spent(f)' >= Spent(f) /\ quota'[f] = quota[f]
    BY <2>1
  <2>5. CopiesCover'
    BY <2>1, <2>4
  <2>6. NoReadLost'
    BY <2>1, <2>3
  <2>7. \* the row is closed when the copy said that this read was the last
        ExhaustedMeansServed'
    BY <2>1, <2>3
  <2>8. QED
    BY <2>2, <2>5, <2>6, <2>7
<1>10. ASSUME NEW s \in Sessions, LoseRace(s) PROVE IInv'
  BY <1>10 DEF LoseRace, Finish
<1>11. ASSUME NEW s \in Sessions, CommitDelegate(s) PROVE IInv'
  <2> DEFINE n == amount[s]
             metered == snapshot[s] # Unlimited
  <2>1. PICK e \in Ents, c \in Ents :
          /\ e = target[s]
          /\ status[c] = "absent"
          /\ Insert(c, "active", n, e)
          /\ remaining' = [remaining EXCEPT
                             ![e] = IF metered THEN snapshot[s] - n ELSE @,
                             ![c] = n]
    BY <1>11 DEF CommitDelegate
  <2> USE <1>11, <2>1 DEF CommitDelegate, Insert, Finish, Positive
  <2>2. \* the child is a row no transaction can hold a copy of
        e # c /\ \A t \in Sessions : pc[t] # "idle" => target[t] # c
    OBVIOUS
  <2>3. TypeOK' /\ UnlimitedTogether' /\ TargetsHeld' /\ NegativeFromBirth'
    BY <2>2
  <2>4. \* what the parent loses is at most what it has delegated
        metered => remaining'[e] + Spent(e)' >= snapshot[s] + Spent(e)
    BY <2>2
  <2>5. CopiesCover'
    BY <2>2
  <2>6. NoReadLost' /\ ExhaustedMeansServed'
    BY <2>2, <2>4
  <2>7. QED
    BY <2>3, <2>5, <2>6
<1>12. ASSUME NEW s \in Sessions, Abort(s) PROVE IInv'
  BY <1>12 DEF Abort, Finish
<1>13. CASE UNCHANGED vars
  BY <1>13 DEF vars
<1>14. QED
  BY <1>1, <1>2, <1>3, <1>4, <1>5, <1>6, <1>7, <1>8, <1>9, <1>10, <1>11,
     <1>12, <1>13 DEF Next

\* The inductive invariant holds in every reachable state.
LEMMA Inductive == Spec => []IInv
  BY InitIInv, StepIInv, PTL DEF Spec

-----------------------------------------------------------------------------
\* The columns keep their domains, and remainingReads is negative only in a row
\* inserted so by a negative delegation, although every UPDATE of it subtracts
\* from a copy that may be stale.
THEOREM TypeCorrect == Spec => [](TypeOK /\ NegativeFromBirth)
<1>1. IInv => TypeOK /\ NegativeFromBirth
  BY DEF IInv
<1>2. QED
  BY <1>1, Inductive, PTL

\* No interleaving of reads, delegations, expiries and rolled back
\* transactions loses a read the buyer has paid for.
THEOREM QuotaKept == Spec => []NoReadLost
<1>1. IInv => NoReadLost
  BY DEF IInv
<1>2. QED
  BY <1>1, Inductive, PTL

\* An entitlement reported as exhausted has had all its reads served or
\* delegated, and was not an unlimited one.
THEOREM ExhaustionJustified == Spec => []ExhaustedMeansServed
<1>1. IInv => ExhaustedMeansServed
  BY DEF IInv
<1>2. QED
  BY <1>1, Inductive, PTL

\* A status only moves along the life cycle: a statement that closes an
\* entitlement is guarded by the status in the row, not the one in the copy.
THEOREM LifeCycleFollowed == Spec => LifeCycle
<1> DEFINE Moves ==
      \A e \in Ents : status'[e] # status[e] =>
        <<status[e], status'[e]>> \in
          {<<"absent", "pending_payment">>, <<"absent", "active">>,
           <<"pending_payment", "active">>, <<"pending_payment", "expired">>,
           <<"active", "exhausted">>, <<"active", "expired">>}
<1>1. IInv /\ [Next]_vars => [Moves]_vars
  <2> SUFFICES ASSUME IInv, Next PROVE Moves
    OBVIOUS
  <2> USE DEF IInv, TypeOK
  <2>1. CASE PassDeadline
    BY <2>1 DEF PassDeadline, rows
  <2>2. ASSUME NEW e \in Ents, Provision(e) \/ Activate(e) \/ ExpireUnpaid(e)
        PROVE  Moves
    BY <2>2 DEF Provision, Insert, Activate, ExpireUnpaid
  <2>3. ASSUME NEW s \in Sessions,
               \/ \E e \in Ents : BeginRead(s, e)
               \/ \E e \in Ents, n \in Amounts : BeginDelegate(s, e, n)
               \/ LoseRace(s) \/ Abort(s)
        PROVE  Moves
    BY <2>3 DEF BeginRead, BeginDelegate, LoseRace, Abort, rows
  <2>4. ASSUME NEW s \in Sessions, CommitExpire(s) \/ CommitExhaust(s)
        PROVE  Moves
    BY <2>4 DEF CommitExpire, CommitExhaust, Close
  <2>5. ASSUME NEW s \in Sessions, CommitDecrement(s) PROVE Moves
    BY <2>5 DEF CommitDecrement
  <2>6. ASSUME NEW s \in Sessions, CommitDelegate(s) PROVE Moves
    BY <2>6 DEF CommitDelegate, Insert
  <2>7. QED
    BY <2>1, <2>2, <2>3, <2>4, <2>5, <2>6 DEF Next
<1>2. QED
  BY <1>1, Inductive, PTL DEF Spec, LifeCycle

\* A read or a delegation whose copy is current takes from the remainder
\* exactly what it serves or hands on: only an overtaken copy can make the
\* account of an entitlement wrong.
THEOREM AccountsBalance == Spec => BalanceKept
<1> DEFINE Kept ==
      \A e \in Ents : Metered(e) /\ Account(e)' # Account(e) => Overtaken(e)
<1>1. IInv /\ [Next]_vars => [Kept]_vars
  <2> SUFFICES ASSUME IInv, Next, NEW e \in Ents, Metered(e), ~Overtaken(e)
               PROVE  Account(e)' = Account(e)
    OBVIOUS
  <2> USE UnlimitedAssumption, QuotasAssumption, AmountsAssumption
  <2> USE DEF IInv, TypeOK, Metered, Held, Account, Balance, Spent
  <2>1. CASE PassDeadline
    BY <2>1 DEF PassDeadline, rows
  <2>2. ASSUME NEW f \in Ents, Provision(f) \/ Activate(f) \/ ExpireUnpaid(f)
        PROVE  Account(e)' = Account(e)
    BY <2>2 DEF Provision, Insert, Activate, ExpireUnpaid
  <2>3. ASSUME NEW s \in Sessions,
               \/ \E f \in Ents : BeginRead(s, f)
               \/ \E f \in Ents, n \in Amounts : BeginDelegate(s, f, n)
               \/ LoseRace(s) \/ Abort(s)
        PROVE  Account(e)' = Account(e)
    BY <2>3 DEF BeginRead, BeginDelegate, LoseRace, Abort, rows
  <2>4. ASSUME NEW s \in Sessions, CommitExpire(s) \/ CommitExhaust(s)
        PROVE  Account(e)' = Account(e)
    BY <2>4 DEF CommitExpire, CommitExhaust, Close
  <2>5. ASSUME NEW s \in Sessions, CommitDecrement(s)
        PROVE  Account(e)' = Account(e)
    <3>1. target[s] = e => snapshot[s] = remaining[e]
      BY <2>5 DEF CommitDecrement, Overtaken
    <3>2. CASE target[s] = e
      BY <2>5, <3>1, <3>2 DEF CommitDecrement, CopiesCover
    <3>3. CASE target[s] # e
      BY <2>5, <3>3 DEF CommitDecrement
    <3>4. QED
      BY <3>2, <3>3
  <2>6. ASSUME NEW s \in Sessions, CommitDelegate(s)
        PROVE  Account(e)' = Account(e)
    <3>1. target[s] = e => snapshot[s] = remaining[e]
      BY <2>6 DEF CommitDelegate, Overtaken
    <3>2. CASE target[s] = e
      BY <2>6, <3>1, <3>2 DEF CommitDelegate, Insert, Positive, UnlimitedTogether
    <3>3. CASE target[s] # e
      BY <2>6, <3>3 DEF CommitDelegate, Insert, Positive
    <3>4. QED
      BY <3>2, <3>3
  <2>7. QED
    BY <2>1, <2>2, <2>3, <2>4, <2>5, <2>6 DEF Next
<1>2. QED
  BY <1>1, Inductive, PTL DEF Spec, BalanceKept

-----------------------------------------------------------------------------
(* The contract of an entitlement.                                         *)

\* What the SELECT of a request that is about to write has told it.
CopiesTell ==
    \A s \in Sessions :
        /\ pc[s] = "exhaust" => snapshot[s] # Unlimited /\ snapshot[s] <= 0
        /\ pc[s] = "delegate" =>
               delegatedFrom[target[s]] = NoEnt /\ amount[s] \in Amounts

LEMMA InitCopiesTell == Init => CopiesTell
BY DEF Init, CopiesTell

LEMMA StepCopiesTell == IInv /\ CopiesTell /\ [Next]_vars => CopiesTell'
<1> SUFFICES ASSUME IInv, CopiesTell, [Next]_vars PROVE CopiesTell'
  OBVIOUS
<1> USE DEF IInv, TypeOK, TargetsHeld, Held, CopiesTell
<1>1. CASE PassDeadline
  BY <1>1 DEF PassDeadline, rows, txs
<1>2. ASSUME NEW e \in Ents, Provision(e) \/ Activate(e) \/ ExpireUnpaid(e)
      PROVE  CopiesTell'
  BY <1>2 DEF Provision, Insert, Activate, ExpireUnpaid, txs
<1>3. ASSUME NEW s \in Sessions, NEW e \in Ents, BeginRead(s, e) PROVE CopiesTell'
  BY <1>3 DEF BeginRead, Decision, rows
<1>4. ASSUME NEW s \in Sessions, NEW e \in Ents, NEW n \in Amounts, BeginDelegate(s, e, n)
      PROVE  CopiesTell'
  BY <1>4 DEF BeginDelegate, rows
<1>5. ASSUME NEW s \in Sessions,
             \/ CommitExpire(s) \/ CommitExhaust(s) \/ CommitDecrement(s)
             \/ LoseRace(s) \/ Abort(s)
      PROVE  CopiesTell'
  BY <1>5 DEF CommitExpire, CommitExhaust, Close, CommitDecrement, LoseRace, Abort, Finish, rows
<1>6. ASSUME NEW s \in Sessions, CommitDelegate(s) PROVE CopiesTell'
  BY <1>6 DEF CommitDelegate, Insert, Finish
<1>7. CASE UNCHANGED vars
  BY <1>7 DEF vars, rows, txs
<1>8. QED
  BY <1>1, <1>2, <1>3, <1>4, <1>5, <1>6, <1>7 DEF Next

\* The reads spent, as the contract keeps them.
Spending == [e \in Ents |-> Spent(e)]

LEMMA SpendingKept == granted' = granted /\ delegated' = delegated => Spending' = Spending
BY DEF Spending, Spent

LEMMA SpendingGrows ==
  ASSUME TypeOK, NEW e \in Ents, NEW n \in Nat,
         \/ granted' = [granted EXCEPT ![e] = @ + n] /\ delegated' = delegated
         \/ delegated' = [delegated EXCEPT ![e] = @ + n] /\ granted' = granted
  PROVE  Spending' = [Spending EXCEPT ![e] = @ + n]
<1>1. \A f \in Ents : Spent(f)' = IF f = e THEN Spent(f) + n ELSE Spent(f)
  BY DEF TypeOK, Spent
<1>2. QED
  BY <1>1 DEF Spending

\* The statements that are not the write of a stale copy are steps of the
\* contract, or change nothing it speaks of.
LEMMA StepContract ==
  ASSUME IInv, CopiesTell, [Next]_vars
  PROVE  Contract!Next \/ (\E s \in Sessions : Stale(s)) \/ UNCHANGED Contract!vars
<1> USE UnlimitedAssumption, QuotasAssumption, AmountsAssumption
<1> USE DEF IInv
<1>1. ASSUME rows' = rows PROVE UNCHANGED Contract!vars
  BY <1>1, SpendingKept DEF rows, Contract!vars, Spending
<1>2. ASSUME NEW e \in Ents, Provision(e) PROVE Contract!Next
  <2>1. PICK n \in Quotas : /\ Insert(e, "pending_payment", n, NoEnt)
                            /\ remaining' = [remaining EXCEPT ![e] = n]
    BY <1>2 DEF Provision
  <2>2. Spending' = Spending
    BY <1>2, SpendingKept DEF Provision
  <2>3. Contract!Sell(e, n)
    BY <1>2, <2>1, <2>2 DEF Provision, Insert, Contract!Sell, Spending
  <2>4. QED
    BY <2>3 DEF Contract!Next
<1>3. ASSUME NEW e \in Ents, Activate(e) \/ ExpireUnpaid(e) PROVE Contract!Next
  <2>1. Spending' = Spending
    BY <1>3, SpendingKept DEF Activate, ExpireUnpaid
  <2>2. \E outcome \in {"active", "expired"} : Contract!Conclude(e, outcome)
    BY <1>3, <2>1 DEF Activate, ExpireUnpaid, Contract!Conclude, Spending
  <2>3. QED
    BY <2>2 DEF Contract!Next
<1>4. ASSUME NEW s \in Sessions, CommitExpire(s) \/ CommitExhaust(s)
      PROVE  Contract!Next \/ Stale(s) \/ UNCHANGED Contract!vars
  <2>1. PICK e \in Ents : e = target[s] /\ Held(e)
    BY <1>4 DEF CommitExpire, CommitExhaust, Close, TargetsHeld
  <2>2. PICK end \in {"exhausted", "expired"} :
          /\ pc[s] = "exhaust" \/ end = "expired"
          /\ status' = [status EXCEPT ![e] = IF @ = "active" THEN end ELSE @]
    BY <1>4, <2>1 DEF CommitExpire, CommitExhaust, Close
  <2>3. /\ remaining' = remaining /\ delegatedFrom' = delegatedFrom /\ Spending' = Spending
        /\ pc'[s] = "idle"
    BY <1>4, SpendingKept DEF CommitExpire, CommitExhaust, Close, Finish, TypeOK
  <2>4. CASE status[e] # "active"
    <3>1. status' = status
      BY <2>2, <2>4 DEF TypeOK
    <3>2. QED
      BY <2>3, <3>1 DEF Contract!vars, Spending
  <2>5. CASE status[e] = "active" /\ ~Stale(s)
    <3>1. end = "exhausted" => remaining[e] # Unlimited /\ remaining[e] <= 0
      <4>1. SUFFICES ASSUME end = "exhausted" PROVE remaining[e] # Unlimited /\ remaining[e] <= 0
        OBVIOUS
      <4>2. pc[s] = "exhaust" /\ snapshot[s] = remaining[e]
        BY <2>1, <2>2, <2>3, <2>5, <4>1 DEF Stale
      <4>3. snapshot[s] # Unlimited /\ snapshot[s] <= 0
        BY <4>2 DEF CopiesTell
      <4>4. QED
        BY <4>2, <4>3
    <3>2. status' = [status EXCEPT ![e] = end]
      BY <2>2, <2>5
    <3>3. Contract!Close(e, end)
      BY <2>3, <2>5, <3>1, <3>2 DEF Contract!Close, Spending
    <3>4. QED
      BY <3>3 DEF Contract!Next
  <2>6. QED
    BY <2>4, <2>5
<1>5. ASSUME NEW s \in Sessions, CommitDecrement(s)
      PROVE  Contract!Next \/ Stale(s)
  <2>1. PICK e \in Ents : e = target[s] /\ Held(e) /\ snapshot[s] > 0
    BY <1>5 DEF CommitDecrement, TargetsHeld, CopiesCover
  <2>2. SUFFICES ASSUME ~Stale(s) PROVE Contract!Serve(e)
    BY <2>1 DEF Contract!Next
  <2>3. pc'[s] = "idle"
    BY <1>5 DEF CommitDecrement, Finish, TypeOK
  <2>4. status[e] = "active" /\ snapshot[s] = remaining[e]
    BY <1>5, <2>1, <2>2, <2>3 DEF CommitDecrement, Stale
  <2>5. remaining[e] \in Int /\ remaining[e] > 0
    <3>1. quota[e] # Unlimited
      BY <1>5, <2>1 DEF CommitDecrement, CopiesCover
    <3>2. QED
      BY <2>1, <2>4, <3>1 DEF TypeOK, UnlimitedTogether
  <2>6. remaining' = [remaining EXCEPT ![e] = @ - 1]
    BY <1>5, <2>1, <2>4 DEF CommitDecrement
  <2>7. Spending' = [Spending EXCEPT ![e] = @ + 1]
    BY <1>5, <2>1, SpendingGrows DEF CommitDecrement
  <2>8. status' = [status EXCEPT ![e] = IF remaining[e] = 1 THEN "exhausted" ELSE @]
    BY <1>5, <2>1, <2>4, <2>5 DEF CommitDecrement
  <2>9. delegatedFrom' = delegatedFrom
    BY <1>5 DEF CommitDecrement
  <2>10. QED
    BY <2>4, <2>5, <2>6, <2>7, <2>8, <2>9 DEF Contract!Serve, Spending
<1>6. ASSUME NEW s \in Sessions, CommitDelegate(s)
      PROVE  Contract!Next \/ Stale(s)
  <2>1. PICK e \in Ents : e = target[s] /\ Held(e)
    BY <1>6 DEF CommitDelegate, TargetsHeld
  <2>2. PICK n : n = amount[s]
    OBVIOUS
  <2>3. n \in Amounts /\ n \in Int /\ delegatedFrom[e] = NoEnt
    BY <1>6, <2>1, <2>2 DEF CommitDelegate, CopiesTell
  <2>4. SUFFICES ASSUME ~Stale(s) PROVE Contract!Next
    OBVIOUS
  <2>5. pc'[s] = "idle"
    BY <1>6 DEF CommitDelegate, Finish, TypeOK
  <2>6. status[e] = "active" /\ snapshot[s] = remaining[e]
    BY <1>6, <2>1, <2>4, <2>5 DEF CommitDelegate, Stale
  <2>7. remaining[e] # Unlimited => remaining[e] >= n
    BY <1>6, <2>1, <2>2, <2>3, <2>6 DEF CommitDelegate, TypeOK
  <2>8. PICK c \in Ents :
          /\ status[c] = "absent" /\ Insert(c, "active", n, e)
          /\ remaining' = [remaining EXCEPT
                             ![e] = IF snapshot[s] # Unlimited THEN snapshot[s] - n ELSE @,
                             ![c] = n]
    BY <1>6, <2>1, <2>2 DEF CommitDelegate
  <2>9. remaining' = [remaining EXCEPT ![e] = IF remaining[e] # Unlimited THEN @ - n ELSE @,
                                      ![c] = n]
    BY <2>6, <2>8
  <2>10. Spending' = [Spending EXCEPT ![e] = IF remaining[e] # Unlimited /\ n > 0 THEN @ + n ELSE @]
    <3>1. CASE remaining[e] # Unlimited
      <4>1. delegated' = [delegated EXCEPT ![e] = @ + Positive(n)] /\ granted' = granted
        BY <1>6, <2>1, <2>2, <2>6, <3>1 DEF CommitDelegate
      <4>2. PICK k \in Nat : k = Positive(n)
        BY <2>3 DEF Positive
      <4>3. Spending' = [Spending EXCEPT ![e] = @ + k]
        BY <4>1, <4>2, SpendingGrows
      <4>4. CASE n > 0
        BY <3>1, <4>2, <4>3, <4>4 DEF Positive
      <4>5. CASE ~(n > 0)
        <5>1. k = 0 /\ Spending[e] \in Nat
          BY <2>1, <4>2, <4>5 DEF Positive, Spending, Spent, TypeOK
        <5>2. [Spending EXCEPT ![e] = @ + k] = Spending
          BY <5>1 DEF Spending
        <5>3. QED
          BY <4>3, <4>5, <5>2 DEF Spending
      <4>6. QED
        BY <4>4, <4>5
    <3>2. CASE remaining[e] = Unlimited
      <4>1. delegated' = delegated /\ granted' = granted
        BY <1>6, <2>1, <2>6, <3>2 DEF CommitDelegate, TypeOK
      <4>2. QED
        BY <3>2, <4>1, SpendingKept DEF Spending
    <3>3. QED
      BY <3>1, <3>2
  <2>11. status' = [status EXCEPT ![c] = "active"]
         /\ delegatedFrom' = [delegatedFrom EXCEPT ![c] = e]
    BY <2>8 DEF Insert
  <2>12. Contract!HandOn(e, c, n)
    BY <2>3, <2>6, <2>7, <2>8, <2>9, <2>10, <2>11 DEF Contract!HandOn, Spending
  <2>13. QED
    BY <2>3, <2>12 DEF Contract!Next
<1>7. ASSUME PassDeadline \/ UNCHANGED vars PROVE rows' = rows
  BY <1>7 DEF PassDeadline, vars
<1>8. ASSUME NEW s \in Sessions,
             \/ \E e \in Ents : BeginRead(s, e)
             \/ \E e \in Ents, n \in Amounts : BeginDelegate(s, e, n)
             \/ LoseRace(s) \/ Abort(s)
      PROVE  rows' = rows
  BY <1>8 DEF BeginRead, BeginDelegate, LoseRace, Abort
<1>9. QED
  BY <1>1, <1>2, <1>3, <1>4, <1>5, <1>6, <1>7, <1>8 DEF Next

LEMMA InitContract == Init => Contract!Init
BY DEF Init, Contract!Init, Spent

LEMMA AlwaysTold == Spec => [](IInv /\ CopiesTell)
  BY InitIInv, StepIInv, InitCopiesTell, StepCopiesTell, PTL DEF Spec

\* The two statements of a read or of a delegation amount to one step of the
\* contract, for any rows, requests, quotas and amounts, but for those that end
\* on a row another request has changed.
THEOREM ReadsAreAtomic == Spec => ServesAtomically
<1>1. IInv /\ CopiesTell /\ [Next]_vars =>
        [Contract!Next \/ \E s \in Sessions : Stale(s)]_(Contract!vars)
  BY StepContract
<1>2. Spec => Contract!Init /\ [][Contract!Next \/ \E s \in Sessions : Stale(s)]_(Contract!vars)
  BY <1>1, AlwaysTold, InitContract, PTL DEF Spec
<1>3. QED
  BY <1>2 DEF ServesAtomically

\* At most one request works on an entitlement.
ReadsApart ==
    \A s, t \in Sessions :
        pc[s] # "idle" /\ pc[t] # "idle" /\ target[s] = target[t] => s = t

\* Then its copy is the row, which is still active, and the account is exact.
CopiesCurrent ==
    \A s \in Sessions : pc[s] \in {"exhaust", "decrement", "delegate"} =>
        status[target[s]] = "active" /\ snapshot[s] = remaining[target[s]]

Exact ==
    \A e \in Ents :
        /\ ~Held(e) => Spent(e) = 0 /\ credited[e] = 0
        /\ Metered(e) => Balance(e) = quota[e] + credited[e]

ApartInv == CopiesCurrent /\ Exact

LEMMA InitApart == Init => ApartInv
BY DEF Init, ApartInv, CopiesCurrent, Exact, Spent, Held, Metered

\* What the account of a row says.
LEMMA Accounts ==
  ASSUME TypeOK, NEW e \in Ents
  PROVE  /\ Spent(e) \in Nat
         /\ Exact /\ status[e] = "absent" => Spent(e) = 0 /\ credited[e] = 0
         /\ Exact /\ status[e] # "absent" /\ quota[e] # Unlimited
              => remaining[e] + Spent(e) = quota[e] + credited[e]
<1>1. Spent(e) \in Nat
  BY DEF TypeOK, Spent
<1>2. ASSUME Exact, status[e] = "absent" PROVE Spent(e) = 0 /\ credited[e] = 0
  BY <1>2 DEF Exact, Held
<1>3. ASSUME Exact, status[e] # "absent", quota[e] # Unlimited
      PROVE  remaining[e] + Spent(e) = quota[e] + credited[e]
  BY <1>3 DEF Exact, Metered, Held, Balance
<1>4. QED
  BY <1>1, <1>2, <1>3

\* It stays exact if every row gives what it takes.
LEMMA AccountsStay ==
  ASSUME \A e \in Ents :
             /\ status'[e] = "absent" => Spent(e)' = 0 /\ credited'[e] = 0
             /\ status'[e] # "absent" /\ quota'[e] # Unlimited
                  => remaining'[e] + Spent(e)' = quota'[e] + credited'[e]
  PROVE  Exact'
BY DEF Exact, Held, Metered, Balance

\* Nobody else writes the row of a request.
LEMMA StepApart == IInv /\ ApartInv /\ ReadsApart /\ [Next]_vars => ApartInv'
<1> SUFFICES ASSUME IInv, ApartInv, ReadsApart, [Next]_vars PROVE ApartInv'
  OBVIOUS
<1> USE UnlimitedAssumption, QuotasAssumption, AmountsAssumption, NoEntAssumption
<1> USE DEF IInv, TypeOK, TargetsHeld, Held, ApartInv, CopiesCurrent, ReadsApart
<1>0. ASSUME NEW e \in Ents
      PROVE  /\ Spent(e) \in Nat
             /\ status[e] = "absent" => Spent(e) = 0 /\ credited[e] = 0
             /\ status[e] # "absent" /\ quota[e] # Unlimited
                  => remaining[e] + Spent(e) = quota[e] + credited[e]
  BY Accounts
<1>1. ASSUME UNCHANGED rows PROVE Exact'
  BY <1>1 DEF rows, Exact, Metered, Balance, Spent
<1>2. ASSUME NEW e \in Ents, Provision(e) PROVE ApartInv'
  <2>1. PICK n \in Quotas : /\ Insert(e, "pending_payment", n, NoEnt)
                            /\ remaining' = [remaining EXCEPT ![e] = n]
    BY <1>2 DEF Provision
  <2>2. status[e] = "absent" /\ UNCHANGED <<granted, delegated, credited, pc, target, snapshot>>
    BY <1>2 DEF Provision, txs
  <2>3. CopiesCurrent'
    BY <2>1, <2>2 DEF Insert
  <2>4. /\ status'[e] = "pending_payment" /\ quota'[e] = n /\ remaining'[e] = n
        /\ \A f \in Ents \ {e} : /\ status'[f] = status[f] /\ quota'[f] = quota[f]
                                 /\ remaining'[f] = remaining[f]
    BY <2>1 DEF Insert
  <2>5. \A f \in Ents : Spent(f)' = Spent(f)
    BY <2>2 DEF Spent
  <2>6. Exact'
    BY <1>0, <2>2, <2>4, <2>5, AccountsStay
  <2>7. QED
    BY <2>3, <2>6
<1>3. ASSUME NEW e \in Ents, Activate(e) \/ ExpireUnpaid(e) PROVE ApartInv'
  BY <1>3 DEF Activate, ExpireUnpaid, txs, Exact, Metered, Balance, Spent
<1>4. ASSUME NEW s \in Sessions,
             \/ \E e \in Ents : BeginRead(s, e)
             \/ \E e \in Ents, n \in Amounts : BeginDelegate(s, e, n)
      PROVE  ApartInv'
  BY <1>1, <1>4 DEF BeginRead, Decision, BeginDelegate, rows
<1>5. ASSUME NEW s \in Sessions, CommitExpire(s) \/ CommitExhaust(s) PROVE ApartInv'
  BY <1>5 DEF CommitExpire, CommitExhaust, Close, Finish, Exact, Metered, Balance, Spent
<1>6. ASSUME NEW s \in Sessions, CommitDecrement(s) PROVE ApartInv'
  <2>1. PICK e \in Ents : /\ e = target[s] /\ Held(e) /\ quota[e] # Unlimited
                          /\ snapshot[s] = remaining[e] /\ status[e] = "active"
    BY <1>6 DEF CommitDecrement, CopiesCover
  <2>2. /\ remaining' = [remaining EXCEPT ![e] = remaining[e] - 1]
        /\ status' = [status EXCEPT ![e] = IF remaining[e] - 1 = 0 THEN "exhausted" ELSE @]
        /\ UNCHANGED <<quota, delegated, credited>> /\ remaining[e] \in Int
    BY <1>6, <2>1 DEF CommitDecrement, UnlimitedTogether
  <2>3. /\ pc'[s] = "idle"
        /\ \A t \in Sessions \ {s} : /\ pc'[t] = pc[t] /\ target'[t] = target[t]
                                     /\ snapshot'[t] = snapshot[t]
        /\ \A t \in Sessions \ {s} : pc[t] # "idle" => target[t] # e
    BY <1>6, <2>1 DEF CommitDecrement, Finish
  <2>4. CopiesCurrent'
    BY <2>2, <2>3
  <2>5. \A f \in Ents : Spent(f)' = IF f = e THEN Spent(f) + 1 ELSE Spent(f)
    BY <1>6, <2>1 DEF CommitDecrement, Spent
  <2>6. (remaining[e] - 1) + (Spent(e) + 1) = remaining[e] + Spent(e)
    BY <1>0, <2>2
  <2>7. Exact'
    BY <1>0, <2>1, <2>2, <2>5, <2>6, AccountsStay
  <2>8. QED
    BY <2>4, <2>7
<1>7. ASSUME NEW s \in Sessions, LoseRace(s) \/ Abort(s) PROVE ApartInv'
  BY <1>1, <1>7 DEF LoseRace, Abort, Finish, rows
<1>8. ASSUME NEW s \in Sessions, CommitDelegate(s) PROVE ApartInv'
  <2>1. PICK e \in Ents, n \in Int : /\ e = target[s] /\ n = amount[s] /\ Held(e)
                                     /\ snapshot[s] = remaining[e] /\ status[e] = "active"
    BY <1>8 DEF CommitDelegate
  <2>2. PICK c \in Ents :
          /\ status[c] = "absent" /\ Insert(c, "active", n, e)
          /\ remaining' = [remaining EXCEPT
                             ![e] = IF snapshot[s] # Unlimited THEN snapshot[s] - n ELSE @,
                             ![c] = n]
    BY <1>8, <2>1 DEF CommitDelegate
  <2>3. e # c
    BY <2>1, <2>2
  <2>4. /\ remaining'[e] = IF remaining[e] # Unlimited THEN remaining[e] - n ELSE remaining[e]
        /\ remaining'[c] = n
        /\ \A f \in Ents \ {e, c} : remaining'[f] = remaining[f]
        /\ \A f \in Ents \ {c} : status'[f] = status[f] /\ quota'[f] = quota[f]
        /\ status'[c] = "active" /\ quota'[c] = n
    BY <2>1, <2>2, <2>3 DEF Insert
  <2>5. /\ Spent(e)' = IF remaining[e] # Unlimited THEN Spent(e) + Positive(n) ELSE Spent(e)
        /\ credited'[e] = IF remaining[e] # Unlimited THEN credited[e] + Positive(-n) ELSE credited[e]
        /\ \A f \in Ents \ {e} : Spent(f)' = Spent(f) /\ credited'[f] = credited[f]
    BY <1>8, <2>1 DEF CommitDelegate, Spent, Positive
  <2>6. /\ pc'[s] = "idle"
        /\ \A t \in Sessions \ {s} : /\ pc'[t] = pc[t] /\ target'[t] = target[t]
                                     /\ snapshot'[t] = snapshot[t]
        /\ \A t \in Sessions \ {s} : pc[t] # "idle" => target[t] # e
        /\ \A t \in Sessions : pc[t] # "idle" => target[t] # c
    BY <1>8, <2>1, <2>2 DEF CommitDelegate, Finish
  <2>7. CopiesCurrent'
    BY <2>4, <2>6
  <2>8. ASSUME remaining[e] # Unlimited, quota[e] # Unlimited
        PROVE  (remaining[e] - n) + (Spent(e) + Positive(n))
                 = quota[e] + (credited[e] + Positive(-n))
    <3>1. remaining[e] + Spent(e) = quota[e] + credited[e]
      BY <1>0, <2>1, <2>8
    <3>2. remaining[e] \in Int /\ Spent(e) \in Nat /\ quota[e] \in Int /\ credited[e] \in Nat
      BY <1>0, <2>1, <2>8
    <3>3. QED
      BY <2>1, <3>1, <3>2 DEF Positive
  <2>9. Spent(c)' = 0 /\ credited'[c] = 0 /\ n + 0 = n
    BY <1>0, <2>2, <2>3, <2>5
  <2>10. quota[e] # Unlimited => remaining[e] # Unlimited
    BY DEF UnlimitedTogether
  <2>11. Exact'
    BY <1>0, <2>1, <2>3, <2>4, <2>5, <2>8, <2>9, <2>10, AccountsStay
  <2>12. QED
    BY <2>7, <2>11
<1>9. CASE PassDeadline \/ UNCHANGED vars
  BY <1>1, <1>9 DEF PassDeadline, vars, rows, txs
<1>10. QED
  BY <1>2, <1>3, <1>4, <1>5, <1>6, <1>7, <1>8, <1>9 DEF Next

LEMMA AlwaysApart == Spec /\ []ReadsApart => [](IInv /\ CopiesTell /\ ApartInv)
  BY AlwaysTold, InitApart, StepApart, PTL DEF Spec

\* "Read requests decrement reads exactly once", while requests do not work on
\* one entitlement at once: the quota is overspent by what negative delegations
\* have added to it, and by no more.
THEOREM SpentWithinQuota == Spec /\ []ReadsApart => []SpentWithinMeans
<1>1. IInv /\ ApartInv => SpentWithinMeans
  <2> SUFFICES ASSUME IInv, ApartInv, NEW e \in Ents, Metered(e), quota[e] >= 0
               PROVE  Spent(e) <= quota[e] + credited[e]
    BY DEF SpentWithinMeans
  <2>1. remaining[e] + Spent(e) = quota[e] + credited[e]
    BY DEF ApartInv, Exact, Balance
  <2>2. /\ remaining[e] \in Int /\ Spent(e) \in Nat
        /\ quota[e] \in Int /\ credited[e] \in Nat
    BY UnlimitedAssumption DEF IInv, TypeOK, UnlimitedTogether, Metered, Spent
  <2>3. remaining[e] >= 0
    BY <2>2, UnlimitedAssumption DEF IInv, NegativeFromBirth
  <2>4. QED
    BY <2>1, <2>2, <2>3
<1>2. QED
  BY <1>1, AlwaysApart, PTL

\* And the rows implement the contract of an entitlement without exception.
THEOREM ImplementsQuota == Spec /\ []ReadsApart => Contract!Spec
<1>1. IInv /\ CopiesTell /\ ApartInv /\ [Next]_vars => [Contract!Next]_(Contract!vars)
  <2>1. ASSUME ApartInv PROVE ~(\E s \in Sessions : Stale(s))
    BY <2>1 DEF ApartInv, CopiesCurrent, Stale
  <2>2. QED
    BY <2>1, StepContract
<1>2. Spec /\ []ReadsApart => Contract!Init /\ [][Contract!Next]_(Contract!vars)
  BY <1>1, AlwaysApart, InitContract, PTL DEF Spec
<1>3. QED
  BY <1>2 DEF Contract!Spec

-----------------------------------------------------------------------------
(* Sums over finite sets.                                                  *)

\* An element of a set, and the sum over a set as the recursion computes it:
\* no element, or one and the sum over the others.
Some(s)       == CHOOSE x \in s : TRUE
Unfold(f, g, s) == IF s = {} THEN 0 ELSE f[Some(s)] + g[s \ {Some(s)}]
Unfolds(f, g, S) == g = [s \in SUBSET S |-> Unfold(f, g, s)]

\* Induction, for a set of numbers in place of an operator.
LEMMA NatInd == ASSUME NEW T \in SUBSET Nat, 0 \in T, \A n \in T : n + 1 \in T PROVE T = Nat
<1> DEFINE B == Nat \ T
<1>1. SUFFICES ASSUME B # {} PROVE FALSE
  OBVIOUS
<1>2. PICK x \in B : \A y \in B : ~ (<<y, x>> \in OpToRel(<, Nat))
  BY <1>1, WFMin, NatLessThanWellFounded
<1>3. \A y \in B : ~(y < x)
  BY <1>2 DEF OpToRel
<1>4. x # 0 /\ x - 1 \in Nat /\ x - 1 < x /\ (x - 1) + 1 = x
  OBVIOUS
<1>5. x - 1 \in T
  BY <1>3, <1>4
<1>6. QED
  BY <1>4, <1>5

\* One element less.
LEMMA Smaller ==
  ASSUME NEW s, IsFiniteSet(s), s # {}
  PROVE  /\ Some(s) \in s /\ IsFiniteSet(s \ {Some(s)})
         /\ Cardinality(s) \in Nat \ {0}
         /\ Cardinality(s \ {Some(s)}) = Cardinality(s) - 1
         /\ Cardinality(s \ {Some(s)}) \in Nat
<1>1. Some(s) \in s
  BY DEF Some
<1>2. Cardinality(s) \in Nat /\ Cardinality(s) # 0
  BY FS_CardinalityType, FS_EmptySet
<1>3. QED
  BY <1>1, <1>2, FS_RemoveElement

\* The function the recursion of the sum defines exists on the subsets of a
\* finite set, and is the same whatever set it is computed on.
LEMMA UnfoldingExists ==
  ASSUME NEW f, NEW S, IsFiniteSet(S)
  PROVE  \E g : Unfolds(f, g, S)
<1> DEFINE Small(n) == {s \in SUBSET S : Cardinality(s) <= n}
           Good == {n \in Nat : \E g : \A s \in Small(n) : g[s] = Unfold(f, g, s)}
<1>1. \A s \in SUBSET S : IsFiniteSet(s) /\ Cardinality(s) \in Nat
  BY FS_Subset, FS_CardinalityType
<1>2. 0 \in Good
  <2> DEFINE g == [s \in SUBSET S |-> 0]
  <2>1. \A s \in Small(0) : s = {}
    BY <1>1, FS_EmptySet
  <2>2. \A s \in Small(0) : g[s] = Unfold(f, g, s)
    BY <2>1 DEF Unfold
  <2> HIDE DEF g
  <2>3. QED
    BY <2>2
<1>3. ASSUME NEW n \in Good PROVE n + 1 \in Good
  <2>1. PICK g : \A s \in Small(n) : g[s] = Unfold(f, g, s)
    BY <1>3
  <2> DEFINE h == [s \in SUBSET S |-> Unfold(f, g, s)]
  <2>2. \A s \in Small(n) : h[s] = g[s]
    BY <2>1
  <2>3. ASSUME NEW s \in Small(n + 1) PROVE h[s] = Unfold(f, h, s)
    <3>1. CASE s = {}
      BY <3>1 DEF Unfold
    <3>2. CASE s # {}
      <4>1. s \ {Some(s)} \in Small(n)
        BY <1>1, <3>2, Smaller
      <4>2. h[s \ {Some(s)}] = g[s \ {Some(s)}]
        BY <2>2, <4>1
      <4>3. QED
        BY <3>2, <4>2 DEF Unfold
    <3>3. QED
      BY <3>1, <3>2
  <2> HIDE DEF h
  <2>4. QED
    BY <2>3
<1> HIDE DEF Good
<1>4. Good = Nat
  BY <1>2, <1>3, NatInd DEF Good
<1>5. Cardinality(S) \in Good
  BY <1>4, FS_CardinalityType
<1>6. PICK g : \A s \in Small(Cardinality(S)) : g[s] = Unfold(f, g, s)
  BY <1>5 DEF Good
<1>7. \A s \in SUBSET S : g[s] = Unfold(f, g, s)
  BY <1>6, FS_Subset
<1> DEFINE h == [s \in SUBSET S |-> g[s]]
<1>8. \A s \in SUBSET S : h[s] = Unfold(f, h, s)
  <2>1. TAKE s \in SUBSET S
  <2>2. s # {} => s \ {Some(s)} \in SUBSET S
    OBVIOUS
  <2>3. QED
    BY <1>7, <2>2 DEF Unfold
<1>9. Unfolds(f, h, S)
  BY <1>8 DEF Unfolds
<1>10. QED
  BY <1>9

LEMMA UnfoldingsAgree ==
  ASSUME NEW f, NEW S, NEW T, IsFiniteSet(S), NEW g, NEW h,
         Unfolds(f, g, S), Unfolds(f, h, T)
  PROVE  \A s \in SUBSET (S \cap T) : g[s] = h[s]
<1> DEFINE Small(n) == {s \in SUBSET (S \cap T) : Cardinality(s) <= n}
           Good == {n \in Nat : \A s \in Small(n) : g[s] = h[s]}
<1>1. \A s \in SUBSET (S \cap T) :
         /\ IsFiniteSet(s) /\ Cardinality(s) \in Nat /\ Cardinality(s) <= Cardinality(S)
         /\ g[s] = Unfold(f, g, s) /\ h[s] = Unfold(f, h, s)
  BY FS_Subset, FS_CardinalityType DEF Unfolds
<1>2. 0 \in Good
  <2>1. \A s \in Small(0) : s = {}
    BY <1>1, FS_EmptySet
  <2>2. QED
    BY <1>1, <2>1 DEF Unfold
<1>3. ASSUME NEW n \in Good PROVE n + 1 \in Good
  <2>1. SUFFICES ASSUME NEW s \in Small(n + 1) PROVE g[s] = h[s]
    OBVIOUS
  <2>2. CASE s = {}
    BY <1>1, <2>2 DEF Unfold
  <2>3. CASE s # {}
    <3>1. s \ {Some(s)} \in Small(n)
      BY <1>1, <2>3, Smaller
    <3>2. QED
      BY <1>1, <2>3, <3>1 DEF Unfold
  <2>4. QED
    BY <2>2, <2>3
<1> HIDE DEF Good
<1>4. Good \subseteq Nat
  BY DEF Good
<1>5. Cardinality(S) \in Good
  BY <1>2, <1>3, <1>4, NatInd, FS_CardinalityType
<1>6. QED
  BY <1>1, <1>5 DEF Good

\* SumFunctionOnSet is that function: what the next lemmas say of sums follows
\* from its equation.
LEMMA SumUnfolds ==
  ASSUME NEW f, NEW S, IsFiniteSet(S)
  PROVE  \E g : Unfolds(f, g, S) /\ SumFunctionOnSet(f, S) = g[S]
<1> DEFINE It == CHOOSE g : g = [s \in SUBSET S |-> IF s = {} THEN 0
              ELSE f[CHOOSE x \in s : TRUE] + g[s \ {CHOOSE x \in s : TRUE}]]
<1>1. SumFunctionOnSet(f, S) = It[S]
  BY DEF SumFunctionOnSet, FoldFunctionOnSet, MapThenFoldSet
<1>2. It = CHOOSE g : Unfolds(f, g, S)
  BY DEF Unfolds, Unfold, Some
<1> HIDE DEF It
<1>3. Unfolds(f, It, S)
  BY <1>2, UnfoldingExists
<1>4. QED
  BY <1>1, <1>3

\* The sum over nothing, and over a set from which one element is taken out:
\* first the one the recursion takes, then (SumTakesOut) any.
LEMMA SumEmpty == ASSUME NEW f PROVE SumFunctionOnSet(f, {}) = 0
<1>1. PICK g : Unfolds(f, g, {}) /\ SumFunctionOnSet(f, {}) = g[{}]
  BY SumUnfolds, FS_EmptySet
<1>2. g[{}] = 0
  BY <1>1 DEF Unfolds, Unfold
<1>3. QED
  BY <1>1, <1>2

LEMMA SumSplit ==
  ASSUME NEW f, NEW S, IsFiniteSet(S), S # {}
  PROVE  SumFunctionOnSet(f, S) = f[Some(S)] + SumFunctionOnSet(f, S \ {Some(S)})
<1> DEFINE R == S \ {Some(S)}
<1>1. IsFiniteSet(R) /\ R \subseteq S
  BY Smaller
<1>2. PICK g : Unfolds(f, g, S) /\ SumFunctionOnSet(f, S) = g[S]
  BY SumUnfolds
<1>3. PICK h : Unfolds(f, h, R) /\ SumFunctionOnSet(f, R) = h[R]
  BY <1>1, SumUnfolds
<1>4. g[R] = h[R]
  BY <1>1, <1>2, <1>3, UnfoldingsAgree
<1>5. g[S] = f[Some(S)] + g[R]
  BY <1>2 DEF Unfolds, Unfold
<1>6. QED
  BY <1>2, <1>3, <1>4, <1>5

\* Induction over the subsets of a finite set.
LEMMA SetInd ==
  ASSUME NEW S, IsFiniteSet(S), NEW G, {} \in G,
         \A T \in SUBSET S : T \in G => \A x \in S \ T : T \cup {x} \in G
  PROVE  S \in G
<1> DEFINE Good == {n \in Nat : \A s \in SUBSET S : Cardinality(s) <= n => s \in G}
<1>1. \A s \in SUBSET S : IsFiniteSet(s) /\ Cardinality(s) \in Nat /\ Cardinality(s) <= Cardinality(S)
  BY FS_Subset, FS_CardinalityType
<1>2. 0 \in Good
  <2>1. \A s \in SUBSET S : Cardinality(s) <= 0 => s = {}
    BY <1>1, FS_EmptySet
  <2>2. QED
    BY <2>1
<1>3. ASSUME NEW n \in Good PROVE n + 1 \in Good
  <2>1. SUFFICES ASSUME NEW s \in SUBSET S, Cardinality(s) <= n + 1, s # {} PROVE s \in G
    OBVIOUS
  <2>2. s \ {Some(s)} \in G /\ Some(s) \in S \ (s \ {Some(s)})
    BY <1>1, <2>1, Smaller
  <2>3. (s \ {Some(s)}) \cup {Some(s)} = s
    BY <1>1, <2>1, Smaller
  <2>4. QED
    BY <2>2, <2>3
<1> HIDE DEF Good
<1>4. Good \subseteq Nat
  BY DEF Good
<1>5. Cardinality(S) \in Good
  BY <1>2, <1>3, <1>4, NatInd, FS_CardinalityType
<1>6. QED
  BY <1>1, <1>5 DEF Good

\* The order in which the rows are added does not matter.
LEMMA SumTakesOut ==
  ASSUME NEW S, IsFiniteSet(S), NEW f, \A x \in S : f[x] \in Nat
  PROVE  /\ SumFunctionOnSet(f, S) \in Nat
         /\ \A x \in S : SumFunctionOnSet(f, S) = f[x] + SumFunctionOnSet(f, S \ {x})
<1> DEFINE Taken(s) == /\ SumFunctionOnSet(f, s) \in Nat
                       /\ \A x \in s : SumFunctionOnSet(f, s) = f[x] + SumFunctionOnSet(f, s \ {x})
           Good == {n \in Nat : \A s \in SUBSET S : Cardinality(s) <= n => Taken(s)}
<1>1. \A s \in SUBSET S : IsFiniteSet(s) /\ Cardinality(s) \in Nat /\ Cardinality(s) <= Cardinality(S)
  BY FS_Subset, FS_CardinalityType
<1>2. 0 \in Good
  <2>1. \A s \in SUBSET S : Cardinality(s) <= 0 => s = {}
    BY <1>1, FS_EmptySet
  <2>2. Taken({})
    BY SumEmpty
  <2> HIDE DEF Taken
  <2>3. QED
    BY <2>1, <2>2
<1>3. ASSUME NEW n \in Good PROVE n + 1 \in Good
  <2>1. SUFFICES ASSUME NEW s \in SUBSET S, Cardinality(s) <= n + 1, s # {} PROVE Taken(s)
    BY SumEmpty
  <2> DEFINE c == Some(s)
             sum(t) == SumFunctionOnSet(f, t)
  <2>2. c \in s /\ IsFiniteSet(s) /\ Cardinality(s \ {c}) <= n /\ f[c] \in Nat
    BY <1>1, <2>1, Smaller
  <2>3. sum(s) = f[c] + sum(s \ {c})
    BY <1>1, <2>1, SumSplit
  <2>4. Taken(s \ {c})
    BY <1>3, <2>2
  <2>5. ASSUME NEW x \in s PROVE sum(s) = f[x] + sum(s \ {x})
    <3>1. CASE x = c
      BY <2>3, <3>1
    <3>2. CASE x # c
      <4>1. Cardinality(s \ {x}) <= n
        BY <1>1, <2>1, FS_RemoveElement
      <4>2. Taken(s \ {x}) /\ x \in s \ {c} /\ c \in s \ {x}
        BY <1>3, <2>2, <3>2, <4>1
      <4>3. (s \ {x}) \ {c} = (s \ {c}) \ {x}
        OBVIOUS
      <4>4. sum((s \ {c}) \ {x}) \in Nat /\ f[x] \in Nat
        <5>1. Cardinality((s \ {c}) \ {x}) <= n
          <6>1. (s \ {c}) \ {x} \subseteq s \ {c} /\ IsFiniteSet(s \ {c})
            BY <1>1
          <6>2. Cardinality((s \ {c}) \ {x}) <= Cardinality(s \ {c})
            BY <6>1, FS_Subset
          <6>3. Cardinality((s \ {c}) \ {x}) \in Nat /\ Cardinality(s \ {c}) \in Nat
            BY <1>1
          <6>4. QED
            BY <2>2, <6>2, <6>3
        <5>2. QED
          BY <1>3, <5>1
      <4>5. /\ sum(s \ {c}) = f[x] + sum((s \ {c}) \ {x})
            /\ sum(s \ {x}) = f[c] + sum((s \ {c}) \ {x})
        BY <2>4, <4>2, <4>3
      <4> HIDE DEF c, sum
      <4>6. QED
        BY <2>2, <2>3, <4>4, <4>5
    <3>3. QED
      BY <3>1, <3>2
  <2>6. QED
    BY <2>2, <2>3, <2>4, <2>5
<1> HIDE DEF Good
<1>4. Good \subseteq Nat
  BY DEF Good
<1>5. Cardinality(S) \in Good
  BY <1>2, <1>3, <1>4, NatInd, FS_CardinalityType
<1>6. QED
  BY <1>1, <1>5 DEF Good

\* One row more.
LEMMA SumAdds ==
  ASSUME NEW S, IsFiniteSet(S), NEW x, x \notin S, NEW f, \A y \in S \cup {x} : f[y] \in Nat
  PROVE  /\ SumFunctionOnSet(f, S \cup {x}) = f[x] + SumFunctionOnSet(f, S)
         /\ SumFunctionOnSet(f, S) \in Nat
<1>1. (S \cup {x}) \ {x} = S
  OBVIOUS
<1>2. IsFiniteSet(S \cup {x})
  BY FS_AddElement
<1>3. QED
  BY <1>1, <1>2, SumTakesOut

\* The sum reads nothing but the rows it is taken over.
LEMMA SumSame ==
  ASSUME NEW S, IsFiniteSet(S), NEW f, NEW g, \A x \in S : f[x] \in Nat /\ g[x] = f[x]
  PROVE  SumFunctionOnSet(f, S) = SumFunctionOnSet(g, S)
<1> DEFINE G == {s \in SUBSET S : SumFunctionOnSet(f, s) = SumFunctionOnSet(g, s)}
<1>1. {} \in G
  BY SumEmpty
<1>2. ASSUME NEW T \in SUBSET S, T \in G, NEW x \in S \ T PROVE T \cup {x} \in G
  <2>1. IsFiniteSet(T)
    BY FS_Subset
  <2>2. SumFunctionOnSet(f, T \cup {x}) = f[x] + SumFunctionOnSet(f, T)
    BY <2>1, SumAdds
  <2>3. SumFunctionOnSet(g, T \cup {x}) = g[x] + SumFunctionOnSet(g, T)
    BY <2>1, SumAdds
  <2>4. QED
    BY <1>2, <2>2, <2>3
<1> HIDE DEF G
<1>3. S \in G
  BY <1>1, <1>2, SetInd
<1>4. QED
  BY <1>3 DEF G

\* The sum over the rows of two disjoint sets.
LEMMA SumJoins ==
  ASSUME NEW A, IsFiniteSet(A), NEW B, IsFiniteSet(B), A \cap B = {},
         NEW f, \A x \in A : f[x] \in Nat, \A x \in B : f[x] \in Nat
  PROVE  /\ SumFunctionOnSet(f, A \cup B) = SumFunctionOnSet(f, A) + SumFunctionOnSet(f, B)
         /\ SumFunctionOnSet(f, A) \in Nat /\ SumFunctionOnSet(f, B) \in Nat
<1> DEFINE sum(t) == SumFunctionOnSet(f, t)
           G == {b \in SUBSET B : sum(A \cup b) = sum(A) + sum(b)}
<1>1. sum(A) \in Nat /\ sum(B) \in Nat
  BY SumTakesOut
<1>2. {} \in G
  <2>1. A \cup {} = A
    OBVIOUS
  <2>2. QED
    BY <1>1, <2>1, SumEmpty
<1>3. ASSUME NEW T \in SUBSET B, T \in G, NEW x \in B \ T PROVE T \cup {x} \in G
  <2>1. IsFiniteSet(T) /\ IsFiniteSet(A \cup T)
    BY FS_Subset, FS_Union
  <2>2. sum(T \cup {x}) = f[x] + sum(T) /\ sum(T) \in Nat
    BY <2>1, SumAdds
  <2>3. sum((A \cup T) \cup {x}) = f[x] + sum(A \cup T)
    BY <2>1, SumAdds
  <2>4. A \cup (T \cup {x}) = (A \cup T) \cup {x} /\ f[x] \in Nat
    OBVIOUS
  <2>5. sum(A \cup T) = sum(A) + sum(T)
    BY <1>3
  <2>6. sum(A \cup (T \cup {x})) = sum(A) + sum(T \cup {x})
    <3> HIDE DEF sum, G
    <3>1. sum(A \cup (T \cup {x})) = f[x] + sum(A \cup T)
      BY <2>3, <2>4, Zenon
    <3>2. QED
      BY <1>1, <2>2, <2>4, <2>5, <3>1
  <2>7. QED
    BY <2>6
<1> HIDE DEF G
<1>4. B \in G
  BY <1>1, <1>2, <1>3, SetInd
<1>5. QED
  BY <1>1, <1>4 DEF G

\* More rows, no smaller sum.
LEMMA SumGrows ==
  ASSUME NEW S, IsFiniteSet(S), NEW A \in SUBSET S, NEW f, \A x \in S : f[x] \in Nat
  PROVE  SumFunctionOnSet(f, A) <= SumFunctionOnSet(f, S)
<1>1. PICK B : B = S \ A
  OBVIOUS
<1>2. A \cap B = {} /\ A \cup B = S /\ IsFiniteSet(A) /\ IsFiniteSet(B)
  BY <1>1, FS_Subset
<1>3. /\ SumFunctionOnSet(f, A \cup B) = SumFunctionOnSet(f, A) + SumFunctionOnSet(f, B)
      /\ SumFunctionOnSet(f, A) \in Nat /\ SumFunctionOnSet(f, B) \in Nat
  BY <1>1, <1>2, SumJoins
<1>4. SumFunctionOnSet(f, S) = SumFunctionOnSet(f, A) + SumFunctionOnSet(f, B)
  BY <1>2, <1>3, Zenon
<1>5. QED
  BY <1>3, <1>4

-----------------------------------------------------------------------------
(* Payouts.                                                                *)

\* The outcomes that take off an agent's balance.
Counted == {"pending", "completed"}
\* The transfers to the agent that a sweep has inserted and not executed yet.
Executing(g) == {t \in UNION {mine[p] : p \in Processes} : transfer[t].balance.agent = g}
\* What a sweep has computed for the agent and not inserted yet.
DueTo(p, g) == {b \in due[p] : b.agent = g}
BalanceAmount == [b \in BalanceRow |-> b.amount]
Promised(p, g) == SumFunctionOnSet(BalanceAmount, DueTo(p, g))
\* The allocations of the agent that have been cleared.
ClearedOf(g) == {a \in Of(g) : event[a] = "cleared"}

\* Two sweeps never execute the same transfer, nor one that has an outcome.
MineApart == \A p \in Processes :
   /\ \A t \in mine[p] : transfer[t].status = "pending"
   /\ \A q \in Processes \ {p} : mine[p] \cap mine[q] = {}
\* A sweep holds one balance for an agent and a domain, and two sweeps hold
\* balances of the same agent only when they raced.
DueApart == \A p \in Processes :
   /\ IsFiniteSet(due[p])
   /\ \A b, c \in due[p] : b.agent = c.agent /\ b.domain = c.domain => b = c
   /\ \A q \in Processes \ {p} : \A b \in due[p] : \A c \in due[q] :
          b.agent = c.agent => b.agent \in raced
\* BooksMatchPayments counts the transfers whose payment is not yet made as if
\* it were: the room for them is what keeps it true when they are paid.
PaidWithin == \A g \in Agents :
   /\ Booked(Made(g, {"completed"})) <= sent[g]
   /\ sent[g] + Booked(Executing(g)) <= Booked(Made(g, Counted))
\* NeverOverpaid must hold of the balances a sweep has yet to insert.
PromisedWithin == \A g \in Agents \ raced :
   /\ Booked(Made(g, Counted)) <= Allocated(ClearedOf(g))
   /\ \A p \in Processes : Booked(Made(g, Counted)) + Promised(p, g) <= Allocated(ClearedOf(g))
\* The inductive invariant of the payouts.
PayoutInv == PayoutTypeOK /\ MineApart /\ DueApart /\ PaidWithin /\ PromisedWithin

\* The tables are finite, and so is what a query selects.
LEMMA RowsAreFinite ==
  /\ IsFiniteSet(Transfers) /\ \A T \in SUBSET Transfers : IsFiniteSet(T)
  /\ \A A \in SUBSET Allocations : IsFiniteSet(A)
<1>1. IsFiniteSet(Transfers)
  BY FS_Interval, BoundsAssumption DEF Transfers
<1>2. QED
  BY <1>1, FS_Subset, TablesAssumption

\* The amounts that are added are numbers.
LEMMA AmountsAreNat ==
  ASSUME PayoutTypeOK
  PROVE  /\ \A t \in Transfers : RowAmount[t] \in Nat
         /\ \A t \in Transfers : transfer[t].status \in Outcomes => transfer[t].balance \in BalanceRow
         /\ \A t \in Transfers : transfer[t] = Absent \/ transfer[t].status \in Outcomes
         /\ \A T \in SUBSET Transfers : Booked(T) \in Nat
         /\ \A A \in SUBSET Allocations : Allocated(A) \in Nat
         /\ \A p \in Processes : due[p] \subseteq BalanceRow
<1>1. \A t \in Transfers : \/ transfer[t] = Absent
                           \/ transfer[t].status \in Outcomes /\ transfer[t].balance \in BalanceRow
  BY DEF PayoutTypeOK
<1>2. Absent.status = "absent"
  BY DEF Absent
<1>3. \A t \in Transfers : RowAmount[t] \in Nat
  BY <1>1, <1>2 DEF RowAmount, Outcomes, BalanceRow
<1>4. \A T \in SUBSET Transfers : Booked(T) \in Nat
  BY <1>3, RowsAreFinite, SumTakesOut DEF Booked
<1>5. \A A \in SUBSET Allocations : Allocated(A) \in Nat
  <2> DEFINE f == [a \in Allocations |-> Share[a].amount]
  <2>1. \A a \in Allocations : f[a] \in Nat
    BY SharesAssumption
  <2> HIDE DEF f
  <2>2. \A A \in SUBSET Allocations : SumFunctionOnSet(f, A) \in Nat
    BY <2>1, RowsAreFinite, SumTakesOut
  <2>3. QED
    BY <2>2 DEF Allocated, f
<1>6. QED
  BY <1>1, <1>2, <1>3, <1>4, <1>5 DEF PayoutTypeOK, Outcomes

\* Allocations are summed as any rows are.
LEMMA AllocatedGrows ==
  ASSUME NEW A, NEW B \in SUBSET Allocations, A \subseteq B PROVE Allocated(A) <= Allocated(B)
<1> DEFINE f == [a \in Allocations |-> Share[a].amount]
<1>1. \A a \in Allocations : f[a] \in Nat
  BY SharesAssumption
<1> HIDE DEF f
<1>2. SumFunctionOnSet(f, A) <= SumFunctionOnSet(f, B)
  BY <1>1, RowsAreFinite, SumGrows
<1>3. QED
  BY <1>2 DEF Allocated, f

LEMMA AllocatedJoins ==
  ASSUME NEW A \in SUBSET Allocations, NEW B \in SUBSET Allocations, A \cap B = {}
  PROVE Allocated(A \cup B) = Allocated(A) + Allocated(B)
<1> DEFINE f == [a \in Allocations |-> Share[a].amount]
<1>1. \A a \in Allocations : f[a] \in Nat
  BY SharesAssumption
<1> HIDE DEF f
<1>2. SumFunctionOnSet(f, A \cup B) = SumFunctionOnSet(f, A) + SumFunctionOnSet(f, B)
  BY <1>1, RowsAreFinite, SumJoins
<1>3. QED
  BY <1>2 DEF Allocated, f

\* And so are transfers.
LEMMA BookedLaws ==
  ASSUME PayoutTypeOK, NEW T \in SUBSET Transfers
  PROVE  /\ \A U \in SUBSET T : Booked(U) <= Booked(T)
         /\ \A t \in T : Booked(T) = RowAmount[t] + Booked(T \ {t})
         /\ \A U \in SUBSET Transfers : T \cap U = {} => Booked(T \cup U) = Booked(T) + Booked(U)
<1>1. \A t \in Transfers : RowAmount[t] \in Nat
  BY AmountsAreNat
<1>2. \A U \in SUBSET T : Booked(U) <= Booked(T)
  BY <1>1, RowsAreFinite, SumGrows DEF Booked
<1>3. \A t \in T : Booked(T) = RowAmount[t] + Booked(T \ {t})
  BY <1>1, RowsAreFinite, SumTakesOut DEF Booked
<1>4. \A U \in SUBSET Transfers : T \cap U = {} => Booked(T \cup U) = Booked(T) + Booked(U)
  BY <1>1, RowsAreFinite, SumJoins DEF Booked
<1>5. QED
  BY <1>2, <1>3, <1>4

\* The rows whose amount a step leaves alone
LEMMA BookedKept ==
  ASSUME PayoutTypeOK, NEW T \in SUBSET Transfers, \A t \in T : RowAmount'[t] = RowAmount[t]
  PROVE  SumFunctionOnSet(RowAmount', T) = Booked(T)
<1>1. \A t \in T : RowAmount[t] \in Nat
  BY AmountsAreNat
<1>2. QED
  BY <1>1, RowsAreFinite, SumSame DEF Booked

\* And the balances a sweep holds.
LEMMA PromisedLaws ==
  ASSUME PayoutTypeOK, DueApart, NEW p \in Processes, NEW g \in Agents
  PROVE  /\ Promised(p, g) \in Nat
         /\ \A D \in SUBSET DueTo(p, g) : SumFunctionOnSet(BalanceAmount, D) <= Promised(p, g)
         /\ \A b \in DueTo(p, g) : Promised(p, g) = b.amount + SumFunctionOnSet(BalanceAmount, DueTo(p, g) \ {b})
<1>1. IsFiniteSet(DueTo(p, g)) /\ DueTo(p, g) \subseteq BalanceRow
  BY FS_Subset DEF DueApart, DueTo, PayoutTypeOK
<1>2. \A b \in BalanceRow : BalanceAmount[b] = b.amount /\ b.amount \in Nat
  BY DEF BalanceRow, BalanceAmount
<1>3. QED
  BY <1>1, <1>2, SumTakesOut, SumGrows DEF Promised

\* The amounts after a step.
AmountsNat ==
  /\ \A t \in Transfers : RowAmount[t] \in Nat
  /\ \A g \in Agents : Booked(Made(g, Counted)) \in Nat
  /\ \A p \in Processes : due[p] \subseteq BalanceRow

LEMMA AmountsAreNatNext == PayoutTypeOK' => AmountsNat'
<1>1. PayoutTypeOK => AmountsNat
  BY AmountsAreNat DEF Made, AmountsNat
<1>2. QED
  BY <1>1, PTL

\* A sweep that drops balances promises no more.
LEMMA PromisesShrink ==
  ASSUME PayoutTypeOK, PayoutTypeOK', DueApart, PromisedWithin,
         raced \subseteq raced', \A p \in Processes : due'[p] \subseteq due[p],
         \A g \in Agents : Booked(Made(g, Counted))' <= Booked(Made(g, Counted)),
         \A g \in Agents : ClearedOf(g) \subseteq ClearedOf(g)'
  PROVE  DueApart' /\ PromisedWithin'
<1>1. DueApart'
  <2>1. ASSUME NEW p \in Processes PROVE IsFiniteSet(due'[p])
    BY FS_Subset DEF DueApart
  <2>2. QED
    BY <2>1 DEF DueApart
<1>2. ASSUME NEW g \in Agents \ raced'
      PROVE  /\ Booked(Made(g, Counted))' <= Allocated(ClearedOf(g))'
             /\ \A p \in Processes : Booked(Made(g, Counted))' + Promised(p, g)' <= Allocated(ClearedOf(g))'
  <2> DEFINE booked == Booked(Made(g, Counted))
             cleared == Allocated(ClearedOf(g))
  <2>1. g \in Agents \ raced
    OBVIOUS
  <2>2. booked <= cleared /\ \A p \in Processes : booked + Promised(p, g) <= cleared
    BY <2>1 DEF PromisedWithin
  <2>3. ClearedOf(g) \in SUBSET Allocations /\ ClearedOf(g)' \in SUBSET Allocations
    BY DEF ClearedOf, Of
  <2>4. cleared <= cleared' /\ cleared \in Nat /\ cleared' \in Nat
    <3>1. cleared' = Allocated(ClearedOf(g)')
      BY DEF Allocated
    <3>2. QED
      BY <2>3, <3>1, AllocatedGrows, AmountsAreNat
  <2>5. booked' <= booked /\ booked \in Nat /\ booked' \in Nat
    BY AmountsAreNat, AmountsAreNatNext DEF Made, AmountsNat
  <2>6. ASSUME NEW p \in Processes
        PROVE  Promised(p, g)' <= Promised(p, g) /\ Promised(p, g) \in Nat /\ Promised(p, g)' \in Nat
    <3>1. DueTo(p, g)' \in SUBSET DueTo(p, g)
      BY DEF DueTo
    <3>2. Promised(p, g)' = SumFunctionOnSet(BalanceAmount, DueTo(p, g)')
      BY DEF Promised, BalanceAmount, BalanceRow
    <3>3. SumFunctionOnSet(BalanceAmount, DueTo(p, g)') <= Promised(p, g) /\ Promised(p, g) \in Nat
      BY <3>1, PromisedLaws
    <3>4. SumFunctionOnSet(BalanceAmount, DueTo(p, g)') \in Nat
      <4>1. IsFiniteSet(DueTo(p, g)')
        BY <3>1, FS_Subset DEF DueApart, DueTo
      <4>2. \A b \in DueTo(p, g)' : BalanceAmount[b] \in Nat
        BY AmountsAreNatNext DEF AmountsNat, DueTo, BalanceAmount, BalanceRow
      <4>3. QED
        BY <4>1, <4>2, SumTakesOut
    <3>5. QED
      BY <3>2, <3>3, <3>4
  <2> HIDE DEF booked, cleared
  <2>7. booked' <= cleared'
    BY <2>2, <2>4, <2>5
  <2>8. ASSUME NEW p \in Processes PROVE booked' + Promised(p, g)' <= cleared'
    BY <2>2, <2>4, <2>5, <2>6
  <2>9. QED
    BY <2>7, <2>8 DEF booked, cleared
<1>3. QED
  BY <1>1, <1>2 DEF PromisedWithin

\* A transfer that is settled keeps its balance.
LEMMA SettledRows ==
  ASSUME PayoutTypeOK, NEW t \in Transfers, transfer[t].status \in Outcomes, NEW outcome \in Outcomes,
         transfer' = [transfer EXCEPT ![t].status = outcome]
  PROVE  /\ transfer' \in [Transfers -> {Absent} \cup [status : Outcomes, balance : BalanceRow]]
         /\ \A u \in Transfers : transfer'[u].balance = transfer[u].balance
         /\ \A u \in Transfers \ {t} : transfer'[u] = transfer[u]
         /\ transfer'[t].status = outcome
         /\ RowAmount' = RowAmount
<1>1. transfer[t] # Absent /\ "absent" \notin Outcomes
  BY DEF Absent, Outcomes
<1>2. transfer[t] \in [status : Outcomes, balance : BalanceRow]
  BY <1>1 DEF PayoutTypeOK
<1>3. transfer'[t] = [transfer[t] EXCEPT !.status = outcome]
  BY DEF PayoutTypeOK
<1>4. transfer'[t].status = outcome /\ transfer'[t].balance = transfer[t].balance
      /\ transfer'[t] \in [status : Outcomes, balance : BalanceRow]
  BY <1>2, <1>3
<1>5. \A u \in Transfers \ {t} : transfer'[u] = transfer[u]
  BY DEF PayoutTypeOK
<1>6. transfer' \in [Transfers -> {Absent} \cup [status : Outcomes, balance : BalanceRow]]
  BY <1>4 DEF PayoutTypeOK
<1>7. RowAmount' = RowAmount
  BY <1>1, <1>4, <1>5 DEF RowAmount
<1>8. QED
  BY <1>4, <1>5, <1>6, <1>7

\* Earnings move on; nothing of the payouts changes.
LEMMA EarningStep ==
  ASSUME PayoutInv, \/ \E a \in Allocations : Allocate(a)
              \/ \E S \in SUBSET Allocations : Clear(S)
  PROVE  PayoutInv'
<1>1. UNCHANGED <<enabled, transfer, due, mine, sent, raced>> /\ faults' \in 0..MaxFaults
      /\ event' \in [Allocations -> Events]
      /\ \A a \in Allocations : event[a] = "cleared" => event'[a] = "cleared"
  <2>1. CASE \E a \in Allocations : Allocate(a)
    <3>1. PICK a \in Allocations : Allocate(a)
      BY <2>1
    <3>2. faults' \in 0..MaxFaults
      BY <3>1, BoundsAssumption DEF PayoutInv, PayoutTypeOK, Allocate, Fault
    <3>3. \E e \in Events : event' = [event EXCEPT ![a] = e] /\ event[a] = "none"
      BY <3>1 DEF Allocate, Events
    <3>4. QED
      BY <3>1, <3>2, <3>3 DEF PayoutInv, PayoutTypeOK, Allocate
  <2>2. CASE \E S \in SUBSET Allocations : Clear(S)
    <3>1. PICK S \in SUBSET Allocations : Clear(S)
      BY <2>2
    <3>2. event' \in [Allocations -> Events]
      BY <3>1 DEF PayoutInv, PayoutTypeOK, Clear, Events
    <3>3. QED
      BY <3>1, <3>2 DEF PayoutInv, PayoutTypeOK, Clear
  <2>3. QED
    BY <2>1, <2>2
<1>2. PayoutTypeOK'
  BY <1>1 DEF PayoutInv, PayoutTypeOK
<1>3. MineApart' /\ PaidWithin'
  <2>1. MineApart'
    BY <1>1 DEF PayoutInv, MineApart
  <2>2. RowAmount' = RowAmount
    BY <1>1 DEF RowAmount
  <2>3. \A g \in Agents : /\ Booked(Made(g, {"completed"}))' = Booked(Made(g, {"completed"}))
                         /\ Booked(Made(g, Counted))' = Booked(Made(g, Counted))
    BY <1>1, <2>2 DEF Booked, Made
  <2>4. \A g \in Agents : Booked(Executing(g))' = Booked(Executing(g))
    BY <1>1, <2>2 DEF Booked, Executing
  <2>5. QED
    BY <1>1, <2>1, <2>3, <2>4 DEF PayoutInv, PaidWithin
<1>4. DueApart' /\ PromisedWithin'
  <2>1. \A g \in Agents : Booked(Made(g, Counted))' <= Booked(Made(g, Counted))
    <3>1. \A g \in Agents : Booked(Made(g, Counted))' = Booked(Made(g, Counted))
      BY <1>1 DEF Booked, RowAmount, Made
    <3>2. \A g \in Agents : Booked(Made(g, Counted)) \in Nat
      BY AmountsAreNat DEF PayoutInv, Made
    <3>3. QED
      BY <3>1, <3>2
  <2>2. \A g \in Agents : ClearedOf(g) \subseteq ClearedOf(g)'
    BY <1>1 DEF ClearedOf, Of
  <2>3. QED
    BY <1>1, <1>2, <2>1, <2>2, PromisesShrink DEF PayoutInv
<1>5. QED
  BY <1>2, <1>3, <1>4 DEF PayoutInv

\* A sweep settles a transfer or ends: what is left to it is less than before.
LEMMA MineShrinks ==
  ASSUME MineApart, PayoutTypeOK, \A p \in Processes : mine'[p] \subseteq mine[p],
         \A p \in Processes : \A t \in mine'[p] : transfer'[t].status = transfer[t].status
  PROVE  MineApart'
  BY DEF MineApart

\* A sweep that ends holds nothing.
LEMMA AbandonTypes ==
  ASSUME PayoutTypeOK, NEW p \in Processes, Abandon(p)
  PROVE  /\ due' \in [Processes -> SUBSET BalanceRow] /\ mine' \in [Processes -> SUBSET Transfers]
         /\ \A q \in Processes : due'[q] \subseteq due[q]
         /\ \A q \in Processes : mine'[q] = IF q = p THEN {} ELSE mine[q]
         /\ faults' \in 0..MaxFaults
<1>1. due' = [due EXCEPT ![p] = {}] /\ mine' = [mine EXCEPT ![p] = {}]
  BY DEF Abandon
<1>2. faults' \in 0..MaxFaults
  BY BoundsAssumption DEF PayoutTypeOK, Abandon, Fault
<1>3. QED
  BY <1>1, <1>2 DEF PayoutTypeOK

\* Nothing is booked or paid when a process dies.
LEMMA DieStep ==
  ASSUME PayoutInv, NEW p \in Processes, Die(p)
  PROVE  PayoutInv'
<1>1. UNCHANGED <<enabled, event, transfer, sent, raced>> /\ Abandon(p)
  BY DEF Die
<1>2. PayoutTypeOK'
  BY <1>1, AbandonTypes DEF PayoutInv, PayoutTypeOK
<1>3. MineApart'
  BY <1>1, AbandonTypes, MineShrinks DEF PayoutInv
<1>4. DueApart' /\ PromisedWithin'
  <2>1. \A g \in Agents : Booked(Made(g, Counted))' <= Booked(Made(g, Counted))
    <3>1. \A g \in Agents : Booked(Made(g, Counted))' = Booked(Made(g, Counted))
      BY <1>1 DEF Booked, RowAmount, Made
    <3>2. \A g \in Agents : Booked(Made(g, Counted)) \in Nat
      BY AmountsAreNat DEF PayoutInv, Made
    <3>3. QED
      BY <3>1, <3>2
  <2>2. \A g \in Agents : ClearedOf(g) \subseteq ClearedOf(g)'
    BY <1>1 DEF ClearedOf, Of
  <2>3. QED
    BY <1>1, <1>2, <2>1, <2>2, AbandonTypes, PromisesShrink DEF PayoutInv
<1>5. PaidWithin'
  <2>1. SUFFICES ASSUME NEW g \in Agents
                 PROVE  /\ Booked(Made(g, {"completed"}))' <= sent'[g]
                        /\ sent'[g] + Booked(Executing(g))' <= Booked(Made(g, Counted))'
    BY DEF PaidWithin
  <2>2. /\ Booked(Made(g, {"completed"})) <= sent[g]
        /\ sent[g] + Booked(Executing(g)) <= Booked(Made(g, Counted))
    BY DEF PayoutInv, PaidWithin
  <2>3. /\ Booked(Made(g, {"completed"}))' = Booked(Made(g, {"completed"}))
        /\ Booked(Made(g, Counted))' = Booked(Made(g, Counted))
        /\ Booked(Executing(g))' = Booked(Executing(g)')
    BY <1>1 DEF Booked, RowAmount, Made
  <2>4. Executing(g)' \subseteq Executing(g) /\ Executing(g) \in SUBSET Transfers
    <3>1. \A q \in Processes : mine'[q] \subseteq mine[q] /\ mine[q] \subseteq Transfers
      BY <1>1, AbandonTypes DEF PayoutInv, PayoutTypeOK
    <3>2. QED
      BY <1>1, <3>1 DEF Executing
  <2>5. Booked(Executing(g)') <= Booked(Executing(g))
    BY <2>4, BookedLaws DEF PayoutInv
  <2>6. /\ Booked(Executing(g)') \in Nat /\ Booked(Executing(g)) \in Nat
        /\ Booked(Made(g, Counted)) \in Nat /\ sent[g] \in Nat
    BY <2>4, AmountsAreNat DEF Made, PayoutInv, PayoutTypeOK
  <2>7. QED
    BY <1>1, <2>2, <2>3, <2>5, <2>6
<1>6. QED
  BY <1>2, <1>3, <1>4, <1>5 DEF PayoutInv

\* What is left to execute once a transfer is settled or its sweep has ended.
LEMMA ExecutingShrinks ==
  ASSUME PayoutTypeOK, MineApart, NEW p \in Processes, NEW t \in mine[p],
         \A q \in Processes : mine'[q] \subseteq mine[q], t \notin mine'[p],
         \A u \in Transfers : transfer'[u].balance = transfer[u].balance,
         NEW g \in Agents
  PROVE  /\ Executing(g)' \in SUBSET (Executing(g) \ {t}) /\ Executing(g) \in SUBSET Transfers
         /\ Booked(Executing(g)) \in Nat /\ Booked(Executing(g)') \in Nat
         /\ Booked(Executing(g)') <= Booked(Executing(g))
         /\ RowAmount[t] \in Nat
         /\ transfer[t].balance.agent = g
              => Booked(Executing(g)') + RowAmount[t] <= Booked(Executing(g))
<1>1. \A q \in Processes : mine[q] \subseteq Transfers
  BY DEF PayoutTypeOK
<1>2. \A q \in Processes : t \notin mine'[q]
  BY DEF MineApart
<1>3. Executing(g)' \in SUBSET (Executing(g) \ {t}) /\ Executing(g) \in SUBSET Transfers
  BY <1>1, <1>2 DEF Executing
<1>4. /\ Booked(Executing(g)) \in Nat /\ Booked(Executing(g)') \in Nat
      /\ Booked(Executing(g) \ {t}) \in Nat /\ RowAmount[t] \in Nat
  BY <1>1, <1>3, AmountsAreNat
<1>5. /\ Booked(Executing(g)') <= Booked(Executing(g))
      /\ Booked(Executing(g)') <= Booked(Executing(g) \ {t})
  BY <1>3, BookedLaws
<1>6. transfer[t].balance.agent = g => Booked(Executing(g)) = RowAmount[t] + Booked(Executing(g) \ {t})
  <2>1. transfer[t].balance.agent = g => t \in Executing(g)
    BY DEF Executing
  <2>2. QED
    BY <1>3, <2>1, BookedLaws
<1>7. QED
  BY <1>3, <1>4, <1>5, <1>6

\* A refused transfer leaves the books and was never paid.
LEMMA RefuseStep ==
  ASSUME PayoutInv, NEW p \in Processes, NEW t \in Transfers, Refuse(p, t)
  PROVE  PayoutInv'
<1> USE DEF PayoutInv
<1>1. /\ t \in mine[p] /\ Settle(p, t, "failed_permanent") /\ UNCHANGED <<enabled, event, due, sent, raced>>
      /\ faults' \in 0..MaxFaults
  BY BoundsAssumption DEF Refuse, Fault, PayoutTypeOK
<1>2. transfer[t].status = "pending" /\ "pending" \in Outcomes /\ "failed_permanent" \in Outcomes
  BY <1>1 DEF MineApart, Outcomes
<1>3. /\ transfer' \in [Transfers -> {Absent} \cup [status : Outcomes, balance : BalanceRow]]
      /\ \A u \in Transfers : transfer'[u].balance = transfer[u].balance
      /\ \A u \in Transfers \ {t} : transfer'[u] = transfer[u]
      /\ transfer'[t].status = "failed_permanent"
      /\ RowAmount' = RowAmount
  BY <1>1, <1>2, SettledRows DEF Settle
<1>4. mine' \in [Processes -> SUBSET Transfers]
      /\ \A q \in Processes : mine'[q] = IF q = p THEN mine[p] \ {t} ELSE mine[q]
  BY <1>1 DEF Settle, PayoutTypeOK
<1>5. PayoutTypeOK'
  BY <1>1, <1>3, <1>4 DEF PayoutTypeOK
<1>6. MineApart'
  BY <1>1, <1>3, <1>4 DEF MineApart, PayoutTypeOK
<1>7. \A g \in Agents :
        /\ Made(g, {"completed"})' = Made(g, {"completed"})
        /\ Made(g, Counted)' = Made(g, Counted) \ {t}
        /\ Booked(Made(g, {"completed"}))' = Booked(Made(g, {"completed"}))
        /\ Booked(Made(g, Counted))' = Booked(Made(g, Counted) \ {t})
  <2>1. \A g \in Agents : Made(g, {"completed"})' = Made(g, {"completed"})
    BY <1>2, <1>3 DEF Made
  <2>2. \A g \in Agents : Made(g, Counted)' = Made(g, Counted) \ {t}
    BY <1>3 DEF Made, Counted
  <2>3. QED
    BY <1>3, <2>1, <2>2 DEF Booked
<1>8. \A g \in Agents : /\ Made(g, Counted) \in SUBSET Transfers /\ Booked(Made(g, Counted)) \in Nat
                        /\ Booked(Made(g, Counted) \ {t}) \in Nat
                        /\ Booked(Made(g, Counted) \ {t}) <= Booked(Made(g, Counted))
  BY AmountsAreNat, BookedLaws DEF Made
<1>9. DueApart' /\ PromisedWithin'
  <2>1. \A g \in Agents : ClearedOf(g) \subseteq ClearedOf(g)'
    BY <1>1 DEF ClearedOf, Of
  <2>2. QED
    BY <1>1, <1>5, <1>7, <1>8, <2>1, PromisesShrink
<1>10. PaidWithin'
  <2>1. SUFFICES ASSUME NEW g \in Agents
                 PROVE  /\ Booked(Made(g, {"completed"}))' <= sent'[g]
                        /\ sent'[g] + Booked(Executing(g))' <= Booked(Made(g, Counted))'
    BY DEF PaidWithin
  <2>2. /\ Booked(Made(g, {"completed"})) <= sent[g]
        /\ sent[g] + Booked(Executing(g)) <= Booked(Made(g, Counted)) /\ sent[g] \in Nat
    BY DEF PaidWithin, PayoutTypeOK
  <2>3. Booked(Executing(g))' = Booked(Executing(g)')
    BY <1>3 DEF Booked
  <2>4. /\ Booked(Executing(g)) \in Nat /\ Booked(Executing(g)') \in Nat
        /\ Booked(Executing(g)') <= Booked(Executing(g))
        /\ RowAmount[t] \in Nat
        /\ transfer[t].balance.agent = g
             => Booked(Executing(g)') + RowAmount[t] <= Booked(Executing(g))
    BY <1>1, <1>3, <1>4, ExecutingShrinks
  <2>5. IF transfer[t].balance.agent = g
        THEN Booked(Made(g, Counted)) = RowAmount[t] + Booked(Made(g, Counted) \ {t})
        ELSE Booked(Made(g, Counted) \ {t}) = Booked(Made(g, Counted))
    <3>1. transfer[t].balance.agent = g => t \in Made(g, Counted)
      BY <1>2 DEF Made, Counted
    <3>2. transfer[t].balance.agent # g => Made(g, Counted) \ {t} = Made(g, Counted)
      BY DEF Made
    <3>3. QED
      BY <1>8, <3>1, <3>2, BookedLaws
  <2>6. QED
    BY <1>1, <1>7, <1>8, <2>2, <2>3, <2>4, <2>5
<1>11. QED
  BY <1>5, <1>6, <1>9, <1>10

\* A payment is booked beforehand as pending and afterwards as completed, or
\* stays pending.
LEMMA PayStep ==
  ASSUME PayoutInv, NEW p \in Processes, NEW t \in Transfers, Pay(p, t)
  PROVE  PayoutInv'
<1> USE DEF PayoutInv
<1> DEFINE h == transfer[t].balance.agent
<1>1. /\ t \in mine[p] /\ h \in Agents /\ UNCHANGED <<enabled, event, raced>>
      /\ sent' = [sent EXCEPT ![h] = @ + Booked({t})]
      /\ \/ Settle(p, t, "completed") /\ UNCHANGED <<due, faults>>
         \/ Abandon(p) /\ UNCHANGED transfer
  BY SharesAssumption DEF Pay
<1>2. transfer[t].status = "pending" /\ "pending" \in Outcomes /\ "completed" \in Outcomes
  BY <1>1 DEF MineApart, Outcomes
<1>3. /\ transfer' \in [Transfers -> {Absent} \cup [status : Outcomes, balance : BalanceRow]]
      /\ \A u \in Transfers : transfer'[u].balance = transfer[u].balance
      /\ \A u \in Transfers \ {t} : transfer'[u] = transfer[u]
      /\ transfer'[t].status \in Counted
      /\ RowAmount' = RowAmount
  <2>1. CASE Settle(p, t, "completed")
    BY <1>2, <2>1, SettledRows DEF Settle, Counted
  <2>2. CASE UNCHANGED transfer
    BY <1>2, <2>2 DEF Counted, PayoutTypeOK, RowAmount
  <2>3. QED
    BY <1>1, <2>1, <2>2
<1>4. /\ mine' \in [Processes -> SUBSET Transfers]
      /\ \A q \in Processes : mine'[q] \subseteq mine[q]
      /\ t \notin mine'[p]
      /\ due' \in [Processes -> SUBSET BalanceRow] /\ \A q \in Processes : due'[q] \subseteq due[q]
      /\ faults' \in 0..MaxFaults
  <2>1. CASE Settle(p, t, "completed") /\ UNCHANGED <<due, faults>>
    BY <2>1 DEF Settle, PayoutTypeOK
  <2>2. CASE Abandon(p)
    BY <2>2, AbandonTypes
  <2>3. QED
    BY <1>1, <2>1, <2>2
<1>5. Booked({t}) = RowAmount[t] /\ RowAmount[t] \in Nat
  <2>1. Booked({t}) = RowAmount[t] + Booked({t} \ {t})
    BY BookedLaws
  <2>2. {t} \ {t} = {} /\ Booked({}) = 0
    BY SumEmpty DEF Booked
  <2>3. RowAmount[t] \in Nat
    BY AmountsAreNat
  <2>4. QED
    BY <2>1, <2>2, <2>3
<1>6. sent' \in [Agents -> Nat] /\ \A g \in Agents : sent'[g] = IF g = h THEN sent[g] + RowAmount[t] ELSE sent[g]
  <2>1. h \in Agents /\ sent \in [Agents -> Nat]
    BY <1>1 DEF PayoutTypeOK
  <2> HIDE DEF h
  <2>2. QED
    BY <1>1, <1>5, <2>1
<1>7. PayoutTypeOK'
  BY <1>1, <1>3, <1>4, <1>6 DEF PayoutTypeOK
<1>8. MineApart'
  <2>1. \A q \in Processes : t \notin mine'[q]
    BY <1>1, <1>4 DEF MineApart
  <2>2. \A q \in Processes : \A u \in mine'[q] : transfer'[u].status = transfer[u].status
    BY <1>3, <1>4, <2>1 DEF PayoutTypeOK
  <2>3. QED
    BY <1>4, <2>2, MineShrinks
<1>9. \A g \in Agents :
        /\ Made(g, Counted)' = Made(g, Counted) /\ Booked(Made(g, Counted)) \in Nat
        /\ Booked(Made(g, Counted))' = Booked(Made(g, Counted))
  <2>1. \A g \in Agents : Made(g, Counted)' = Made(g, Counted)
    BY <1>2, <1>3 DEF Made, Counted
  <2>2. QED
    BY <1>3, <2>1, AmountsAreNat DEF Booked, Made
<1>10. DueApart' /\ PromisedWithin'
  <2>1. \A g \in Agents : ClearedOf(g) \subseteq ClearedOf(g)'
    BY <1>1 DEF ClearedOf, Of
  <2>2. \A g \in Agents : Booked(Made(g, Counted))' <= Booked(Made(g, Counted))
    BY <1>9
  <2>3. QED
    BY <1>1, <1>4, <1>7, <2>1, <2>2, PromisesShrink
<1>11. PaidWithin'
  <2>1. SUFFICES ASSUME NEW g \in Agents
                 PROVE  /\ Booked(Made(g, {"completed"}))' <= sent'[g]
                        /\ sent'[g] + Booked(Executing(g))' <= Booked(Made(g, Counted))'
    BY DEF PaidWithin
  <2> DEFINE done == Made(g, {"completed"})
  <2>2. /\ Booked(done) <= sent[g]
        /\ sent[g] + Booked(Executing(g)) <= Booked(Made(g, Counted)) /\ sent[g] \in Nat
    BY DEF PaidWithin, PayoutTypeOK
  <2>3. Booked(Executing(g))' = Booked(Executing(g)') /\ Booked(done)' = Booked(done')
    BY <1>3 DEF Booked
  <2>4. /\ Booked(Executing(g)) \in Nat /\ Booked(Executing(g)') \in Nat
        /\ Booked(Executing(g)') <= Booked(Executing(g))
        /\ h = g => Booked(Executing(g)') + RowAmount[t] <= Booked(Executing(g))
    BY <1>1, <1>3, <1>4, ExecutingShrinks
  <2>5. done' = done \/ (h = g /\ done' = done \cup {t})
    <3>1. \A u \in Transfers \ {t} : u \in done' <=> u \in done
      BY <1>3 DEF Made
    <3>2. t \in done' => h = g
      BY <1>3 DEF Made
    <3>3. done \subseteq Transfers /\ done' \subseteq Transfers /\ t \notin done
      BY <1>2 DEF Made
    <3> HIDE DEF done, h
    <3>4. CASE t \in done'
      <4>1. done' = done \cup {t}
        BY <3>1, <3>3, <3>4
      <4>2. QED
        BY <3>2, <3>4, <4>1
    <3>5. CASE t \notin done'
      <4>1. done' = done
        BY <3>1, <3>3, <3>5
      <4>2. QED
        BY <4>1
    <3>6. QED
      BY <3>4, <3>5
  <2>6. Booked(done) \in Nat /\ Booked(done') \in Nat /\ Booked(done') <= Booked(done) + (IF h = g THEN RowAmount[t] ELSE 0)
    <3>1. CASE done' = done
      <4>1. Booked(done) \in Nat
        BY AmountsAreNat DEF Made
      <4> HIDE DEF done, h
      <4>2. QED
        BY <1>5, <3>1, <4>1
    <3>2. CASE h = g /\ done' = done \cup {t}
      <4>1. t \notin done /\ done \in SUBSET Transfers
        BY <1>2 DEF Made
      <4>2. Booked(done \cup {t}) = Booked(done) + Booked({t})
        BY <4>1, BookedLaws
      <4>3. Booked(done) \in Nat
        BY <4>1, AmountsAreNat
      <4> HIDE DEF done, h
      <4>4. Booked(done') = Booked(done \cup {t})
        BY <3>2
      <4>5. QED
        BY <1>5, <3>2, <4>2, <4>3, <4>4
    <3>3. QED
      BY <2>5, <3>1, <3>2
  <2> HIDE DEF done, h
  <2>7. Booked(done)' <= sent'[g]
    BY <1>5, <1>6, <2>2, <2>3, <2>6
  <2>8. sent'[g] + Booked(Executing(g))' <= Booked(Made(g, Counted))'
    BY <1>5, <1>6, <1>9, <2>2, <2>3, <2>4
  <2>9. QED
    BY <2>7, <2>8 DEF done
<1>12. QED
  BY <1>7, <1>8, <1>10, <1>11

\* What the due query finds: for each agent and domain at most one balance.
LEMMA BalancesTyped ==
  ASSUME PayoutTypeOK
  PROVE  /\ Balances \subseteq BalanceRow /\ IsFiniteSet(Balances)
         /\ \A b \in Balances : b = [agent |-> b.agent, domain |-> b.domain,
                                     amount |-> Available(b.agent, b.domain)]
         /\ \A b \in Balances : b.amount >= Threshold
         /\ \A g \in Agents : \A d \in Domains : Available(g, d) \in Nat
<1>1. \A g \in Agents : \A d \in Domains : Available(g, d) \in Nat
  <2>1. \A g \in Agents : \A d \in Domains : Allocated(Cleared(g, d)) \in Nat /\ PastPayouts(g) \in Nat
    BY AmountsAreNat DEF Cleared, PastPayouts, Made
  <2>2. QED
    BY <2>1 DEF Available
<1> DEFINE row(g, d) == [agent |-> g, domain |-> d, amount |-> Available(g, d)]
           all == {row(g, d) : g \in Agents, d \in Domains}
<1>2. all \subseteq BalanceRow
  BY <1>1 DEF BalanceRow
<1>3. IsFiniteSet(all)
  <2> DEFINE pairs == Agents \X Domains
             f == [x \in pairs |-> row(x[1], x[2])]
  <2>1. IsFiniteSet(pairs)
    BY TablesAssumption, FS_Product
  <2>2. \A b \in all : \E x \in pairs : f[x] = b
    <3>1. TAKE b \in all
    <3>2. PICK g \in Agents, d \in Domains : b = row(g, d)
      OBVIOUS
    <3>3. <<g, d>> \in pairs /\ f[<<g, d>>] = row(g, d)
      OBVIOUS
    <3> HIDE DEF f, pairs, row
    <3>4. QED
      BY <3>2, <3>3
  <2>3. \A x \in pairs : f[x] \in all
    OBVIOUS
  <2> HIDE DEF all, pairs
  <2>4. f \in Surjection(pairs, all)
    BY <2>2, <2>3 DEF Surjection
  <2> HIDE DEF f
  <2>5. QED
    BY <2>1, <2>4, FS_Surjection
<1>4. Balances \subseteq all /\ \A b \in Balances : b.amount >= Threshold
  BY DEF Balances
<1>5. \A b \in all : b = row(b.agent, b.domain)
  OBVIOUS
<1>6. IsFiniteSet(Balances)
  BY <1>3, <1>4, FS_Subset
<1>7. QED
  BY <1>1, <1>2, <1>4, <1>5, <1>6

\* The balances due to an agent and what it is booked already stay within what
\* is cleared: each domain in which something is due leaves the agent's payouts
\* uncovered once more.
LEMMA BalancesWithinCleared ==
  ASSUME PayoutTypeOK, NEW g \in Agents,
         Booked(Made(g, Counted)) <= Allocated(ClearedOf(g))
  PROVE  Booked(Made(g, Counted)) + SumFunctionOnSet(BalanceAmount, {b \in Balances : b.agent = g})
           <= Allocated(ClearedOf(g))
<1> DEFINE P == Booked(Made(g, Counted))
           In(X) == {b \in Balances : b.agent = g /\ b.domain \in X}
           sum(X) == SumFunctionOnSet(BalanceAmount, In(X))
           Alloc(X) == {a \in ClearedOf(g) : Share[a].domain \in X}
           G == {X \in SUBSET Domains : In(X) = {} \/ P + sum(X) <= Allocated(Alloc(X))}
<1>1. P \in Nat /\ \A X \in SUBSET Domains : Allocated(Alloc(X)) \in Nat /\ Alloc(X) \in SUBSET Allocations
  BY AmountsAreNat DEF Made, ClearedOf, Of
<1>2. \A b \in BalanceRow : BalanceAmount[b] = b.amount /\ b.amount \in Nat
  BY DEF BalanceAmount, BalanceRow
<1>3. \A X \in SUBSET Domains : IsFiniteSet(In(X)) /\ In(X) \subseteq BalanceRow
  <2>1. \A X \in SUBSET Domains : In(X) \subseteq Balances
    OBVIOUS
  <2>2. QED
    BY <2>1, BalancesTyped, FS_Subset
<1>4. \A X \in SUBSET Domains : sum(X) \in Nat
  BY <1>2, <1>3, SumTakesOut
<1>5. {} \in G
  OBVIOUS
<1>6. ASSUME NEW X \in SUBSET Domains, X \in G, NEW d \in Domains \ X
      PROVE  X \cup {d} \in G
  <2> DEFINE b == [agent |-> g, domain |-> d, amount |-> Available(g, d)]
             here == Allocated(Cleared(g, d))
  <2>1. /\ Alloc(X \cup {d}) = Alloc(X) \cup Cleared(g, d) /\ Alloc(X) \cap Cleared(g, d) = {}
        /\ Cleared(g, d) \in SUBSET Allocations
    BY DEF ClearedOf, Of, Cleared
  <2>2. Allocated(Alloc(X \cup {d})) = Allocated(Alloc(X)) + here /\ here \in Nat
    <3>1. Allocated(Alloc(X) \cup Cleared(g, d)) = Allocated(Alloc(X)) + here
      BY <1>1, <2>1, AllocatedJoins
    <3>2. Allocated(Alloc(X \cup {d})) = Allocated(Alloc(X) \cup Cleared(g, d))
      BY <2>1, Zenon
    <3>3. here \in Nat
      BY <2>1, AmountsAreNat
    <3>4. QED
      BY <3>1, <3>2, <3>3
  <2>3. In(X \cup {d}) \in {In(X), In(X) \cup {b}}
    <3>1. \A c \in Balances : c.agent = g /\ c.domain = d => c = b
      BY BalancesTyped
    <3>2. CASE b \in Balances
      <4>1. In(X \cup {d}) = In(X) \cup {b}
        BY <3>1, <3>2
      <4>2. QED
        BY <4>1
    <3>3. CASE b \notin Balances
      <4>1. In(X \cup {d}) = In(X)
        BY <3>1, <3>3
      <4>2. QED
        BY <4>1
    <3>4. QED
      BY <3>2, <3>3
  <2>4. CASE In(X \cup {d}) = In(X)
    <3>1. sum(X \cup {d}) = sum(X)
      BY <2>4
    <3>2. In(X) = {} \/ P + sum(X) <= Allocated(Alloc(X))
      BY <1>6
    <3> HIDE DEF In, sum, Alloc, P
    <3>3. In(X \cup {d}) = {} \/ P + sum(X \cup {d}) <= Allocated(Alloc(X \cup {d}))
      BY <1>1, <1>4, <2>2, <2>4, <3>1, <3>2
    <3>4. QED
      BY <3>3
  <2>5. CASE In(X \cup {d}) = In(X) \cup {b} /\ In(X \cup {d}) # In(X)
    <3>1. b \in Balances /\ b \notin In(X)
      BY <2>5
    <3>2. Available(g, d) >= Threshold /\ Available(g, d) = here - P /\ here > P
      <4>1. Available(g, d) >= Threshold
        BY <3>1, BalancesTyped
      <4>2. PastPayouts(g) = P
        BY DEF PastPayouts, Counted
      <4> HIDE DEF P, here
      <4>3. Available(g, d) = IF here > P THEN here - P ELSE 0
        BY <4>2 DEF Available, here
      <4>4. QED
        BY <1>1, <2>2, <4>1, <4>3, BoundsAssumption
    <3>3. sum(X \cup {d}) = BalanceAmount[b] + sum(X)
      <4>1. \A c \in In(X) \cup {b} : BalanceAmount[c] \in Nat
        BY <1>2, <1>3, <3>1, BalancesTyped
      <4>2. IsFiniteSet(In(X))
        BY <1>3
      <4> HIDE DEF In, b
      <4>3. SumFunctionOnSet(BalanceAmount, In(X) \cup {b}) = BalanceAmount[b] + SumFunctionOnSet(BalanceAmount, In(X))
        BY <3>1, <4>1, <4>2, SumAdds
      <4>4. QED
        BY <2>5, <4>3, Zenon
    <3>4. BalanceAmount[b] = Available(g, d)
      BY <1>2, <3>1, BalancesTyped
    <3>5. In(X) = {} => sum(X) = 0
      BY SumEmpty
    <3>6. In(X) = {} \/ P + sum(X) <= Allocated(Alloc(X))
      BY <1>6
    <3>7. sum(X) \in Nat /\ Allocated(Alloc(X)) \in Nat
      BY <1>1, <1>4
    <3> HIDE DEF In, sum, Alloc, P, b, here
    <3>8. P + sum(X \cup {d}) <= Allocated(Alloc(X \cup {d}))
      BY <1>1, <2>2, <3>2, <3>3, <3>4, <3>5, <3>6, <3>7
    <3>9. QED
      BY <3>8
  <2>6. QED
    BY <2>3, <2>4, <2>5
<1>7. Domains \in G
  <2> HIDE DEF G
  <2>1. QED
    BY <1>5, <1>6, TablesAssumption, SetInd
<1>8. In(Domains) = {b \in Balances : b.agent = g}
  BY BalancesTyped DEF BalanceRow
<1>9. Alloc(Domains) = ClearedOf(g)
  BY SharesAssumption DEF ClearedOf, Of
<1>10. In(Domains) = {} => sum(Domains) = 0
  BY SumEmpty
<1>11. In(Domains) = {} \/ P + sum(Domains) <= Allocated(ClearedOf(g))
  BY <1>7, <1>9
<1>12. P + sum(Domains) <= Allocated(ClearedOf(g))
  <2> HIDE DEF In, sum, P
  <2>1. P <= Allocated(ClearedOf(g))
    BY DEF P
  <2>2. QED
    BY <1>1, <1>10, <1>11, <2>1
<1>13. QED
  BY <1>8, <1>12, Zenon

\* The due query reads the booked payouts and the cleared allocations at once:
\* what it promises fits, for those nobody else computes meanwhile.
LEMMA ComputeStep ==
  ASSUME PayoutInv, NEW p \in Processes, ComputeBalances(p)
  PROVE  PayoutInv'
<1> USE DEF PayoutInv
<1>1. /\ due[p] = {} /\ due' = [due EXCEPT ![p] = Balances]
      /\ raced' = raced \cup ({b.agent : b \in Balances}
                              \cap {b.agent : b \in UNION {due[q] : q \in Processes}})
      /\ UNCHANGED <<enabled, event, transfer, mine, sent, faults>>
  BY DEF ComputeBalances, Sweeping
<1>2. /\ Balances \subseteq BalanceRow /\ IsFiniteSet(Balances)
      /\ \A b, c \in Balances : b.agent = c.agent /\ b.domain = c.domain => b = c
  <2>1. \A b \in Balances : b = [agent |-> b.agent, domain |-> b.domain, amount |-> Available(b.agent, b.domain)]
    BY BalancesTyped
  <2>2. ASSUME NEW b \in Balances, NEW c \in Balances, b.agent = c.agent, b.domain = c.domain PROVE b = c
    <3>1. Available(b.agent, b.domain) = Available(c.agent, c.domain)
      BY <2>2
    <3>2. QED
      BY <2>1, <2>2, <3>1
  <2>3. QED
    BY <2>2, BalancesTyped
<1>3. /\ due' \in [Processes -> SUBSET BalanceRow]
      /\ due'[p] = Balances /\ \A q \in Processes \ {p} : due'[q] = due[q]
  BY <1>1, <1>2 DEF PayoutTypeOK
<1>4. PayoutTypeOK'
  BY <1>1, <1>2, <1>3 DEF PayoutTypeOK, BalanceRow
<1>5. MineApart'
  BY <1>1 DEF MineApart
<1>6. DueApart'
  <2>1. \A q \in Processes : /\ IsFiniteSet(due'[q])
                             /\ \A b, c \in due'[q] : b.agent = c.agent /\ b.domain = c.domain => b = c
    BY <1>2, <1>3 DEF DueApart
  <2>2. ASSUME NEW q \in Processes \ {p}, NEW b \in Balances, NEW c \in due[q], b.agent = c.agent
        PROVE  b.agent \in raced'
    BY <1>1, <2>2
  <2>3. ASSUME NEW q \in Processes, NEW r \in Processes \ {q}, NEW b \in due'[q], NEW c \in due'[r],
               b.agent = c.agent
        PROVE  b.agent \in raced'
    <3>1. CASE q = p
      BY <1>3, <2>2, <2>3, <3>1
    <3>2. CASE r = p
      BY <1>3, <2>2, <2>3, <3>2
    <3>3. CASE q # p /\ r # p
      BY <1>1, <1>3, <2>3, <3>3 DEF DueApart
    <3>4. QED
      BY <3>1, <3>2, <3>3
  <2>4. QED
    BY <2>1, <2>3 DEF DueApart
<1>7. RowAmount' = RowAmount
  BY <1>1 DEF RowAmount
<1>8. PaidWithin'
  <2>1. \A g \in Agents : /\ Booked(Made(g, {"completed"}))' = Booked(Made(g, {"completed"}))
                         /\ Booked(Made(g, Counted))' = Booked(Made(g, Counted))
    BY <1>1, <1>7 DEF Booked, Made
  <2>2. \A g \in Agents : Booked(Executing(g))' = Booked(Executing(g))
    BY <1>1, <1>7 DEF Booked, Executing
  <2>3. QED
    BY <1>1, <2>1, <2>2 DEF PaidWithin
<1>9. PromisedWithin'
  <2>1. SUFFICES ASSUME NEW g \in Agents \ raced'
                 PROVE  /\ Booked(Made(g, Counted))' <= Allocated(ClearedOf(g))'
                        /\ \A q \in Processes :
                             Booked(Made(g, Counted))' + Promised(q, g)' <= Allocated(ClearedOf(g))'
    BY DEF PromisedWithin
  <2>2. /\ Booked(Made(g, Counted)) <= Allocated(ClearedOf(g))
        /\ \A q \in Processes : Booked(Made(g, Counted)) + Promised(q, g) <= Allocated(ClearedOf(g))
    BY <1>1 DEF PromisedWithin
  <2>3. Booked(Made(g, Counted))' = Booked(Made(g, Counted))
    BY <1>1, <1>7 DEF Booked, Made
  <2>4. Allocated(ClearedOf(g))' = Allocated(ClearedOf(g))
    BY <1>1 DEF Allocated, ClearedOf, Of
  <2>5. \A q \in Processes \ {p} : Promised(q, g)' = Promised(q, g)
    <3>1. \A q \in Processes \ {p} : DueTo(q, g)' = DueTo(q, g)
      BY <1>3 DEF DueTo
    <3>2. QED
      BY <3>1 DEF Promised, BalanceAmount, BalanceRow
  <2>6. Promised(p, g)' = SumFunctionOnSet(BalanceAmount, {b \in Balances : b.agent = g})
    BY <1>3 DEF Promised, BalanceAmount, BalanceRow, DueTo
  <2>7. Booked(Made(g, Counted)) + Promised(p, g)' <= Allocated(ClearedOf(g))
    BY <2>2, <2>6, BalancesWithinCleared
  <2>8. QED
    BY <2>2, <2>3, <2>4, <2>5, <2>7
<1>10. QED
  BY <1>4, <1>5, <1>6, <1>8, <1>9

\* One INSERT writes each balance of the domain to a row of its own.
RowOf(R, B) ==
  CHOOSE n \in [R -> B] : \A b \in B : \E t \in R : n[t] = b

\* As many rows as balances: the INSERT writes each balance once.
LEMMA RowPerBalance ==
  ASSUME NEW R, NEW B, IsFiniteSet(R), IsFiniteSet(B), Cardinality(R) = Cardinality(B)
  PROVE  /\ RowOf(R, B) \in [R -> B]
         /\ \A b \in B : \E t \in R : RowOf(R, B)[t] = b
         /\ \A t, u \in R : RowOf(R, B)[t] = RowOf(R, B)[u] => t = u
<1>1. PICK f \in Bijection(R, B) : TRUE
  BY FS_SameCardinalityBij DEF ExistsBijection
<1>2. f \in [R -> B] /\ \A b \in B : \E t \in R : f[t] = b
  BY <1>1 DEF Bijection, Injection, Surjection
<1> DEFINE n == RowOf(R, B)
<1>3. n \in [R -> B] /\ \A b \in B : \E t \in R : n[t] = b
  BY <1>2 DEF RowOf
<1>4. n \in Surjection(R, B)
  BY <1>3 DEF Surjection
<1>5. n \in Injection(R, B)
  <2> HIDE DEF n
  <2>1. QED
    BY <1>4, FS_SurjSameCardinalityImpliesInj
<1>6. QED
  BY <1>3, <1>5 DEF Injection, IsInjective

\* The INSERT turns balances it held into transfers of the same amount.
LEMMA InsertStep ==
  ASSUME PayoutInv, NEW p \in Processes, InsertTransfers(p)
  PROVE  PayoutInv'
<1> USE DEF PayoutInv
<1>1. PICK d \in Domains :
       LET balances == {b \in due[p] : b.domain = d}
           news     == FreeRows(Cardinality(balances)) IN
       /\ balances # {} /\ Cardinality(news) = Cardinality(balances)
       /\ transfer' = [t \in Transfers |->
                 IF t \in news THEN [status |-> "pending", balance |-> RowOf(news, balances)[t]] ELSE transfer[t]]
       /\ mine' = [mine EXCEPT ![p] = news]
       /\ due' = [due EXCEPT ![p] = @ \ balances]
  BY DEF InsertTransfers, RowOf
<1>2. mine[p] = {} /\ UNCHANGED <<enabled, event, sent, raced, faults>>
  BY DEF InsertTransfers
<1> DEFINE B == {b \in due[p] : b.domain = d}
           R == FreeRows(Cardinality(B))
           n == RowOf(R, B)
<1>3. /\ R \in SUBSET Transfers /\ B \in SUBSET due[p] /\ B \in SUBSET BalanceRow
      /\ IsFiniteSet(R) /\ IsFiniteSet(B)
      /\ \A t \in R : transfer[t].status \in {"absent", "failed_permanent"}
  <2>1. R \in SUBSET Transfers /\ \A t \in R : transfer[t].status \in {"absent", "failed_permanent"}
    BY DEF FreeRows
  <2>2. B \in SUBSET due[p] /\ IsFiniteSet(due[p]) /\ due[p] \subseteq BalanceRow
    BY DEF DueApart, PayoutTypeOK
  <2>3. QED
    BY <2>1, <2>2, FS_Subset, RowsAreFinite
<1>4. /\ n \in [R -> B]
      /\ \A b \in B : \E t \in R : n[t] = b
      /\ \A t, u \in R : n[t] = n[u] => t = u
  <2> HIDE DEF B, R
  <2>1. Cardinality(R) = Cardinality(B)
    BY <1>1 DEF B, R
  <2>2. QED
    BY <1>3, <2>1, RowPerBalance
<1>5. /\ \A t \in Transfers : transfer'[t] = IF t \in R THEN [status |-> "pending", balance |-> n[t]] ELSE transfer[t]
      /\ \A q \in Processes : mine'[q] = IF q = p THEN R ELSE mine[q]
      /\ \A q \in Processes : due'[q] = IF q = p THEN due[p] \ B ELSE due[q]
      /\ mine' \in [Processes -> SUBSET Transfers] /\ due' \in [Processes -> SUBSET BalanceRow]
      /\ transfer' = [t \in Transfers |-> IF t \in R THEN [status |-> "pending", balance |-> n[t]] ELSE transfer[t]]
  BY <1>1, <1>3 DEF PayoutTypeOK
<1> HIDE DEF B, R, n
<1>6. PayoutTypeOK'
  <2>1. \A t \in R : [status |-> "pending", balance |-> n[t]] \in [status : Outcomes, balance : BalanceRow]
    BY <1>3, <1>4 DEF Outcomes
  <2>2. transfer' \in [Transfers -> {Absent} \cup [status : Outcomes, balance : BalanceRow]]
    BY <1>5, <2>1 DEF PayoutTypeOK
  <2>3. QED
    BY <1>2, <1>5, <2>2 DEF PayoutTypeOK
<1>7. MineApart'
  <2>1. \A q \in Processes : R \cap mine[q] = {}
    BY <1>3 DEF MineApart
  <2>2. \A t \in R : transfer'[t].status = "pending"
    BY <1>3, <1>5
  <2>3. \A q \in Processes : \A t \in mine[q] : transfer'[t] = transfer[t]
    BY <1>5, <2>1 DEF PayoutTypeOK
  <2>4. QED
    BY <1>5, <2>1, <2>2, <2>3 DEF MineApart
<1>8. \A t \in R : RowAmount'[t] = n[t].amount /\ RowAmount'[t] = BalanceAmount[n[t]]
  BY <1>3, <1>4, <1>5 DEF RowAmount, BalanceAmount
<1>9. \A t \in Transfers \ R : RowAmount'[t] = RowAmount[t]
  BY <1>5 DEF RowAmount
<1> DEFINE New(g) == {t \in R : n[t].agent = g}
           added(g) == SumFunctionOnSet(RowAmount', New(g))
<1>10. ASSUME NEW g \in Agents, NEW M \in SUBSET (Transfers \ R)
       PROVE  /\ SumFunctionOnSet(RowAmount', M \cup New(g)) = Booked(M) + added(g)
              /\ SumFunctionOnSet(RowAmount', M) = Booked(M)
              /\ Booked(M) \in Nat /\ added(g) \in Nat
  <2>1. \A t \in Transfers : RowAmount'[t] \in Nat
    BY <1>6, AmountsAreNatNext DEF AmountsNat
  <2>2. M \in SUBSET Transfers /\ New(g) \in SUBSET Transfers /\ M \cap New(g) = {}
    BY <1>3
  <2>3. IsFiniteSet(M) /\ IsFiniteSet(New(g))
    BY <2>2, RowsAreFinite
  <2>4. SumFunctionOnSet(RowAmount', M) = Booked(M)
    BY <1>9, <2>2, BookedKept
  <2> DEFINE f == RowAmount'
             N == New(g)
  <2>5. /\ \A t \in M : f[t] \in Nat
        /\ \A t \in N : f[t] \in Nat
        /\ M \cap N = {} /\ IsFiniteSet(M) /\ IsFiniteSet(N)
    BY <2>1, <2>2, <2>3
  <2> HIDE DEF f, N
  <2>6. /\ SumFunctionOnSet(f, M \cup N) = SumFunctionOnSet(f, M) + SumFunctionOnSet(f, N)
        /\ SumFunctionOnSet(f, M) \in Nat /\ SumFunctionOnSet(f, N) \in Nat
    BY <2>5, SumJoins
  <2>7. QED
    BY <2>4, <2>6 DEF f, N
<1>11. \A g \in Agents : Booked(Made(g, Counted))' = Booked(Made(g, Counted)) + added(g)
                         /\ Booked(Made(g, Counted)) \in Nat /\ added(g) \in Nat
  <2>1. TAKE g \in Agents
  <2>2. Made(g, Counted)' = Made(g, Counted) \cup New(g) /\ Made(g, Counted) \in SUBSET (Transfers \ R)
    BY <1>3, <1>5 DEF Made, Counted
  <2>3. Booked(Made(g, Counted))' = SumFunctionOnSet(RowAmount', Made(g, Counted) \cup New(g))
    BY <2>2 DEF Booked
  <2>4. QED
    BY <1>10, <2>2, <2>3
<1>12. \A g \in Agents : Booked(Executing(g))' = Booked(Executing(g)) + added(g)
                         /\ Booked(Executing(g)) \in Nat
  <2>1. TAKE g \in Agents
  <2>2. Executing(g) \in SUBSET (Transfers \ R)
    <3>1. \A q \in Processes : mine[q] \subseteq Transfers
      BY DEF PayoutTypeOK
    <3>2. QED
      BY <1>3, <3>1 DEF Executing, MineApart
  <2>3. Executing(g)' = Executing(g) \cup New(g)
    <3>1. \A t \in Transfers \ R : t \in Executing(g)' <=> t \in Executing(g)
      BY <1>2, <1>5 DEF Executing
    <3>2. \A t \in R : t \in Executing(g)' <=> t \in New(g)
      BY <1>3, <1>5 DEF Executing
    <3>3. Executing(g)' \subseteq Transfers
      BY <1>5 DEF Executing
    <3>4. New(g) \subseteq R
      OBVIOUS
    <3> HIDE DEF New
    <3>5. QED
      BY <2>2, <3>1, <3>2, <3>3, <3>4, <1>3
  <2>4. Booked(Executing(g))' = SumFunctionOnSet(RowAmount', Executing(g) \cup New(g))
    BY <2>3 DEF Booked
  <2>5. QED
    BY <1>10, <2>2, <2>4
<1>13. PaidWithin'
  <2>1. SUFFICES ASSUME NEW g \in Agents
                 PROVE  /\ Booked(Made(g, {"completed"}))' <= sent'[g]
                        /\ sent'[g] + Booked(Executing(g))' <= Booked(Made(g, Counted))'
    BY DEF PaidWithin
  <2>2. /\ Booked(Made(g, {"completed"})) <= sent[g]
        /\ sent[g] + Booked(Executing(g)) <= Booked(Made(g, Counted)) /\ sent[g] \in Nat
    BY DEF PaidWithin, PayoutTypeOK
  <2>3. Made(g, {"completed"})' = Made(g, {"completed"}) /\ Made(g, {"completed"}) \in SUBSET (Transfers \ R)
    BY <1>3, <1>5 DEF Made
  <2>4. Booked(Made(g, {"completed"}))' = SumFunctionOnSet(RowAmount', Made(g, {"completed"}))
    BY <2>3 DEF Booked
  <2>5. Booked(Made(g, {"completed"}))' = Booked(Made(g, {"completed"}))
    BY <1>10, <2>3, <2>4
  <2> HIDE DEF New, added
  <2>6. QED
    BY <1>2, <1>11, <1>12, <2>2, <2>5
<1>14. DueApart'
  <2>1. ASSUME NEW q \in Processes PROVE IsFiniteSet(due'[q])
    <3>1. due'[q] \subseteq due[q] /\ IsFiniteSet(due[q])
      BY <1>5 DEF DueApart
    <3>2. QED
      BY <3>1, FS_Subset
  <2>2. QED
    BY <1>2, <1>5, <2>1 DEF DueApart
<1>15. PromisedWithin'
  <2>1. SUFFICES ASSUME NEW g \in Agents \ raced
                 PROVE  /\ Booked(Made(g, Counted))' <= Allocated(ClearedOf(g))'
                        /\ \A q \in Processes :
                             Booked(Made(g, Counted))' + Promised(q, g)' <= Allocated(ClearedOf(g))'
    BY <1>2 DEF PromisedWithin
  <2> DEFINE booked == Booked(Made(g, Counted))
             cleared == Allocated(ClearedOf(g))
  <2>2. booked <= cleared /\ \A q \in Processes : booked + Promised(q, g) <= cleared
    BY DEF PromisedWithin
  <2>3. cleared' = cleared /\ cleared \in Nat
    BY <1>2, AmountsAreNat DEF Allocated, ClearedOf, Of
  <2>4. booked' = booked + added(g) /\ booked \in Nat /\ added(g) \in Nat
    BY <1>11
  <2>5. \A q \in Processes : Promised(q, g)' = SumFunctionOnSet(BalanceAmount, DueTo(q, g)')
    BY DEF Promised, BalanceAmount, BalanceRow
  <2>6. \A q \in Processes \ {p} : DueTo(q, g)' = DueTo(q, g)
    BY <1>5 DEF DueTo
  <2>7. DueTo(p, g)' = DueTo(p, g) \ B
    BY <1>5 DEF DueTo
  <2>8. \A q \in Processes : Promised(q, g) \in Nat
    BY PromisedLaws
  <2>9. CASE New(g) = {}
    <3>1. added(g) = 0
      BY <2>9, SumEmpty
    <3>2. DueTo(p, g)' = DueTo(p, g)
      <4>1. \A b \in B : b.agent # g
        BY <1>4, <2>9
      <4>2. QED
        BY <2>7, <4>1 DEF DueTo
    <3>3. \A q \in Processes : Promised(q, g)' = Promised(q, g)
      BY <2>5, <2>6, <3>2 DEF Promised
    <3> HIDE DEF added, New, booked, cleared
    <3>4. booked' <= cleared' /\ \A q \in Processes : booked' + Promised(q, g)' <= cleared'
      BY <2>2, <2>3, <2>4, <3>1, <3>3
    <3>5. QED
      BY <3>4 DEF booked, cleared
  <2>10. CASE New(g) # {}
    <3>1. PICK t \in New(g) : TRUE
      BY <2>10
    <3> DEFINE b == n[t]
    <3>2. t \in R /\ b \in B /\ b \in DueTo(p, g) /\ b \in BalanceRow /\ b.agent = g
      BY <1>3, <1>4, <3>1 DEF DueTo
    <3>3. \A c \in B : c.agent = g => c = b
      <4>1. \A c \in B : c.domain = d /\ c \in due[p]
        BY DEF B
      <4>2. QED
        BY <3>2, <4>1 DEF DueApart
    <3>4. New(g) = {t}
      <4>1. \A u \in New(g) : u = t
        BY <1>4, <3>2, <3>3
      <4>2. QED
        BY <3>1, <4>1
    <3>5. added(g) = b.amount /\ b.amount \in Nat
      <4>1. SumFunctionOnSet(RowAmount', {t}) = RowAmount'[t] + SumFunctionOnSet(RowAmount', {t} \ {t})
        <5>1. IsFiniteSet({t}) /\ \A u \in {t} : RowAmount'[u] \in Nat
          BY <1>8, <3>2, FS_Singleton DEF BalanceRow
        <5> DEFINE f == RowAmount'
        <5>2. IsFiniteSet({t}) /\ \A u \in {t} : f[u] \in Nat
          BY <5>1
        <5> HIDE DEF f
        <5>3. SumFunctionOnSet(f, {t}) = f[t] + SumFunctionOnSet(f, {t} \ {t})
          BY <5>2, SumTakesOut
        <5>4. QED
          BY <5>3 DEF f
      <4>2. {t} \ {t} = {} /\ SumFunctionOnSet(RowAmount', {}) = 0
        BY SumEmpty
      <4>3. RowAmount'[t] = b.amount /\ b.amount \in Nat
        BY <1>8, <3>2 DEF BalanceRow
      <4>4. added(g) = SumFunctionOnSet(RowAmount', {t})
        BY <3>4
      <4> HIDE DEF added, New
      <4>5. SumFunctionOnSet(RowAmount', {t} \ {t}) = 0
        BY <4>2, Zenon
      <4>6. QED
        BY <4>1, <4>3, <4>4, <4>5
    <3>6. DueTo(p, g)' = DueTo(p, g) \ {b}
      BY <2>7, <3>2, <3>3 DEF DueTo
    <3>7. Promised(p, g) = b.amount + Promised(p, g)'
      <4>1. Promised(p, g) = b.amount + SumFunctionOnSet(BalanceAmount, DueTo(p, g) \ {b})
        BY <3>2, PromisedLaws
      <4>2. QED
        BY <2>5, <3>6, <4>1
    <3>8. Promised(p, g)' \in Nat
      <4>1. IsFiniteSet(DueTo(p, g)')
        BY <2>7, FS_Subset DEF DueApart, DueTo
      <4>2. \A c \in DueTo(p, g)' : BalanceAmount[c] \in Nat
        BY <1>6, AmountsAreNatNext DEF AmountsNat, DueTo, BalanceAmount, BalanceRow
      <4>3. QED
        BY <2>5, <4>1, <4>2, SumTakesOut
    <3>9. \A q \in Processes \ {p} : Promised(q, g)' = 0
      <4>1. \A q \in Processes \ {p} : DueTo(q, g) = {}
        BY <3>2 DEF DueTo, DueApart
      <4>2. QED
        BY <2>5, <2>6, <4>1, SumEmpty
    <3> HIDE DEF added, New, booked, cleared, b
    <3>10. booked' <= cleared' /\ \A q \in Processes : booked' + Promised(q, g)' <= cleared'
      <4>1. booked + Promised(p, g) <= cleared
        BY <2>2
      <4>2. booked' + Promised(p, g)' <= cleared' /\ booked' <= cleared' /\ booked' \in Nat
        BY <2>3, <2>4, <3>5, <3>7, <3>8, <4>1
      <4>3. QED
        BY <2>3, <2>4, <3>9, <4>2
    <3>11. QED
      BY <3>10 DEF booked, cleared
  <2>11. QED
    BY <2>9, <2>10
<1>16. QED
  BY <1>6, <1>7, <1>13, <1>14, <1>15

\* Before the first allocation nothing is booked or paid.
LEMMA InitPays == PayoutInit => PayoutInv
<1> SUFFICES ASSUME PayoutInit PROVE PayoutInv
  OBVIOUS
<1>1. PayoutTypeOK
  BY BoundsAssumption DEF PayoutInit, PayoutTypeOK, Events
<1>2. MineApart /\ DueApart
  BY FS_EmptySet DEF PayoutInit, MineApart, DueApart
<1>3. \A g \in Agents : /\ Made(g, {"completed"}) = {} /\ Made(g, Counted) = {} /\ Executing(g) = {}
                        /\ \A p \in Processes : DueTo(p, g) = {}
  BY DEF PayoutInit, Made, Counted, Absent, Executing, DueTo
<1>4. Booked({}) = 0 /\ SumFunctionOnSet(BalanceAmount, {}) = 0
  BY SumEmpty DEF Booked
<1>5. PaidWithin
  BY <1>3, <1>4 DEF PaidWithin, PayoutInit
<1>6. PromisedWithin
  <2>1. \A g \in Agents : \A p \in Processes : Promised(p, g) = 0
    BY <1>3, <1>4 DEF Promised
  <2>2. \A g \in Agents : Allocated(ClearedOf(g)) \in Nat
    BY <1>1, AmountsAreNat DEF ClearedOf, Of
  <2>3. QED
    BY <1>3, <1>4, <2>1, <2>2 DEF PromisedWithin
<1>7. QED
  BY <1>1, <1>2, <1>5, <1>6 DEF PayoutInv

\* Every step keeps the invariant.
LEMMA StepPays == PayoutInv /\ [PayoutNext]_payoutVars => PayoutInv'
<1>1. SUFFICES ASSUME PayoutInv, [PayoutNext]_payoutVars PROVE PayoutInv'
  OBVIOUS
<1>2. CASE \/ \E a \in Allocations : Allocate(a)
           \/ \E S \in SUBSET Allocations : Clear(S)
  BY <1>1, <1>2, EarningStep
<1>3. CASE \E p \in Processes : PayoutStep(p)
  BY <1>1, <1>3, ComputeStep, InsertStep, RefuseStep, PayStep DEF PayoutStep
<1>4. CASE \E p \in Processes : Die(p)
  BY <1>1, <1>4, DieStep
<1>5. CASE UNCHANGED payoutVars
  <2>1. PayoutTypeOK' /\ MineApart' /\ DueApart'
    BY <1>1, <1>5 DEF payoutVars, PayoutInv, PayoutTypeOK, MineApart, DueApart
  <2>2. RowAmount' = RowAmount
    BY <1>5 DEF payoutVars, RowAmount
  <2>3. \A g \in Agents : /\ Booked(Made(g, {"completed"}))' = Booked(Made(g, {"completed"}))
                         /\ Booked(Made(g, Counted))' = Booked(Made(g, Counted))
    BY <1>5, <2>2 DEF payoutVars, Booked, Made
  <2>4. \A g \in Agents : Booked(Executing(g))' = Booked(Executing(g))
    BY <1>5, <2>2 DEF payoutVars, Booked, Executing
  <2>5. PaidWithin'
    BY <1>1, <1>5, <2>3, <2>4 DEF payoutVars, PayoutInv, PaidWithin
  <2>6. \A g \in Agents : Allocated(ClearedOf(g))' = Allocated(ClearedOf(g))
    BY <1>5 DEF payoutVars, Allocated, ClearedOf, Of
  <2>7. \A g \in Agents : \A p \in Processes : Promised(p, g)' = Promised(p, g)
    BY <1>5 DEF payoutVars, Promised, DueTo, BalanceAmount, BalanceRow
  <2>8. PromisedWithin'
    BY <1>1, <1>5, <2>3, <2>6, <2>7 DEF payoutVars, PayoutInv, PromisedWithin
  <2>9. QED
    BY <2>1, <2>5, <2>8 DEF PayoutInv
<1>6. QED
  BY <1>1, <1>2, <1>3, <1>4, <1>5 DEF PayoutNext

\* It holds in every reachable state.
LEMMA AlwaysPays == PayoutSpec => []PayoutInv
  BY InitPays, StepPays, PTL DEF PayoutSpec

\* The state keeps its types: every transfer that is not absent carries a
\* balance of an agent in a domain.
THEOREM PayoutTypeCorrect == PayoutSpec => []PayoutTypeOK
<1>1. PayoutInv => PayoutTypeOK
  BY DEF PayoutInv
<1>2. QED
  BY <1>1, AlwaysPays, PTL

\* insertTransfers never books an agent more than its cleared allocations, in
\* any number of domains and for any amounts and threshold, unless two sweeps
\* computed a balance of that agent at once.
THEOREM PaidWithinEarnings == PayoutSpec => []NeverOverpaid
<1>1. PayoutInv => NeverOverpaid
  BY DEF PayoutInv, PromisedWithin, NeverOverpaid, Counted, ClearedOf
<1>2. QED
  BY <1>1, AlwaysPays, PTL

\* What executeTransfers has paid an agent lies between its completed transfers
\* and those plus the pending ones, whenever a process dies.
THEOREM PaymentsBooked == PayoutSpec => []BooksMatchPayments
<1>1. PayoutInv => BooksMatchPayments
  <2>1. SUFFICES ASSUME PayoutInv, NEW g \in Agents
                 PROVE  sent[g] <= Booked(Made(g, Counted)) /\ Booked(Made(g, {"completed"})) <= sent[g]
    BY DEF BooksMatchPayments, Counted
  <2>2. /\ Booked(Made(g, {"completed"})) <= sent[g]
        /\ sent[g] + Booked(Executing(g)) <= Booked(Made(g, Counted)) /\ sent[g] \in Nat
    BY <2>1 DEF PayoutInv, PaidWithin, PayoutTypeOK
  <2>3. Booked(Executing(g)) \in Nat /\ Booked(Made(g, Counted)) \in Nat
    <3>1. \A p \in Processes : mine[p] \subseteq Transfers
      BY <2>1 DEF PayoutInv, PayoutTypeOK
    <3>2. Executing(g) \in SUBSET Transfers
      BY <3>1 DEF Executing
    <3>3. QED
      BY <2>1, <3>2, AmountsAreNat DEF PayoutInv, Made
  <2>4. QED
    BY <2>2, <2>3
<1>2. QED
  BY <1>1, AlwaysPays, PTL
=============================================================================
