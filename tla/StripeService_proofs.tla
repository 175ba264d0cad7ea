------------------------ MODULE StripeService_proofs ------------------------
(***************************************************************************)
(* The two writers of the tables keep, side by side, what each keeps       *)
(* alone.  The invariants of SpendingUnits and of Checkout are taken over  *)
(* from their proofs: a step of one writer keeps its own invariant, as it  *)
(* does there, and is for the other a step of the environment.             *)
(***************************************************************************)
EXTENDS StripeService, TLAPS

SP == INSTANCE SpendingUnits_proofs WITH Handler <- Spender, acked <- replied

HP == INSTANCE Checkout_proofs WITH Handler <- Deliverer, acked <- filed

-----------------------------------------------------------------------------
(***************************************************************************)
(* SP and HP extend the modules that Spend and Hook are instances of, so   *)
(* that their definitions say the same of the same variables.              *)
(***************************************************************************)

\* A call's arrival, its statements and its faults.
LEMMA SameCall ==
    ASSUME NEW h
    PROVE  (\E b \in Batch : Spend!Receive(h, b)) \/ Spend!Step(h) \/ Spend!Abort(h)
           <=> (\E b \in Batch : SP!Receive(h, b)) \/ SP!Step(h) \/ SP!Abort(h)
BY DEF Spend!Receive, SP!Receive, Spend!EnsureCredit, SP!EnsureCredit,
       Spend!EnsureAccount, SP!EnsureAccount, Spend!RetryCredit,
       SP!RetryCredit, Spend!InsertUnit, SP!InsertUnit, Spend!Consume,
       SP!Consume, Spend!Reply, SP!Reply, Spend!Abort, SP!Abort, Spend!Step,
       SP!Step, Spend!HashExternalID, SP!HashExternalID, Spend!Int32,
       SP!Int32, Spend!InitialCredit, SP!InitialCredit, Spend!Put, SP!Put,
       Spend!Coalesce, SP!Coalesce, Spend!Least, SP!Least, Spend!HasAccount,
       SP!HasAccount, Spend!UpsertUserAccount, SP!UpsertUserAccount,
       Spend!UpsertAndGetFreeCredit, SP!UpsertAndGetFreeCredit,
       Spend!ConsumeFreeCredit, SP!ConsumeFreeCredit,
       Spend!InsertSpendingUnit, SP!InsertSpendingUnit, Spend!ValidItem,
       SP!ValidItem, Spend!ValidBatch, SP!ValidBatch, Spend!Start, SP!Start,
       Spend!Idle, SP!Idle, Spend!Cur, SP!Cur, Spend!Key, SP!Key, Spend!User,
       SP!User, Spend!UnitOf, SP!UnitOf, Spend!Loop, SP!Loop, Spend!NextItem,
       SP!NextItem, Spend!Ensured, SP!Ensured, Spend!Counted, SP!Counted,
       Spend!Resume, SP!Resume, Spend!tables, SP!tables, Spend!history,
       SP!history

\* A delivery's arrival, its statements and its faults.
LEMMA SameDelivery ==
    ASSUME NEW h
    PROVE  (\E e \in Session : Hook!Deliver(h, e)) \/ Hook!Step(h) \/ Hook!Abort(h)
           <=> (\E e \in Session : HP!Deliver(h, e)) \/ HP!Step(h) \/ HP!Abort(h)
BY DEF Hook!Deliver, HP!Deliver, Hook!CheckAccount, HP!CheckAccount,
       Hook!GetSubscription, HP!GetSubscription, Hook!Upsert, HP!Upsert,
       Hook!InsertInvalid, HP!InsertInvalid, Hook!InitCredit, HP!InitCredit,
       Hook!Reply, HP!Reply, Hook!Abort, HP!Abort, Hook!Step, HP!Step,
       Hook!HashExternalID, HP!HashExternalID, Hook!Int32, HP!Int32,
       Hook!InitialCredit, HP!InitialCredit, Hook!Put, HP!Put, Hook!Coalesce,
       HP!Coalesce, Hook!HasAccount, HP!HasAccount, Hook!UpsertUserAccount,
       HP!UpsertUserAccount, Hook!UpsertAndGetFreeCredit,
       HP!UpsertAndGetFreeCredit, Hook!InsertInvalidSubscription,
       HP!InsertInvalidSubscription, Hook!IsSubscriptionCancelled,
       HP!IsSubscriptionCancelled, Hook!Decide, HP!Decide, Hook!Begin,
       HP!Begin, Hook!NotFetched, HP!NotFetched, Hook!Created, HP!Created, Hook!WellFormed,
       HP!WellFormed, Hook!NoSession, HP!NoSession, Hook!Idle, HP!Idle,
       Hook!User, HP!User, Hook!Resume, HP!Resume, Hook!tables, HP!tables,
       Hook!world, HP!world

LEMMA SameStripe == Hook!Stripe <=> HP!Stripe
BY DEF Hook!Stripe, HP!Stripe, Hook!Complete, HP!Complete,
       Hook!CancelSubscription, HP!CancelSubscription, Hook!ScheduleCancel,
       HP!ScheduleCancel, Hook!WithdrawCancel, HP!WithdrawCancel,
       Hook!Fetched, HP!Fetched, Hook!Tick, HP!Tick, Hook!Created, HP!Created,
       Hook!tables, HP!tables, Hook!world, HP!world

LEMMA SameInit == (Spend!Init <=> SP!Init) /\ (Hook!Init <=> HP!Init)
BY DEF Spend!Init, SP!Init, Spend!TablesInit, SP!TablesInit, Spend!EmptyTable,
       SP!EmptyTable, Spend!Idle, SP!Idle,
       Hook!Init, HP!Init, Hook!TablesInit, HP!TablesInit, Hook!EmptyTable,
       HP!EmptyTable, Hook!Idle, HP!Idle, Hook!NoSession, HP!NoSession,
       Hook!NotFetched, HP!NotFetched, Hook!HashExternalID, HP!HashExternalID

\* Both add up and count as the library does.
LEMMA SameSum ==
    ASSUME NEW f, NEW S PROVE Spend!SumFunctionOnSet(f, S) = SP!SumFunctionOnSet(f, S)
BY DEF Spend!SumFunctionOnSet, SP!SumFunctionOnSet,
       Spend!FoldFunctionOnSet, SP!FoldFunctionOnSet,
       Spend!MapThenFoldSet, SP!MapThenFoldSet

LEMMA SameCardinality ==
    ASSUME NEW S PROVE Spend!Cardinality(S) = SP!Cardinality(S)
BY DEF Spend!Cardinality, SP!Cardinality

-----------------------------------------------------------------------------
(***************************************************************************)
(* The invariant: what each keeps alone.  The credits are the ones that    *)
(* both open, the faults come from one budget.                             *)
(***************************************************************************)

SpendingInv ==
    SP!IInv /\ SP!CInv /\ SP!LInv /\ SP!NInv /\ SP!RefusedLeavesNoTrace

IInv == SpendingInv /\ HP!IInv

\* Both initial states are of the same tables.
LEMMA InvInit == Init => IInv
<1> SUFFICES ASSUME Init PROVE IInv
  OBVIOUS
<1>1. SP!Init /\ HP!Init
  BY SameInit DEF Init
<1>2. SpendingInv
  BY <1>1, SP!InvInit, SP!CreditInit, SP!LossInit, SP!CountInit, SP!SourceInit,
     BatchAssumption, BoundsAssumption, AlnumAssumption, CreditAssumption, WordAssumption
  DEF SP!Item, SpendingInv
<1>3. HP!IInv
  BY <1>1, HP!InvInit, SessionAssumption, BoundsAssumption,
     AlnumAssumption, CreditAssumption, WordAssumption
<1> QED
  BY <1>2, <1>3 DEF IInv

\* What the ledger that the calls implement shows of a step, and what no
\* step takes back.
Kept ==
    /\ [SP!Ledger!Next]_(SP!Ledger!vars)
    /\ SP!NoRefill
    /\ HP!Grow

\* A step of AddSpendingUnits, or none, keeps the invariant of the calls.
LEMMA OwnCall ==
    ASSUME IInv, [SP!Next]_(SP!vars)
    PROVE  SpendingInv' /\ SP!Effect /\ SP!NoRefill /\ [SP!Ledger!Next]_(SP!Ledger!vars)
<1>1. SP!IInv /\ SP!CInv /\ SP!LInv /\ SP!NInv /\ SP!RefusedLeavesNoTrace
  BY DEF IInv, SpendingInv
<1>2. SP!IInv' /\ SP!CInv' /\ SP!LInv' /\ SP!NInv' /\ SP!RefusedLeavesNoTrace'
  BY <1>1, SP!InvStep, SP!CreditInvStep, SP!LossInvStep, SP!CountInvStep,
     SP!SourceInvStep, BatchAssumption, BoundsAssumption,
     AlnumAssumption, CreditAssumption, WordAssumption
  DEF SP!Item
<1>3. SP!Effect /\ SP!NoRefill /\ [SP!Ledger!Next]_(SP!Ledger!vars)
  BY <1>1, SP!EffectStep, SP!RefillStep, SP!LedgerStep, BatchAssumption, BoundsAssumption,
     AlnumAssumption, CreditAssumption, WordAssumption
  DEF SP!Item
<1> QED
  BY <1>2, <1>3 DEF SpendingInv

\* So does a step of others that only adds accounts and opens credits.
LEMMA OthersCall ==
    ASSUME IInv, SP!Environment
    PROVE  SpendingInv' /\ SP!NoRefill /\ [SP!Ledger!Next]_(SP!Ledger!vars)
<1>1. SP!IInv /\ SP!CInv /\ SP!LInv /\ SP!NInv /\ SP!RefusedLeavesNoTrace
  BY DEF IInv, SpendingInv
<1>2. SP!IInv' /\ SP!CInv' /\ SP!LInv' /\ SP!NInv' /\ SP!RefusedLeavesNoTrace'
  BY <1>1, SP!EnvironmentInv, SP!EnvironmentCredit, SP!EnvironmentLoss,
     SP!EnvironmentCount, SP!EnvironmentSource, BatchAssumption, BoundsAssumption,
     AlnumAssumption, CreditAssumption, WordAssumption
  DEF SP!Item
<1>3. SP!NoRefill /\ [SP!Ledger!Next]_(SP!Ledger!vars)
  BY <1>1, SP!EnvironmentLedger, BatchAssumption, BoundsAssumption,
     AlnumAssumption, CreditAssumption, WordAssumption
  DEF SP!Item
<1> QED
  BY <1>2, <1>3 DEF SpendingInv

\* A spending call keeps its own invariant, and is for the deliveries a step
\* of others that adds bare accounts and credits.
LEMMA CallStep ==
    ASSUME IInv, NEW h \in Spender, AddSpendingUnits(h) PROVE IInv' /\ Kept
<1>1. SP!Next
  BY SameCall DEF AddSpendingUnits, SP!Next
<1>2. SpendingInv' /\ SP!Effect /\ SP!NoRefill /\ [SP!Ledger!Next]_(SP!Ledger!vars)
  BY <1>1, OwnCall
<1>3. UNCHANGED webhook
  BY DEF AddSpendingUnits
<1>4. HP!Environment
  BY <1>2, <1>3
  DEF webhook, SP!Effect, HP!Environment, HP!world,
      SP!AccountsOnlyAdded, HP!AccountsOnlyAdded, SP!TablesTypeOK, HP!TablesTypeOK,
      SP!AccountRow, HP!AccountRow, SP!UnitRow, HP!UnitRow, SP!InvalidRow, HP!InvalidRow
<1>5. HP!IInv' /\ HP!Grow
  BY <1>4, HP!EnvironmentInv, SessionAssumption, BoundsAssumption,
     AlnumAssumption, CreditAssumption, WordAssumption
  DEF IInv
<1> QED
  BY <1>2, <1>5 DEF IInv, Kept

\* A delivery, or a step at Stripe, keeps its own invariant, and is for the
\* spending calls a step of others that adds accounts and opens a credit.
LEMMA WebhookStep ==
    ASSUME IInv, Stripe \/ \E h \in Deliverer : HandleWebhook(h) PROVE IInv' /\ Kept
<1>1. \/ HP!Stripe
      \/ \E h \in Deliverer :
            (\E e \in Session : HP!Deliver(h, e)) \/ HP!Step(h) \/ HP!Abort(h)
  BY SameDelivery, SameStripe DEF Stripe, HandleWebhook
<1>2. HP!IInv' /\ HP!Grow
  <2>1. HP!Next
    BY <1>1 DEF HP!Next
  <2> QED
    BY <2>1, HP!InvStep, SessionAssumption, BoundsAssumption,
       AlnumAssumption, CreditAssumption, WordAssumption
    DEF IInv
<1>3. HP!Effect
  BY <1>1, HP!EffectStep, SessionAssumption, BoundsAssumption,
     AlnumAssumption, CreditAssumption, WordAssumption
  DEF IInv
<1>4. UNCHANGED spending
  BY DEF Stripe, HandleWebhook
<1>5. SP!Environment
  BY <1>3, <1>4
  DEF spending, HP!Effect, SP!Environment, SP!history,
      SP!OpensCredit, HP!OpensCredit, SP!Put, HP!Put,
      SP!InitialCredit, HP!InitialCredit, SP!Int32, HP!Int32,
      SP!TablesTypeOK, HP!TablesTypeOK, SP!AccountRow, HP!AccountRow,
      SP!UnitRow, HP!UnitRow, SP!InvalidRow, HP!InvalidRow
<1> QED
  BY <1>2, <1>5, OthersCall DEF IInv, Kept

\* A step that changes nothing.
LEMMA Stutter == ASSUME IInv, UNCHANGED vars PROVE IInv' /\ Kept
<1>1. UNCHANGED SP!vars /\ UNCHANGED HP!vars
  BY DEF vars, tables, spending, webhook, SP!vars, SP!tables, SP!history,
         HP!vars, HP!tables, HP!world
<1>2. HP!IInv' /\ HP!Grow
  BY <1>1, HP!InvStep, SessionAssumption, BoundsAssumption,
     AlnumAssumption, CreditAssumption, WordAssumption
  DEF IInv
<1> QED
  BY <1>1, <1>2, OwnCall DEF IInv, Kept

LEMMA InvStep == IInv /\ [Next]_vars => IInv' /\ Kept
BY CallStep, WebhookStep, Stutter DEF Next

\* The inductive invariant holds in every reachable state.
THEOREM Invariance == Spec => []IInv
BY InvInit, InvStep, PTL DEF Spec

-----------------------------------------------------------------------------
(***************************************************************************)
(* The theorems.                                                           *)
(***************************************************************************)

\* Beside deliveries that open accounts and credits, a call finds whom it has
\* ensured, a unit is charged at most once and against a row, the credit that
\* either opened is what the charges leave, an answer without error is about
\* recorded units and counts each once, a refused batch leaves no row, and a
\* fault costs one charge at most (SpendingHolds).
THEOREM SpendingSafe == Spec => []SpendingHolds
<1>1. SpendingInv => SpendingHolds
  <2> SUFFICES ASSUME SpendingInv PROVE SpendingHolds
    OBVIOUS
  <2>1. Spend!CallInv
    BY DEF SpendingInv, SP!IInv, SP!CallInv, Spend!CallInv, SP!Cur, Spend!Cur,
           SP!HashExternalID, Spend!HashExternalID
  <2>2. Spend!CreditRowBeforeUnit
    BY DEF SpendingInv, SP!IInv, SP!CreditRowBeforeUnit, Spend!CreditRowBeforeUnit,
           SP!User, Spend!User, SP!Cur, Spend!Cur, SP!HashExternalID, Spend!HashExternalID
  <2>3. Spend!ChargedAtMostOnce
    BY DEF SpendingInv, SP!IInv, SP!ChargedAtMostOnce, Spend!ChargedAtMostOnce,
           SP!Key, Spend!Key, SP!UnitOf, Spend!UnitOf, SP!User, Spend!User,
           SP!Cur, Spend!Cur, SP!HashExternalID, Spend!HashExternalID
  <2>4. Spend!CreditMatchesCharges
    BY SameSum
    DEF SpendingInv, SP!CInv, SP!Left, Spend!CreditMatchesCharges,
        SP!Taken, Spend!Taken, SP!Amount, Spend!Amount,
        SP!InitialCredit, Spend!InitialCredit, SP!Int32, Spend!Int32
  <2>5. Spend!AckedIsRecorded
    BY DEF SpendingInv, SP!IInv, SP!AckedIsRecorded, Spend!AckedIsRecorded,
           SP!HashExternalID, Spend!HashExternalID
  <2>6. Spend!LossBoundedByFaults
    BY SameCardinality
    DEF SpendingInv, SP!LInv, SP!Lost, Spend!LossBoundedByFaults,
        SP!Pending, Spend!Pending, SP!Key, Spend!Key, SP!Cur, Spend!Cur,
        SP!HashExternalID, Spend!HashExternalID
  <2>7. Spend!ReportedOnce
    BY SameSum, SameCardinality
    DEF SpendingInv, SP!NInv, SP!CountedRows, Spend!ReportedOnce,
        SP!Total, Spend!Total, SP!Serving, Spend!Serving
  <2>8. Spend!RefusedLeavesNoTrace
    BY DEF SpendingInv, SP!RefusedLeavesNoTrace, Spend!RefusedLeavesNoTrace,
           SP!ValidBatch, Spend!ValidBatch, SP!ValidItem, Spend!ValidItem,
           SP!HashExternalID, Spend!HashExternalID
  <2> QED
    BY <2>1, <2>2, <2>3, <2>4, <2>5, <2>6, <2>7, <2>8 DEF SpendingHolds
<1>2. IInv => SpendingInv
  BY DEF IInv
<1> QED
  BY <1>1, <1>2, Invariance, PTL

\* Beside spending calls that run the account fallback, a delivery finds what
\* it decided about as it was, no account mixes two sessions, and an
\* acknowledged event left its subscription on file and its user with a credit
\* (HookHolds).
THEOREM HookSafe == Spec => []HookHolds
<1>1. HP!IInv => HookHolds
  <2> SUFFICES ASSUME HP!IInv PROVE HookHolds
    OBVIOUS
  <2>1. Hook!DecisionStillHolds
    BY DEF HP!IInv, HP!HookInv, HP!DeliveryOK, HP!Subscribed, Hook!DecisionStillHolds,
           HP!Over, HP!Ended, Hook!Ended, Hook!HasAccount, HP!User, Hook!User,
           HP!HashExternalID, Hook!HashExternalID
  <2>2. Hook!AckedIsFiled
    BY DEF HP!IInv, HP!AckedInv, HP!Filed, Hook!AckedIsFiled,
           HP!HashExternalID, Hook!HashExternalID
  <2> QED
    BY <2>1, <2>2 DEF HookHolds
<1>2. IInv => HP!IInv
  BY DEF IInv
<1> QED
  BY <1>1, <1>2, Invariance, PTL

\* Beside spending calls too, an account shows the subscription and the customer
\* of one session of its user, whatever bare accounts the fallback upserts over it.
THEOREM OneSession == Spec => []Hook!AccountOfOneSession
<1>1. HP!IInv => Hook!AccountOfOneSession
  BY DEF HP!IInv, HP!AccountOfOneSession, Hook!AccountOfOneSession,
         HP!HashExternalID, Hook!HashExternalID
<1>2. IInv => HP!IInv
  BY DEF IInv
<1> QED
  BY <1>1, <1>2, Invariance, PTL

\* The two writers together implement the ledger: a credit is opened once, by a
\* call or by a delivery, a unit is recorded once and charged at most once.
THEOREM ImplementsLedger == Spec => Spend!LedgerSpec
<1>1. Init => Spend!Ledger!Init
  BY DEF Init, Spend!Init, Spend!TablesInit, Spend!EmptyTable, Spend!Ledger!Init
<1>2. IInv /\ [Next]_vars => [Spend!Ledger!Next]_(Spend!Ledger!vars)
  <2> SUFFICES ASSUME IInv, [Next]_vars PROVE [Spend!Ledger!Next]_(Spend!Ledger!vars)
    OBVIOUS
  <2>1. [SP!Ledger!Next]_(SP!Ledger!vars)
    BY InvStep DEF Kept
  <2> QED
    BY <2>1
    DEF SP!Ledger!Next, Spend!Ledger!Next, SP!Ledger!vars, Spend!Ledger!vars,
        SP!Ledger!Open, Spend!Ledger!Open, SP!Ledger!Record, Spend!Ledger!Record,
        SP!Ledger!Charge, Spend!Ledger!Charge, SP!Ledger!With, Spend!Ledger!With,
        SP!Ledger!Deduct, Spend!Ledger!Deduct, SP!Rows, Spend!Rows,
        SP!InitialCredit, Spend!InitialCredit, SP!Int32, Spend!Int32,
        SP!HashExternalID, Spend!HashExternalID
<1> QED
  BY <1>1, <1>2, Invariance, PTL DEF Spec, Spend!LedgerSpec, Spend!Ledger!Spec

\* No step of either gives credit back, or takes an account or its subscription
\* away without putting another in its place.
THEOREM NothingTakenBack ==
    Spec => Spend!CreditNeverRefilled /\ Hook!SubscriptionNeverErased
<1>1. IInv /\ [Next]_vars =>
         [\A u \in DOMAIN free_credit :
             /\ u \in DOMAIN free_credit'
             /\ \/ free_credit'[u] <= free_credit[u]
                \/ free_credit[u] < 0 /\ free_credit'[u] = 0]_(Spend!vars)
  BY InvStep DEF Kept, SP!NoRefill
<1>2. IInv /\ [Next]_vars =>
         [\A u \in DOMAIN user_account :
             /\ u \in DOMAIN user_account'
             /\ user_account[u].sub # Null => user_account'[u].sub # Null]_(Hook!vars)
  BY InvStep DEF Kept, HP!Grow
<1> QED
  BY <1>1, <1>2, Invariance, PTL
  DEF Spec, Spend!CreditNeverRefilled, Hook!SubscriptionNeverErased
=============================================================================
