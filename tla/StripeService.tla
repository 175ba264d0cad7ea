---------------------------- MODULE StripeService ----------------------------
(***************************************************************************)
(* The two writers of the tables side by side: AddSpendingUnits calls,     *)
(* statement by statement, and deliveries of the webhook, statement by     *)
(* statement.  Either may be the first to open a user's account or credit  *)
(* while the other is about to.  Here the real calls take the place of the *)
(* stand-in for other RPCs in Checkout, and the faults strike either side  *)
(* from one budget.  VerifySubscription, which only opens a credit row, as *)
(* a spending call does first, is left out.                                *)
(***************************************************************************)
EXTENDS StripeDB, Sequences

CONSTANTS
    Spender,    \* goroutines that serve AddSpendingUnits
    Deliverer,  \* goroutines that serve the webhook
    Batch,      \* the batches clients may send
    Session,    \* checkout sessions
    MaxCalls,   \* bounds, as in SpendingUnits and Checkout
    MaxNow,
    MaxRepeats,
    MaxFaults

ASSUME BatchAssumption ==
    Batch \subseteq Seq([external : RawId, user : RawId, amount : Int, created_at : Int])
ASSUME SessionAssumption ==
    Session \subseteq [user : RawId, sub : Subscription \cup {Null},
                       cust : Customer \cup {Null}]
ASSUME BoundsAssumption ==
    /\ MaxCalls \in Nat /\ MaxFaults \in Nat
    /\ MaxNow \in Nat \ {0} /\ MaxRepeats \in Nat

VARIABLES
    call, replied, reported, charged, calls,    \* AddSpendingUnits
    now, stripe, completed, hook, filed, held, withdrawn, repeats,  \* the webhook
    first_use,      \* the stand-in, which stays idle
    faults

tables == <<user_account, free_credit, spending_unit, invalid_subscription>>
spending == <<call, replied, reported, charged, calls>>
webhook == <<now, stripe, completed, hook, first_use, filed, held, withdrawn, repeats>>
vars == <<tables, spending, webhook, faults>>

Spend == INSTANCE SpendingUnits WITH Handler <- Spender, acked <- replied

Hook == INSTANCE Checkout WITH Handler <- Deliverer, acked <- filed

-----------------------------------------------------------------------------
Init == Spend!Init /\ Hook!Init

\* A client's batch, its statements, and what may go wrong with them.
AddSpendingUnits(h) ==
    /\ \/ \E b \in Batch : Spend!Receive(h, b)
       \/ Spend!Step(h)
       \/ Spend!Abort(h)
    /\ UNCHANGED webhook

\* Stripe's event, its statements, and what may go wrong with them.
HandleWebhook(h) ==
    /\ \/ \E e \in Session : Hook!Deliver(h, e)
       \/ Hook!Step(h)
       \/ Hook!Abort(h)
    /\ UNCHANGED spending

Stripe == Hook!Stripe /\ UNCHANGED spending

Next ==
    \/ \E h \in Spender : AddSpendingUnits(h)
    \/ \E h \in Deliverer : HandleWebhook(h)
    \/ Stripe

Spec == Init /\ [][Next]_vars

\* What is under way is served to its end, and Stripe redelivers.
FairSpec ==
    /\ Spec
    /\ \A h \in Spender : WF_vars(Spend!Step(h) /\ UNCHANGED webhook)
    /\ \A h \in Deliverer : WF_vars(Hook!Step(h) /\ UNCHANGED spending)
    /\ \A e \in Session :
          WF_vars(\E h \in Deliverer :
                      e \notin filed /\ Hook!Deliver(h, e) /\ UNCHANGED spending)

-----------------------------------------------------------------------------
\* The spending calls keep what they rely on while the webhook opens
\* accounts and credits: whom a call has ensured stays ensured, a unit is
\* charged at most once and against a row, an answer without error is about
\* recorded units and counts each once, and a refused batch leaves no row,
\* though a fault may strike either side.  The credit the webhook opens is
\* the one the units are taken from: it is opened once, by whichever comes
\* first, and what is left of it is what the charges leave.
SpendingHolds ==
    /\ Spend!CallInv
    /\ Spend!CreditRowBeforeUnit
    /\ Spend!ChargedAtMostOnce
    /\ Spend!CreditMatchesCharges
    /\ Spend!AckedIsRecorded
    /\ Spend!LossBoundedByFaults
    /\ Spend!ReportedOnce
    /\ Spend!RefusedLeavesNoTrace

\* The deliveries keep what they rely on while several spending calls of
\* the same user run the account fallback: no bare account hides the one the
\* decision was about, what is to be replaced has ended or was withdrawn after
\* Stripe's answer, and an acknowledged event left its mark and a credit row.
HookHolds ==
    /\ Hook!DecisionStillHolds
    /\ Hook!AckedIsFiled

\* Every accepted call returns, and without a fault it succeeds, although a
\* delivery and another call use the same credit for the first time.
CallReturns == Spend!CallReturns

\* Every event is acknowledged in the end, although spending calls open the
\* account between its statements.
EventuallyAcked == Hook!EventuallyAcked
=============================================================================
