------------------------------ MODULE Checkout ------------------------------
(***************************************************************************)
(* Stripe's checkout.session.completed webhook.  The handler reads the     *)
(* user's account, asks Stripe about the subscription it finds there,      *)
(* looks at the clock, and then either makes the new subscription the      *)
(* account's or files it as invalid.  Nothing holds the account between    *)
(* the read and the write, or Stripe between the answer and the decision.  *)
(* Stripe sends an event again until it is answered without error, and may *)
(* send it again after that, or to two machines at once.  Beside the       *)
(* webhook, other RPCs make their first use of a user's free credit, whose *)
(* foreign-key fallback creates accounts without a subscription.           *)
(*                                                                         *)
(* Left out: the signature check and the decoding of the event, which end  *)
(* in an error before any step modelled here; the number of equal rows of  *)
(* invalid_subscription, which has no unique index (a row is in the set or *)
(* not).  A fault is as in SpendingUnits, and stands for an error of the   *)
(* call to Stripe too.                                                     *)
(***************************************************************************)
EXTENDS StripeDB

CONSTANTS
    Handler,    \* goroutines that serve the webhook
    Session,    \* checkout sessions: [user, sub, cust]
    MaxNow,     \* bound: the last instant of the clock
    MaxFaults,  \* bound: deliveries hit by a fault in a behaviour
    MaxRepeats  \* bound: deliveries of events already acknowledged

ASSUME SessionAssumption ==
    Session \subseteq [user : RawId, sub : Subscription \cup {Null},
                       cust : Customer \cup {Null}]
ASSUME BoundsAssumption ==
    MaxNow \in Nat \ {0} /\ MaxFaults \in Nat /\ MaxRepeats \in Nat

VARIABLES
    now,        \* Unix time, as time.Now() and Stripe see it
    stripe,     \* Stripe: subscription -> [status, cancel_at]
    completed,  \* Stripe: sessions the customers completed
    hook,       \* the delivery each handler is serving
    first_use,  \* user digest -> progress of another RPC's GetFreeCredit
    acked,      \* sessions whose event was answered without error
    held,       \* history: [user, sub] that were an account's subscription
    withdrawn,  \* history: subscriptions whose cancellation was withdrawn
                \* while a delivery held Stripe's earlier answer
    repeats,    \* number of deliveries of acknowledged events so far
    faults      \* number of faults so far

tables == <<user_account, free_credit, spending_unit, invalid_subscription>>
world == <<now, stripe, completed, withdrawn>>
vars == <<tables, world, hook, first_use, acked, held, repeats, faults>>

-----------------------------------------------------------------------------
(***************************************************************************)
(* Stripe, as far as the handler can tell.  A subscription is created by   *)
(* its session and never comes back once it has ended.                     *)
(***************************************************************************)

Created(s) == \E e \in completed : e.sub = s

Complete(e) ==
    /\ e \notin completed
    /\ completed' = completed \cup {e}
    /\ UNCHANGED <<tables, now, stripe, withdrawn, hook, first_use, acked, held, repeats,
                   faults>>

\* The customer cancels, a scheduled cancellation is carried out, or the
\* CancelSubscription RPC is called, which touches no table.  What was
\* scheduled does not matter any more.
CancelSubscription(s) ==
    /\ Created(s)
    /\ stripe[s].status # "canceled"
    /\ stripe' = [stripe EXCEPT ![s] = [status |-> "canceled", cancel_at |-> 0]]
    /\ UNCHANGED <<tables, now, completed, withdrawn, hook, first_use, acked, held,
                   repeats, faults>>

\* Instants are coarse: cancel_at is the end of the current one, and until
\* then the customer may withdraw the cancellation.  None is scheduled for
\* the end of the last instant, which never comes.
ScheduleCancel(s) ==
    /\ Created(s)
    /\ now < MaxNow
    /\ stripe[s] = [status |-> "active", cancel_at |-> 0]
    /\ stripe' = [stripe EXCEPT ![s].cancel_at = now]
    /\ UNCHANGED <<tables, now, completed, withdrawn, hook, first_use, acked, held,
                   repeats, faults>>

\* Some delivery holds what Stripe says of s now, and has not decided yet.
Fetched(s) ==
    \E h \in Handler :
        hook[h].pc = "decide" /\ hook[h].prev = s /\ hook[h].got = stripe[s]

WithdrawCancel(s) ==
    /\ stripe[s] = [status |-> "active", cancel_at |-> now]
    /\ stripe' = [stripe EXCEPT ![s].cancel_at = 0]
    /\ withdrawn' = IF Fetched(s) THEN withdrawn \cup {s} ELSE withdrawn
    /\ UNCHANGED <<tables, now, completed, hook, first_use, acked, held, repeats, faults>>

Tick ==
    /\ now < MaxNow
    /\ now' = now + 1
    /\ UNCHANGED <<tables, stripe, completed, withdrawn, hook, first_use, acked, held,
                   repeats, faults>>

\* Mutant: a scheduled cancellation counts before its time.
IsSubscriptionCancelled_Scheduled(sub) ==
    sub.cancel_at # 0 \/ sub.status = "canceled"

IsSubscriptionCancelled(sub) ==
    \/ sub.cancel_at # 0 /\ now > sub.cancel_at
    \/ sub.status = "canceled"

-----------------------------------------------------------------------------
(***************************************************************************)
(* A delivery.                                                             *)
(***************************************************************************)

WellFormed(e) == e.user # "" /\ e.cust # Null /\ e.sub # Null

NoSession == [user |-> "", sub |-> Null, cust |-> Null]

NotFetched == [status |-> "none", cancel_at |-> 0]

Idle == [pc |-> "idle", session |-> NoSession, prev |-> Null, got |-> NotFetched]

Begin(e) == [Idle EXCEPT !.pc = "check", !.session = e]

User(d) == HashExternalID(d.session.user)

\* A statement of h has run: h goes on as d, or a fault keeps the answer
\* from it.
Resume(h, d) ==
    \/ /\ hook' = [hook EXCEPT ![h] = d]
       /\ UNCHANGED faults
    \/ /\ faults < MaxFaults
       /\ hook' = [hook EXCEPT ![h] = Idle]
       /\ faults' = faults + 1

\* Mutant: an event whose subscription is the account's already is taken for
\* a duplicate and refused.
Deliver_RefuseKnown(h, e) ==
    /\ hook[h].pc = "idle"
    /\ e \in completed
    /\ \/ e \notin acked /\ UNCHANGED repeats
       \/ e \in acked /\ repeats < MaxRepeats /\ repeats' = repeats + 1
    /\ hook' = [hook EXCEPT ![h] =
                   IF /\ WellFormed(e)
                      /\ ~\E u \in DOMAIN user_account : user_account[u].sub = e.sub
                   THEN Begin(e) ELSE Idle]
    /\ UNCHANGED <<tables, world, first_use, acked, held, faults>>

\* An event that lacks the user, the customer or the subscription is
\* refused (ErrBadEvent) before a table is touched.
Deliver(h, e) ==
    /\ hook[h].pc = "idle"
    /\ e \in completed
    /\ \/ e \notin acked /\ UNCHANGED repeats
       \/ e \in acked /\ repeats < MaxRepeats /\ repeats' = repeats + 1
    /\ hook' = [hook EXCEPT ![h] =
                   IF WellFormed(e)
                   THEN Begin(e) ELSE Idle]
    /\ UNCHANGED <<tables, world, first_use, acked, held, faults>>

\* CheckUserAccount; an account without a subscription is as good as none.
CheckAccount(h) ==
    LET d == hook[h]
        prev == IF HasAccount(User(d)) THEN user_account[User(d)].sub ELSE Null
    IN  /\ d.pc = "check"
        /\ hook' = [hook EXCEPT ![h].prev = prev,
                                ![h].pc = IF prev = Null THEN "upsert" ELSE "gateway"]
        /\ UNCHANGED <<tables, world, first_use, acked, held, repeats, faults>>

GetSubscription(h) ==
    LET d == hook[h] IN
    /\ d.pc = "gateway"
    /\ hook' = [hook EXCEPT ![h].got = stripe[d.prev], ![h].pc = "decide"]
    /\ UNCHANGED <<tables, world, first_use, acked, held, repeats, faults>>

\* Mutant: the two outcomes are swapped.
Decide_Swapped(h) ==
    LET d == hook[h] IN
    /\ d.pc = "decide"
    /\ hook' = [hook EXCEPT ![h].got = NotFetched,
                            ![h].pc = IF IsSubscriptionCancelled(d.got)
                                      THEN "invalid" ELSE "upsert"]
    /\ UNCHANGED <<tables, world, first_use, acked, held, repeats, faults>>

\* The clock is read here, after Stripe's answer, which is not used again.
Decide(h) ==
    LET d == hook[h] IN
    /\ d.pc = "decide"
    /\ hook' = [hook EXCEPT ![h].got = NotFetched,
                            ![h].pc = IF IsSubscriptionCancelled(d.got)
                                      THEN "upsert" ELSE "invalid"]
    /\ UNCHANGED <<tables, world, first_use, acked, held, repeats, faults>>

\* Mutant: the customer of the first session is kept for ever.
Upsert_KeepCustomer(h) ==
    LET d == hook[h]
        cust == IF HasAccount(User(d)) /\ user_account[User(d)].cust # Null
                THEN Null ELSE d.session.cust
    IN  /\ d.pc = "upsert"
        /\ UpsertUserAccount(User(d), d.session.sub, cust)
        /\ held' = held \cup {[user |-> User(d), sub |-> d.session.sub]}
        /\ Resume(h, [d EXCEPT !.pc = "credit"])
        /\ UNCHANGED <<free_credit, spending_unit, invalid_subscription, world,
                       first_use, acked, repeats>>

Upsert(h) ==
    LET d == hook[h] IN
    /\ d.pc = "upsert"
    /\ UpsertUserAccount(User(d), d.session.sub, d.session.cust)
    /\ held' = held \cup {[user |-> User(d), sub |-> d.session.sub]}
    /\ Resume(h, [d EXCEPT !.pc = "credit"])
    /\ UNCHANGED <<free_credit, spending_unit, invalid_subscription, world,
                   first_use, acked, repeats>>

\* The account was there at CheckAccount and no code deletes one, so the
\* insert meets no foreign-key violation (DecisionStillHolds) and the
\* fallback after one is not modelled here.
InsertInvalid(h) ==
    LET d == hook[h] IN
    /\ d.pc = "invalid"
    /\ InsertInvalidSubscription(User(d), d.session.sub, d.session.cust)
    /\ Resume(h, [d EXCEPT !.pc = "credit"])
    /\ UNCHANGED <<user_account, free_credit, spending_unit, world,
                   first_use, acked, held, repeats>>

\* GetFreeCredit; again the account is there and one statement is enough.
InitCredit(h) ==
    LET d == hook[h] IN
    /\ d.pc = "credit"
    /\ UpsertAndGetFreeCredit(User(d))
    /\ Resume(h, [d EXCEPT !.pc = "reply"])
    /\ UNCHANGED <<user_account, spending_unit, invalid_subscription, world,
                   first_use, acked, held, repeats>>

Reply(h) ==
    /\ hook[h].pc = "reply"
    /\ acked' = acked \cup {hook[h].session}
    /\ hook' = [hook EXCEPT ![h] = Idle]
    /\ UNCHANGED <<tables, world, first_use, held, repeats, faults>>

\* Mutant: an error is logged and the event acknowledged all the same.
Abort_Acknowledged(h) ==
    /\ hook[h].pc # "idle"
    /\ faults < MaxFaults
    /\ hook' = [hook EXCEPT ![h].pc = "reply"]
    /\ faults' = faults + 1
    /\ UNCHANGED <<tables, world, first_use, acked, held, repeats>>

\* A statement or the call to Stripe fails without effect, the reply is
\* lost, or the machine dies between two steps.
Abort(h) ==
    /\ hook[h].pc # "idle"
    /\ faults < MaxFaults
    /\ hook' = [hook EXCEPT ![h] = Idle]
    /\ faults' = faults + 1
    /\ UNCHANGED <<tables, world, first_use, acked, held, repeats>>

-----------------------------------------------------------------------------
(***************************************************************************)
(* GetFreeCredit on behalf of another RPC, one at a time for each user:    *)
(* the three statements of the case where the account is missing at first. *)
(***************************************************************************)

rest == <<spending_unit, invalid_subscription, world, hook, acked, held, repeats, faults>>

UseCredit(u) ==
    /\ first_use[u] = "idle"
    /\ UpsertAndGetFreeCredit(u)
    /\ first_use' = [first_use EXCEPT ![u] = IF HasAccount(u) THEN "idle" ELSE "account"]
    /\ UNCHANGED <<user_account, rest>>

UseAccount(u) ==
    /\ first_use[u] = "account"
    /\ UpsertUserAccount(u, Null, Null)
    /\ first_use' = [first_use EXCEPT ![u] = "recredit"]
    /\ UNCHANGED <<free_credit, rest>>

UseRetry(u) ==
    /\ first_use[u] = "recredit"
    /\ UpsertAndGetFreeCredit(u)
    /\ first_use' = [first_use EXCEPT ![u] = "idle"]
    /\ UNCHANGED <<user_account, rest>>

-----------------------------------------------------------------------------
Init ==
    /\ TablesInit
    /\ now = 1
    /\ stripe = [s \in Subscription |-> [status |-> "active", cancel_at |-> 0]]
    /\ completed = {}
    /\ withdrawn = {}
    /\ hook = [h \in Handler |-> Idle]
    /\ first_use = [u \in {HashExternalID(e.user) : e \in Session} |-> "idle"]
    /\ acked = {}
    /\ held = {}
    /\ repeats = 0
    /\ faults = 0

Step(h) ==
    \/ CheckAccount(h)
    \/ GetSubscription(h)
    \/ Decide(h)
    \/ Upsert(h)
    \/ InsertInvalid(h)
    \/ InitCredit(h)
    \/ Reply(h)

Stripe ==
    \/ \E e \in Session : Complete(e)
    \/ \E s \in Subscription :
          CancelSubscription(s) \/ ScheduleCancel(s) \/ WithdrawCancel(s)
    \/ Tick

OtherRPC ==
    \E u \in DOMAIN first_use : UseCredit(u) \/ UseAccount(u) \/ UseRetry(u)

Next ==
    \/ Stripe
    \/ OtherRPC
    \/ \E h \in Handler :
          \/ \E e \in Session : Deliver(h, e)
          \/ Step(h)
          \/ Abort(h)

Spec == Init /\ [][Next]_vars

\* A delivery under way is served to its end, and Stripe sends an event
\* that was not acknowledged again.
FairSpec ==
    /\ Spec
    /\ \A h \in Handler : WF_vars(Step(h))
    /\ \A e \in Session : WF_vars(\E h \in Handler : e \notin acked /\ Deliver(h, e))

-----------------------------------------------------------------------------
StripeRow == [status : {"active", "canceled"}, cancel_at : Nat]

\* The tables, Stripe's state and the deliveries are well formed; a
\* delivery under way is of a complete session.
Delivery ==
    [pc : {"check", "gateway", "decide", "upsert", "invalid", "credit", "reply"},
     session : {e \in Session : WellFormed(e)},
     prev : Subscription \cup {Null},
     got : StripeRow \cup {NotFetched}]

TypeOK ==
    /\ TablesTypeOK
    /\ now \in 1 .. MaxNow
    /\ stripe \in [Subscription -> StripeRow]
    /\ completed \subseteq Session
    /\ withdrawn \subseteq Subscription
    /\ hook \in [Handler -> Delivery \cup {Idle}]
    /\ first_use \in [{HashExternalID(e.user) : e \in Session}
                        -> {"idle", "account", "recredit"}]
    /\ acked \subseteq completed
    /\ held \subseteq [user : Digest, sub : Subscription]
    /\ repeats \in 0 .. MaxRepeats
    /\ faults \in 0 .. MaxFaults

-----------------------------------------------------------------------------
(***************************************************************************)
(* Properties.                                                             *)
(***************************************************************************)

\* The subscription ended at Stripe, and it will not come back.
Ended(s) ==
    stripe[s].status = "canceled" \/ (stripe[s].cancel_at # 0 /\ now > stripe[s].cancel_at)

\* Whatever handlers and fallbacks did to it, an account shows the
\* subscription and the customer of one session its user completed.
AccountOfOneSession ==
    \A u \in DOMAIN user_account : user_account[u].sub # Null =>
        \E e \in completed :
            HashExternalID(e.user) = u /\ user_account[u] = [sub |-> e.sub, cust |-> e.cust]

\* An event answered without error left its subscription on file, as the
\* account's, at least for a time, or as an invalid one, and left the user
\* with a free-credit row, whichever deliveries failed before.
AckedIsFiled ==
    \A e \in acked :
        LET u == HashExternalID(e.user) IN
        /\ \/ [user |-> u, sub |-> e.sub] \in held
           \/ [user |-> u, sub |-> e.sub, cust |-> e.cust] \in invalid_subscription
        /\ u \in DOMAIN free_credit

\* What a handler decided from what it read stays right until it acts: the
\* subscription it read and is to replace has ended, unless the customer
\* withdrew the cancellation after Stripe had answered and the clock then
\* passed its time, and the account whose subscription made the new one
\* invalid is still there with one.
DecisionStillHolds ==
    \A h \in Handler :
        LET d == hook[h] IN
        /\ d.pc = "upsert" => d.prev = Null \/ Ended(d.prev) \/ d.prev \in withdrawn
        /\ d.pc = "invalid" =>
              HasAccount(User(d)) /\ user_account[User(d)].sub # Null

\* No step, and no fallback that raced with the webhook, takes an account
\* or its subscription away without putting another in its place.
SubscriptionNeverErased ==
    [][\A u \in DOMAIN user_account :
          /\ u \in DOMAIN user_account'
          /\ user_account[u].sub # Null => user_account'[u].sub # Null]_vars

\* With one delivery at a time, an account's subscription gives way to
\* another only once it has ended, or if its cancellation was withdrawn
\* between Stripe's answer and the decision.
ReplacedOnlyAfterEnd ==
    [][\A u \in DOMAIN user_account :
          LET s == user_account[u].sub
          IN  s # Null /\ user_account'[u].sub # s => Ended(s) \/ s \in withdrawn]_vars

OnFile(e) ==
    LET u == HashExternalID(e.user) IN
    \/ user_account[u].sub = e.sub
    \/ [user |-> u, sub |-> e.sub, cust |-> e.cust] \in invalid_subscription

\* With one delivery at a time, a live subscription whose event was
\* acknowledged is the account's or is on file as invalid, unless its
\* cancellation was withdrawn between Stripe's answer and a decision.
OnFileUnlessWithdrawn ==
    \A e \in acked : ~Ended(e.sub) /\ e.sub \notin withdrawn => OnFile(e)

\* Stripe's redelivery brings every complete session to an acknowledgement,
\* whatever finitely many faults do to its deliveries.
EventuallyAcked ==
    \A e \in Session : WellFormed(e) => ((e \in completed) ~> (e \in acked))

-----------------------------------------------------------------------------
(***************************************************************************)
(* Claims the code makes that it does not keep.                            *)
(***************************************************************************)

\* "previous subscription cancelled, replacing with new subscription",
\* "Second insert goes to invalid_subscription and does not update
\* user_account": a live subscription whose event was acknowledged is the
\* account's or is on file as invalid.
LiveSubscriptionOnFile == \A e \in acked : ~Ended(e.sub) => OnFile(e)

\* "previous subscription active, recording new subscription as invalid":
\* what is filed as invalid is another subscription than the account's.
CurrentNotInvalid ==
    \A row \in invalid_subscription : user_account[row.user].sub # row.sub
=============================================================================
