------------------------------- MODULE Verify -------------------------------
(***************************************************************************)
(* The VerifySubscriptionValidity RPC.  Its answer is put together from    *)
(* the free credit, the account, the subscription and the customer at      *)
(* Stripe and the units of the billing period, read one after the other    *)
(* while other RPCs, the webhook, the customer and the clock go on.        *)
(*                                                                         *)
(* Of the other RPCs and of the webhook each statement that Verify reads   *)
(* from is a step of its own, and any of them may fail to follow.  What a  *)
(* delivery read and decided before it writes is in Checkout; deliveries   *)
(* race and decide on what is no longer so, and here a delivery may write  *)
(* at any time and over any account.  An error of a statement or of Stripe *)
(* ends the call with an error and no verdict.                             *)
(***************************************************************************)
EXTENDS StripeDB, Functions

CONSTANTS
    Handler,        \* goroutines that serve the RPC
    Session,        \* checkout sessions: [user, sub, cust]
    Report,         \* units clients report: [key, row]
    Plan,           \* subscription -> [amount in cents or Null, quantity]
    UnitsPerDollar, \* CREDIT_UNITS_PER_DOLLAR
    Period,         \* seconds in a billing period
    MaxNow          \* bound: the last second of the clock

ASSUME SessionAssumption ==
    Session \subseteq [user : RawId, sub : Subscription, cust : Customer]
ASSUME ReportAssumption == Report \subseteq [key : Digest, row : UnitRow]
ASSUME PlanAssumption ==
    Plan \in [Subscription -> [amount : Nat \cup {Null}, quantity : Nat]]
ASSUME NumbersAssumption ==
    UnitsPerDollar \in Nat \ {0} /\ Period \in Nat \ {0}
    /\ MaxNow \in Nat \ {0}

VARIABLES
    now,    \* Unix time in seconds
    stripe, \* Stripe: subscription -> [status, cancel_at, start, end]
    due,    \* recorded units whose handler has not yet consumed the credit
    check,  \* the call each handler is serving
    seen,   \* history: what Entitled was at each moment of the call
    lost    \* history: whether a live subscription of the caller's was
            \* overwritten during the call

tables == <<user_account, free_credit, spending_unit, invalid_subscription>>
world == <<now, stripe, due>>
vars == <<tables, world, check, seen, lost>>

-----------------------------------------------------------------------------
(***************************************************************************)
(* A call.                                                                 *)
(***************************************************************************)

NotFetched == [status |-> "none", cancel_at |-> 0, start |-> 0, end |-> 0]

Idle == [pc |-> "idle", user |-> "", sub |-> Null, got |-> NotFetched,
         verdict |-> "none"]

Begin(r) == [Idle EXCEPT !.pc = "credit", !.user = r]

User(c) == HashExternalID(c.user)

Decide(h, c, v) ==
    check' = [check EXCEPT ![h] = [c EXCEPT !.pc = "reply", !.verdict = v]]

GoOn(h, c, pc) == check' = [check EXCEPT ![h] = [c EXCEPT !.pc = pc]]

IsSubscriptionCancelled(sub) ==
    \/ sub.cancel_at # 0 /\ now > sub.cancel_at
    \/ sub.status = "canceled"

\* Amounts of u's units created in [start, end], in milliseconds.
CountUnitsBetween(u, start, end) ==
    SumFunctionOnSet(Amount, {k \in DOMAIN spending_unit :
                                 /\ spending_unit[k].user = u
                                 /\ spending_unit[k].created_at \in start .. end})

\* Stripe's amount is in cents; dollars are whole.
Limit(p) == (p.amount \div 100) * p.quantity * UnitsPerDollar

-----------------------------------------------------------------------------
Start(h, r) ==
    /\ check[h].pc = "idle"
    /\ r # ""
    /\ check' = [check EXCEPT ![h] = Begin(r)]
    /\ UNCHANGED <<tables, world>>

\* What the value of the credit row leads to.
WithCredit(h, c) ==
    IF free_credit'[User(c)] > 0 THEN Decide(h, c, "freeTier")
                                 ELSE GoOn(h, c, "lookup")

GetFreeCredit(h) ==
    LET c == check[h] IN
    /\ c.pc = "credit"
    /\ UpsertAndGetFreeCredit(User(c))
    /\ IF HasAccount(User(c)) THEN WithCredit(h, c) ELSE GoOn(h, c, "account")
    /\ UNCHANGED <<user_account, spending_unit, invalid_subscription, world>>

EnsureAccount(h) ==
    LET c == check[h] IN
    /\ c.pc = "account"
    /\ UpsertUserAccount(User(c), Null, Null)
    /\ GoOn(h, c, "recredit")
    /\ UNCHANGED <<free_credit, spending_unit, invalid_subscription, world>>

\* Mutant: a user without an account is taken to have no credit.
RetryCredit_AssumeNone(h) ==
    LET c == check[h] IN
    /\ c.pc = "recredit"
    /\ UpsertAndGetFreeCredit(User(c))
    /\ GoOn(h, c, "lookup")
    /\ UNCHANGED <<user_account, spending_unit, invalid_subscription, world>>

\* The account is there by now: nothing deletes one.
RetryCredit(h) ==
    LET c == check[h] IN
    /\ c.pc = "recredit"
    /\ UpsertAndGetFreeCredit(User(c))
    /\ WithCredit(h, c)
    /\ UNCHANGED <<user_account, spending_unit, invalid_subscription, world>>

\* Mutant: an account without a subscription is not told from others.
GetUserAccount_AnySub(h) ==
    LET c == check[h] IN
    /\ c.pc = "lookup"
    /\ IF ~HasAccount(User(c)) THEN Decide(h, c, "noSubscription")
       ELSE GoOn(h, [c EXCEPT !.sub = user_account[User(c)].sub], "gateway")
    /\ UNCHANGED <<tables, world>>

GetUserAccount(h) ==
    LET c == check[h]
        sub == IF HasAccount(User(c)) THEN user_account[User(c)].sub ELSE Null
    IN  /\ c.pc = "lookup"
        /\ IF sub = Null THEN Decide(h, c, "noSubscription")
                         ELSE GoOn(h, [c EXCEPT !.sub = sub], "gateway")
        /\ UNCHANGED <<tables, world>>

GetSubscription(h) ==
    LET c == check[h] IN
    /\ c.pc = "gateway"
    /\ GoOn(h, [c EXCEPT !.got = stripe[c.sub]], "customer")
    /\ UNCHANGED <<tables, world>>

\* The clock is read here, after both calls to Stripe.
GetCustomer(h) ==
    LET c == check[h] IN
    /\ c.pc = "customer"
    /\ IF IsSubscriptionCancelled(c.got) THEN Decide(h, c, "cancelled")
       ELSE IF c.got.status # "active" THEN Decide(h, c, "other")
       ELSE GoOn(h, c, "count")
    /\ UNCHANGED <<tables, world>>

\* Mutant: the bounds of the period stay in seconds.
CountUnits_Seconds(h) ==
    LET c == check[h]
        p == Plan[c.sub]
        n == CountUnitsBetween(User(c), c.got.start, c.got.end)
    IN  /\ c.pc = "count"
        /\ IF p.amount \in {Null, 0} \/ p.quantity = 0
           THEN check' = [check EXCEPT ![h] = Idle]
           ELSE Decide(h, c, IF n > Limit(p) THEN "exhausted" ELSE "payingCustomer")
        /\ UNCHANGED <<tables, world>>

\* Mutant: a subscription whose units reach the limit is exhausted.
CountUnits_Inclusive(h) ==
    LET c == check[h]
        p == Plan[c.sub]
        n == CountUnitsBetween(User(c), c.got.start * 1000, c.got.end * 1000)
    IN  /\ c.pc = "count"
        /\ IF p.amount \in {Null, 0} \/ p.quantity = 0
           THEN check' = [check EXCEPT ![h] = Idle]
           ELSE Decide(h, c, IF n >= Limit(p) THEN "exhausted" ELSE "payingCustomer")
        /\ UNCHANGED <<tables, world>>

\* A plan that is missing or free, or a quantity of zero, is an error.
CountUnits(h) ==
    LET c == check[h]
        p == Plan[c.sub]
        n == CountUnitsBetween(User(c), c.got.start * 1000, c.got.end * 1000)
    IN  /\ c.pc = "count"
        /\ IF p.amount \in {Null, 0} \/ p.quantity = 0
           THEN check' = [check EXCEPT ![h] = Idle]
           ELSE Decide(h, c, IF n > Limit(p) THEN "exhausted" ELSE "payingCustomer")
        /\ UNCHANGED <<tables, world>>

\* The answer goes out, or, anywhere in the call, an error does.
Reply(h) ==
    /\ check[h].pc = "reply"
    /\ check' = [check EXCEPT ![h] = Idle]
    /\ UNCHANGED <<tables, world>>

Abort(h) ==
    /\ check[h].pc \notin {"idle", "reply"}
    /\ check' = [check EXCEPT ![h] = Idle]
    /\ UNCHANGED <<tables, world>>

-----------------------------------------------------------------------------
(***************************************************************************)
(* The rest of the service, and Stripe.                                    *)
(***************************************************************************)

\* AddSpendingUnits inserts a unit, or meets a duplicate, for a user whose
\* credit row it ensured before.
InsertUnit(r) ==
    /\ r.row.user \in DOMAIN free_credit
    /\ InsertSpendingUnit(r.key, r.row)
    /\ due' = due \cup ({r.key} \ DOMAIN spending_unit)
    /\ UNCHANGED <<user_account, free_credit, invalid_subscription, now, stripe, check>>

\* The same call goes on to consume the credit, unless a fault ended it.
Consume(k) ==
    /\ k \in due
    /\ ConsumeFreeCredit(spending_unit[k].user, spending_unit[k].amount)
    /\ due' = due \ {k}
    /\ UNCHANGED <<user_account, spending_unit, invalid_subscription, now, stripe, check>>

\* A delivery of the webhook makes its subscription the account's.
Subscribe(e) ==
    /\ UpsertUserAccount(HashExternalID(e.user), e.sub, e.cust)
    /\ UNCHANGED <<free_credit, spending_unit, invalid_subscription, world, check>>

\* GetFreeCredit as the webhook and AddSpendingUnits call it, and the
\* account of its fallback.
UseCredit(e) ==
    /\ UpsertAndGetFreeCredit(HashExternalID(e.user))
    /\ UNCHANGED <<user_account, spending_unit, invalid_subscription, world, check>>

UseAccount(e) ==
    /\ UpsertUserAccount(HashExternalID(e.user), Null, Null)
    /\ UNCHANGED <<free_credit, spending_unit, invalid_subscription, world, check>>

SetStripe(s, row) ==
    /\ stripe' = [stripe EXCEPT ![s] = row]
    /\ UNCHANGED <<tables, now, due, check>>

CancelSubscription(s) ==
    /\ stripe[s].status # "canceled"
    /\ SetStripe(s, [stripe[s] EXCEPT !.status = "canceled"])

\* A cancellation is scheduled for the end of the current second, or
\* withdrawn in time.
ScheduleCancel(s) ==
    /\ stripe[s].status = "active" /\ stripe[s].cancel_at \in {0, now}
    /\ SetStripe(s, [stripe[s] EXCEPT !.cancel_at = IF @ = 0 THEN now ELSE 0])

\* A payment fails, or is made after all.
Payment(s) ==
    /\ ~IsSubscriptionCancelled(stripe[s])
    /\ SetStripe(s, [stripe[s] EXCEPT !.status =
                        IF @ = "active" THEN "past_due" ELSE "active"])

Renew(s) ==
    /\ ~IsSubscriptionCancelled(stripe[s])
    /\ now >= stripe[s].end
    /\ SetStripe(s, [stripe[s] EXCEPT !.start = @ + Period, !.end = @ + Period])

Tick ==
    /\ now < MaxNow
    /\ now' = now + 1
    /\ UNCHANGED <<tables, stripe, due, check>>

-----------------------------------------------------------------------------
(***************************************************************************)
(* What an answer should say: there is credit, or a live, paid             *)
(* subscription whose units of the current period are not used up.         *)
(***************************************************************************)

Credit(u) == IF u \in DOMAIN free_credit THEN free_credit[u] ELSE InitialCredit

Covers(s, u) ==
    /\ s # Null
    /\ stripe[s].status = "active"
    /\ ~IsSubscriptionCancelled(stripe[s])
    /\ Plan[s].amount \notin {Null, 0} /\ Plan[s].quantity # 0
    /\ CountUnitsBetween(u, stripe[s].start * 1000, stripe[s].end * 1000)
          <= Limit(Plan[s])

Entitled(u) ==
    Credit(u) > 0 \/ (HasAccount(u) /\ Covers(user_account[u].sub, u))

CallerEntitled(h) == Entitled(User(check[h]))

\* The step puts another subscription in the place of u's live one.
Overwrites(u) ==
    /\ HasAccount(u)
    /\ user_account[u].sub # Null
    /\ user_account'[u].sub # user_account[u].sub
    /\ ~IsSubscriptionCancelled(stripe[user_account[u].sub])

\* The history of a call: what was true since it began.
Observe ==
    /\ seen' = [h \in Handler |->
                   IF check'[h].pc = "idle" THEN {}
                   ELSE seen[h] \cup {CallerEntitled(h)'}]
    /\ lost' = [h \in Handler |->
                   check'[h].pc # "idle" /\ (lost[h] \/ Overwrites(User(check[h])))]

-----------------------------------------------------------------------------
Init ==
    /\ TablesInit
    /\ now = 1
    /\ stripe = [s \in Subscription |->
                    [status |-> "active", cancel_at |-> 0, start |-> 1, end |-> 1 + Period]]
    /\ due = {}
    /\ check = [h \in Handler |-> Idle]
    /\ seen = [h \in Handler |-> {}]
    /\ lost = [h \in Handler |-> FALSE]

Step(h) ==
    \/ GetFreeCredit(h)
    \/ EnsureAccount(h)
    \/ RetryCredit(h)
    \/ GetUserAccount(h)
    \/ GetSubscription(h)
    \/ GetCustomer(h)
    \/ CountUnits(h)
    \/ Reply(h)

Serve ==
    \E h \in Handler :
        \/ \E e \in Session : Start(h, e.user)
        \/ Step(h)
        \/ Abort(h)

Others ==
    \/ \E r \in Report : InsertUnit(r)
    \/ \E k \in due : Consume(k)
    \/ \E e \in Session : Subscribe(e) \/ UseCredit(e) \/ UseAccount(e)

Stripe ==
    \/ \E s \in Subscription :
          CancelSubscription(s) \/ ScheduleCancel(s) \/ Payment(s) \/ Renew(s)
    \/ Tick

Next == (Serve \/ Others \/ Stripe) /\ Observe

Spec == Init /\ [][Next]_vars

-----------------------------------------------------------------------------
Verdict == {"freeTier", "payingCustomer", "noSubscription", "cancelled", "other",
            "exhausted"}

Valid(v) == v \in {"freeTier", "payingCustomer"}

StripeRow == [status : {"active", "past_due", "canceled"}, cancel_at : Nat,
              start : Nat, end : Nat]

\* Tables, Stripe and calls are well formed: a call asks Stripe only about
\* a subscription it found, and counts only with what Stripe answered.
TypeOK ==
    /\ TablesTypeOK
    /\ now \in 1 .. MaxNow
    /\ stripe \in [Subscription -> StripeRow]
    /\ due \subseteq DOMAIN spending_unit
    /\ \A h \in Handler :
          LET c == check[h] IN
          /\ c.pc \in {"idle", "credit", "account", "recredit", "lookup", "gateway",
                       "customer", "count", "reply"}
          /\ c.verdict \in Verdict \cup {"none"}
          /\ c.pc \in {"gateway", "customer", "count"} => c.sub \in Subscription
          /\ c.pc \in {"customer", "count"} => c.got \in StripeRow
    /\ seen \in [Handler -> SUBSET BOOLEAN]
    /\ lost \in [Handler -> BOOLEAN]

\* A user who was told to be entitled was, at some moment of the call, and
\* one who was refused was not, at some moment, unless Stripe changed the
\* fetched subscription after the fetch (a renewal, a late payment, a
\* cancellation withdrawn in time).  Neither need be so of a call during
\* which the webhook overwrote the caller's live subscription, as deliveries
\* that race may do.
AnswerWasRight ==
    \A h \in Handler :
        LET c == check[h] IN
        c.pc = "reply" =>
            \/ Valid(c.verdict) \in seen[h]
            \/ ~Valid(c.verdict) /\ c.sub # Null /\ stripe[c.sub] # c.got
            \/ lost[h]

\* A call that looks at the subscription has found the credit used up, and
\* it stays so to the end of the call, whatever other handlers ensure.
CreditStaysSpent ==
    \A h \in Handler :
        LET c == check[h] IN
        (c.pc \in {"lookup", "gateway", "customer", "count", "reply"}
            /\ c.verdict # "freeTier")
        => User(c) \in DOMAIN free_credit /\ free_credit[User(c)] <= 0

\* No call of this service gives a user back what is used up: only
\* Stripe (a renewal, a payment, a withdrawn cancellation) and the
\* webhook's new subscription do.
OnlyStripeEntitles ==
    [][\A e \in Session :
          LET u == HashExternalID(e.user) IN
          (~Entitled(u) /\ stripe' = stripe
             /\ HasAccount(u) /\ user_account'[u].sub = user_account[u].sub)
          => ~Entitled(u)']_vars

\* Whole dollars buy units and cents buy nothing, so some are refused early,
\* but never by as much as a dollar per subscription: who is told to have
\* used up a subscription has used more than its amount less 99 cents buys,
\* of units created in the period that Stripe answered.
ExhaustedWithinADollar ==
    \A h \in Handler :
        LET c == check[h]
            p == Plan[c.sub]
        IN  c.verdict = "exhausted" =>
                100 * CountUnitsBetween(User(c), c.got.start * 1000, c.got.end * 1000)
                    > (p.amount - 99) * p.quantity * UnitsPerDollar
=============================================================================
