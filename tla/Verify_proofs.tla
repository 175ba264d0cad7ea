---------------------------- MODULE Verify_proofs ----------------------------
(***************************************************************************)
(* Proofs about Verify, for any handlers, sessions, reports, plans and     *)
(* bounds: its state is well formed, a call that has found the credit used *)
(* up may rely on it to its end, an answer was right at some moment of the *)
(* call, a limit is short by less than a dollar, and only Stripe and the   *)
(* webhook give a user back what is used up.                               *)
(***************************************************************************)
EXTENDS Verify, StripeDB_proofs, Sums

CallType ==
    [pc : {"idle", "credit", "account", "recredit", "lookup", "gateway", "customer",
           "count", "reply"},
     user : RawId \cup {""}, sub : Subscription \cup {Null},
     got : StripeRow \cup {NotFetched}, verdict : Verdict \cup {"none"}]

\* The credit of u is used up.
Spent(u) == u \in DOMAIN free_credit /\ free_credit[u] <= 0

\* How far a call has come, and what it may rely on.
CallOK(c) ==
    /\ c.pc # "idle" => c.user \in RawId
    /\ c.pc # "reply" => c.verdict = "none"
    /\ c.pc \in {"gateway", "customer", "count"} => c.sub \in Subscription
    /\ c.pc \in {"customer", "count"} => c.got \in StripeRow
    /\ c.pc = "recredit" => User(c) \in DOMAIN user_account
    /\ c.pc \in {"lookup", "gateway", "customer", "count"} => Spent(User(c))
    /\ c.pc = "reply" /\ c.verdict # "freeTier" => Spent(User(c))

CallsOK == \A h \in Handler : CallOK(check[h])

WorldOK ==
    /\ now \in 1 .. MaxNow
    /\ stripe \in [Subscription -> StripeRow]
    /\ due \subseteq DOMAIN spending_unit

\* The foreign key of free_credit.
CreditHasAccount == DOMAIN free_credit \subseteq DOMAIN user_account

IInv ==
    /\ TablesTypeOK
    /\ WorldOK
    /\ CreditHasAccount
    /\ check \in [Handler -> CallType]
    /\ CallsOK
    /\ seen \in [Handler -> SUBSET BOOLEAN]
    /\ lost \in [Handler -> BOOLEAN]

\* No step takes back an account, a credit row, or that it is used up.
Kept ==
    /\ DOMAIN user_account \subseteq DOMAIN user_account'
    /\ \A u \in DOMAIN free_credit :
          u \in DOMAIN free_credit' /\ (free_credit[u] <= 0 => free_credit'[u] <= 0)

-----------------------------------------------------------------------------
(***************************************************************************)
(* Steps in general.                                                       *)
(***************************************************************************)

\* The histories keep their types.
LEMMA SeenType ==
    ASSUME seen \in [Handler -> SUBSET BOOLEAN], lost \in [Handler -> BOOLEAN], Observe
    PROVE  seen' \in [Handler -> SUBSET BOOLEAN] /\ lost' \in [Handler -> BOOLEAN]
<1>1. ASSUME NEW h \in Handler PROVE CallerEntitled(h)' \in BOOLEAN
  BY Zenon DEF CallerEntitled, Entitled
<1>2. ASSUME NEW h \in Handler
      PROVE  (IF check'[h].pc = "idle" THEN {} ELSE seen[h] \cup {CallerEntitled(h)'})
                \in SUBSET BOOLEAN
  <2> DEFINE x == CallerEntitled(h)'
  <2>1. x \in BOOLEAN
    BY <1>1
  <2> HIDE DEF x
  <2>2. seen[h] \in SUBSET BOOLEAN
    OBVIOUS
  <2> QED
    BY <2>1, <2>2 DEF x
<1>3. seen' \in [Handler -> SUBSET BOOLEAN]
  BY <1>2, Zenon DEF Observe
<1>4. ASSUME NEW h \in Handler
      PROVE  (check'[h].pc # "idle" /\ (lost[h] \/ Overwrites(User(check[h])))) \in BOOLEAN
  OBVIOUS
<1>5. lost' \in [Handler -> BOOLEAN]
  BY <1>4, Zenon DEF Observe
<1> QED
  BY <1>3, <1>5

\* A call that does nothing keeps what it relies on.
LEMMA OthersKeep ==
    ASSUME CallsOK, Kept, NEW g \in Handler, check'[g] = check[g]
    PROVE  CallOK(check[g])'
BY DEF CallsOK, CallOK, Kept, Spent, User, HashExternalID

\* A step of the call of h, which becomes c, and of the tables.
LEMMA CallStep ==
    ASSUME IInv, Observe, Kept, TablesTypeOK', CreditHasAccount', UNCHANGED world,
           DOMAIN spending_unit \subseteq DOMAIN spending_unit',
           NEW h \in Handler, NEW c \in CallType,
           check' = [check EXCEPT ![h] = c], CallOK(check[h])'
    PROVE  IInv'
<1>1. /\ check' \in [Handler -> CallType]
      /\ \A g \in Handler \ {h} : check'[g] = check[g]
  BY DEF IInv
<1>2. CallsOK'
  <2> SUFFICES ASSUME NEW g \in Handler PROVE CallOK(check[g])'
    BY DEF CallsOK
  <2>1. CASE g = h
    BY <2>1
  <2>2. CASE g # h
    BY <1>1, <2>2, OthersKeep DEF IInv
  <2> QED
    BY <2>1, <2>2
<1>3. WorldOK'
  BY DEF IInv, WorldOK, world
<1> QED
  BY <1>1, <1>2, <1>3, SeenType DEF IInv

\* A step of others.
LEMMA QuietStep ==
    ASSUME IInv, Observe, Kept, TablesTypeOK', CreditHasAccount', WorldOK',
           check' = check
    PROVE  IInv'
<1>1. CallsOK'
  <2> SUFFICES ASSUME NEW g \in Handler PROVE CallOK(check[g])'
    BY DEF CallsOK
  <2> QED
    BY OthersKeep DEF IInv
<1> QED
  BY <1>1, SeenType DEF IInv

\* A call under way has a user.
LEMMA CallFacts ==
    ASSUME IInv, NEW h \in Handler, check[h].pc # "idle"
    PROVE  check[h] \in CallType /\ CallOK(check[h]) /\ User(check[h]) \in Digest
BY HashType DEF IInv, CallsOK, CallOK, User

\* A step that touches no table and no world.
LEMMA ReadStep ==
    ASSUME IInv, Observe, UNCHANGED <<tables, world>>,
           NEW h \in Handler, NEW c \in CallType,
           check' = [check EXCEPT ![h] = c], CallOK(c)
    PROVE  IInv'
<1>1. check'[h] = c
  BY DEF IInv
<1>2. UNCHANGED <<user_account, free_credit, spending_unit, invalid_subscription>>
  BY DEF tables
<1>3. CallOK(check[h])'
  BY <1>1, <1>2 DEF CallOK, Spent, User, HashExternalID
<1>4. TablesTypeOK' /\ CreditHasAccount' /\ Kept
  BY <1>2 DEF IInv, TablesTypeOK, CreditHasAccount, Kept
<1> QED
  BY <1>2, <1>3, <1>4, CallStep

-----------------------------------------------------------------------------
(***************************************************************************)
(* The steps of a call.                                                    *)
(***************************************************************************)

LEMMA IdleOK == Idle \in CallType /\ CallOK(Idle)
BY DEF Idle, CallType, CallOK, Verdict, NotFetched

\* A call ends, with an answer or an error.
LEMMA EndStep ==
    ASSUME IInv, Observe, NEW h \in Handler, Reply(h) \/ Abort(h)
    PROVE  IInv'
BY IdleOK, ReadStep DEF Reply, Abort

LEMMA StartStep ==
    ASSUME IInv, Observe, NEW h \in Handler, NEW e \in Session, Start(h, e.user)
    PROVE  IInv'
<1>1. e.user \in RawId
  BY SessionAssumption
<1>2. Begin(e.user) \in CallType /\ CallOK(Begin(e.user))
  BY <1>1 DEF Begin, Idle, CallType, CallOK, NotFetched, Verdict
<1> QED
  BY <1>2, ReadStep DEF Start

\* What the value of the credit row leads to is sound.
LEMMA WithCreditStep ==
    ASSUME IInv, Observe, NEW h \in Handler, check[h].pc # "idle",
           check[h].pc # "reply", HasAccount(User(check[h])),
           UpsertAndGetFreeCredit(User(check[h])), WithCredit(h, check[h]),
           UNCHANGED <<user_account, spending_unit, invalid_subscription, world>>
    PROVE  IInv'
<1> DEFINE c == check[h]
           u == User(c)
           d == IF free_credit'[u] > 0 THEN [c EXCEPT !.pc = "reply", !.verdict = "freeTier"]
                                       ELSE [c EXCEPT !.pc = "lookup"]
<1>1. c \in CallType /\ CallOK(c) /\ u \in Digest
  BY CallFacts
<1>2. /\ TablesTypeOK'
      /\ DOMAIN free_credit' = DOMAIN free_credit \cup {u}
      /\ \A v \in DOMAIN free_credit : free_credit'[v] = free_credit[v]
  <2>1. TablesTypeOK' /\ DOMAIN free_credit' = DOMAIN free_credit \cup {u}
    BY <1>1, CreditType DEF IInv
  <2>2. \A v \in DOMAIN free_credit : free_credit'[v] = free_credit[v]
    BY DEF UpsertAndGetFreeCredit, Put
  <2> QED
    BY <2>1, <2>2
<1>3. Kept /\ CreditHasAccount' /\ DOMAIN spending_unit \subseteq DOMAIN spending_unit'
  BY <1>2 DEF Kept, IInv, CreditHasAccount, HasAccount
<1>4. d \in CallType /\ check' = [check EXCEPT ![h] = d]
  BY <1>1 DEF WithCredit, Decide, GoOn, CallType, Verdict
<1>5. free_credit'[u] \in Int
  BY <1>2 DEF TablesTypeOK
<1>6. /\ d.user = c.user
      /\ \/ d.pc = "reply" /\ d.verdict = "freeTier"
         \/ d.pc = "lookup" /\ d.verdict = "none" /\ free_credit'[u] <= 0
  <2>1. c.verdict = "none"
    BY <1>1 DEF CallOK
  <2>2. CASE free_credit'[u] > 0
    <3>1. d = [c EXCEPT !.pc = "reply", !.verdict = "freeTier"]
      BY <2>2
    <3> QED
      BY <1>1, <3>1 DEF CallType
  <2>3. CASE ~(free_credit'[u] > 0)
    <3>1. d = [c EXCEPT !.pc = "lookup"]
      BY <2>3
    <3>2. free_credit'[u] <= 0
      <4> HIDE DEF u
      <4> QED
        BY <1>5, <2>3
    <3>3. d.user = c.user /\ d.pc = "lookup" /\ d.verdict = "none"
      BY <1>1, <2>1, <3>1 DEF CallType
    <3> QED
      BY <3>2, <3>3
  <2> QED
    BY <2>2, <2>3
<1> HIDE DEF d
<1>7. check'[h] = d
  BY <1>4 DEF IInv
<1>8. CallOK(check[h])'
  BY <1>1, <1>2, <1>6, <1>7 DEF CallOK, Spent, User, HashExternalID
<1> QED
  BY <1>2, <1>3, <1>4, <1>8, CallStep

\* The call meets no account and goes on to create it.
LEMMA GetFreeCreditStep ==
    ASSUME IInv, Observe, NEW h \in Handler, GetFreeCredit(h) PROVE IInv'
<1> DEFINE c == check[h]
           d == [c EXCEPT !.pc = "account"]
<1>1. CASE HasAccount(User(c))
  BY <1>1, WithCreditStep DEF GetFreeCredit
<1>2. CASE ~HasAccount(User(c))
  <2>1. c \in CallType /\ CallOK(c)
    BY CallFacts DEF GetFreeCredit
  <2>2. User(c) \notin DOMAIN free_credit
    BY <1>2 DEF IInv, CreditHasAccount, HasAccount
  <2>3. UNCHANGED <<tables, world>> /\ check' = [check EXCEPT ![h] = d]
    BY <1>2, <2>2 DEF GetFreeCredit, UpsertAndGetFreeCredit, GoOn, tables
  <2>4. d \in CallType /\ CallOK(d)
    BY <2>1 DEF GetFreeCredit, CallType, CallOK
  <2> QED
    BY <2>3, <2>4, ReadStep
<1> QED
  BY <1>1, <1>2

LEMMA RetryCreditStep ==
    ASSUME IInv, Observe, NEW h \in Handler, RetryCredit(h) PROVE IInv'
<1>1. HasAccount(User(check[h]))
  BY CallFacts DEF RetryCredit, CallOK, HasAccount
<1> QED
  BY <1>1, WithCreditStep DEF RetryCredit

LEMMA EnsureAccountStep ==
    ASSUME IInv, Observe, NEW h \in Handler, EnsureAccount(h) PROVE IInv'
<1> DEFINE c == check[h]
           u == User(c)
           d == [c EXCEPT !.pc = "recredit"]
<1>1. c \in CallType /\ CallOK(c) /\ u \in Digest
  BY CallFacts DEF EnsureAccount
<1>2. /\ UpsertUserAccount(u, Null, Null) /\ check' = [check EXCEPT ![h] = d]
      /\ UNCHANGED <<free_credit, spending_unit, invalid_subscription, world>>
  BY DEF EnsureAccount, GoOn
<1>3. TablesTypeOK' /\ DOMAIN user_account' = DOMAIN user_account \cup {u}
  <2>1. Null \in Subscription \cup {Null} /\ Null \in Customer \cup {Null}
    OBVIOUS
  <2> QED
    BY <1>1, <1>2, <2>1, UpsertType DEF IInv
<1>4. Kept /\ CreditHasAccount'
  BY <1>2, <1>3 DEF Kept, IInv, CreditHasAccount
<1>5. d \in CallType /\ d.user = c.user /\ d.pc = "recredit" /\ d.verdict = "none"
  BY <1>1 DEF EnsureAccount, CallType, CallOK
<1> HIDE DEF d
<1>6. check'[h] = d
  BY <1>2 DEF IInv
<1>7. CallOK(check[h])'
  BY <1>1, <1>3, <1>5, <1>6 DEF EnsureAccount, CallOK, User, HashExternalID
<1> QED
  BY <1>2, <1>3, <1>4, <1>5, <1>7, CallStep

LEMMA GetUserAccountStep ==
    ASSUME IInv, Observe, NEW h \in Handler, GetUserAccount(h) PROVE IInv'
<1> DEFINE c == check[h]
           sub == IF HasAccount(User(c)) THEN user_account[User(c)].sub ELSE Null
           no == [c EXCEPT !.pc = "reply", !.verdict = "noSubscription"]
           yes == [[c EXCEPT !.sub = sub] EXCEPT !.pc = "gateway"]
<1>1. c \in CallType /\ CallOK(c)
  BY CallFacts DEF GetUserAccount
<1>2. CASE sub = Null
  <2>1. no \in CallType /\ CallOK(no)
    BY <1>1 DEF GetUserAccount, CallType, CallOK, Verdict, Spent, User
  <2> QED
    BY <1>2, <2>1, ReadStep DEF GetUserAccount, Decide
<1>3. CASE sub # Null
  <2>1. sub \in Subscription
    BY <1>3 DEF HasAccount, IInv, TablesTypeOK, AccountRow
  <2> HIDE DEF sub
  <2>2. yes \in CallType /\ CallOK(yes)
    BY <1>1, <2>1 DEF GetUserAccount, CallType, CallOK, Spent, User
  <2>3. check' = [check EXCEPT ![h] = yes] /\ UNCHANGED <<tables, world>>
    BY <1>3 DEF GetUserAccount, GoOn, sub
  <2> QED
    BY <2>2, <2>3, ReadStep
<1> QED
  BY <1>2, <1>3

LEMMA GetSubscriptionStep ==
    ASSUME IInv, Observe, NEW h \in Handler, GetSubscription(h) PROVE IInv'
<1> DEFINE c == check[h]
           d == [[c EXCEPT !.got = stripe[c.sub]] EXCEPT !.pc = "customer"]
<1>1. c \in CallType /\ CallOK(c)
  BY CallFacts DEF GetSubscription
<1>2. stripe[c.sub] \in StripeRow
  BY <1>1 DEF GetSubscription, CallOK, IInv, WorldOK
<1>3. d \in CallType /\ CallOK(d)
  BY <1>1, <1>2 DEF GetSubscription, CallType, CallOK, Spent, User
<1> QED
  BY <1>3, ReadStep DEF GetSubscription, GoOn

\* The verdicts of a call that has found the credit used up.
LEMMA DecideStep ==
    ASSUME IInv, Observe, NEW h \in Handler, NEW v \in Verdict,
           check[h].pc \in {"customer", "count"}, Decide(h, check[h], v),
           UNCHANGED <<tables, world>>
    PROVE  IInv'
<1> DEFINE c == check[h]
           d == [c EXCEPT !.pc = "reply", !.verdict = v]
<1>1. c \in CallType /\ CallOK(c)
  BY CallFacts
<1>2. d \in CallType /\ CallOK(d)
  BY <1>1 DEF CallType, CallOK, Spent, User
<1> QED
  BY <1>2, ReadStep DEF Decide

LEMMA GetCustomerStep ==
    ASSUME IInv, Observe, NEW h \in Handler, GetCustomer(h) PROVE IInv'
<1> DEFINE c == check[h]
           d == [c EXCEPT !.pc = "count"]
<1>1. c \in CallType /\ CallOK(c)
  BY CallFacts DEF GetCustomer
<1>2. CASE check' = [check EXCEPT ![h] = d]
  <2>1. d \in CallType /\ CallOK(d)
    BY <1>1 DEF GetCustomer, CallType, CallOK, Spent, User
  <2> QED
    BY <1>2, <2>1, ReadStep DEF GetCustomer
<1>3. CASE Decide(h, c, "cancelled") \/ Decide(h, c, "other")
  BY <1>3, DecideStep DEF GetCustomer, Verdict
<1> QED
  BY <1>2, <1>3 DEF GetCustomer, GoOn

LEMMA CountUnitsStep ==
    ASSUME IInv, Observe, NEW h \in Handler, CountUnits(h) PROVE IInv'
<1>1. \/ check' = [check EXCEPT ![h] = Idle]
      \/ \E v \in {"exhausted", "payingCustomer"} : Decide(h, check[h], v)
  BY DEF CountUnits
<1>2. CASE check' = [check EXCEPT ![h] = Idle]
  BY <1>2, IdleOK, ReadStep DEF CountUnits
<1>3. CASE \E v \in {"exhausted", "payingCustomer"} : Decide(h, check[h], v)
  BY <1>3, DecideStep DEF CountUnits, Verdict
<1> QED
  BY <1>1, <1>2, <1>3

-----------------------------------------------------------------------------
(***************************************************************************)
(* The steps of others.                                                    *)
(***************************************************************************)

LEMMA InsertUnitStep ==
    ASSUME IInv, Observe, NEW r \in Report, InsertUnit(r) PROVE IInv'
<1> DEFINE k == r.key
           row == r.row
<1>1. k \in Digest /\ row \in UnitRow
  BY ReportAssumption
<1>2. HasAccount(row.user)
  BY DEF InsertUnit, IInv, CreditHasAccount, HasAccount
<1>3. /\ InsertSpendingUnit(k, row) /\ due' = due \cup ({k} \ DOMAIN spending_unit)
      /\ UNCHANGED <<user_account, free_credit, invalid_subscription, now, stripe, check>>
  BY DEF InsertUnit
<1> HIDE DEF k, row
<1>4. TablesTypeOK' /\ DOMAIN spending_unit \cup {k} \subseteq DOMAIN spending_unit'
  BY <1>1, <1>2, <1>3, InsertType DEF IInv
<1>5. Kept /\ CreditHasAccount' /\ WorldOK'
  BY <1>3, <1>4 DEF Kept, IInv, CreditHasAccount, WorldOK
<1> QED
  BY <1>3, <1>4, <1>5, QuietStep

LEMMA ConsumeStep ==
    ASSUME IInv, Observe, NEW k \in due, Consume(k) PROVE IInv'
<1> DEFINE u == spending_unit[k].user
           n == spending_unit[k].amount
<1>1. u \in Digest /\ n \in Nat
  BY DEF IInv, WorldOK, TablesTypeOK, UnitRow
<1>2. /\ ConsumeFreeCredit(u, n) /\ due' = due \ {k}
      /\ UNCHANGED <<user_account, spending_unit, invalid_subscription, now, stripe, check>>
  BY DEF Consume
<1> HIDE DEF u, n
<1>3. TablesTypeOK' /\ DOMAIN free_credit' = DOMAIN free_credit
  BY <1>1, <1>2, ConsumeType DEF IInv
<1>4. ASSUME NEW v \in DOMAIN free_credit, free_credit[v] <= 0
      PROVE  free_credit'[v] <= 0
  <2> DEFINE x == free_credit[v]
  <2>1. free_credit'[v] = x \/ free_credit'[v] = x - Least(x, n)
    BY <1>2 DEF ConsumeFreeCredit
  <2>2. x \in Int /\ x <= 0
    BY <1>4 DEF IInv, TablesTypeOK
  <2> HIDE DEF x
  <2>3. x - Least(x, n) = 0
    BY <1>1, <2>2 DEF Least
  <2> QED
    BY <2>1, <2>2, <2>3 DEF x
<1>5. Kept /\ CreditHasAccount' /\ WorldOK'
  BY <1>2, <1>3, <1>4 DEF Kept, IInv, CreditHasAccount, WorldOK
<1> QED
  BY <1>2, <1>3, <1>5, QuietStep

\* An account is opened or written over.
LEMMA AccountStep ==
    ASSUME IInv, Observe, NEW u \in Digest, NEW sub \in Subscription \cup {Null},
           NEW cust \in Customer \cup {Null}, UpsertUserAccount(u, sub, cust),
           UNCHANGED <<free_credit, spending_unit, invalid_subscription, world, check>>
    PROVE  IInv'
<1>1. TablesTypeOK' /\ DOMAIN user_account' = DOMAIN user_account \cup {u}
  BY UpsertType DEF IInv
<1>2. Kept /\ CreditHasAccount' /\ WorldOK'
  BY <1>1 DEF Kept, IInv, CreditHasAccount, WorldOK, world
<1> QED
  BY <1>1, <1>2, QuietStep

LEMMA SubscribeStep ==
    ASSUME IInv, Observe, NEW e \in Session, Subscribe(e) \/ UseAccount(e)
    PROVE  IInv'
<1>1. PICK u, sub, cust :
         /\ u = HashExternalID(e.user)
         /\ \/ sub = e.sub /\ cust = e.cust
            \/ sub = Null /\ cust = Null
         /\ UpsertUserAccount(u, sub, cust)
  BY DEF Subscribe, UseAccount
<1>2. u \in Digest /\ sub \in Subscription \cup {Null} /\ cust \in Customer \cup {Null}
  BY <1>1, SessionAssumption, HashType
<1>3. UNCHANGED <<free_credit, spending_unit, invalid_subscription, world, check>>
  BY DEF Subscribe, UseAccount
<1> QED
  BY <1>1, <1>2, <1>3, AccountStep

LEMMA UseCreditStep ==
    ASSUME IInv, Observe, NEW e \in Session, UseCredit(e) PROVE IInv'
<1>1. PICK u \in Digest : u = HashExternalID(e.user)
  BY SessionAssumption, HashType
<1>2. /\ UpsertAndGetFreeCredit(u)
      /\ UNCHANGED <<user_account, spending_unit, invalid_subscription, world, check>>
  BY <1>1 DEF UseCredit
<1>3. TablesTypeOK' /\ CreditHasAccount'
  <2>1. HasAccount(u) => DOMAIN free_credit' = DOMAIN free_credit \cup {u}
    BY <1>2, CreditType DEF IInv
  <2>2. ~HasAccount(u) => free_credit' = free_credit
    BY <1>2 DEF UpsertAndGetFreeCredit
  <2>3. TablesTypeOK'
    BY <1>2, CreditType DEF IInv
  <2> QED
    BY <1>2, <2>1, <2>2, <2>3 DEF IInv, CreditHasAccount, HasAccount
<1>4. Kept /\ WorldOK'
  BY <1>2 DEF UpsertAndGetFreeCredit, Put, Kept, IInv, WorldOK, world
<1> QED
  BY <1>2, <1>3, <1>4, QuietStep

\* Stripe, whatever it changes, and the clock.
LEMMA WorldStep ==
    ASSUME IInv, Observe, WorldOK', UNCHANGED <<tables, check>> PROVE IInv'
<1>1. UNCHANGED <<user_account, free_credit, spending_unit, invalid_subscription>>
  BY DEF tables
<1>2. TablesTypeOK' /\ CreditHasAccount' /\ Kept
  BY <1>1 DEF IInv, TablesTypeOK, CreditHasAccount, Kept
<1> QED
  BY <1>2, QuietStep

LEMMA StripeStep ==
    ASSUME IInv, Observe, Stripe PROVE IInv'
<1>1. ASSUME NEW s \in Subscription, NEW row \in StripeRow, SetStripe(s, row)
      PROVE  IInv'
  <2>1. UNCHANGED <<tables, now, due, check>> /\ UNCHANGED spending_unit
    BY <1>1 DEF SetStripe, tables
  <2>2. stripe' \in [Subscription -> StripeRow]
    BY <1>1 DEF SetStripe, IInv, WorldOK
  <2> QED
    BY <2>1, <2>2, WorldStep DEF IInv, WorldOK
<1>2. now \in Nat /\ Period \in Nat
  BY NumbersAssumption DEF IInv, WorldOK
<1>3. ASSUME NEW s \in Subscription,
             \/ CancelSubscription(s) \/ ScheduleCancel(s) \/ Payment(s) \/ Renew(s)
      PROVE  IInv'
  <2> DEFINE r == stripe[s]
  <2>1. r \in StripeRow
    BY DEF IInv, WorldOK
  <2>2. CASE CancelSubscription(s)
    <3>1. [r EXCEPT !.status = "canceled"] \in StripeRow
      BY <2>1 DEF StripeRow
    <3> QED
      BY <1>1, <2>2, <3>1 DEF CancelSubscription
  <2>3. CASE ScheduleCancel(s)
    <3>1. [r EXCEPT !.cancel_at = IF @ = 0 THEN now ELSE 0] \in StripeRow
      BY <1>2, <2>1 DEF StripeRow
    <3> QED
      BY <1>1, <2>3, <3>1 DEF ScheduleCancel
  <2>4. CASE Payment(s)
    <3>1. [r EXCEPT !.status = IF @ = "active" THEN "past_due" ELSE "active"] \in StripeRow
      BY <2>1 DEF StripeRow
    <3> QED
      BY <1>1, <2>4, <3>1 DEF Payment
  <2>5. CASE Renew(s)
    <3>1. r.start + Period \in Nat /\ r.end + Period \in Nat
      BY <1>2, <2>1 DEF StripeRow
    <3>2. [r EXCEPT !.start = @ + Period, !.end = @ + Period] \in StripeRow
      BY <2>1, <3>1 DEF StripeRow
    <3> QED
      BY <1>1, <2>5, <3>2 DEF Renew
  <2> QED
    BY <1>3, <2>2, <2>3, <2>4, <2>5
<1>4. CASE Tick
  <2>1. now' \in 1 .. MaxNow /\ UNCHANGED <<stripe, due, spending_unit, tables, check>>
    BY <1>4, NumbersAssumption DEF Tick, IInv, WorldOK, tables
  <2> QED
    BY <2>1, WorldStep DEF IInv, WorldOK
<1> QED
  BY <1>3, <1>4 DEF Stripe

-----------------------------------------------------------------------------
(***************************************************************************)
(* The theorems.                                                           *)
(***************************************************************************)

LEMMA InvInit == Init => IInv
<1> SUFFICES ASSUME Init PROVE IInv
  OBVIOUS
<1>1. TablesTypeOK /\ CreditHasAccount /\ due \subseteq DOMAIN spending_unit
  BY DEF Init, TablesInit, TablesTypeOK, EmptyTable, CreditHasAccount
<1>2. now \in 1 .. MaxNow /\ 1 + Period \in Nat
  BY NumbersAssumption DEF Init
<1>3. stripe \in [Subscription -> StripeRow]
  BY <1>2 DEF Init, StripeRow
<1>4. check \in [Handler -> CallType] /\ CallsOK
  BY IdleOK DEF Init, CallsOK, CallOK, Idle
<1>5. seen \in [Handler -> SUBSET BOOLEAN] /\ lost \in [Handler -> BOOLEAN]
  BY DEF Init
<1> QED
  BY <1>1, <1>2, <1>3, <1>4, <1>5 DEF IInv, WorldOK

LEMMA InvStep == IInv /\ [Next]_vars => IInv'
<1> SUFFICES ASSUME IInv, [Next]_vars PROVE IInv'
  OBVIOUS
<1>1. CASE UNCHANGED vars
  BY <1>1 DEF vars, tables, world, IInv, TablesTypeOK, WorldOK, CreditHasAccount,
              CallsOK, CallOK, Spent, User, HashExternalID
<1>2. CASE Serve /\ Observe
  BY <1>2, StartStep, GetFreeCreditStep, EnsureAccountStep, RetryCreditStep,
     GetUserAccountStep, GetSubscriptionStep, GetCustomerStep, CountUnitsStep,
     EndStep DEF Serve, Step
<1>3. CASE Others /\ Observe
  BY <1>3, InsertUnitStep, ConsumeStep, SubscribeStep, UseCreditStep DEF Others
<1>4. CASE Stripe /\ Observe
  BY <1>4, StripeStep
<1> QED
  BY <1>1, <1>2, <1>3, <1>4 DEF Next

\* The inductive invariant holds in every reachable state.
THEOREM Invariance == Spec => []IInv
BY InvInit, InvStep, PTL DEF Spec

\* Tables, Stripe and calls are well formed: a call asks Stripe only about a
\* subscription it found (TypeOK).
THEOREM TypeCorrect == Spec => []TypeOK
<1>1. IInv => TypeOK
  BY DEF IInv, WorldOK, CallType, CallsOK, CallOK, TypeOK
<1> QED
  BY <1>1, Invariance, PTL

\* What a call has found out about the credit stays so to its end, whatever
\* other handlers, the webhook and Stripe do meanwhile (CreditStaysSpent).
THEOREM StaysSpent == Spec => []CreditStaysSpent
<1>1. IInv => CreditStaysSpent
  BY DEF IInv, CallsOK, CallOK, Spent, CreditStaysSpent
<1> QED
  BY <1>1, Invariance, PTL

-----------------------------------------------------------------------------
(***************************************************************************)
(* What no step takes back.  The properties of an answer speak of several  *)
(* moments of a call; this is what the state at one moment says about the  *)
(* state at another.                                                       *)
(***************************************************************************)

\* Opened credits are the initial one, rows and their amounts stay, and a
\* cancelled subscription stays cancelled.
Lasting ==
    /\ Kept
    /\ \A u \in DOMAIN free_credit' :
          u \in DOMAIN free_credit \/ free_credit'[u] = InitialCredit
    /\ \A k \in DOMAIN spending_unit :
          k \in DOMAIN spending_unit' /\ spending_unit'[k] = spending_unit[k]
    /\ \E k : DOMAIN spending_unit' \subseteq DOMAIN spending_unit \cup {k}
    /\ now' >= now
    /\ \A s \in Subscription : IsSubscriptionCancelled(stripe[s]) =>
                                   IsSubscriptionCancelled(stripe[s])'

\* A step that changes no table, and nothing at Stripe but the clock.
LEMMA QuietLasts ==
    ASSUME IInv, UNCHANGED <<tables, stripe>>, now' \in Nat, now' >= now
    PROVE  Lasting
<1>1. UNCHANGED <<user_account, free_credit, spending_unit>>
  BY DEF tables
<1>2. \A s \in Subscription : IsSubscriptionCancelled(stripe[s]) =>
                                  IsSubscriptionCancelled(stripe[s])'
  BY DEF IsSubscriptionCancelled, IInv, WorldOK, StripeRow
<1>3. \E k : DOMAIN spending_unit' \subseteq DOMAIN spending_unit \cup {k}
  BY <1>1
<1> QED
  BY <1>1, <1>2, <1>3 DEF Lasting, Kept

\* GetFreeCredit opens a credit or reads one.
LEMMA CreditLasts ==
    ASSUME IInv, NEW u, UpsertAndGetFreeCredit(u),
           UNCHANGED <<user_account, spending_unit, now, stripe>>
    PROVE  Lasting
<1>1. /\ \A v \in DOMAIN free_credit :
            v \in DOMAIN free_credit' /\ free_credit'[v] = free_credit[v]
      /\ \A v \in DOMAIN free_credit' :
            v \in DOMAIN free_credit \/ free_credit'[v] = InitialCredit
  BY DEF UpsertAndGetFreeCredit, Put
<1>2. now \in Nat
  BY DEF IInv, WorldOK
<1>3. \E k : DOMAIN spending_unit' \subseteq DOMAIN spending_unit \cup {k}
  OBVIOUS
<1> QED
  BY <1>1, <1>2, <1>3 DEF Lasting, Kept, IsSubscriptionCancelled

\* The step of the account: a new one, or another subscription in place of
\* what it shows.
LEMMA AccountLasts ==
    ASSUME IInv, NEW u \in Digest, NEW sub \in Subscription \cup {Null},
           NEW cust \in Customer \cup {Null},
           UpsertUserAccount(u, sub, cust),
           UNCHANGED <<free_credit, spending_unit, invalid_subscription, now, stripe>>
    PROVE  Lasting
<1>1. DOMAIN user_account' = DOMAIN user_account \cup {u}
  BY UpsertType DEF IInv
<1>2. now \in Nat
  BY DEF IInv, WorldOK
<1>3. \E k : DOMAIN spending_unit' \subseteq DOMAIN spending_unit \cup {k}
  OBVIOUS
<1>5. \A s \in Subscription : IsSubscriptionCancelled(stripe[s]) =>
                                  IsSubscriptionCancelled(stripe[s])'
  BY DEF IsSubscriptionCancelled
<1> QED
  BY <1>1, <1>2, <1>3, <1>5 DEF Lasting, Kept

\* A unit is recorded.
LEMMA UnitLasts ==
    ASSUME IInv, NEW r \in Report, InsertUnit(r) PROVE Lasting
<1>1. r.key \in Digest /\ r.row \in UnitRow
  BY ReportAssumption
<1>2. /\ InsertSpendingUnit(r.key, r.row)
      /\ UNCHANGED <<user_account, free_credit, now, stripe>>
  BY DEF InsertUnit
<1>3. /\ \A k \in DOMAIN spending_unit :
            k \in DOMAIN spending_unit' /\ spending_unit'[k] = spending_unit[k]
      /\ DOMAIN spending_unit' \subseteq DOMAIN spending_unit \cup {r.key}
  BY <1>2 DEF InsertSpendingUnit, Put
<1>4. \E k : DOMAIN spending_unit' \subseteq DOMAIN spending_unit \cup {k}
  BY <1>3
<1>5. now \in Nat
  BY DEF IInv, WorldOK
<1> QED
  BY <1>2, <1>3, <1>4, <1>5 DEF Lasting, Kept, IsSubscriptionCancelled

\* Credit is consumed, to zero at the least.
LEMMA ConsumeLasts ==
    ASSUME IInv, NEW k \in due, Consume(k) PROVE Lasting
<1>0. PICK u, n : u = spending_unit[k].user /\ n = spending_unit[k].amount
  OBVIOUS
<1>1. n \in Nat
  BY <1>0 DEF IInv, WorldOK, TablesTypeOK, UnitRow
<1>2. /\ ConsumeFreeCredit(u, n)
      /\ UNCHANGED <<user_account, spending_unit, now, stripe>>
  BY <1>0 DEF Consume
<1>3. ASSUME NEW v \in DOMAIN free_credit, free_credit[v] <= 0
      PROVE  free_credit'[v] <= 0
  <2>1. PICK x \in Int : x = free_credit[v]
    BY DEF IInv, TablesTypeOK
  <2>2. free_credit'[v] = x \/ free_credit'[v] = x - Least(x, n)
    BY <1>2, <2>1 DEF ConsumeFreeCredit
  <2>3. x - Least(x, n) = 0
    BY <1>1, <1>3, <2>1 DEF Least
  <2> QED
    BY <1>3, <2>1, <2>2, <2>3
<1>4. DOMAIN free_credit' = DOMAIN free_credit
  BY <1>2 DEF ConsumeFreeCredit
<1>5. \E j : DOMAIN spending_unit' \subseteq DOMAIN spending_unit \cup {j}
  BY <1>2
<1>6. now \in Nat
  BY DEF IInv, WorldOK
<1> QED
  BY <1>2, <1>3, <1>4, <1>5, <1>6 DEF Lasting, Kept, IsSubscriptionCancelled

\* What Stripe does to one subscription does not revive it: a payment and a
\* renewal meet a live one, and a cancellation is withdrawn only in time.
LEMMA StripeLasts ==
    ASSUME IInv, NEW s \in Subscription,
           \/ CancelSubscription(s) \/ ScheduleCancel(s) \/ Payment(s) \/ Renew(s)
    PROVE  Lasting
<1>1. UNCHANGED <<tables, now>> /\ \A t \in Subscription \ {s} : stripe'[t] = stripe[t]
  BY DEF CancelSubscription, ScheduleCancel, Payment, Renew, SetStripe, IInv, WorldOK
<1>2. now \in Nat \ {0} /\ stripe[s] \in StripeRow
  BY DEF IInv, WorldOK
<1>3. IsSubscriptionCancelled(stripe[s]) => IsSubscriptionCancelled(stripe[s])'
  <2>1. CASE CancelSubscription(s)
    <3>1. stripe'[s] = [stripe[s] EXCEPT !.status = "canceled"]
      BY <2>1 DEF CancelSubscription, SetStripe, IInv, WorldOK
    <3>2. stripe'[s].status = "canceled"
      BY <1>2, <3>1 DEF StripeRow
    <3> QED
      BY <3>2 DEF IsSubscriptionCancelled
  <2>2. CASE ScheduleCancel(s)
    <3>1. stripe[s].status = "active" /\ stripe[s].cancel_at \in {0, now}
      BY <2>2 DEF ScheduleCancel
    <3>2. ~IsSubscriptionCancelled(stripe[s])
      BY <1>2, <3>1 DEF IsSubscriptionCancelled
    <3> QED
      BY <3>2
  <2>3. CASE Payment(s) \/ Renew(s)
    BY <2>3 DEF Payment, Renew
  <2> QED
    BY <2>1, <2>2, <2>3
<1>4. UNCHANGED <<user_account, free_credit, spending_unit>>
  BY <1>1 DEF tables
<1>5. \A t \in Subscription : IsSubscriptionCancelled(stripe[t]) =>
                                  IsSubscriptionCancelled(stripe[t])'
  <2> SUFFICES ASSUME NEW t \in Subscription, t # s, IsSubscriptionCancelled(stripe[t])
               PROVE  IsSubscriptionCancelled(stripe[t])'
    BY <1>3
  <2> QED
    BY <1>1 DEF IsSubscriptionCancelled
<1>6. \E k : DOMAIN spending_unit' \subseteq DOMAIN spending_unit \cup {k}
  BY <1>4
<1> QED
  BY <1>1, <1>2, <1>4, <1>5, <1>6 DEF Lasting, Kept

\* No step takes back what Lasting says lasts.
LEMMA EveryStepLasts == IInv /\ [Next]_vars => Lasting
<1> SUFFICES ASSUME IInv, [Next]_vars PROVE Lasting
  OBVIOUS
<1>now. now \in Nat
  BY DEF IInv, WorldOK
<1>1. CASE UNCHANGED vars
  <2>1. UNCHANGED <<tables, stripe, now>>
    BY <1>1 DEF vars, world
  <2>2. now' \in Nat /\ now' >= now
    BY <1>now, <2>1
  <2> QED
    BY <2>1, <2>2, QuietLasts
<1>2. ASSUME NEW h \in Handler,
             \/ \E e \in Session : Start(h, e.user)
             \/ GetUserAccount(h) \/ GetSubscription(h) \/ GetCustomer(h)
             \/ CountUnits(h) \/ Reply(h) \/ Abort(h)
      PROVE  Lasting
  <2>1. UNCHANGED <<tables, stripe, now>>
    <3>1. UNCHANGED <<tables, world>>
      BY <1>2, Zenon DEF Start, GetUserAccount, GetSubscription, GetCustomer,
                         CountUnits, Reply, Abort
    <3> QED
      BY <3>1 DEF world
  <2>2. now' \in Nat /\ now' >= now
    BY <1>now, <2>1
  <2> QED
    BY <2>1, <2>2, QuietLasts
<1>3. ASSUME NEW h \in Handler, GetFreeCredit(h) \/ RetryCredit(h) PROVE Lasting
  <2>1. /\ UpsertAndGetFreeCredit(User(check[h]))
        /\ UNCHANGED <<user_account, spending_unit, now, stripe>>
    BY <1>3 DEF GetFreeCredit, RetryCredit, world
  <2> QED
    BY <2>1, CreditLasts
<1>4. ASSUME NEW h \in Handler, EnsureAccount(h) PROVE Lasting
  <2>1. /\ User(check[h]) \in Digest
        /\ Null \in Subscription \cup {Null} /\ Null \in Customer \cup {Null}
    BY <1>4, CallFacts DEF EnsureAccount
  <2> QED
    BY <1>4, <2>1, AccountLasts DEF EnsureAccount, world
<1>5. ASSUME NEW e \in Session, Subscribe(e) \/ UseAccount(e) PROVE Lasting
  <2>1. PICK u, sub, cust :
           /\ u = HashExternalID(e.user)
           /\ \/ sub = e.sub /\ cust = e.cust
              \/ sub = Null /\ cust = Null
           /\ UpsertUserAccount(u, sub, cust)
    BY <1>5 DEF Subscribe, UseAccount
  <2>2. u \in Digest /\ sub \in Subscription \cup {Null} /\ cust \in Customer \cup {Null}
    BY <2>1, SessionAssumption, HashType
  <2>3. UNCHANGED <<free_credit, spending_unit, invalid_subscription, now, stripe>>
    BY <1>5 DEF Subscribe, UseAccount, world
  <2> QED
    BY <2>1, <2>2, <2>3, AccountLasts
<1>7. ASSUME NEW e \in Session, UseCredit(e) PROVE Lasting
  BY <1>7, CreditLasts DEF UseCredit, world
<1>6. CASE Tick
  <2>1. UNCHANGED <<tables, stripe>> /\ now' \in Nat /\ now' >= now
    BY <1>6, <1>now DEF Tick
  <2> QED
    BY <2>1, QuietLasts
<1> QED
  BY <1>1, <1>2, <1>3, <1>4, <1>5, <1>6, <1>7, UnitLasts, ConsumeLasts, StripeLasts
     DEF Next, Serve, Step, Others, Stripe

-----------------------------------------------------------------------------
(***************************************************************************)
(* The answers.                                                            *)
(***************************************************************************)

\* The units of the period of row leave something of what the plan buys.
PlanCovers(row, s, u) ==
    /\ Plan[s].amount \notin {Null, 0} /\ Plan[s].quantity # 0
    /\ CountUnitsBetween(u, row.start * 1000, row.end * 1000) <= Limit(Plan[s])

\* What Covers says of subscription s, were row what Stripe has of it.
RowCovers(row, s, u) ==
    /\ row.status = "active"
    /\ ~IsSubscriptionCancelled(row)
    /\ PlanCovers(row, s, u)

Refusals == {"cancelled", "other", "exhausted"}

\* How a call c of handler h stands to what was true since it began.  It
\* follows the account's subscription, unless that was replaced, and then
\* there was a moment without a live one, or a live one was lost; once it has
\* fetched a live subscription that covers the user, there was a moment with
\* one, or one was lost; and the reasons of a refusal last.
SeenNow(h, c) ==
    c.pc # "idle" => /\ Entitled(User(c)) => TRUE \in seen[h]
                     /\ ~Entitled(User(c)) => FALSE \in seen[h]

\* A call that goes by a subscription goes by the account's.
Follows(h, c) ==
    c.pc \in {"gateway", "customer", "count"} \/ c.verdict \in Refusals =>
        /\ c.sub \in Subscription \ {Null}
        /\ HasAccount(User(c))
        /\ \/ user_account[User(c)].sub = c.sub
           \/ FALSE \in seen[h] /\ IsSubscriptionCancelled(stripe[c.sub])
           \/ lost[h]

\* There was a moment when the caller was entitled, or a live subscription of
\* the caller's was lost.
Granted(h) == TRUE \in seen[h] \/ lost[h]

Grounds(h, c) ==
    /\ c.verdict \in Refusals => c.got \in StripeRow
    /\ c.pc = "customer" => Granted(h) \/ ~RowCovers(c.got, c.sub, User(c))
    /\ c.pc = "count" => Granted(h) \/ ~PlanCovers(c.got, c.sub, User(c))
    /\ Valid(c.verdict) => Granted(h)
    /\ c.verdict = "noSubscription" => FALSE \in seen[h]
    /\ c.pc = "reply" => c.verdict # "none"
    /\ c.verdict \in Refusals => ~RowCovers(c.got, c.sub, User(c))

UsedUp(c) ==
    c.verdict = "exhausted" =>
        /\ Plan[c.sub].amount \in Nat \ {0}
        /\ CountUnitsBetween(User(c), c.got.start * 1000, c.got.end * 1000)
              > Limit(Plan[c.sub])

AnswerFor(h, c) == SeenNow(h, c) /\ Follows(h, c) /\ Grounds(h, c) /\ UsedUp(c)

AnswersOK == \A h \in Handler : \A c \in CallType : check[h] = c => AnswerFor(h, c)

AInv == IsFiniteSet(DOMAIN spending_unit) /\ AnswersOK

\* The history of a call that goes on takes in the new state.
LEMMA SeenStep ==
    ASSUME seen \in [Handler -> SUBSET BOOLEAN], Observe,
           NEW h \in Handler, NEW c, check'[h] = c, c.pc # "idle"
    PROVE  /\ seen[h] \subseteq seen'[h]
           /\ Entitled(User(c))' => TRUE \in seen'[h]
           /\ ~Entitled(User(c))' => FALSE \in seen'[h]
<1>1. seen'[h] = seen[h] \cup {CallerEntitled(h)'}
  BY Zenon DEF Observe
<1>2. CallerEntitled(h)' <=> Entitled(User(c))'
  BY DEF CallerEntitled, Entitled, Credit, Covers, IsSubscriptionCancelled,
         CountUnitsBetween, HasAccount, User, HashExternalID, Amount
<1>3. CallerEntitled(h)' \in BOOLEAN
  BY Zenon DEF CallerEntitled, Entitled
<1>4. CASE Entitled(User(c))'
  <2>1. CallerEntitled(h)' = TRUE
    BY <1>2, <1>3, <1>4, Zenon
  <2> QED
    BY <1>1, <1>4, <2>1, Zenon
<1>5. CASE ~Entitled(User(c))'
  <2>1. CallerEntitled(h)' = FALSE
    BY <1>2, <1>3, <1>5, Zenon
  <2> QED
    BY <1>1, <1>5, <2>1, Zenon
<1> QED
  BY <1>4, <1>5, Zenon

\* What a call lost stays lost to its end, and a live subscription that is
\* overwritten is.
LEMMA LostStep ==
    ASSUME Observe, NEW h \in Handler, check'[h].pc # "idle"
    PROVE  /\ lost[h] => lost'[h]
           /\ Overwrites(User(check[h])) => lost'[h]
<1>1. lost'[h] = (check'[h].pc # "idle" /\ (lost[h] \/ Overwrites(User(check[h]))))
  BY Zenon DEF Observe
<1> QED
  BY <1>1, Zenon

-----------------------------------------------------------------------------
(***************************************************************************)
(* Counts only grow.                                                       *)
(***************************************************************************)

\* The units that CountUnitsBetween adds up.
Within(u, a, b) == {k \in DOMAIN spending_unit : /\ spending_unit[k].user = u
                                                /\ spending_unit[k].created_at \in a .. b}

\* A count is a number.
LEMMA CountType ==
    ASSUME TablesTypeOK, IsFiniteSet(DOMAIN spending_unit), NEW u, NEW a, NEW b
    PROVE  /\ CountUnitsBetween(u, a, b) = SumFunctionOnSet(Amount, Within(u, a, b))
           /\ IsFiniteSet(Within(u, a, b))
           /\ \A k \in DOMAIN spending_unit :
                 Amount[k] = spending_unit[k].amount /\ Amount[k] \in Nat
           /\ CountUnitsBetween(u, a, b) \in Nat
<1>1. CountUnitsBetween(u, a, b) = SumFunctionOnSet(Amount, Within(u, a, b))
  BY DEF CountUnitsBetween, Within
<1>2. Within(u, a, b) \subseteq DOMAIN spending_unit
  BY DEF Within
<1>3. IsFiniteSet(Within(u, a, b))
  BY <1>2, FS_Subset
<1>4. \A k \in DOMAIN spending_unit :
         Amount[k] = spending_unit[k].amount /\ Amount[k] \in Nat
  BY DEF Amount, TablesTypeOK, UnitRow
<1>5. SumFunctionOnSet(Amount, Within(u, a, b)) \in Nat
  BY <1>2, <1>3, <1>4, SumMonotonic
<1> QED
  BY <1>1, <1>3, <1>4, <1>5

\* No step makes a count smaller.
LEMMA CountGrows ==
    ASSUME TablesTypeOK, TablesTypeOK', Lasting,
           IsFiniteSet(DOMAIN spending_unit), NEW u, NEW a, NEW b
    PROVE  /\ IsFiniteSet(DOMAIN spending_unit')
           /\ CountUnitsBetween(u, a, b) \in Nat
           /\ CountUnitsBetween(u, a, b)' \in Nat
           /\ CountUnitsBetween(u, a, b) <= CountUnitsBetween(u, a, b)'
<1> DEFINE W == Within(u, a, b)
           W2 == Within(u, a, b)'
           A2 == Amount'
<1>1. IsFiniteSet(DOMAIN spending_unit')
  <2>1. PICK k : DOMAIN spending_unit' \subseteq DOMAIN spending_unit \cup {k}
    BY DEF Lasting
  <2>2. IsFiniteSet(DOMAIN spending_unit \cup {k})
    BY FS_AddElement
  <2> QED
    BY <2>1, <2>2, FS_Subset
<1>2. /\ CountUnitsBetween(u, a, b) = SumFunctionOnSet(Amount, W)
      /\ CountUnitsBetween(u, a, b) \in Nat
      /\ IsFiniteSet(W)
  BY CountType
<1>3. W2 = {k \in DOMAIN spending_unit' : /\ spending_unit'[k].user = u
                                           /\ spending_unit'[k].created_at \in a .. b}
  BY DEF Within
<1>4. IsFiniteSet(W2) /\ \A k \in W2 : A2[k] \in Nat
  <2>1. W2 \subseteq DOMAIN spending_unit'
    BY <1>3
  <2>2. \A k \in DOMAIN spending_unit' : A2[k] \in Nat
    BY DEF Amount, TablesTypeOK, UnitRow
  <2> QED
    BY <1>1, <2>1, <2>2, FS_Subset
<1>5. CountUnitsBetween(u, a, b)' = SumFunctionOnSet(A2, W2)
  BY <1>3 DEF CountUnitsBetween
<1>6. W \subseteq W2 /\ \A k \in W : Amount[k] = A2[k]
  BY <1>3 DEF Within, Lasting, Amount
<1> HIDE DEF W, W2, A2
<1>7. SumFunctionOnSet(Amount, W) = SumFunctionOnSet(A2, W)
  BY <1>2, <1>6, SumEq
<1>8. SumFunctionOnSet(A2, W2) \in Nat /\ SumFunctionOnSet(A2, W) <= SumFunctionOnSet(A2, W2)
  BY <1>4, <1>6, SumMonotonic
<1> QED
  BY <1>1, <1>2, <1>5, <1>7, <1>8

\* What a plan buys is a number.
LEMMA LimitType ==
    ASSUME NEW s \in Subscription, Plan[s].amount \notin {Null, 0}
    PROVE  Plan[s].amount \in Nat \ {0} /\ Plan[s].quantity \in Nat /\ Limit(Plan[s]) \in Nat
<1>1. PICK n, q, w : /\ n = Plan[s].amount /\ q = Plan[s].quantity /\ w = UnitsPerDollar
                     /\ n \in Nat \ {0} /\ q \in Nat /\ w \in Nat
  BY PlanAssumption, NumbersAssumption
<1>2. n \div 100 \in Nat
  BY <1>1
<1>3. (n \div 100) * q * w \in Nat
  BY <1>1, <1>2
<1> QED
  BY <1>1, <1>3 DEF Limit

\* A subscription that does not cover a user will not, as Stripe had it.
LEMMA CoversLast ==
    ASSUME IInv, TablesTypeOK', Lasting, now' \in Nat, IsFiniteSet(DOMAIN spending_unit),
           NEW row \in StripeRow, NEW s \in Subscription, NEW u
    PROVE  /\ PlanCovers(row, s, u)' => PlanCovers(row, s, u)
           /\ RowCovers(row, s, u)' => RowCovers(row, s, u)
<1>1. ASSUME PlanCovers(row, s, u)' PROVE PlanCovers(row, s, u)
  <2>1. PICK a, b : a = row.start * 1000 /\ b = row.end * 1000
    OBVIOUS
  <2>2. /\ Plan[s].amount \notin {Null, 0} /\ Plan[s].quantity # 0
        /\ CountUnitsBetween(u, a, b)' <= Limit(Plan[s])
    BY <1>1, <2>1 DEF PlanCovers, CountUnitsBetween
  <2>3. CountUnitsBetween(u, a, b) <= Limit(Plan[s])
    BY <2>2, CountGrows, LimitType DEF IInv
  <2> QED
    BY <2>1, <2>2, <2>3 DEF PlanCovers
<1>2. IsSubscriptionCancelled(row) => IsSubscriptionCancelled(row)'
  BY DEF IsSubscriptionCancelled, Lasting, StripeRow, IInv, WorldOK
<1> QED
  BY <1>1, <1>2 DEF RowCovers

-----------------------------------------------------------------------------
(***************************************************************************)
(* What an answer rests on lasts.                                          *)
(***************************************************************************)

\* Covers is RowCovers of what Stripe has.
LEMMA CoversRow ==
    ASSUME NEW s \in Subscription \ {Null}, NEW u
    PROVE  Covers(s, u) <=> RowCovers(stripe[s], s, u)
BY DEF Covers, RowCovers, PlanCovers

\* A user without credit and without a live subscription is not entitled.
LEMMA NotEntitled ==
    ASSUME TablesTypeOK, NEW u, Spent(u),
           HasAccount(u) => ~Covers(user_account[u].sub, u)
    PROVE  ~Entitled(u)
<1>1. Credit(u) = free_credit[u] /\ free_credit[u] \in Int /\ free_credit[u] <= 0
  BY DEF Spent, Credit, TablesTypeOK
<1>2. ~(Credit(u) > 0)
  BY <1>1
<1> QED
  BY <1>2, Zenon DEF Entitled

\* An account whose subscription is replaced had one that was cancelled, and
\* cancelled it stays, or a live one is lost: a call goes on by the account's
\* subscription, or there was a moment when the user had none, or it lost one.
LEMMA FollowsLasts ==
    ASSUME IInv, Lasting, Observe,
           NEW h \in Handler, NEW c \in CallType, check'[h] = c, c.pc # "idle",
           check[h].user = c.user, SeenNow(h, c), Follows(h, c),
           c.pc \in {"gateway", "customer", "count"} \/ c.verdict \in Refusals
               => Spent(User(c))
    PROVE  Follows(h, c)'
<1> SUFFICES ASSUME c.pc \in {"gateway", "customer", "count"} \/ c.verdict \in Refusals
             PROVE  /\ HasAccount(User(c))'
                    /\ \/ (user_account[User(c)].sub)' = c.sub
                       \/ FALSE \in seen'[h] /\ IsSubscriptionCancelled(stripe[c.sub])'
                       \/ lost'[h]
  BY DEF Follows
<1>0. PICK u : u = User(c)
  OBVIOUS
<1>1. /\ c.sub \in Subscription \ {Null} /\ HasAccount(u) /\ Spent(u)
      /\ \/ user_account[u].sub = c.sub
         \/ FALSE \in seen[h] /\ IsSubscriptionCancelled(stripe[c.sub])
         \/ lost[h]
  BY <1>0 DEF Follows
<1>2. User(c)' = u /\ User(check[h]) = u
  BY <1>0 DEF User, HashExternalID
<1>3. HasAccount(User(c))'
  BY <1>1, <1>2 DEF Lasting, Kept, HasAccount
<1>4. seen[h] \subseteq seen'[h]
  BY SeenStep DEF IInv
<1>5. CASE FALSE \in seen[h] /\ IsSubscriptionCancelled(stripe[c.sub])
  <2>1. IsSubscriptionCancelled(stripe[c.sub])'
    BY <1>1, <1>5 DEF Lasting
  <2> QED
    BY <1>3, <1>4, <1>5, <2>1
<1>6. CASE user_account[u].sub = c.sub /\ user_account'[u].sub # c.sub
  <2>1. CASE IsSubscriptionCancelled(stripe[c.sub])
    <3>1. ~Covers(user_account[u].sub, u)
      BY <1>6, <2>1 DEF Covers
    <3>2. FALSE \in seen[h]
      BY <1>0, <1>1, <3>1, NotEntitled DEF SeenNow, IInv
    <3>3. IsSubscriptionCancelled(stripe[c.sub])'
      BY <1>1, <2>1 DEF Lasting
    <3> QED
      BY <1>3, <1>4, <3>2, <3>3
  <2>2. CASE ~IsSubscriptionCancelled(stripe[c.sub])
    <3>1. Overwrites(u)
      BY <1>1, <1>6, <2>2 DEF Overwrites
    <3>2. lost'[h]
      BY <1>2, <3>1, LostStep
    <3> QED
      BY <1>3, <3>2
  <2> QED
    BY <2>1, <2>2
<1>7. CASE user_account[u].sub = c.sub /\ user_account'[u].sub = c.sub
  BY <1>2, <1>3, <1>7
<1>8. CASE lost[h]
  BY <1>3, <1>8, LostStep
<1> QED
  BY <1>1, <1>5, <1>6, <1>7, <1>8

\* A unit more than the plan buys is one too many for good.
LEMMA UsedUpLasts ==
    ASSUME IInv, IInv', Lasting, IsFiniteSet(DOMAIN spending_unit),
           NEW c \in CallType, c.verdict = "exhausted" => c.sub \in Subscription,
           UsedUp(c)
    PROVE  UsedUp(c)'
<1> SUFFICES ASSUME c.verdict = "exhausted"
             PROVE  /\ Plan[c.sub].amount \in Nat \ {0}
                    /\ CountUnitsBetween(User(c), c.got.start * 1000, c.got.end * 1000)'
                          > Limit(Plan[c.sub])
  BY Zenon DEF UsedUp
<1>0. PICK a, b : a = c.got.start * 1000 /\ b = c.got.end * 1000
  OBVIOUS
<1>1. Plan[c.sub].amount \in Nat \ {0} /\ CountUnitsBetween(User(c), a, b) > Limit(Plan[c.sub])
  BY <1>0 DEF UsedUp
<1>2. Limit(Plan[c.sub]) \in Nat
  <2>1. PICK n, q, w : /\ n = Plan[c.sub].amount /\ q = Plan[c.sub].quantity
                       /\ w = UnitsPerDollar /\ n \in Nat /\ q \in Nat /\ w \in Nat
    BY <1>1, PlanAssumption, NumbersAssumption
  <2>2. n \div 100 \in Nat
    BY <2>1
  <2>3. (n \div 100) * q * w \in Nat
    BY <2>1, <2>2
  <2> QED
    BY <2>1, <2>3 DEF Limit
<1>3. /\ CountUnitsBetween(User(c), a, b) \in Nat
      /\ CountUnitsBetween(User(c), a, b)' \in Nat
      /\ CountUnitsBetween(User(c), a, b) <= CountUnitsBetween(User(c), a, b)'
  BY CountGrows DEF IInv
<1>4. CountUnitsBetween(User(c), a, b)' > Limit(Plan[c.sub])
  BY <1>1, <1>2, <1>3
<1> QED
  BY <1>0, <1>1, <1>4 DEF CountUnitsBetween

\* The grounds of an answer last: a period's units only become more, and what
\* is cancelled stays so.
LEMMA GroundsLast ==
    ASSUME IInv, IInv', Lasting, Observe, IsFiniteSet(DOMAIN spending_unit),
           NEW h \in Handler, NEW c \in CallType, check'[h] = c, c.pc # "idle",
           c.pc \in {"customer", "count"} => c.got \in StripeRow,
           Follows(h, c), Grounds(h, c)
    PROVE  Grounds(h, c)'
<1>1. User(c)' = User(c)
  BY DEF User, HashExternalID
<1>2. seen[h] \subseteq seen'[h] /\ now' \in Nat /\ (Granted(h) => Granted(h)')
  <2>1. seen[h] \subseteq seen'[h]
    BY SeenStep DEF IInv
  <2>2. now' \in Nat
    BY DEF IInv, WorldOK
  <2>3. Granted(h) => Granted(h)'
    BY <2>1, LostStep DEF Granted
  <2> QED
    BY <2>1, <2>2, <2>3
<1>3. ASSUME c.got \in StripeRow, c.sub \in Subscription
      PROVE  /\ PlanCovers(c.got, c.sub, User(c))' => PlanCovers(c.got, c.sub, User(c))
             /\ RowCovers(c.got, c.sub, User(c))' => RowCovers(c.got, c.sub, User(c))
  BY <1>2, <1>3, CoversLast DEF IInv
<1>4. c.pc \in {"customer", "count"} \/ c.verdict \in Refusals =>
         c.got \in StripeRow /\ c.sub \in Subscription
  BY DEF Follows, Grounds
<1>5. /\ c.verdict \in Refusals => c.got \in StripeRow
      /\ c.pc = "customer" => Granted(h)' \/ ~RowCovers(c.got, c.sub, User(c))'
      /\ c.pc = "count" => Granted(h)' \/ ~PlanCovers(c.got, c.sub, User(c))'
      /\ Valid(c.verdict) => Granted(h)'
      /\ c.verdict = "noSubscription" => FALSE \in seen'[h]
      /\ c.pc = "reply" => c.verdict # "none"
      /\ c.verdict \in Refusals => ~RowCovers(c.got, c.sub, User(c))'
  <2>1. CASE c.pc \in {"customer", "count"} \/ c.verdict \in Refusals
    <3>1. /\ PlanCovers(c.got, c.sub, User(c))' => PlanCovers(c.got, c.sub, User(c))
          /\ RowCovers(c.got, c.sub, User(c))' => RowCovers(c.got, c.sub, User(c))
      BY <1>3, <1>4, <2>1
    <3> QED
      BY <1>2, <3>1 DEF Grounds
  <2>2. CASE ~(c.pc \in {"customer", "count"} \/ c.verdict \in Refusals)
    BY <1>2, <2>2 DEF Grounds
  <2> QED
    BY <2>1, <2>2
<1> QED
  BY <1>5, Zenon DEF Grounds

\* What a call rests on lasts.
LEMMA AnswerLasts ==
    ASSUME IInv, IInv', Lasting, Observe, IsFiniteSet(DOMAIN spending_unit),
           NEW h \in Handler, NEW c \in CallType, check'[h] = c, c.pc # "idle",
           check[h].user = c.user, c.pc \in {"customer", "count"} => c.got \in StripeRow,
           c.pc \in {"gateway", "customer", "count"} \/ c.verdict \in Refusals
               => Spent(User(c)),
           AnswerFor(h, c)
    PROVE  AnswerFor(h, c)'
<1>1. SeenNow(h, c)'
  <2>1. Entitled(User(c))' => TRUE \in seen'[h]
    BY SeenStep DEF IInv
  <2>2. ~Entitled(User(c))' => FALSE \in seen'[h]
    BY SeenStep DEF IInv
  <2> QED
    BY <2>1, <2>2, Zenon DEF SeenNow
<1>2. Follows(h, c)'
  BY FollowsLasts DEF AnswerFor
<1>3. Grounds(h, c)'
  BY GroundsLast DEF AnswerFor
<1>4. UsedUp(c)'
  <2>1. c.verdict = "exhausted" => c.sub \in Subscription
    BY DEF AnswerFor, Follows, Refusals
  <2> QED
    BY <2>1, UsedUpLasts DEF AnswerFor
<1> QED
  BY <1>1, <1>2, <1>3, <1>4 DEF AnswerFor

\* A call that does nothing keeps it.
LEMMA OthersAnswer ==
    ASSUME IInv, IInv', AInv, Lasting, Observe, NEW g \in Handler, check'[g] = check[g],
           NEW c \in CallType, check'[g] = c
    PROVE  AnswerFor(g, c)'
<1>1. AnswerFor(g, c) /\ IsFiniteSet(DOMAIN spending_unit)
  BY DEF AInv, AnswersOK
<1>2. CallOK(c)
  BY DEF IInv, CallsOK
<1>3. CASE c.pc = "idle"
  <2>1. c.verdict = "none"
    BY <1>2, <1>3 DEF CallOK
  <2> QED
    BY <1>3, <2>1 DEF AnswerFor, SeenNow, Follows, Grounds, UsedUp, Refusals, Valid
<1>4. CASE c.pc # "idle"
  <2>1. c.pc \in {"customer", "count"} => c.got \in StripeRow
    BY <1>2 DEF CallOK
  <2>2. c.pc \in {"gateway", "customer", "count"} \/ c.verdict \in Refusals
            => Spent(User(c))
    BY <1>2 DEF CallOK, Refusals
  <2> QED
    BY <1>1, <1>4, <2>1, <2>2, AnswerLasts
<1> QED
  BY <1>3, <1>4

\* A step of the call of h, which becomes c.
LEMMA AnswersStep ==
    ASSUME IInv, IInv', AInv, Lasting, Observe, NEW h \in Handler, NEW c \in CallType,
           check' = [check EXCEPT ![h] = c], AnswerFor(h, c)'
    PROVE  AInv'
<1>1. IsFiniteSet(DOMAIN spending_unit')
  BY CountGrows DEF IInv, AInv
<1>2. ASSUME NEW g \in Handler, NEW d \in CallType, check'[g] = d
      PROVE  AnswerFor(g, d)'
  <2>1. CASE g = h
    <3>1. c = d
      BY <1>2, <2>1 DEF IInv
    <3> QED
      BY <2>1, <3>1
  <2>2. CASE g # h
    <3>1. check'[g] = check[g]
      BY <2>2 DEF IInv
    <3> QED
      BY <1>2, <3>1, OthersAnswer
  <2> QED
    BY <2>1, <2>2
<1> QED
  BY <1>1, <1>2 DEF AInv, AnswersOK

\* A step of others.
LEMMA QuietAnswers ==
    ASSUME IInv, IInv', AInv, Lasting, Observe, check' = check
    PROVE  AInv'
<1>1. IsFiniteSet(DOMAIN spending_unit')
  BY CountGrows DEF IInv, AInv
<1> QED
  BY <1>1, OthersAnswer DEF AInv, AnswersOK

\* A call that has not come to the subscription rests on nothing yet.
LEMMA FreshAnswer ==
    ASSUME IInv, IInv', AInv, Lasting, Observe, NEW h \in Handler, NEW c \in CallType,
           check' = [check EXCEPT ![h] = c], c.verdict = "none",
           c.pc \in {"idle", "credit", "account", "recredit", "lookup"}
    PROVE  AInv'
<1>1. SeenNow(h, c)'
  <2>1. CASE c.pc = "idle"
    BY <2>1 DEF SeenNow
  <2>2. CASE c.pc # "idle"
    <3>0. check'[h] = c
      BY DEF IInv
    <3>1. Entitled(User(c))' => TRUE \in seen'[h]
      BY <2>2, <3>0, SeenStep DEF IInv
    <3>2. ~Entitled(User(c))' => FALSE \in seen'[h]
      BY <2>2, <3>0, SeenStep DEF IInv
    <3> QED
      BY <3>1, <3>2, Zenon DEF SeenNow
  <2> QED
    BY <2>1, <2>2
<1>2. Follows(h, c)' /\ Grounds(h, c)' /\ UsedUp(c)'
  BY DEF Follows, Grounds, UsedUp, Refusals, Valid
<1> QED
  BY <1>1, <1>2, AnswersStep DEF AnswerFor

\* A call that looks at the subscription and goes on as c.
LEMMA ReadAnswer ==
    ASSUME IInv, IInv', AInv, Lasting, Observe, NEW h \in Handler, NEW c \in CallType,
           check' = [check EXCEPT ![h] = c],
           check[h].pc \in {"lookup", "gateway", "customer", "count"},
           c.user = check[h].user, c.pc # "idle",
           c.pc \in {"customer", "count"} => c.got \in StripeRow,
           Follows(h, c), Grounds(h, c), UsedUp(c)
    PROVE  AInv'
<1>1. PICK b \in CallType : check[h] = b
  BY DEF IInv
<1>2. Spent(User(b)) /\ User(b) = User(c)
  BY <1>1 DEF IInv, CallsOK, CallOK, User
<1>3. SeenNow(h, b)
  BY <1>1 DEF AInv, AnswersOK, AnswerFor
<1>4. SeenNow(h, c)
  <2>1. b.pc # "idle"
    BY <1>1
  <2>2. /\ Entitled(User(b)) => TRUE \in seen[h]
        /\ ~Entitled(User(b)) => FALSE \in seen[h]
    BY <1>3, <2>1, Zenon DEF SeenNow
  <2> QED
    BY <1>2, <2>2, Zenon DEF SeenNow
<1>5. check'[h] = c
  BY DEF IInv
<1>6. AnswerFor(h, c)'
  BY <1>2, <1>4, <1>5, AnswerLasts DEF AInv, AnswerFor
<1> QED
  BY <1>6, AnswersStep

-----------------------------------------------------------------------------
(***************************************************************************)
(* The steps of a call keep what its answer rests on.                      *)
(***************************************************************************)

\* A call that meets credit answers freeTier, and the user has it.
LEMMA CreditAnswer ==
    ASSUME IInv, IInv', AInv, Lasting, Observe, NEW h \in Handler,
           check[h].pc \in {"credit", "recredit"},
           User(check[h]) \in DOMAIN free_credit', WithCredit(h, check[h])
    PROVE  AInv'
<1>0. PICK c \in CallType : check[h] = c
  BY DEF IInv
<1>1. c.verdict = "none" /\ c.pc # "idle"
  BY <1>0 DEF IInv, CallsOK, CallOK
<1>2. CASE free_credit'[User(c)] > 0
  <2>1. PICK d \in CallType : d = [c EXCEPT !.pc = "reply", !.verdict = "freeTier"]
    BY DEF CallType, Verdict
  <2>2. d.pc = "reply" /\ d.verdict = "freeTier" /\ d.user = c.user
    BY <2>1 DEF CallType
  <2>3. check' = [check EXCEPT ![h] = d]
    BY <1>0, <1>2, <2>1 DEF WithCredit, Decide
  <2>4. Entitled(User(d))'
    <3>1. User(d)' = User(c)
      BY <2>2 DEF User, HashExternalID
    <3>2. Credit(User(d))' > 0
      BY <1>0, <1>2, <3>1 DEF Credit
    <3> QED
      BY <3>2, Zenon DEF Entitled
  <2>5. check'[h] = d
    BY <2>3 DEF IInv
  <2>6. TRUE \in seen'[h]
    BY <2>2, <2>4, <2>5, SeenStep DEF IInv
  <2>7. SeenNow(h, d)'
    BY <2>4, <2>6, Zenon DEF SeenNow
  <2>8. Follows(h, d)' /\ Grounds(h, d)' /\ UsedUp(d)'
    BY <2>2, <2>6 DEF Follows, Grounds, Granted, UsedUp, Refusals, Valid
  <2> QED
    BY <2>3, <2>7, <2>8, AnswersStep DEF AnswerFor
<1>3. CASE ~(free_credit'[User(c)] > 0)
  <2>1. PICK d \in CallType : d = [c EXCEPT !.pc = "lookup"]
    BY DEF CallType
  <2>2. d.pc = "lookup" /\ d.verdict = "none"
    BY <1>1, <2>1 DEF CallType
  <2>3. check' = [check EXCEPT ![h] = d]
    BY <1>0, <1>3, <2>1 DEF WithCredit, GoOn
  <2> QED
    BY <2>2, <2>3, FreshAnswer
<1> QED
  BY <1>2, <1>3

\* The steps that do not yet look at the subscription.
LEMMA EarlyAnswer ==
    ASSUME IInv, IInv', AInv, Lasting, Observe, NEW h \in Handler,
           \/ \E e \in Session : Start(h, e.user)
           \/ GetFreeCredit(h) \/ EnsureAccount(h) \/ RetryCredit(h)
           \/ Reply(h) \/ Abort(h)
    PROVE  AInv'
<1>0. PICK c \in CallType : check[h] = c
  BY DEF IInv
<1>1. c.pc # "reply" => c.verdict = "none"
  BY <1>0 DEF IInv, CallsOK, CallOK
<1>2. CASE \E e \in Session : Start(h, e.user)
  <2>1. PICK e \in Session : Start(h, e.user)
    BY <1>2
  <2>2. PICK d \in CallType : d = Begin(e.user)
    BY SessionAssumption DEF Begin, Idle, CallType, NotFetched, Verdict
  <2>3. d.pc = "credit" /\ d.verdict = "none" /\ check' = [check EXCEPT ![h] = d]
    BY <2>1, <2>2 DEF Start, Begin, Idle
  <2> QED
    BY <2>3, FreshAnswer
<1>3. CASE Reply(h) \/ Abort(h)
  <2>1. Idle.pc = "idle" /\ Idle.verdict = "none" /\ Idle \in CallType
    BY IdleOK DEF Idle
  <2>2. check' = [check EXCEPT ![h] = Idle]
    BY <1>3 DEF Reply, Abort
  <2> QED
    BY <2>1, <2>2, FreshAnswer
<1>4. CASE EnsureAccount(h)
  <2>1. PICK d \in CallType : d = [c EXCEPT !.pc = "recredit"]
    BY DEF CallType
  <2>2. d.pc = "recredit" /\ d.verdict = "none" /\ check' = [check EXCEPT ![h] = d]
    BY <1>0, <1>1, <1>4, <2>1 DEF EnsureAccount, GoOn, CallType
  <2> QED
    BY <2>2, FreshAnswer
<1>5. CASE GetFreeCredit(h) /\ ~HasAccount(User(c))
  <2>1. PICK d \in CallType : d = [c EXCEPT !.pc = "account"]
    BY DEF CallType
  <2>2. check' = [check EXCEPT ![h] = d] /\ c.pc = "credit"
    BY <1>0, <1>5, <2>1 DEF GetFreeCredit, GoOn
  <2>3. d.pc = "account" /\ d.verdict = "none"
    BY <1>1, <2>1, <2>2 DEF CallType
  <2> QED
    BY <2>2, <2>3, FreshAnswer
<1>6. CASE (GetFreeCredit(h) /\ HasAccount(User(c))) \/ RetryCredit(h)
  <2>1. /\ UpsertAndGetFreeCredit(User(c)) /\ WithCredit(h, check[h])
        /\ check[h].pc \in {"credit", "recredit"}
    BY <1>0, <1>6 DEF GetFreeCredit, RetryCredit
  <2>2. HasAccount(User(c))
    <3>1. c.pc = "recredit" => HasAccount(User(c))
      BY <1>0 DEF IInv, CallsOK, CallOK, HasAccount
    <3> QED
      BY <1>0, <1>6, <3>1 DEF RetryCredit
  <2>3. User(c) \in DOMAIN free_credit'
    BY <2>1, <2>2 DEF UpsertAndGetFreeCredit, Put
  <2> QED
    BY <1>0, <2>1, <2>3, CreditAnswer
<1> QED
  BY <1>2, <1>3, <1>4, <1>5, <1>6

\* What GetUserAccount finds.
LEMMA LookupAnswer ==
    ASSUME IInv, IInv', AInv, Lasting, Observe, NEW h \in Handler, GetUserAccount(h)
    PROVE  AInv'
<1>0. PICK c \in CallType : check[h] = c
  BY DEF IInv
<1>1. c.verdict = "none" /\ c.pc = "lookup" /\ Spent(User(c)) /\ SeenNow(h, c)
  BY <1>0 DEF IInv, CallsOK, CallOK, GetUserAccount, AInv, AnswersOK, AnswerFor
<1>2. PICK s : s = IF HasAccount(User(c)) THEN user_account[User(c)].sub ELSE Null
  OBVIOUS
<1>3. CASE s = Null
  <2>1. PICK d \in CallType : d = [c EXCEPT !.pc = "reply", !.verdict = "noSubscription"]
    BY DEF CallType, Verdict
  <2>2. d.pc = "reply" /\ d.verdict = "noSubscription" /\ d.user = c.user
    BY <2>1 DEF CallType
  <2>3. check' = [check EXCEPT ![h] = d]
    BY <1>0, <1>2, <1>3, <2>1 DEF GetUserAccount, Decide
  <2>4. ~Entitled(User(c))
    <3>1. HasAccount(User(c)) => ~Covers(user_account[User(c)].sub, User(c))
      BY <1>2, <1>3 DEF Covers
    <3> QED
      BY <1>1, <3>1, NotEntitled DEF IInv
  <2>5. FALSE \in seen[h]
    BY <1>1, <2>4 DEF SeenNow
  <2>6. Follows(h, d) /\ Grounds(h, d) /\ UsedUp(d)
    BY <2>2, <2>5 DEF Follows, Grounds, UsedUp, Refusals, Valid
  <2> QED
    BY <1>0, <1>1, <2>2, <2>3, <2>6, ReadAnswer
<1>4. CASE s # Null
  <2>0. HasAccount(User(c)) /\ user_account[User(c)].sub = s /\ s \in Subscription
    BY <1>2, <1>4 DEF HasAccount, IInv, TablesTypeOK, AccountRow
  <2>1. PICK d \in CallType : d = [[c EXCEPT !.sub = s] EXCEPT !.pc = "gateway"]
    BY <2>0 DEF CallType
  <2>2. d.pc = "gateway" /\ d.verdict = "none" /\ d.user = c.user /\ d.sub = s
    BY <1>1, <2>1 DEF CallType
  <2>3. check' = [check EXCEPT ![h] = d]
    BY <1>0, <1>2, <1>4, <2>1 DEF GetUserAccount, GoOn
  <2>4. User(d) = User(c)
    BY <2>2 DEF User
  <2>5. Follows(h, d)
    BY <1>4, <2>0, <2>2, <2>4 DEF Follows
  <2>6. Grounds(h, d) /\ UsedUp(d)
    BY <2>2 DEF Grounds, UsedUp, Refusals, Valid
  <2> QED
    BY <1>0, <1>1, <2>2, <2>3, <2>5, <2>6, ReadAnswer
<1> QED
  BY <1>3, <1>4

\* A live subscription that covers the user is the account's still.
LEMMA FetchAnswer ==
    ASSUME IInv, IInv', AInv, Lasting, Observe, NEW h \in Handler, GetSubscription(h)
    PROVE  AInv'
<1>0. PICK c \in CallType : check[h] = c
  BY DEF IInv
<1>1. /\ c.verdict = "none" /\ c.pc = "gateway" /\ c.sub \in Subscription
      /\ SeenNow(h, c) /\ Follows(h, c)
  BY <1>0 DEF IInv, CallsOK, CallOK, GetSubscription, AInv, AnswersOK, AnswerFor
<1>2. PICK row : row = stripe[c.sub]
  OBVIOUS
<1>3. row \in StripeRow
  BY <1>1, <1>2 DEF IInv, WorldOK
<1>4. PICK d \in CallType : d = [[c EXCEPT !.got = row] EXCEPT !.pc = "customer"]
  BY <1>3 DEF CallType
<1>5. /\ d.pc = "customer" /\ d.verdict = "none" /\ d.user = c.user /\ d.sub = c.sub
      /\ d.got = row
  BY <1>1, <1>4 DEF CallType
<1>6. check' = [check EXCEPT ![h] = d]
  BY <1>0, <1>2, <1>4 DEF GetSubscription, GoOn
<1>7. User(d) = User(c)
  BY <1>5 DEF User
<1>8. Follows(h, d)
  BY <1>1, <1>5, <1>7 DEF Follows
<1>9. Granted(h) \/ ~RowCovers(row, c.sub, User(c))
  <2> SUFFICES ASSUME RowCovers(row, c.sub, User(c)), ~lost[h] PROVE TRUE \in seen[h]
    BY DEF Granted
  <2>1. ~IsSubscriptionCancelled(stripe[c.sub])
    BY <1>2 DEF RowCovers
  <2>2. /\ c.sub \in Subscription \ {Null} /\ HasAccount(User(c))
        /\ user_account[User(c)].sub = c.sub
    BY <1>1, <2>1 DEF Follows
  <2>3. Covers(c.sub, User(c))
    BY <1>2, <2>2, CoversRow
  <2>4. Entitled(User(c))
    BY <2>2, <2>3, Zenon DEF Entitled
  <2> QED
    BY <1>1, <2>4 DEF SeenNow
<1>10. Grounds(h, d) /\ UsedUp(d)
  <2>1. UsedUp(d)
    BY <1>5 DEF UsedUp
  <2>2. Grounds(h, d)
    BY <1>5, <1>7, <1>9 DEF Grounds, Refusals, Valid
  <2> QED
    BY <2>1, <2>2
<1> QED
  BY <1>0, <1>1, <1>3, <1>5, <1>6, <1>8, <1>10, ReadAnswer

\* What the status of the fetched subscription leads to.
LEMMA StatusAnswer ==
    ASSUME IInv, IInv', AInv, Lasting, Observe, NEW h \in Handler, GetCustomer(h)
    PROVE  AInv'
<1>0. PICK c \in CallType : check[h] = c
  BY DEF IInv
<1>1. /\ c.verdict = "none" /\ c.pc = "customer" /\ c.got \in StripeRow
      /\ Follows(h, c) /\ Grounds(h, c)
  BY <1>0 DEF IInv, CallsOK, CallOK, GetCustomer, AInv, AnswersOK, AnswerFor
<1>2. ASSUME NEW v \in {"cancelled", "other"}, Decide(h, c, v),
             IsSubscriptionCancelled(c.got) \/ c.got.status # "active"
      PROVE  AInv'
  <2>1. PICK d \in CallType : d = [c EXCEPT !.pc = "reply", !.verdict = v]
    BY DEF CallType, Verdict
  <2>2. /\ d.pc = "reply" /\ d.verdict = v /\ d.user = c.user /\ d.sub = c.sub
        /\ d.got = c.got
    BY <2>1 DEF CallType
  <2>3. check' = [check EXCEPT ![h] = d]
    BY <1>2, <2>1 DEF Decide
  <2>4. User(d) = User(c)
    BY <2>2 DEF User
  <2>5. Follows(h, d)
    BY <1>1, <2>2, <2>4 DEF Follows
  <2>6. ~RowCovers(c.got, c.sub, User(c))
    BY <1>2 DEF RowCovers
  <2>7. Grounds(h, d)
    BY <1>1, <1>2, <2>2, <2>4, <2>6 DEF Grounds, Refusals, Valid
  <2>8. UsedUp(d)
    BY <2>2 DEF UsedUp
  <2> QED
    BY <1>0, <1>1, <2>2, <2>3, <2>5, <2>7, <2>8, ReadAnswer
<1>3. CASE c.got.status = "active" /\ ~IsSubscriptionCancelled(c.got)
  <2>1. PICK d \in CallType : d = [c EXCEPT !.pc = "count"]
    BY DEF CallType
  <2>2. /\ d.pc = "count" /\ d.verdict = "none" /\ d.user = c.user /\ d.sub = c.sub
        /\ d.got = c.got
    BY <1>1, <2>1 DEF CallType
  <2>3. check' = [check EXCEPT ![h] = d]
    BY <1>0, <1>3, <2>1 DEF GetCustomer, GoOn
  <2>4. User(d) = User(c)
    BY <2>2 DEF User
  <2>5. Follows(h, d)
    BY <1>1, <2>2, <2>4 DEF Follows
  <2>6. Granted(h) \/ ~PlanCovers(c.got, c.sub, User(c))
    <3>1. Granted(h) \/ ~RowCovers(c.got, c.sub, User(c))
      BY <1>1 DEF Grounds
    <3> QED
      BY <1>3, <3>1 DEF RowCovers
  <2>7. Grounds(h, d)
    BY <2>2, <2>4, <2>6 DEF Grounds, Refusals, Valid
  <2>8. UsedUp(d)
    BY <2>2 DEF UsedUp
  <2> QED
    BY <1>0, <1>1, <2>2, <2>3, <2>5, <2>7, <2>8, ReadAnswer
<1>4. CASE ~(c.got.status = "active" /\ ~IsSubscriptionCancelled(c.got))
  <2>1. Decide(h, c, "cancelled") \/ Decide(h, c, "other")
    BY <1>0, <1>4 DEF GetCustomer
  <2> QED
    BY <1>2, <1>4, <2>1
<1> QED
  BY <1>3, <1>4

\* What the count of the period's units leads to.
LEMMA CountAnswer ==
    ASSUME IInv, IInv', AInv, Lasting, Observe, NEW h \in Handler, CountUnits(h)
    PROVE  AInv'
<1>0. PICK c \in CallType : check[h] = c
  BY DEF IInv
<1>1. /\ c.verdict = "none" /\ c.pc = "count" /\ c.got \in StripeRow
      /\ c.sub \in Subscription /\ Follows(h, c) /\ Grounds(h, c)
  BY <1>0 DEF IInv, CallsOK, CallOK, CountUnits, AInv, AnswersOK, AnswerFor
<1>2. PICK n : n = CountUnitsBetween(User(c), c.got.start * 1000, c.got.end * 1000)
  OBVIOUS
<1>3. CASE Plan[c.sub].amount \in {Null, 0} \/ Plan[c.sub].quantity = 0
  <2>1. Idle.pc = "idle" /\ Idle.verdict = "none" /\ Idle \in CallType
    BY IdleOK DEF Idle
  <2>2. check' = [check EXCEPT ![h] = Idle]
    BY <1>0, <1>3 DEF CountUnits
  <2> QED
    BY <2>1, <2>2, FreshAnswer
<1>4. CASE ~(Plan[c.sub].amount \in {Null, 0} \/ Plan[c.sub].quantity = 0)
  <2>0. /\ Plan[c.sub].amount \in Nat \ {0} /\ Limit(Plan[c.sub]) \in Nat
        /\ n \in Nat
    BY <1>1, <1>2, <1>4, LimitType, CountType DEF IInv, AInv
  <2>1. PICK v : v = IF n > Limit(Plan[c.sub]) THEN "exhausted" ELSE "payingCustomer"
    OBVIOUS
  <2>2. PICK d \in CallType : d = [c EXCEPT !.pc = "reply", !.verdict = v]
    BY <2>1 DEF CallType, Verdict
  <2>3. /\ d.pc = "reply" /\ d.verdict = v /\ d.user = c.user /\ d.sub = c.sub
        /\ d.got = c.got
    BY <2>2 DEF CallType
  <2>4. check' = [check EXCEPT ![h] = d]
    <3>1. Decide(h, c, IF n > Limit(Plan[c.sub]) THEN "exhausted" ELSE "payingCustomer")
      BY <1>0, <1>2, <1>4 DEF CountUnits
    <3> QED
      BY <2>1, <2>2, <3>1 DEF Decide
  <2>5. User(d) = User(c)
    BY <2>3 DEF User
  <2>6. Follows(h, d)
    BY <1>1, <2>3, <2>5 DEF Follows
  <2>7. CASE n > Limit(Plan[c.sub])
    <3>1. v = "exhausted"
      BY <2>1, <2>7
    <3>2. ~PlanCovers(c.got, c.sub, User(c))
      <4>1. ~(n <= Limit(Plan[c.sub]))
        BY <2>0, <2>7
      <4> QED
        BY <1>2, <4>1, Zenon DEF PlanCovers
    <3>3. ~RowCovers(c.got, c.sub, User(c))
      BY <3>2 DEF RowCovers
    <3>4. Grounds(h, d)
      BY <1>1, <2>3, <2>5, <3>1, <3>3 DEF Grounds, Refusals, Valid
    <3>5. UsedUp(d)
      <4>1. n = CountUnitsBetween(User(d), d.got.start * 1000, d.got.end * 1000)
        BY <1>2, <2>3, <2>5
      <4>2. Plan[d.sub].amount \in Nat \ {0} /\ n > Limit(Plan[d.sub])
        BY <2>0, <2>3, <2>7, Zenon
      <4> QED
        BY <4>1, <4>2, Zenon DEF UsedUp
    <3> QED
      BY <1>0, <1>1, <2>3, <2>4, <2>6, <3>4, <3>5, ReadAnswer
  <2>8. CASE ~(n > Limit(Plan[c.sub]))
    <3>1. v = "payingCustomer"
      BY <2>1, <2>8
    <3>2. PlanCovers(c.got, c.sub, User(c))
      <4>1. n <= Limit(Plan[c.sub])
        BY <2>0, <2>8
      <4> QED
        BY <1>2, <1>4, <4>1, Zenon DEF PlanCovers
    <3>3. Granted(h)
      BY <1>1, <3>2 DEF Grounds
    <3>4. Grounds(h, d) /\ UsedUp(d)
      <4>1. UsedUp(d)
        BY <2>3, <3>1 DEF UsedUp
      <4>2. Grounds(h, d)
        BY <2>3, <3>1, <3>3 DEF Grounds, Refusals, Valid
      <4> QED
        BY <4>1, <4>2
    <3> QED
      BY <1>0, <1>1, <2>3, <2>4, <2>6, <3>4, ReadAnswer
  <2> QED
    BY <2>7, <2>8
<1> QED
  BY <1>3, <1>4

LEMMA AInvInit == Init => AInv
<1> SUFFICES ASSUME Init PROVE AInv
  OBVIOUS
<1>1. DOMAIN spending_unit = {}
  BY DEF Init, TablesInit, EmptyTable
<1>2. IsFiniteSet(DOMAIN spending_unit)
  BY <1>1, FS_EmptySet
<1>3. ASSUME NEW h \in Handler, NEW c \in CallType, check[h] = c PROVE AnswerFor(h, c)
  <2>1. c.pc = "idle" /\ c.verdict = "none"
    BY <1>3 DEF Init, Idle
  <2> QED
    BY <2>1 DEF AnswerFor, SeenNow, Follows, Grounds, UsedUp, Refusals, Valid
<1> QED
  BY <1>2, <1>3 DEF AInv, AnswersOK

LEMMA AInvStep == IInv /\ IInv' /\ AInv /\ [Next]_vars => AInv'
<1> SUFFICES ASSUME IInv, IInv', AInv, [Next]_vars PROVE AInv'
  OBVIOUS
<1>1. Lasting
  BY EveryStepLasts
<1>2. CASE UNCHANGED vars
  <2>1. /\ user_account' = user_account /\ free_credit' = free_credit
        /\ spending_unit' = spending_unit /\ now' = now /\ stripe' = stripe
        /\ check' = check /\ seen' = seen /\ lost' = lost
    BY <1>2 DEF vars, tables, world
  <2>2. ASSUME NEW h \in Handler, NEW c \in CallType, AnswerFor(h, c)
        PROVE  AnswerFor(h, c)'
    <3>1. Entitled(User(c))' <=> Entitled(User(c))
      BY <2>1 DEF Entitled, Credit, Covers, HasAccount, CountUnitsBetween, Amount,
                  IsSubscriptionCancelled, User, HashExternalID
    <3>2. SeenNow(h, c)'
      BY <2>1, <2>2, <3>1, Zenon DEF AnswerFor, SeenNow
    <3>3. Follows(h, c)'
      BY <2>1, <2>2, Zenon DEF AnswerFor, Follows, HasAccount, IsSubscriptionCancelled, User,
                       HashExternalID
    <3>4. /\ RowCovers(c.got, c.sub, User(c))' <=> RowCovers(c.got, c.sub, User(c))
          /\ PlanCovers(c.got, c.sub, User(c))' <=> PlanCovers(c.got, c.sub, User(c))
          /\ UsedUp(c)' <=> UsedUp(c)
      BY <2>1 DEF RowCovers, PlanCovers, UsedUp, CountUnitsBetween, Amount,
                  IsSubscriptionCancelled, User, HashExternalID
    <3>5. Grounds(h, c)'
      BY <2>1, <2>2, <3>4, Zenon DEF AnswerFor, Grounds, Granted
    <3> QED
      BY <2>2, <3>2, <3>3, <3>4, <3>5 DEF AnswerFor
  <2> QED
    BY <2>1, <2>2 DEF AInv, AnswersOK
<1>3. CASE Serve /\ Observe
  BY <1>1, <1>3, EarlyAnswer, LookupAnswer, FetchAnswer, StatusAnswer, CountAnswer
     DEF Serve, Step
<1>4. CASE (Others \/ Stripe) /\ Observe
  <2>1. check' = check
    BY <1>4 DEF Others, Stripe, InsertUnit, Consume, Subscribe, UseCredit, UseAccount,
                CancelSubscription, ScheduleCancel, Payment, Renew, SetStripe, Tick
  <2> QED
    BY <1>1, <1>4, <2>1, QuietAnswers
<1> QED
  BY <1>2, <1>3, <1>4 DEF Next

\* What the answers of the calls rest on holds in every reachable state.
THEOREM Answers == Spec => []AInv
BY AInvInit, AInvStep, Invariance, PTL DEF Spec

-----------------------------------------------------------------------------
(***************************************************************************)
(* What an answer is worth.                                                *)
(***************************************************************************)

\* A user who was told to be entitled was, at some moment of the call, and
\* one who was refused was not, at some moment, unless Stripe changed the
\* subscription after the fetch or the webhook, at any time and in any order,
\* overwrote a live subscription of the caller's during the call
\* (AnswerWasRight of VerifySubscriptionValidity).
THEOREM RightAnswer == Spec => []AnswerWasRight
<1>1. IInv /\ AInv => AnswerWasRight
  <2> SUFFICES ASSUME IInv, AInv PROVE AnswerWasRight
    OBVIOUS
  <2> SUFFICES ASSUME NEW h \in Handler, NEW c \in CallType,
                      check[h] = c, c.pc = "reply"
               PROVE  \/ Valid(c.verdict) \in seen[h]
                      \/ ~Valid(c.verdict) /\ c.sub # Null /\ stripe[c.sub] # c.got
                      \/ lost[h]
    <3>1. \A h \in Handler : check[h] \in CallType
      BY DEF IInv
    <3> QED
      BY <3>1, Zenon DEF AnswerWasRight
  <2>1. SeenNow(h, c) /\ Follows(h, c) /\ Grounds(h, c) /\ CallOK(c)
    BY DEF AInv, AnswersOK, AnswerFor, IInv, CallsOK
  <2>0. CASE lost[h]
    BY <2>0
  <2>2. CASE Valid(c.verdict) /\ ~lost[h]
    <3>1. TRUE \in seen[h]
      BY <2>1, <2>2 DEF Grounds, Granted
    <3>2. Valid(c.verdict) = TRUE
      BY <2>2, Zenon DEF Valid
    <3> QED
      BY <3>1, <3>2, Zenon
  <2>3. CASE ~Valid(c.verdict) /\ ~lost[h]
    <3>0. Valid(c.verdict) = FALSE
      <4>1. Valid(c.verdict) \in BOOLEAN
        BY DEF Valid
      <4> QED
        BY <2>3, <4>1, Zenon
    <3>1. CASE FALSE \in seen[h]
      BY <3>0, <3>1, Zenon
    <3>2. CASE FALSE \notin seen[h]
      <4>1. c.verdict \in Refusals
        BY <2>1, <2>3, <3>2 DEF Grounds, CallType, Verdict, Valid, Refusals
      <4>2. /\ c.sub \in Subscription \ {Null} /\ HasAccount(User(c))
            /\ user_account[User(c)].sub = c.sub
        BY <2>1, <2>3, <3>2, <4>1 DEF Follows
      <4>3. ~RowCovers(c.got, c.sub, User(c))
        BY <2>1, <4>1 DEF Grounds
      <4>4. Spent(User(c))
        BY <2>1, <2>3 DEF CallOK, Valid
      <4>5. stripe[c.sub] # c.got
        <5> SUFFICES ASSUME stripe[c.sub] = c.got PROVE FALSE
          OBVIOUS
        <5>1. ~Covers(c.sub, User(c))
          BY <4>2, <4>3, CoversRow
        <5>2. ~Entitled(User(c))
          BY <4>2, <4>4, <5>1, NotEntitled DEF IInv
        <5> QED
          BY <2>1, <3>2, <5>2 DEF SeenNow
      <4> QED
        BY <2>3, <4>2, <4>5
    <3> QED
      BY <3>1, <3>2
  <2> QED
    BY <2>0, <2>2, <2>3
<1> QED
  BY <1>1, Invariance, Answers, PTL

\* Cents buy nothing, but all cents together make less than a dollar.
LEMMA WithinADollar ==
    ASSUME NEW n \in Nat, NEW q \in Nat, NEW w \in Nat, NEW x \in Nat,
           x > (n \div 100) * q * w
    PROVE  100 * x > (n - 99) * q * w
<1>1. PICK k \in Nat : k = q * w
  OBVIOUS
<1>2. PICK m \in Nat : m = n \div 100
  OBVIOUS
<1>3. n - 99 <= 100 * m
  BY <1>2
<1>4. x > m * k
  BY <1>1, <1>2
<1>5. (n - 99) * k <= (100 * m) * k
  <2>1. PICK d \in Nat : 100 * m = (n - 99) + d
    <3>1. PICK e \in Nat : e = (100 * m) - (n - 99)
      BY <1>3
    <3>2. 100 * m = (n - 99) + e
      BY <3>1
    <3> QED
      BY <3>2
  <2>2. ((n - 99) + d) * k = (n - 99) * k + d * k
    OBVIOUS
  <2>3. d * k \in Nat /\ (n - 99) * k \in Int
    OBVIOUS
  <2> QED
    BY <2>1, <2>2, <2>3
<1>6. PICK y \in Nat : y = m * k
  OBVIOUS
<1>7. (100 * m) * k = 100 * y
  BY <1>6
<1>8. 100 * x > 100 * y
  BY <1>4, <1>6
<1>9. (n - 99) * q * w = (n - 99) * k
  BY <1>1
<1> QED
  BY <1>5, <1>7, <1>8, <1>9

\* Who is told to have used up a subscription has used more than its amount
\* less 99 cents buys, in the period that Stripe answered: the integer
\* division of cents costs a user less than a dollar per subscription
\* (ExhaustedWithinADollar).
THEOREM ExhaustedFairly == Spec => []ExhaustedWithinADollar
<1>1. IInv /\ AInv => ExhaustedWithinADollar
  <2> SUFFICES ASSUME IInv, AInv PROVE ExhaustedWithinADollar
    OBVIOUS
  <2> SUFFICES ASSUME NEW h \in Handler, check[h].verdict = "exhausted"
               PROVE  100 * CountUnitsBetween(User(check[h]), check[h].got.start * 1000,
                                              check[h].got.end * 1000)
                         > (Plan[check[h].sub].amount - 99) * Plan[check[h].sub].quantity
                              * UnitsPerDollar
    BY DEF ExhaustedWithinADollar
  <2>c. PICK c \in CallType : c = check[h]
    BY DEF IInv
  <2>0. PICK x : x = CountUnitsBetween(User(c), c.got.start * 1000, c.got.end * 1000)
    OBVIOUS
  <2>1. c.verdict = "exhausted" /\ UsedUp(c) /\ Follows(h, c)
    BY <2>c DEF AInv, AnswersOK, AnswerFor
  <2>2. c.sub \in Subscription
    BY <2>1 DEF Follows, Refusals
  <2>3. PICK n, q, w : /\ n = Plan[c.sub].amount /\ q = Plan[c.sub].quantity
                       /\ w = UnitsPerDollar
    OBVIOUS
  <2>4. n \in Nat /\ q \in Nat /\ w \in Nat
    BY <2>1, <2>2, <2>3, PlanAssumption, NumbersAssumption DEF UsedUp
  <2>5. x \in Nat
    BY <2>0, CountType DEF IInv, AInv
  <2>6. x > Limit(Plan[c.sub])
    <3>1. CountUnitsBetween(User(c), c.got.start * 1000, c.got.end * 1000)
             > Limit(Plan[c.sub])
      BY <2>1, Zenon DEF UsedUp
    <3> QED
      BY <2>0, <3>1, Zenon
  <2>7. Limit(Plan[c.sub]) = (n \div 100) * q * w
    BY <2>3 DEF Limit
  <2>8. 100 * x > (n - 99) * q * w
    BY <2>4, <2>5, <2>6, <2>7, WithinADollar
  <2>9. /\ x = CountUnitsBetween(User(check[h]), check[h].got.start * 1000,
                                  check[h].got.end * 1000)
        /\ n = Plan[check[h].sub].amount /\ q = Plan[check[h].sub].quantity
    BY <2>c, <2>0, <2>3
  <2> QED
    BY <2>3, <2>8, <2>9
<1> QED
  BY <1>1, Invariance, Answers, PTL

\* No call of this service gives a user back what is used up: only Stripe and
\* the webhook's new subscription do (OnlyStripeEntitles).
THEOREM StripeEntitles == Spec => OnlyStripeEntitles
<1> DEFINE Kind(e) ==
             LET u == HashExternalID(e.user) IN
             (~Entitled(u) /\ stripe' = stripe
                /\ HasAccount(u) /\ user_account'[u].sub = user_account[u].sub)
             => ~Entitled(u)'
<1>1. ASSUME IInv, IInv', AInv, [Next]_vars, NEW u, ~Entitled(u), stripe' = stripe,
             HasAccount(u), user_account'[u].sub = user_account[u].sub
      PROVE  ~Entitled(u)'
  <2>1. Lasting
    BY <1>1, EveryStepLasts
  <2>2. ~(Credit(u) > 0) /\ ~(HasAccount(u) /\ Covers(user_account[u].sub, u))
    BY <1>1, Zenon DEF Entitled
  <2>3. ~(Credit(u)' > 0)
    <3>1. CASE u \in DOMAIN free_credit
      <4>1. free_credit[u] \in Int /\ free_credit[u] = Credit(u)
        BY <1>1, <3>1 DEF IInv, TablesTypeOK, Credit
      <4>2. free_credit[u] <= 0
        BY <2>2, <4>1
      <4>3. u \in DOMAIN free_credit' /\ free_credit'[u] <= 0
        BY <2>1, <3>1, <4>2 DEF Lasting, Kept
      <4>4. free_credit'[u] \in Int
        BY <1>1, <4>3 DEF IInv, TablesTypeOK
      <4>5. Credit(u)' = free_credit'[u]
        BY <4>3 DEF Credit
      <4> QED
        BY <4>3, <4>4, <4>5
    <3>2. CASE u \notin DOMAIN free_credit
      <4>1. Credit(u) = InitialCredit
        BY <3>2 DEF Credit
      <4>2. Credit(u)' = InitialCredit
        BY <2>1, <3>2 DEF Lasting, Credit, InitialCredit, Int32
      <4> QED
        BY <2>2, <4>1, <4>2, Zenon
    <3> QED
      BY <3>1, <3>2
  <2>4. PICK s : s = user_account[u].sub
    OBVIOUS
  <2>5. s \in Subscription \cup {Null} /\ user_account'[u].sub = s
    BY <1>1, <2>4 DEF HasAccount, IInv, TablesTypeOK, AccountRow
  <2>6. ~Covers(s, u)'
    <3>1. CASE s = Null
      BY <3>1 DEF Covers
    <3>2. CASE s # Null
      <4>1. PICK row : row = stripe[s]
        OBVIOUS
      <4>2. row \in StripeRow /\ now' \in Nat /\ s \in Subscription \ {Null}
        BY <1>1, <2>5, <3>2, <4>1 DEF IInv, WorldOK
      <4>3. ~RowCovers(row, s, u)
        BY <1>1, <2>2, <2>4, <4>1, <4>2, CoversRow
      <4>4. ~RowCovers(row, s, u)'
        BY <1>1, <2>1, <4>2, <4>3, CoversLast DEF IInv, AInv
      <4>5. Covers(s, u)' <=> RowCovers(row, s, u)'
        <5>1. stripe'[s] = row
          BY <1>1, <4>1
        <5> QED
          BY <4>2, <5>1 DEF Covers, RowCovers, PlanCovers, IsSubscriptionCancelled,
                            CountUnitsBetween, Amount, Limit
      <4> QED
        BY <4>4, <4>5
    <3> QED
      BY <3>1, <3>2
  <2>7. ~Covers(user_account[u].sub, u)'
    BY <2>5, <2>6 DEF Covers, IsSubscriptionCancelled, CountUnitsBetween, Amount
  <2> QED
    BY <2>3, <2>7, Zenon DEF Entitled
<1>2. IInv /\ IInv' /\ AInv /\ [Next]_vars =>
         [\A e \in Session :
             LET u == HashExternalID(e.user) IN
             (~Entitled(u) /\ stripe' = stripe
                /\ HasAccount(u) /\ user_account'[u].sub = user_account[u].sub)
             => ~Entitled(u)']_vars
  BY <1>1, Zenon
<1> QED
  BY <1>2, Invariance, Answers, PTL DEF Spec, OnlyStripeEntitles
=============================================================================
