--------------------------- MODULE Checkout_proofs ---------------------------
(***************************************************************************)
(* Proofs about Checkout, for any handlers, sessions, identifiers and      *)
(* bounds: what deliveries side by side, faults, redeliveries and the      *)
(* account fallback of other RPCs may never do, and what holds besides     *)
(* while deliveries come one at a time.                                    *)
(***************************************************************************)
EXTENDS Checkout, StripeDB_proofs

Subscribed(u) == u \in DOMAIN user_account /\ user_account[u].sub # Null

\* The subscription of e is on file, as an account's or as an invalid one.
Filed(e) ==
    \/ [user |-> HashExternalID(e.user), sub |-> e.sub] \in held
    \/ [user |-> HashExternalID(e.user), sub |-> e.sub, cust |-> e.cust]
          \in invalid_subscription

\* Row r, Stripe's answer about s, can mislead only if a cancellation was
\* withdrawn: what r says of an end is still so.
Stands(s, r) ==
    \/ s \in withdrawn
    \/ /\ r.status = "canceled" => stripe[s].status = "canceled"
       /\ r.cancel_at # 0 =>
             stripe[s].status = "canceled" \/ stripe[s].cancel_at = r.cancel_at

\* The end of s is certain, or its cancellation was withdrawn.
Over(s) == Ended(s) \/ s \in withdrawn

\* How far a delivery has come, and what it may rely on.
DeliveryOK(d) ==
    /\ d.pc # "idle" => d.session \in completed
    /\ d.pc \in {"gateway", "decide"} => d.prev # Null
    /\ d.pc = "decide" => d.got \in StripeRow /\ Stands(d.prev, d.got)
    /\ d.pc = "upsert" => d.prev = Null \/ Over(d.prev)
    /\ d.pc \in {"gateway", "decide", "invalid"} => Subscribed(User(d))
    /\ d.pc \in {"credit", "reply"} =>
          User(d) \in DOMAIN user_account /\ Filed(d.session)
    /\ d.pc = "reply" => User(d) \in DOMAIN free_credit

HookInv == \A h \in Handler : DeliveryOK(hook[h])

AckedInv ==
    \A e \in acked : Filed(e) /\ HashExternalID(e.user) \in DOMAIN free_credit

IInv == TypeOK /\ AccountOfOneSession /\ HookInv /\ AckedInv

\* What no step takes back.
Grow ==
    /\ completed \subseteq completed'
    /\ \A u \in DOMAIN user_account :
          /\ u \in DOMAIN user_account'
          /\ user_account[u].sub # Null => user_account'[u].sub # Null
    /\ DOMAIN free_credit \subseteq DOMAIN free_credit'
    /\ held \subseteq held'
    /\ invalid_subscription \subseteq invalid_subscription'
    /\ \A s \in Subscription : Ended(s) => Ended(s)'
    /\ withdrawn \subseteq withdrawn'
    /\ \A g \in Handler, s \in Subscription, r \in StripeRow :
          hook[g].pc = "decide" /\ hook[g].prev = s /\ hook[g].got = r /\ Stands(s, r)
              => Stands(s, r)'

-----------------------------------------------------------------------------
(***************************************************************************)
(* Deliveries.                                                             *)
(***************************************************************************)

\* A delivery under way has a user, a customer and a subscription.
LEMMA UnderWay ==
    ASSUME TypeOK, NEW h \in Handler, hook[h].pc # "idle"
    PROVE  /\ hook[h] \in Delivery
           /\ hook[h].session \in Session
           /\ hook[h].session.sub \in Subscription /\ hook[h].session.sub # Null
           /\ hook[h].session.cust \in Customer /\ hook[h].session.cust # Null
           /\ User(hook[h]) \in Digest
<1>1. hook[h] \in Delivery
  BY DEF TypeOK, Idle
<1>2. hook[h].session \in Session /\ WellFormed(hook[h].session)
  BY <1>1 DEF Delivery
<1>3. /\ hook[h].session.user \in RawId
      /\ hook[h].session.sub \in Subscription \cup {Null}
      /\ hook[h].session.cust \in Customer \cup {Null}
  BY <1>2, SessionAssumption
<1> QED
  BY <1>1, <1>2, <1>3, HashType DEF WellFormed, User

\* A delivery that does nothing keeps what it relies on.
LEMMA OthersKeep ==
    ASSUME TypeOK, HookInv, Grow, NEW g \in Handler, hook'[g] = hook[g]
    PROVE  DeliveryOK(hook[g])'
<1> DEFINE d == hook[g]
<1>1. DeliveryOK(d) /\ d \in Delivery \cup {Idle}
  BY DEF HookInv, TypeOK
<1>2. d.prev \in Subscription \cup {Null} /\ hook'[g] = d
  BY <1>1 DEF Delivery, Idle
<1>3. d.pc = "upsert" => d.prev = Null \/ Over(d.prev)'
  <2>1. ASSUME d.pc = "upsert", d.prev # Null PROVE Over(d.prev)'
    <3>1. d.prev \in Subscription /\ Over(d.prev)
      BY <1>1, <1>2, <2>1 DEF DeliveryOK
    <3>2. \A s \in Subscription : Over(s) => Over(s)'
      BY DEF Grow, Over
    <3> QED
      BY <1>2, <3>1, <3>2 DEF Over, Ended
  <2> QED
    BY <2>1 DEF Over, Ended
<1>4. /\ d.pc # "idle" => d.session \in completed'
      /\ d.pc \in {"gateway", "decide"} => d.prev # Null
      /\ d.pc \in {"gateway", "decide", "invalid"} =>
            /\ User(d) \in DOMAIN user_account'
            /\ user_account'[User(d)].sub # Null
      /\ d.pc \in {"credit", "reply"} => User(d) \in DOMAIN user_account'
      /\ d.pc = "reply" => User(d) \in DOMAIN free_credit'
  BY <1>1 DEF DeliveryOK, Subscribed, Grow
<1>5. d.pc \in {"credit", "reply"} => Filed(d.session)'
  BY <1>1, <1>2 DEF DeliveryOK, Grow, Filed, HashExternalID
<1>6. d.pc = "decide" => d.got \in StripeRow /\ Stands(d.prev, d.got)'
  <2> SUFFICES ASSUME d.pc = "decide" PROVE d.got \in StripeRow /\ Stands(d.prev, d.got)'
    BY <1>2
  <2>1. d.prev \in Subscription /\ d.got \in StripeRow /\ Stands(d.prev, d.got)
    BY <1>1, <1>2 DEF DeliveryOK
  <2>2. PICK s \in Subscription, r \in StripeRow : s = d.prev /\ r = d.got
    BY <2>1
  <2>3. Stands(s, r)'
    BY <2>1, <2>2 DEF Grow
  <2> QED
    BY <1>2, <2>1, <2>2, <2>3 DEF Stands
<1> QED
  BY <1>2, <1>3, <1>4, <1>5, <1>6
  DEF DeliveryOK, Subscribed, User, HashExternalID, Over, Ended, Filed, Stands

\* An idle handler relies on nothing.
LEMMA IdleOK == DeliveryOK(Idle) /\ DeliveryOK(Idle)'
BY DEF DeliveryOK, Idle

\* A handler goes on as d, or its delivery is over.
LEMMA ResumeFacts ==
    ASSUME TypeOK, NEW h \in Handler, NEW d \in Delivery, Resume(h, d)
    PROVE  /\ hook' \in [Handler -> Delivery \cup {Idle}]
           /\ hook'[h] \in {d, Idle}
           /\ \A g \in Handler \ {h} : hook'[g] = hook[g]
           /\ faults' \in 0 .. MaxFaults
<1>1. /\ hook \in [Handler -> Delivery \cup {Idle}] /\ faults \in 0 .. MaxFaults
      /\ MaxFaults \in Nat
  BY BoundsAssumption DEF TypeOK
<1>2. CASE hook' = [hook EXCEPT ![h] = d] /\ UNCHANGED faults
  BY <1>1, <1>2
<1>3. CASE faults < MaxFaults /\ hook' = [hook EXCEPT ![h] = Idle] /\ faults' = faults + 1
  BY <1>1, <1>3
<1> QED
  BY <1>2, <1>3 DEF Resume

\* The invariant after a step that concerns the delivery of h alone.
LEMMA DeliveryStep ==
    ASSUME IInv, TypeOK', Grow, NEW h \in Handler, DeliveryOK(hook[h])',
           \A g \in Handler \ {h} : hook'[g] = hook[g],
           AccountOfOneSession', AckedInv'
    PROVE  IInv' /\ Grow
<1>1. ASSUME NEW g \in Handler PROVE DeliveryOK(hook[g])'
  <2>1. CASE g = h
    BY <2>1
  <2>2. CASE g # h
    BY <2>2, OthersKeep DEF IInv
  <2> QED
    BY <2>1, <2>2
<1>2. HookInv'
  BY <1>1 DEF HookInv
<1> QED
  BY <1>2 DEF IInv

\* The invariant after a step that concerns no delivery.
LEMMA QuietStep ==
    ASSUME IInv, TypeOK', Grow, hook' = hook, acked' = acked, AccountOfOneSession'
    PROVE  IInv' /\ Grow
<1>1. ASSUME NEW g \in Handler PROVE DeliveryOK(hook[g])'
  BY OthersKeep DEF IInv
<1>2. HookInv'
  BY <1>1 DEF HookInv
<1>3. AckedInv'
  BY DEF IInv, AckedInv, Filed, Grow, HashExternalID
<1> QED
  BY <1>2, <1>3 DEF IInv

\* Accounts and acknowledgements that a step leaves alone.
LEMMA AccountsKept ==
    ASSUME IInv, completed \subseteq completed', user_account' = user_account
    PROVE  AccountOfOneSession'
BY DEF IInv, AccountOfOneSession, HashExternalID

LEMMA AckedKept == ASSUME IInv, Grow, acked' = acked PROVE AckedInv'
BY DEF IInv, AckedInv, Filed, Grow, HashExternalID

\* A step that leaves the accounts and Stripe alone takes nothing back.
LEMMA GrowOf ==
    ASSUME UNCHANGED <<user_account, stripe, now, withdrawn>>,
           completed \subseteq completed',
           DOMAIN free_credit \subseteq DOMAIN free_credit',
           held \subseteq held', invalid_subscription \subseteq invalid_subscription'
    PROVE  Grow
BY DEF Grow, Ended, Stands

-----------------------------------------------------------------------------
(***************************************************************************)
(* The steps of a delivery.                                                *)
(***************************************************************************)

LEMMA DeliverStep ==
    ASSUME IInv, NEW h \in Handler, NEW e \in Session, Deliver(h, e) PROVE IInv' /\ Grow
<1> DEFINE d == IF WellFormed(e) THEN Begin(e) ELSE Idle
<1>1. /\ d \in Delivery \cup {Idle} /\ hook' = [hook EXCEPT ![h] = d]
      /\ d = Idle \/ (d.pc = "check" /\ d.session = e)
  BY DEF Deliver, Delivery, Begin, Idle
<1> HIDE DEF d
<1>2. /\ hook' \in [Handler -> Delivery \cup {Idle}] /\ hook'[h] = d
      /\ \A g \in Handler \ {h} : hook'[g] = hook[g]
  BY <1>1 DEF IInv, TypeOK
<1>3. repeats' \in 0 .. MaxRepeats
  BY BoundsAssumption DEF Deliver, IInv, TypeOK
<1>4. UNCHANGED <<tables, world, first_use, acked, held, faults>> /\ e \in completed
  BY DEF Deliver
<1>5. TypeOK'
  BY <1>2, <1>3, <1>4 DEF IInv, TypeOK, TablesTypeOK, tables, world
<1>6. Grow
  BY <1>4, GrowOf DEF tables, world
<1>7. DeliveryOK(hook[h])'
  BY <1>1, <1>2, <1>4 DEF DeliveryOK, Idle, world
<1> QED
  BY <1>2, <1>4, <1>5, <1>6, <1>7, DeliveryStep, AccountsKept, AckedKept DEF tables, world

LEMMA CheckAccountStep ==
    ASSUME IInv, NEW h \in Handler, CheckAccount(h) PROVE IInv' /\ Grow
<1> DEFINE d == hook[h]
           prev == IF HasAccount(User(d)) THEN user_account[User(d)].sub ELSE Null
           c == [d EXCEPT !.prev = prev, !.pc = IF prev = Null THEN "upsert" ELSE "gateway"]
<1>1. d \in Delivery /\ User(d) \in Digest /\ d.session \in completed
  BY UnderWay DEF CheckAccount, IInv, HookInv, DeliveryOK
<1>2. prev \in Subscription \cup {Null}
  BY DEF HasAccount, IInv, TypeOK, TablesTypeOK, AccountRow
<1>3. prev # Null => Subscribed(User(d))
  BY DEF HasAccount, Subscribed
<1>4. hook' = [hook EXCEPT ![h] = c]
  BY <1>1 DEF CheckAccount, IInv, TypeOK, Delivery
<1> HIDE DEF prev
<1>5. /\ c \in Delivery /\ c.session = d.session /\ c.prev = prev
      /\ c.pc = IF prev = Null THEN "upsert" ELSE "gateway"
  BY <1>1, <1>2 DEF Delivery
<1> HIDE DEF c
<1>6. /\ hook' \in [Handler -> Delivery \cup {Idle}] /\ hook'[h] = c
      /\ \A g \in Handler \ {h} : hook'[g] = hook[g]
  BY <1>4, <1>5 DEF IInv, TypeOK
<1>7. UNCHANGED <<tables, world, first_use, acked, held, repeats, faults>>
  BY DEF CheckAccount
<1>8. TypeOK'
  BY <1>6, <1>7 DEF IInv, TypeOK, TablesTypeOK, tables, world
<1>9. Grow
  BY <1>7, GrowOf DEF tables, world
<1>10. DeliveryOK(hook[h])'
  BY <1>1, <1>3, <1>5, <1>6, <1>7
  DEF DeliveryOK, Subscribed, User, HashExternalID, tables, world
<1> QED
  BY <1>6, <1>7, <1>8, <1>9, <1>10, DeliveryStep, AccountsKept, AckedKept
  DEF tables, world

LEMMA GetSubscriptionStep ==
    ASSUME IInv, NEW h \in Handler, GetSubscription(h) PROVE IInv' /\ Grow
<1> DEFINE d == hook[h]
           got == stripe[d.prev]
           c == [d EXCEPT !.got = got, !.pc = "decide"]
<1>1. /\ d \in Delivery /\ d.session \in completed /\ d.prev \in Subscription \ {Null}
      /\ Subscribed(User(d))
  <2>1. d \in Delivery /\ DeliveryOK(d) /\ d.pc = "gateway"
    BY UnderWay DEF GetSubscription, IInv, HookInv
  <2> QED
    BY <2>1 DEF DeliveryOK, Delivery
<1>2. got \in StripeRow /\ Stands(d.prev, got)
  BY <1>1 DEF Stands, IInv, TypeOK
<1>3. hook' = [hook EXCEPT ![h] = c]
  BY <1>1 DEF GetSubscription, IInv, TypeOK, Delivery
<1> HIDE DEF got
<1>5. /\ c \in Delivery /\ c.session = d.session /\ c.prev = d.prev
      /\ c.got = got /\ c.pc = "decide"
  BY <1>1, <1>2 DEF Delivery
<1> HIDE DEF c
<1>6. /\ hook' \in [Handler -> Delivery \cup {Idle}] /\ hook'[h] = c
      /\ \A g \in Handler \ {h} : hook'[g] = hook[g]
  BY <1>3, <1>5 DEF IInv, TypeOK
<1>7. UNCHANGED <<tables, world, first_use, acked, held, repeats, faults>>
  BY DEF GetSubscription
<1>8. TypeOK'
  BY <1>6, <1>7 DEF IInv, TypeOK, TablesTypeOK, tables, world
<1>9. Grow
  BY <1>7, GrowOf DEF tables, world
<1>10. DeliveryOK(hook[h])'
  BY <1>1, <1>2, <1>5, <1>6, <1>7
  DEF DeliveryOK, Subscribed, User, HashExternalID, Stands, tables, world
<1> QED
  BY <1>6, <1>7, <1>8, <1>9, <1>10, DeliveryStep, AccountsKept, AckedKept
  DEF tables, world

\* What Stripe answered is judged by the clock of this step.
LEMMA DecideStep ==
    ASSUME IInv, NEW h \in Handler, Decide(h) PROVE IInv' /\ Grow
<1> DEFINE d == hook[h]
           pc == IF IsSubscriptionCancelled(d.got) THEN "upsert" ELSE "invalid"
           c == [d EXCEPT !.got = NotFetched, !.pc = pc]
<1>1. /\ d \in Delivery /\ d.session \in completed /\ d.prev # Null
      /\ Subscribed(User(d)) /\ Stands(d.prev, d.got)
  BY UnderWay DEF Decide, IInv, HookInv, DeliveryOK
<1>2. pc = "upsert" => Over(d.prev)
  BY <1>1 DEF IsSubscriptionCancelled, Stands, Over, Ended
<1>3. hook' = [hook EXCEPT ![h] = c]
  BY <1>1 DEF Decide, IInv, TypeOK, Delivery
<1>4. pc \in {"upsert", "invalid"}
  OBVIOUS
<1> HIDE DEF pc
<1>5. c \in Delivery /\ c.session = d.session /\ c.prev = d.prev /\ c.pc = pc
  BY <1>1, <1>4 DEF Delivery
<1> HIDE DEF c
<1>6. /\ hook' \in [Handler -> Delivery \cup {Idle}] /\ hook'[h] = c
      /\ \A g \in Handler \ {h} : hook'[g] = hook[g]
  BY <1>3, <1>5 DEF IInv, TypeOK
<1>7. UNCHANGED <<tables, world, first_use, acked, held, repeats, faults>>
  BY DEF Decide
<1>8. TypeOK'
  BY <1>6, <1>7 DEF IInv, TypeOK, TablesTypeOK, tables, world
<1>9. Grow
  BY <1>7, GrowOf DEF tables, world
<1>10. DeliveryOK(hook[h])'
  BY <1>1, <1>2, <1>4, <1>5, <1>6, <1>7
  DEF DeliveryOK, Subscribed, User, HashExternalID, Over, Ended, tables, world
<1> QED
  BY <1>6, <1>7, <1>8, <1>9, <1>10, DeliveryStep, AccountsKept, AckedKept
  DEF tables, world

\* The new subscription becomes the account's, with its customer.
LEMMA UpsertStep == ASSUME IInv, NEW h \in Handler, Upsert(h) PROVE IInv' /\ Grow
<1> DEFINE d == hook[h]
           e == d.session
           c == [d EXCEPT !.pc = "credit"]
<1>1. /\ d \in Delivery /\ e \in Session /\ e \in completed
      /\ e.sub \in Subscription /\ e.sub # Null /\ e.cust \in Customer /\ e.cust # Null
      /\ User(d) \in Digest
  BY UnderWay DEF Upsert, IInv, HookInv, DeliveryOK
<1>2. /\ UpsertUserAccount(User(d), e.sub, e.cust)
      /\ held' = held \cup {[user |-> User(d), sub |-> e.sub]}
      /\ Resume(h, c)
      /\ UNCHANGED <<free_credit, spending_unit, invalid_subscription, world,
                     first_use, acked, repeats>>
  BY DEF Upsert
<1>3. /\ TablesTypeOK'
      /\ DOMAIN user_account' = DOMAIN user_account \cup {User(d)}
      /\ \A v \in DOMAIN user_account : v # User(d) => user_account'[v] = user_account[v]
      /\ user_account'[User(d)] = [sub |-> e.sub, cust |-> e.cust]
  <2> DEFINE u == User(d)
             sub == e.sub
             cust == e.cust
  <2>1. /\ TablesTypeOK /\ u \in Digest
        /\ sub \in Subscription \cup {Null} /\ cust \in Customer \cup {Null}
        /\ sub # Null /\ cust # Null
        /\ UpsertUserAccount(u, sub, cust)
        /\ UNCHANGED <<free_credit, spending_unit, invalid_subscription>>
    BY <1>1, <1>2 DEF IInv, TypeOK
  <2> HIDE DEF u, sub, cust
  <2>2. /\ TablesTypeOK'
        /\ DOMAIN user_account' = DOMAIN user_account \cup {u}
        /\ \A v \in DOMAIN user_account : v # u => user_account'[v] = user_account[v]
        /\ user_account'[u] = [sub |-> sub, cust |-> cust]
    BY <2>1, UpsertType
  <2> QED
    BY <2>2 DEF u, sub, cust
<1>4. c \in Delivery /\ c.session = e /\ c.pc = "credit"
  BY <1>1 DEF Delivery
<1> HIDE DEF c
<1>5. /\ hook' \in [Handler -> Delivery \cup {Idle}] /\ hook'[h] \in {c, Idle}
      /\ \A g \in Handler \ {h} : hook'[g] = hook[g]
      /\ faults' \in 0 .. MaxFaults
  BY <1>2, <1>4, ResumeFacts DEF IInv
<1>6. TypeOK'
  <2>1. held' \subseteq [user : Digest, sub : Subscription]
    BY <1>1, <1>2 DEF IInv, TypeOK
  <2> QED
    BY <1>2, <1>3, <1>5, <2>1 DEF IInv, TypeOK, world
<1>7. Grow
  BY <1>1, <1>2, <1>3 DEF Grow, Ended, Stands, world
<1>8. DeliveryOK(hook[h])'
  <2>1. CASE hook'[h] = c
    BY <1>1, <1>2, <1>3, <1>4, <2>1
    DEF DeliveryOK, Filed, User, HashExternalID, world
  <2>2. CASE hook'[h] = Idle
    BY <2>2 DEF DeliveryOK, Idle
  <2> QED
    BY <1>5, <2>1, <2>2
<1>9. AccountOfOneSession'
  <2> SUFFICES ASSUME NEW u \in DOMAIN user_account', user_account'[u].sub # Null
               PROVE  \E x \in completed' :
                         /\ HashExternalID(x.user) = u
                         /\ user_account'[u] = [sub |-> x.sub, cust |-> x.cust]
    BY DEF AccountOfOneSession, HashExternalID
  <2>1. CASE u = User(d)
    BY <1>1, <1>2, <1>3, <2>1 DEF User, world
  <2>2. CASE u # User(d)
    BY <1>2, <1>3, <2>2 DEF IInv, AccountOfOneSession, world
  <2> QED
    BY <2>1, <2>2
<1> QED
  BY <1>2, <1>5, <1>6, <1>7, <1>8, <1>9, DeliveryStep, AckedKept

\* The new subscription is filed beside the account.
LEMMA InsertInvalidStep ==
    ASSUME IInv, NEW h \in Handler, InsertInvalid(h) PROVE IInv' /\ Grow
<1> DEFINE d == hook[h]
           e == d.session
           c == [d EXCEPT !.pc = "credit"]
<1>1. /\ d \in Delivery /\ e \in Session /\ e \in completed
      /\ e.sub \in Subscription /\ e.cust \in Customer
      /\ User(d) \in Digest /\ User(d) \in DOMAIN user_account
  BY UnderWay DEF InsertInvalid, IInv, HookInv, DeliveryOK, Subscribed
<1>2. /\ InsertInvalidSubscription(User(d), e.sub, e.cust)
      /\ Resume(h, c)
      /\ UNCHANGED <<user_account, free_credit, spending_unit, world,
                     first_use, acked, held, repeats>>
  BY DEF InsertInvalid
<1>3. /\ TablesTypeOK'
      /\ invalid_subscription \subseteq invalid_subscription'
      /\ [user |-> User(d), sub |-> e.sub, cust |-> e.cust] \in invalid_subscription'
  BY <1>1, <1>2, InvalidType DEF IInv, TypeOK, HasAccount
<1>4. c \in Delivery /\ c.session = e /\ c.pc = "credit"
  BY <1>1 DEF Delivery
<1> HIDE DEF c
<1>5. /\ hook' \in [Handler -> Delivery \cup {Idle}] /\ hook'[h] \in {c, Idle}
      /\ \A g \in Handler \ {h} : hook'[g] = hook[g]
      /\ faults' \in 0 .. MaxFaults
  BY <1>2, <1>4, ResumeFacts DEF IInv
<1>6. TypeOK'
  BY <1>2, <1>3, <1>5 DEF IInv, TypeOK, world
<1>7. Grow
  BY <1>2, <1>3, GrowOf DEF world
<1>8. DeliveryOK(hook[h])'
  <2>1. CASE hook'[h] = c
    BY <1>1, <1>2, <1>3, <1>4, <2>1
    DEF DeliveryOK, Filed, User, HashExternalID, world
  <2>2. CASE hook'[h] = Idle
    BY <2>2 DEF DeliveryOK, Idle
  <2> QED
    BY <1>5, <2>1, <2>2
<1> QED
  BY <1>2, <1>5, <1>6, <1>7, <1>8, DeliveryStep, AccountsKept, AckedKept DEF world

\* The user has a free-credit row before the event is acknowledged.
LEMMA InitCreditStep ==
    ASSUME IInv, NEW h \in Handler, InitCredit(h) PROVE IInv' /\ Grow
<1> DEFINE d == hook[h]
           e == d.session
           c == [d EXCEPT !.pc = "reply"]
<1>1. /\ d \in Delivery /\ e \in completed /\ Filed(e)
      /\ User(d) \in Digest /\ User(d) \in DOMAIN user_account
  BY UnderWay DEF InitCredit, IInv, HookInv, DeliveryOK
<1>2. /\ UpsertAndGetFreeCredit(User(d))
      /\ Resume(h, c)
      /\ UNCHANGED <<user_account, spending_unit, invalid_subscription, world,
                     first_use, acked, held, repeats>>
  BY DEF InitCredit
<1>3. /\ TablesTypeOK'
      /\ DOMAIN free_credit' = DOMAIN free_credit \cup {User(d)}
  BY <1>1, <1>2, CreditType DEF IInv, TypeOK, HasAccount
<1>4. c \in Delivery /\ c.session = e /\ c.pc = "reply"
  BY <1>1 DEF Delivery
<1> HIDE DEF c
<1>5. /\ hook' \in [Handler -> Delivery \cup {Idle}] /\ hook'[h] \in {c, Idle}
      /\ \A g \in Handler \ {h} : hook'[g] = hook[g]
      /\ faults' \in 0 .. MaxFaults
  BY <1>2, <1>4, ResumeFacts DEF IInv
<1>6. TypeOK'
  BY <1>2, <1>3, <1>5 DEF IInv, TypeOK, world
<1>7. Grow
  BY <1>2, <1>3, GrowOf DEF world
<1>8. DeliveryOK(hook[h])'
  <2>1. CASE hook'[h] = c
    BY <1>1, <1>2, <1>3, <1>4, <2>1
    DEF DeliveryOK, Filed, User, HashExternalID, world
  <2>2. CASE hook'[h] = Idle
    BY <2>2 DEF DeliveryOK, Idle
  <2> QED
    BY <1>5, <2>1, <2>2
<1> QED
  BY <1>2, <1>5, <1>6, <1>7, <1>8, DeliveryStep, AccountsKept, AckedKept DEF world

LEMMA ReplyStep == ASSUME IInv, NEW h \in Handler, Reply(h) PROVE IInv' /\ Grow
<1> DEFINE e == hook[h].session
<1>1. /\ hook[h].pc = "reply" /\ e \in completed /\ Filed(e)
      /\ HashExternalID(e.user) \in DOMAIN free_credit
  BY UnderWay DEF Reply, IInv, HookInv, DeliveryOK, User
<1>2. /\ acked' = acked \cup {e} /\ hook' = [hook EXCEPT ![h] = Idle]
      /\ UNCHANGED <<tables, world, first_use, held, repeats, faults>>
  BY DEF Reply
<1>3. /\ hook' \in [Handler -> Delivery \cup {Idle}] /\ hook'[h] = Idle
      /\ \A g \in Handler \ {h} : hook'[g] = hook[g]
  BY <1>2 DEF IInv, TypeOK
<1>4. TypeOK'
  BY <1>1, <1>2, <1>3 DEF IInv, TypeOK, TablesTypeOK, tables, world
<1>5. Grow
  BY <1>2, GrowOf DEF tables, world
<1>6. DeliveryOK(hook[h])'
  BY <1>3 DEF DeliveryOK, Idle
<1>7. AckedInv'
  <2>1. \A x \in acked' : Filed(x) /\ HashExternalID(x.user) \in DOMAIN free_credit
    BY <1>1, <1>2 DEF IInv, AckedInv
  <2> QED
    BY <1>2, <2>1 DEF AckedInv, Filed, HashExternalID, tables
<1> QED
  BY <1>2, <1>3, <1>4, <1>5, <1>6, <1>7, DeliveryStep, AccountsKept DEF tables, world

LEMMA AbortStep == ASSUME IInv, NEW h \in Handler, Abort(h) PROVE IInv' /\ Grow
<1>1. /\ faults < MaxFaults /\ faults' = faults + 1
      /\ hook' = [hook EXCEPT ![h] = Idle]
      /\ UNCHANGED <<tables, world, first_use, acked, held, repeats>>
  BY DEF Abort
<1>2. /\ hook' \in [Handler -> Delivery \cup {Idle}] /\ hook'[h] = Idle
      /\ \A g \in Handler \ {h} : hook'[g] = hook[g]
  BY <1>1 DEF IInv, TypeOK
<1>3. faults' \in 0 .. MaxFaults
  BY <1>1, BoundsAssumption DEF IInv, TypeOK
<1>4. TypeOK'
  BY <1>1, <1>2, <1>3 DEF IInv, TypeOK, TablesTypeOK, tables, world
<1>5. Grow
  BY <1>1, GrowOf DEF tables, world
<1>6. DeliveryOK(hook[h])'
  BY <1>2 DEF DeliveryOK, Idle
<1> QED
  BY <1>1, <1>2, <1>4, <1>5, <1>6, DeliveryStep, AccountsKept, AckedKept DEF tables, world

-----------------------------------------------------------------------------
(***************************************************************************)
(* The steps of others, and the invariant.                                 *)
(***************************************************************************)

\* The account fallback of another RPC opens a credit or a bare account,
\* and leaves every account that is there as it is.
LEMMA OtherRPCStep == ASSUME IInv, OtherRPC PROVE IInv' /\ Grow
<1>1. PICK u \in DOMAIN first_use : UseCredit(u) \/ UseAccount(u) \/ UseRetry(u)
  BY DEF OtherRPC
<1>2. u \in Digest
  <2>1. DOMAIN first_use = {HashExternalID(e.user) : e \in Session}
    BY DEF IInv, TypeOK
  <2>2. \A e \in Session : e.user \in RawId
    BY SessionAssumption
  <2> QED
    BY <1>1, <2>1, <2>2, HashType
<1>3. UNCHANGED rest
  BY <1>1 DEF UseCredit, UseAccount, UseRetry
<1>4. first_use' \in [{HashExternalID(e.user) : e \in Session}
                         -> {"idle", "account", "recredit"}]
  BY <1>1 DEF UseCredit, UseAccount, UseRetry, IInv, TypeOK
<1>5. CASE UseAccount(u)
  <2>1. /\ UpsertUserAccount(u, Null, Null)
        /\ UNCHANGED <<free_credit, spending_unit, invalid_subscription>>
    BY <1>3, <1>5 DEF UseAccount, rest
  <2>2. /\ TablesTypeOK'
        /\ DOMAIN user_account' = DOMAIN user_account \cup {u}
        /\ \A v \in DOMAIN user_account : user_account'[v] = user_account[v]
        /\ u \notin DOMAIN user_account => user_account'[u].sub = Null
    <3>1. Null \in Subscription \cup {Null} /\ Null \in Customer \cup {Null}
      OBVIOUS
    <3> QED
      BY <1>2, <2>1, <3>1, UpsertType DEF IInv, TypeOK, HasAccount
  <2>3. TypeOK'
    BY <1>3, <1>4, <2>2 DEF IInv, TypeOK, rest, world
  <2>4. Grow
    BY <1>3, <2>1, <2>2 DEF Grow, Ended, Stands, rest, world
  <2>5. AccountOfOneSession'
    BY <1>3, <2>2 DEF IInv, AccountOfOneSession, HashExternalID, rest, world
  <2> QED
    BY <1>3, <2>3, <2>4, <2>5, QuietStep DEF rest
<1>6. CASE UseCredit(u) \/ UseRetry(u)
  <2>1. /\ UpsertAndGetFreeCredit(u)
        /\ UNCHANGED <<user_account, spending_unit, invalid_subscription>>
    BY <1>3, <1>6 DEF UseCredit, UseRetry, rest
  <2>2. TablesTypeOK' /\ DOMAIN free_credit \subseteq DOMAIN free_credit'
    BY <1>2, <2>1, CreditType DEF IInv, TypeOK
  <2>3. TypeOK'
    BY <1>3, <1>4, <2>2 DEF IInv, TypeOK, rest, world
  <2>4. Grow
    BY <1>3, <2>1, <2>2, GrowOf DEF rest, world
  <2>5. AccountOfOneSession'
    BY <1>3, <2>1, AccountsKept DEF rest, world
  <2> QED
    BY <1>3, <2>3, <2>4, <2>5, QuietStep DEF rest
<1> QED
  BY <1>1, <1>5, <1>6

\* At Stripe sessions are completed, what has ended stays ended, and what an
\* answer says of an end stands, or a cancellation is withdrawn.
LEMMA StripeStep == ASSUME IInv, Stripe PROVE IInv' /\ Grow
<1>1. UNCHANGED <<tables, hook, first_use, acked, held, repeats, faults>>
  BY DEF Stripe, Complete, CancelSubscription, ScheduleCancel, WithdrawCancel, Tick
<1>2. completed \subseteq completed' /\ completed' \subseteq Session
  BY DEF Stripe, Complete, CancelSubscription, ScheduleCancel, WithdrawCancel, Tick,
         IInv, TypeOK
<1> DEFINE Goal ==
      /\ now' \in 1 .. MaxNow
      /\ stripe' \in [Subscription -> StripeRow]
      /\ withdrawn \subseteq withdrawn' /\ withdrawn' \subseteq Subscription
      /\ \A s \in Subscription : Ended(s) => Ended(s)'
      /\ \A g \in Handler, s \in Subscription, r \in StripeRow :
            hook[g].pc = "decide" /\ hook[g].prev = s /\ hook[g].got = r /\ Stands(s, r)
                => Stands(s, r)'
<1>3. Goal
  <2>1. /\ now \in 1 .. MaxNow /\ MaxNow \in Nat
        /\ stripe \in [Subscription -> StripeRow] /\ withdrawn \subseteq Subscription
    BY BoundsAssumption DEF IInv, TypeOK
  <2>2. CASE UNCHANGED <<now, stripe, withdrawn>>
    BY <2>1, <2>2 DEF Ended, Stands
  <2>3. ASSUME NEW x \in Subscription, CancelSubscription(x) PROVE Goal
    BY <2>1, <2>3 DEF CancelSubscription, Ended, Stands, StripeRow
  <2>4. ASSUME NEW x \in Subscription, ScheduleCancel(x) PROVE Goal
    BY <2>1, <2>4 DEF ScheduleCancel, Ended, Stands, StripeRow
  <2>5. ASSUME NEW x \in Subscription, WithdrawCancel(x) PROVE Goal
    <3>1. /\ stripe[x] = [status |-> "active", cancel_at |-> now]
          /\ stripe' = [stripe EXCEPT ![x].cancel_at = 0]
          /\ withdrawn' = IF Fetched(x) THEN withdrawn \cup {x} ELSE withdrawn
          /\ now' = now
      BY <2>5 DEF WithdrawCancel
    <3>2. /\ stripe' \in [Subscription -> StripeRow]
          /\ \A s \in Subscription \ {x} : stripe'[s] = stripe[s]
      BY <2>1, <3>1 DEF StripeRow
    <3>3. ~Ended(x)
      BY <2>1, <3>1 DEF Ended
    <3>4. \A s \in Subscription : Ended(s) => Ended(s)'
      BY <3>1, <3>2, <3>3 DEF Ended
    <3>5. ASSUME NEW g \in Handler, NEW s \in Subscription, NEW r \in StripeRow,
                 hook[g].pc = "decide", hook[g].prev = s, hook[g].got = r, Stands(s, r)
          PROVE  Stands(s, r)'
      <4>1. CASE s # x \/ s \in withdrawn
        BY <3>1, <3>2, <3>5, <4>1 DEF Stands
      <4>2. CASE s = x /\ s \notin withdrawn
        <5>1. r.status # "canceled" /\ (r.cancel_at # 0 => r.cancel_at = now)
          BY <3>1, <3>5, <4>2 DEF Stands
        <5>2. CASE r.cancel_at = 0
          BY <5>1, <5>2 DEF Stands
        <5>3. CASE r.cancel_at = now
          <6>1. r.status = "active"
            BY <5>1 DEF StripeRow
          <6>2. r = stripe[s]
            BY <3>1, <4>2, <5>3, <6>1 DEF StripeRow
          <6>3. Fetched(x)
            BY <3>5, <4>2, <6>2 DEF Fetched
          <6> QED
            BY <3>1, <4>2, <6>3 DEF Stands
        <5> QED
          BY <5>1, <5>2, <5>3
      <4> QED
        BY <4>1, <4>2
    <3> QED
      BY <2>1, <3>1, <3>2, <3>4, <3>5
  <2>6. CASE Tick
    <3>1. /\ UNCHANGED <<stripe, withdrawn>> /\ now' \in 1 .. MaxNow
          /\ \A n \in Nat : now > n => now' > n
      BY <2>1, <2>6 DEF Tick
    <3>2. \A s \in Subscription : Ended(s) => Ended(s)'
      BY <2>1, <3>1 DEF Ended, StripeRow
    <3> QED
      BY <2>1, <3>1, <3>2 DEF Stands
  <2> QED
    BY <2>2, <2>3, <2>4, <2>5, <2>6 DEF Stripe, Complete
<1>4. TypeOK'
  BY <1>1, <1>2, <1>3 DEF IInv, TypeOK, TablesTypeOK, tables
<1>5. Grow
  BY <1>1, <1>2, <1>3 DEF Grow, tables
<1>6. AccountOfOneSession'
  BY <1>1, <1>2, AccountsKept DEF tables
<1> QED
  BY <1>1, <1>4, <1>5, <1>6, QuietStep

LEMMA InvInit == Init => IInv
<1> SUFFICES ASSUME Init PROVE IInv
  OBVIOUS
<1>1. TablesTypeOK
  BY DEF Init, TablesInit, EmptyTable, TablesTypeOK
<1>2. /\ hook \in [Handler -> Delivery \cup {Idle}]
      /\ stripe \in [Subscription -> StripeRow]
      /\ first_use \in [{HashExternalID(e.user) : e \in Session}
                            -> {"idle", "account", "recredit"}]
  BY DEF Init, StripeRow
<1>3. now \in 1 .. MaxNow /\ repeats \in 0 .. MaxRepeats /\ faults \in 0 .. MaxFaults
  BY BoundsAssumption DEF Init
<1>4. TypeOK
  BY <1>1, <1>2, <1>3 DEF Init, TypeOK
<1>5. HookInv
  BY DEF Init, HookInv, DeliveryOK, Idle
<1>6. AccountOfOneSession /\ AckedInv
  BY DEF Init, TablesInit, EmptyTable, AccountOfOneSession, AckedInv
<1> QED
  BY <1>4, <1>5, <1>6 DEF IInv

LEMMA InvStep == IInv /\ [Next]_vars => IInv' /\ Grow
<1> SUFFICES ASSUME IInv, [Next]_vars PROVE IInv' /\ Grow
  OBVIOUS
<1>1. CASE UNCHANGED vars
  <2>1. TypeOK'
    BY <1>1 DEF IInv, TypeOK, TablesTypeOK, vars, tables, world
  <2>2. Grow
    BY <1>1, GrowOf DEF vars, tables, world
  <2>3. AccountOfOneSession'
    BY <1>1, AccountsKept DEF vars, tables, world
  <2> QED
    BY <1>1, <2>1, <2>2, <2>3, QuietStep DEF vars
<1>2. CASE Stripe
  BY <1>2, StripeStep
<1>3. CASE OtherRPC
  BY <1>3, OtherRPCStep
<1>4. ASSUME NEW h \in Handler, NEW e \in Session, Deliver(h, e) PROVE IInv' /\ Grow
  BY <1>4, DeliverStep
<1>5. ASSUME NEW h \in Handler, Step(h) PROVE IInv' /\ Grow
  BY <1>5, CheckAccountStep, GetSubscriptionStep, DecideStep, UpsertStep, InsertInvalidStep,
     InitCreditStep, ReplyStep DEF Step
<1>6. ASSUME NEW h \in Handler, Abort(h) PROVE IInv' /\ Grow
  BY <1>6, AbortStep
<1> QED
  BY <1>1, <1>2, <1>3, <1>4, <1>5, <1>6 DEF Next

-----------------------------------------------------------------------------
(***************************************************************************)
(* The theorems.                                                           *)
(***************************************************************************)

\* The inductive invariant holds in every reachable state.
THEOREM Invariance == Spec => []IInv
BY InvInit, InvStep, PTL DEF Spec

\* The tables, Stripe's state and the deliveries are well formed, and only
\* sessions that were completed are acknowledged (TypeOK).
THEOREM TypeCorrect == Spec => []TypeOK
<1>1. IInv => TypeOK
  BY DEF IInv
<1> QED
  BY <1>1, Invariance, PTL

\* However deliveries and fallbacks interleave, an account shows one session
\* of its user, never the subscription of one with the customer of another
\* (AccountOfOneSession).
THEOREM OneSession == Spec => []AccountOfOneSession
<1>1. IInv => AccountOfOneSession
  BY DEF IInv
<1> QED
  BY <1>1, Invariance, PTL

\* An acknowledged event left its subscription on file and its user with a
\* credit, whichever deliveries failed before (AckedIsFiled).
THEOREM AckedFiled == Spec => []AckedIsFiled
<1>1. IInv => AckedIsFiled
  BY DEF IInv, AckedInv, Filed, AckedIsFiled
<1> QED
  BY <1>1, Invariance, PTL

\* A handler that is to replace the subscription it read finds it ended, or
\* its cancellation was withdrawn after Stripe had answered, and one that is
\* to file the new one finds the account (DecisionStillHolds).
THEOREM DecisionHolds == Spec => []DecisionStillHolds
<1>1. IInv => DecisionStillHolds
  BY DEF IInv, HookInv, DeliveryOK, Over, Subscribed, HasAccount, DecisionStillHolds
<1> QED
  BY <1>1, Invariance, PTL

\* No step takes an account or its subscription away without putting another
\* in its place (SubscriptionNeverErased).
THEOREM NeverErased == Spec => SubscriptionNeverErased
<1> DEFINE A == \A u \in DOMAIN user_account :
                   /\ u \in DOMAIN user_account'
                   /\ user_account[u].sub # Null => user_account'[u].sub # Null
<1>1. IInv /\ [Next]_vars => [A]_vars
  BY InvStep DEF Grow
<1> QED
  BY <1>1, Invariance, PTL DEF Spec, SubscriptionNeverErased

-----------------------------------------------------------------------------
(***************************************************************************)
(* One delivery at a time.  Nothing holds the account between the read and *)
(* the write of a delivery; with a single handler nothing else writes its  *)
(* subscription meanwhile, and what was read is what is replaced.          *)
(***************************************************************************)

Serial == \A g, h \in Handler : g = h

\* The subscription an account shows.
Current(u) == IF HasAccount(u) THEN user_account[u].sub ELSE Null

Shown(e) ==
    \/ Current(HashExternalID(e.user)) = e.sub
    \/ [user |-> HashExternalID(e.user), sub |-> e.sub, cust |-> e.cust]
          \in invalid_subscription

\* What a delivery has read is still so, and what it has written is there.
CurrentOK(d) ==
    /\ d.pc \in {"gateway", "decide", "upsert"} => d.prev = Current(User(d))
    /\ d.pc \in {"credit", "reply"} => Shown(d.session)

\* Ended subscriptions, and those whose cancellation was withdrawn, are all
\* that may have been replaced.
SInv ==
    /\ \A h \in Handler : CurrentOK(hook[h])
    /\ \A e \in acked : e.sub \in Subscription \ {Null} /\ (Over(e.sub) \/ Shown(e))

\* A step that leaves every account its subscription.
SubsKept ==
    /\ \A u : Current(u)' = Current(u)
    /\ invalid_subscription \subseteq invalid_subscription'

\* An account's subscription gives way to another only once it is over.
Replaced ==
    \A u \in DOMAIN user_account :
        user_account[u].sub # Null /\ user_account'[u].sub # user_account[u].sub
            => Over(user_account[u].sub)

\* What is on file stays on file.
LEMMA ShownKept ==
    ASSUME SubsKept, NEW e, Shown(e) PROVE Shown(e)'
<1>1. PICK u : u = HashExternalID(e.user)
  OBVIOUS
<1>2. Current(u)' = Current(u)
  BY DEF SubsKept
<1>3. Current(HashExternalID(e.user))' = Current(u)'
  BY <1>1 DEF Current, HasAccount, HashExternalID
<1> QED
  BY <1>1, <1>2, <1>3 DEF SubsKept, Shown, HashExternalID

\* Acknowledged events stay on file.
LEMMA AckedOnFile ==
    ASSUME IInv, Grow, SubsKept, NEW e,
           e.sub \in Subscription \ {Null}, Over(e.sub) \/ Shown(e)
    PROVE  (Over(e.sub) \/ Shown(e))'
<1>1. ASSUME Over(e.sub) PROVE Over(e.sub)'
  <2>1. PICK s \in Subscription : s = e.sub
    OBVIOUS
  <2>2. Over(s)'
    BY <1>1, <2>1 DEF Grow, Over
  <2> QED
    BY <2>1, <2>2 DEF Over, Ended
<1> QED
  BY <1>1, ShownKept

\* A step that leaves every account its subscription, and deliveries that
\* still rely on what is so.
LEMMA KeptStep ==
    ASSUME IInv, Grow, SubsKept, SInv, acked' = acked,
           \A h \in Handler : CurrentOK(hook[h])'
    PROVE  SInv' /\ Replaced
<1>1. ASSUME NEW e \in acked PROVE e.sub \in Subscription \ {Null} /\ (Over(e.sub) \/ Shown(e))'
  BY AckedOnFile DEF SInv
<1>2. Replaced
  BY DEF Replaced, SubsKept, Current, HasAccount, Grow
<1> QED
  BY <1>1, <1>2 DEF SInv, Over, Ended, Shown

\* A delivery that does nothing.
LEMMA CurrentKept ==
    ASSUME SubsKept, NEW g \in Handler, hook'[g] = hook[g], CurrentOK(hook[g])
    PROVE  CurrentOK(hook[g])'
<1>1. PICK d : d = hook[g]
  OBVIOUS
<1>2. Shown(d.session) => Shown(d.session)'
  BY ShownKept
<1>3. Current(User(d))' = Current(User(d))
  <2>1. PICK u : u = User(d)
    OBVIOUS
  <2>2. Current(u)' = Current(u)
    BY DEF SubsKept
  <2> QED
    BY <2>1, <2>2 DEF Current, HasAccount, User, HashExternalID
<1>4. CurrentOK(d)'
  BY <1>1, <1>2, <1>3 DEF CurrentOK
<1> QED
  BY <1>1, <1>4 DEF CurrentOK, Current, Shown, HasAccount, User, HashExternalID

\* The deliveries of a single handler: a step of h, which goes on as d, is a
\* step of them all.
LEMMA SerialHook ==
    ASSUME Serial, NEW h \in Handler, NEW d, hook'[h] = d, CurrentOK(d)'
    PROVE  \A g \in Handler : CurrentOK(hook[g])'
<1>1. CurrentOK(hook[h])'
  BY DEF CurrentOK, Current, Shown, HasAccount, User, HashExternalID
<1> QED
  BY <1>1 DEF Serial

LEMMA IdleCurrent == CurrentOK(Idle)'
BY DEF CurrentOK, Idle

\* A delivery reads, or is given up or begun, and writes no account.
LEMMA ReadsCurrent ==
    ASSUME Serial, IInv, Grow, SInv, NEW h \in Handler,
           \/ \E e \in Session : Deliver(h, e)
           \/ CheckAccount(h) \/ GetSubscription(h) \/ Decide(h) \/ Abort(h)
    PROVE  SInv' /\ Replaced
<1>1. PICK d \in Delivery \cup {Idle} : d = hook[h]
  BY DEF IInv, TypeOK
<1>2. UNCHANGED tables /\ acked' = acked
  <2>1. CASE CheckAccount(h)
    BY <2>1 DEF CheckAccount
  <2>2. CASE GetSubscription(h) \/ Decide(h)
    BY <2>2 DEF GetSubscription, Decide
  <2>3. CASE (\E e \in Session : Deliver(h, e)) \/ Abort(h)
    BY <2>3 DEF Deliver, Abort
  <2> QED
    BY <2>1, <2>2, <2>3
<1>3. UNCHANGED <<user_account, invalid_subscription>>
  BY <1>2 DEF tables
<1>4. SubsKept
  BY <1>3 DEF SubsKept, Current, HasAccount
<1>5. \A g \in Handler : CurrentOK(hook[g])'
  <2>1. CASE (\E e \in Session : Deliver(h, e)) \/ Abort(h)
    <3>1. PICK c : c = hook'[h]
      OBVIOUS
    <3>2. c.pc \in {"check", "idle"}
      <4>1. Idle.pc = "idle" /\ \A e : Begin(e).pc = "check"
        BY DEF Idle, Begin
      <4>2. \E x : hook' = [hook EXCEPT ![h] = x] /\ (x = Idle \/ \E e : x = Begin(e))
        BY <2>1 DEF Deliver, Abort
      <4> QED
        BY <3>1, <4>1, <4>2 DEF IInv, TypeOK
    <3>3. CurrentOK(c)'
      BY <3>2 DEF CurrentOK
    <3> QED
      BY <3>1, <3>3, SerialHook
  <2>2. CASE CheckAccount(h)
    <3>1. PICK p : p = IF HasAccount(User(d)) THEN user_account[User(d)].sub ELSE Null
      OBVIOUS
    <3>2. PICK c : c = [d EXCEPT !.prev = p, !.pc = IF p = Null THEN "upsert" ELSE "gateway"]
      OBVIOUS
    <3>3. c.prev = p /\ c.session = d.session /\ c.pc \in {"upsert", "gateway"}
      BY <3>2 DEF Delivery, Idle
    <3>4. hook'[h] = c
      BY <1>1, <2>2, <3>1, <3>2 DEF CheckAccount, IInv, TypeOK, Delivery, Idle
    <3>5. p = Current(User(d))
      BY <3>1 DEF Current
    <3>6. CurrentOK(c)'
      BY <1>3, <3>3, <3>5 DEF CurrentOK, Current, HasAccount, User, HashExternalID
    <3> QED
      BY <3>4, <3>6, SerialHook
  <2>3. CASE GetSubscription(h) \/ Decide(h)
    <3>1. PICK c : c = hook'[h]
      OBVIOUS
    <3>2. c.prev = d.prev /\ c.session = d.session /\ c.pc \in {"decide", "upsert", "invalid"}
      BY <1>1, <2>3, <3>1 DEF GetSubscription, Decide, IInv, TypeOK, Delivery, Idle
    <3>3. d.prev = Current(User(d))
      BY <1>1, <2>3 DEF SInv, CurrentOK, GetSubscription, Decide
    <3>4. CurrentOK(c)'
      BY <1>3, <3>2, <3>3 DEF CurrentOK, Current, HasAccount, User, HashExternalID
    <3> QED
      BY <3>1, <3>4, SerialHook
  <2> QED
    BY <2>1, <2>2, <2>3
<1> QED
  BY <1>2, <1>4, <1>5, KeptStep

\* The new subscription takes the place of one that is over.
LEMMA UpsertCurrent ==
    ASSUME Serial, IInv, Grow, SInv, NEW h \in Handler, Upsert(h)
    PROVE  SInv' /\ Replaced
<1>0. hook[h] \in Delivery
  BY UnderWay DEF IInv, Upsert
<1>1. PICK d, u, sub, cust : /\ d \in Delivery /\ d = hook[h] /\ u = User(d)
                             /\ sub = d.session.sub /\ cust = d.session.cust
  BY <1>0
<1>2. /\ u \in Digest /\ sub \in Subscription \cup {Null} /\ sub # Null
      /\ cust \in Customer \cup {Null} /\ cust # Null
      /\ d.prev = Current(u) /\ (d.prev = Null \/ Over(d.prev))
  BY <1>1, UnderWay DEF Upsert, IInv, HookInv, DeliveryOK, SInv, CurrentOK
<1>3. /\ UpsertUserAccount(u, sub, cust) /\ TablesTypeOK
      /\ UNCHANGED <<free_credit, spending_unit, invalid_subscription>>
      /\ acked' = acked
  BY <1>1 DEF Upsert, IInv, TypeOK
<1>4. /\ DOMAIN user_account' = DOMAIN user_account \cup {u}
      /\ \A v \in DOMAIN user_account : v # u => user_account'[v] = user_account[v]
      /\ user_account'[u] = [sub |-> sub, cust |-> cust]
  BY <1>2, <1>3, UpsertType
<1>5. \A v : v # u => Current(v)' = Current(v)
  BY <1>4 DEF Current, HasAccount
<1>6. Current(u)' = sub
  BY <1>4 DEF Current, HasAccount
<1>7. \A g \in Handler : CurrentOK(hook[g])'
  <2>1. PICK c : c = [d EXCEPT !.pc = "credit"]
    OBVIOUS
  <2>2. c \in Delivery /\ c.pc = "credit" /\ c.session = d.session
    BY <1>1, <2>1 DEF Delivery
  <2>3. hook'[h] \in {c, Idle}
    BY <1>1, <2>1, <2>2, ResumeFacts DEF Upsert, IInv
  <2>4. Shown(c.session)'
    BY <1>1, <1>6, <2>2 DEF Shown, User, Current, HasAccount, HashExternalID
  <2>5. CurrentOK(c)'
    BY <2>2, <2>4 DEF CurrentOK
  <2> QED
    BY <2>3, <2>5, IdleCurrent, SerialHook
<1>8. ASSUME NEW e \in acked
      PROVE  e.sub \in Subscription \ {Null} /\ (Over(e.sub) \/ Shown(e))'
  <2>1. e.sub \in Subscription \ {Null} /\ (Over(e.sub) \/ Shown(e))
    BY DEF SInv
  <2>2. CASE Over(e.sub)
    <3>1. PICK s \in Subscription : s = e.sub
      BY <2>1
    <3>2. Over(s)'
      BY <2>2, <3>1 DEF Grow, Over
    <3> QED
      BY <2>1, <3>1, <3>2 DEF Over, Ended
  <2>3. CASE [user |-> HashExternalID(e.user), sub |-> e.sub, cust |-> e.cust]
                \in invalid_subscription
    BY <1>3, <2>1, <2>3 DEF Shown, HashExternalID
  <2>4. CASE Current(HashExternalID(e.user)) = e.sub /\ HashExternalID(e.user) # u
    BY <1>5, <2>1, <2>4 DEF Shown, Current, HasAccount, HashExternalID
  <2>5. CASE Current(HashExternalID(e.user)) = e.sub /\ HashExternalID(e.user) = u
    <3>1. Over(e.sub)
      BY <1>2, <2>1, <2>5
    <3> QED
      BY <2>2, <3>1
  <2> QED
    BY <2>1, <2>2, <2>3, <2>4, <2>5 DEF Shown
<1>9. Replaced
  <2> SUFFICES ASSUME NEW v \in DOMAIN user_account, user_account[v].sub # Null,
                      user_account'[v].sub # user_account[v].sub
               PROVE  Over(user_account[v].sub)
    BY DEF Replaced
  <2>1. v = u
    BY <1>4
  <2>2. user_account[v].sub = d.prev
    BY <1>2, <2>1 DEF Current, HasAccount
  <2> QED
    BY <1>2, <2>2
<1> QED
  BY <1>3, <1>7, <1>8, <1>9 DEF SInv, Over, Ended, Shown

\* The statements that follow.
LEMMA WritesCurrent ==
    ASSUME Serial, IInv, Grow, SInv, NEW h \in Handler,
           InsertInvalid(h) \/ InitCredit(h)
    PROVE  SInv' /\ Replaced
<1>0. hook[h] \in Delivery
  BY UnderWay DEF IInv, InsertInvalid, InitCredit
<1>1. PICK d \in Delivery : d = hook[h]
  BY <1>0
<1>2. UNCHANGED user_account /\ acked' = acked
  BY DEF InsertInvalid, InitCredit
<1>3. SubsKept
  BY <1>2 DEF SubsKept, Current, HasAccount, Grow
<1>4. CASE InsertInvalid(h)
  <2>1. PICK c : c = [d EXCEPT !.pc = "credit"]
    OBVIOUS
  <2>2. c \in Delivery /\ c.pc = "credit" /\ c.session = d.session
    BY <2>1 DEF Delivery
  <2>3. hook'[h] \in {c, Idle}
    BY <1>1, <1>4, <2>1, <2>2, ResumeFacts DEF InsertInvalid, IInv
  <2>4. PICK u, sub, cust : u = User(d) /\ sub = d.session.sub /\ cust = d.session.cust
    OBVIOUS
  <2>5. HasAccount(u) /\ InsertInvalidSubscription(u, sub, cust)
    BY <1>1, <1>4, <2>4 DEF InsertInvalid, IInv, HookInv, DeliveryOK, Subscribed, HasAccount
  <2>6. [user |-> u, sub |-> sub, cust |-> cust] \in invalid_subscription'
    BY <2>5 DEF InsertInvalidSubscription
  <2>7. Shown(c.session)'
    BY <2>2, <2>4, <2>6 DEF Shown, User, HashExternalID
  <2>8. CurrentOK(c)'
    BY <2>2, <2>7 DEF CurrentOK
  <2> QED
    BY <1>2, <1>3, <2>3, <2>8, IdleCurrent, SerialHook, KeptStep
<1>5. CASE InitCredit(h)
  <2>1. PICK c : c = [d EXCEPT !.pc = "reply"]
    OBVIOUS
  <2>2. c \in Delivery /\ c.pc = "reply" /\ c.session = d.session
    BY <2>1 DEF Delivery
  <2>3. hook'[h] \in {c, Idle}
    BY <1>1, <1>5, <2>1, <2>2, ResumeFacts DEF InitCredit, IInv
  <2>4. Shown(d.session)
    BY <1>1, <1>5 DEF SInv, CurrentOK, InitCredit
  <2>5. Shown(c.session)'
    BY <1>3, <2>2, <2>4, ShownKept
  <2>6. CurrentOK(c)'
    BY <2>2, <2>5 DEF CurrentOK
  <2> QED
    BY <1>2, <1>3, <2>3, <2>6, IdleCurrent, SerialHook, KeptStep
<1> QED
  BY <1>4, <1>5

\* The event is acknowledged, and is on file.
LEMMA ReplyCurrent ==
    ASSUME Serial, IInv, Grow, SInv, NEW h \in Handler, Reply(h)
    PROVE  SInv' /\ Replaced
<1>0. hook[h] \in Delivery
  BY UnderWay DEF IInv, Reply
<1>1. PICK d, e : d \in Delivery /\ d = hook[h] /\ e = d.session
  BY <1>0
<1>2. e.sub \in Subscription \ {Null} /\ Shown(e)
  BY <1>1, UnderWay DEF Reply, IInv, SInv, CurrentOK
<1>3. UNCHANGED tables /\ acked' = acked \cup {e} /\ hook' = [hook EXCEPT ![h] = Idle]
  BY <1>1 DEF Reply
<1>4. SubsKept
  BY <1>3 DEF SubsKept, Current, HasAccount, tables
<1>5. \A g \in Handler : CurrentOK(hook[g])'
  <2>1. hook'[h] = Idle
    BY <1>3 DEF IInv, TypeOK
  <2> QED
    BY <2>1, IdleCurrent, SerialHook
<1>6. ASSUME NEW x \in acked'
      PROVE  x.sub \in Subscription \ {Null} /\ (Over(x.sub) \/ Shown(x))'
  <2>1. x.sub \in Subscription \ {Null} /\ (Over(x.sub) \/ Shown(x))
    BY <1>2, <1>3 DEF SInv
  <2> QED
    BY <1>4, <2>1, AckedOnFile
<1>7. Replaced
  BY <1>3 DEF Replaced, tables
<1> QED
  BY <1>5, <1>6, <1>7 DEF SInv, Over, Ended, Shown

\* Stripe and the fallback of other RPCs leave every account what it shows.
LEMMA OthersCurrent ==
    ASSUME IInv, Grow, SInv, Stripe \/ OtherRPC \/ UNCHANGED vars
    PROVE  SInv' /\ Replaced
<1>1. acked' = acked /\ hook' = hook
  BY DEF Stripe, Complete, CancelSubscription, ScheduleCancel,
         WithdrawCancel, Tick, OtherRPC,
         UseCredit, UseAccount, UseRetry, rest, vars
<1>2. SubsKept
  <2>1. CASE UNCHANGED user_account
    BY <2>1 DEF SubsKept, Current, HasAccount, Grow
  <2>2. CASE \E u \in DOMAIN first_use : UseAccount(u)
    <3>1. PICK u \in DOMAIN first_use : UseAccount(u)
      BY <2>2
    <3>2. UpsertUserAccount(u, Null, Null) /\ TablesTypeOK
      BY <3>1 DEF UseAccount, IInv, TypeOK
    <3>3. \A v : Current(v)' = Current(v)
      BY <3>2 DEF UpsertUserAccount, Put, Coalesce, Current, HasAccount,
                  TablesTypeOK, AccountRow
    <3> QED
      BY <3>3 DEF SubsKept, Grow
  <2> QED
    BY <2>1, <2>2 DEF Stripe, Complete, CancelSubscription, ScheduleCancel,
         WithdrawCancel, Tick, OtherRPC,
                      UseCredit, UseAccount, UseRetry, rest, vars, tables
<1>3. \A g \in Handler : CurrentOK(hook[g])'
  BY <1>1, <1>2, CurrentKept DEF SInv
<1> QED
  BY <1>1, <1>2, <1>3, KeptStep

LEMMA SerialInit == Init => SInv
BY DEF Init, SInv, CurrentOK, Idle

LEMMA SerialStep ==
    ASSUME Serial
    PROVE  IInv /\ SInv /\ [Next]_vars => SInv' /\ Replaced
<1> SUFFICES ASSUME IInv, SInv, [Next]_vars PROVE SInv' /\ Replaced
  OBVIOUS
<1>1. Grow
  BY InvStep
<1>2. CASE Stripe \/ OtherRPC \/ UNCHANGED vars
  BY <1>1, <1>2, OthersCurrent
<1>3. ASSUME NEW h \in Handler,
             (\E e \in Session : Deliver(h, e)) \/ Step(h) \/ Abort(h)
      PROVE  SInv' /\ Replaced
  BY <1>1, <1>3, ReadsCurrent, UpsertCurrent, WritesCurrent, ReplyCurrent DEF Step
<1> QED
  BY <1>2, <1>3 DEF Next

\* With one delivery at a time, a live subscription whose event was
\* acknowledged is the account's or on file as invalid, whatever faults,
\* redeliveries, fallbacks and Stripe do, unless its cancellation was
\* withdrawn between Stripe's answer and a decision (OnFileUnlessWithdrawn).
THEOREM LiveOnFile == Serial /\ Spec => []OnFileUnlessWithdrawn
<1> SUFFICES ASSUME Serial PROVE Spec => []OnFileUnlessWithdrawn
  OBVIOUS
<1>1. IInv /\ SInv /\ [Next]_vars => SInv'
  BY SerialStep
<1>2. IInv /\ SInv => OnFileUnlessWithdrawn
  BY DEF SInv, Over, Shown, Current, HasAccount, OnFile, OnFileUnlessWithdrawn
<1> QED
  BY <1>1, <1>2, SerialInit, Invariance, PTL DEF Spec

\* With one delivery at a time, an account's subscription gives way to
\* another only once it has ended, or if its cancellation was withdrawn
\* between Stripe's answer and the decision (ReplacedOnlyAfterEnd).
THEOREM ReplacedEnded == Serial /\ Spec => ReplacedOnlyAfterEnd
<1> SUFFICES ASSUME Serial PROVE Spec => ReplacedOnlyAfterEnd
  OBVIOUS
<1>1. IInv /\ SInv /\ [Next]_vars => SInv'
  BY SerialStep
<1>2. IInv /\ SInv /\ [Next]_vars =>
         [\A u \in DOMAIN user_account :
             LET s == user_account[u].sub
             IN  s # Null /\ user_account'[u].sub # s => Ended(s) \/ s \in withdrawn]_vars
  BY SerialStep DEF Replaced, Over
<1> QED
  BY <1>1, <1>2, SerialInit, Invariance, PTL DEF Spec, ReplacedOnlyAfterEnd
-----------------------------------------------------------------------------
(***************************************************************************)
(* Beside other writers of the tables: what others do keeps what the       *)
(* deliveries rely on, as long as they keep to Environment; and what       *)
(* Stripe and the deliveries do to the tables is Effect.                   *)
(***************************************************************************)

Environment ==
    /\ UNCHANGED <<invalid_subscription, world, hook, first_use, acked, held, repeats>>
    /\ TablesTypeOK'
    /\ AccountsOnlyAdded
    /\ DOMAIN free_credit \subseteq DOMAIN free_credit'
    /\ faults' \in 0 .. MaxFaults

Effect ==
    /\ UNCHANGED spending_unit
    /\ TablesTypeOK'
    /\ DOMAIN user_account \subseteq DOMAIN user_account'
    /\ OpensCredit
    /\ faults' \in faults .. MaxFaults

\* A bare account that another call adds hides none that a delivery read.
LEMMA EnvironmentInv == IInv /\ Environment => IInv' /\ Grow
<1> SUFFICES ASSUME IInv, Environment PROVE IInv' /\ Grow
  OBVIOUS
<1>1. TypeOK'
  BY DEF IInv, TypeOK, Environment, world
<1>2. Grow
  BY DEF Environment, world, AccountsOnlyAdded, Grow, Ended, Stands
<1>3. AccountOfOneSession'
  BY DEF IInv, AccountOfOneSession, HashExternalID, Environment, world, AccountsOnlyAdded
<1> QED
  BY <1>1, <1>2, <1>3, QuietStep DEF Environment

\* A delivery adds accounts and credits, and takes neither away.
LEMMA EffectStep ==
    ASSUME IInv, \/ Stripe
                 \/ \E h \in Handler :
                       (\E e \in Session : Deliver(h, e)) \/ Step(h) \/ Abort(h)
    PROVE  Effect
<1>1. /\ TablesTypeOK' /\ DOMAIN user_account \subseteq DOMAIN user_account'
      /\ MaxFaults \in Nat /\ faults \in 0 .. MaxFaults /\ faults' \in 0 .. MaxFaults
  <2>1. IInv' /\ Grow
    BY InvStep DEF Next
  <2> QED
    BY <2>1, BoundsAssumption DEF IInv, TypeOK, Grow
<1>2. ASSUME UNCHANGED <<spending_unit, free_credit>>, faults' >= faults PROVE Effect
  BY <1>1, <1>2 DEF Effect, OpensCredit
<1>3. ASSUME UNCHANGED <<tables, faults>> PROVE Effect
  BY <1>1, <1>2, <1>3 DEF tables
<1>4. ASSUME NEW h, NEW d, Resume(h, d) PROVE faults' >= faults
  BY <1>1, <1>4 DEF Resume
<1>5. CASE Stripe
  BY <1>3, <1>5 DEF Stripe, Complete, CancelSubscription, ScheduleCancel, WithdrawCancel, Tick
<1>6. ASSUME NEW h \in Handler,
             \/ \E e \in Session : Deliver(h, e)
             \/ CheckAccount(h) \/ GetSubscription(h) \/ Decide(h) \/ Reply(h)
      PROVE  Effect
  <2>1. UNCHANGED <<tables, faults>>
    BY <1>6 DEF Deliver, CheckAccount, GetSubscription, Decide, Reply
  <2> QED
    BY <1>3, <2>1
<1>7. ASSUME NEW h \in Handler, Upsert(h) \/ InsertInvalid(h) PROVE Effect
  <2>1. UNCHANGED <<spending_unit, free_credit>> /\ \E d : Resume(h, d)
    BY <1>7 DEF Upsert, InsertInvalid
  <2> QED
    BY <1>2, <1>4, <2>1
<1>8. ASSUME NEW h \in Handler, InitCredit(h) PROVE Effect
  <2>1. /\ UpsertAndGetFreeCredit(User(hook[h])) /\ UNCHANGED spending_unit
        /\ \E d : Resume(h, d) /\ User(hook[h]) \in Digest
    BY <1>8, UnderWay DEF InitCredit, IInv
  <2>2. OpensCredit /\ faults' >= faults
    BY <1>4, <2>1, CreditOpened
  <2> QED
    BY <1>1, <2>1, <2>2 DEF Effect
<1>9. ASSUME NEW h \in Handler, Abort(h) PROVE Effect
  <2>1. UNCHANGED <<spending_unit, free_credit>> /\ faults' >= faults
    BY <1>1, <1>9 DEF Abort, tables
  <2> QED
    BY <1>2, <2>1
<1> QED
  BY <1>5, <1>6, <1>7, <1>8, <1>9 DEF Step
=============================================================================
