--------------------------- MODULE StripeDB_proofs ---------------------------
(***************************************************************************)
(* The statements keep the tables well formed, and what each adds.         *)
(***************************************************************************)
EXTENDS StripeDB, TLAPS

\* A digest is a digest.
LEMMA HashType == ASSUME NEW r \in RawId PROVE HashExternalID(r) \in Digest
BY AlnumAssumption DEF HashExternalID

\* The initial credit is a number, wrapped or not.
LEMMA InitialCreditType == InitialCredit \in Int
BY CreditAssumption, WordAssumption DEF InitialCredit, Int32

\* UpsertUserAccount keeps every account and adds the user's; a subscription
\* that an account has stays, unless another takes its place.
LEMMA UpsertType ==
    ASSUME TablesTypeOK, NEW u \in Digest,
           NEW sub \in Subscription \cup {Null}, NEW cust \in Customer \cup {Null},
           UpsertUserAccount(u, sub, cust),
           UNCHANGED <<free_credit, spending_unit, invalid_subscription>>
    PROVE  /\ TablesTypeOK'
           /\ DOMAIN user_account' = DOMAIN user_account \cup {u}
           /\ \A v \in DOMAIN user_account : v # u => user_account'[v] = user_account[v]
           /\ sub # Null /\ cust # Null => user_account'[u] = [sub |-> sub, cust |-> cust]
           /\ sub = Null /\ cust = Null =>
                 IF HasAccount(u) THEN user_account' = user_account
                                  ELSE user_account'[u].sub = Null
<1> DEFINE old == IF HasAccount(u) THEN user_account[u]
                                   ELSE [sub |-> Null, cust |-> Null]
           new == [sub |-> Coalesce(sub, old.sub), cust |-> Coalesce(cust, old.cust)]
<1>1. old \in AccountRow /\ new \in AccountRow
  BY DEF TablesTypeOK, AccountRow, HasAccount, Coalesce
<1>2. user_account' = Put(user_account, u, new)
  BY DEF UpsertUserAccount
<1>3. /\ sub # Null /\ cust # Null => new = [sub |-> sub, cust |-> cust]
      /\ sub = Null /\ cust = Null => new = old
  BY <1>1 DEF Coalesce, AccountRow
<1>4. IF HasAccount(u) THEN old = user_account[u] ELSE old.sub = Null
  OBVIOUS
<1> HIDE DEF new, old
<1>5. /\ DOMAIN user_account' = DOMAIN user_account \cup {u}
      /\ user_account' \in [DOMAIN user_account \cup {u} -> AccountRow]
      /\ user_account'[u] = new
      /\ \A v \in DOMAIN user_account : v # u => user_account'[v] = user_account[v]
  BY <1>1, <1>2 DEF TablesTypeOK, Put
<1>6. sub = Null /\ cust = Null /\ HasAccount(u) => user_account' = user_account
  BY <1>3, <1>4, <1>5 DEF HasAccount, TablesTypeOK
<1> QED
  BY <1>3, <1>4, <1>5, <1>6 DEF TablesTypeOK

\* UpsertAndGetFreeCredit keeps every credit; it adds the user's if the
\* account is there.
LEMMA CreditType ==
    ASSUME TablesTypeOK, NEW u \in Digest,
           UpsertAndGetFreeCredit(u),
           UNCHANGED <<user_account, spending_unit, invalid_subscription>>
    PROVE  /\ TablesTypeOK'
           /\ DOMAIN free_credit \subseteq DOMAIN free_credit'
           /\ HasAccount(u) => DOMAIN free_credit' = DOMAIN free_credit \cup {u}
<1>1. CASE u \in DOMAIN free_credit \/ ~HasAccount(u)
  BY <1>1 DEF UpsertAndGetFreeCredit, TablesTypeOK
<1>2. CASE ~(u \in DOMAIN free_credit \/ ~HasAccount(u))
  <2>1. free_credit' = Put(free_credit, u, InitialCredit)
    BY <1>2 DEF UpsertAndGetFreeCredit
  <2>2. /\ DOMAIN free_credit' = DOMAIN free_credit \cup {u}
        /\ free_credit' \in [DOMAIN free_credit \cup {u} -> Int]
    BY <2>1, InitialCreditType DEF TablesTypeOK, Put
  <2> QED
    BY <2>2 DEF TablesTypeOK
<1> QED
  BY <1>1, <1>2

\* InsertSpendingUnit keeps every row; it adds the new one if the id is
\* new and the account is there.
LEMMA InsertType ==
    ASSUME TablesTypeOK, NEW k \in Digest, NEW row \in UnitRow,
           InsertSpendingUnit(k, row),
           UNCHANGED <<user_account, free_credit, invalid_subscription>>
    PROVE  /\ TablesTypeOK'
           /\ \A j \in DOMAIN spending_unit :
                 j \in DOMAIN spending_unit' /\ spending_unit'[j] = spending_unit[j]
           /\ k \in DOMAIN spending_unit \/ ~HasAccount(row.user) =>
                 spending_unit' = spending_unit
           /\ k \notin DOMAIN spending_unit /\ HasAccount(row.user) =>
                 /\ spending_unit' = Put(spending_unit, k, row)
                 /\ DOMAIN spending_unit' = DOMAIN spending_unit \cup {k}
                 /\ spending_unit'[k] = row
<1>1. CASE k \in DOMAIN spending_unit \/ ~HasAccount(row.user)
  BY <1>1 DEF InsertSpendingUnit, TablesTypeOK
<1>2. CASE ~(k \in DOMAIN spending_unit \/ ~HasAccount(row.user))
  <2>1. spending_unit' = Put(spending_unit, k, row)
    BY <1>2 DEF InsertSpendingUnit
  <2>2. /\ DOMAIN spending_unit' = DOMAIN spending_unit \cup {k}
        /\ spending_unit' \in [DOMAIN spending_unit \cup {k} -> UnitRow]
        /\ spending_unit'[k] = row
        /\ \A j \in DOMAIN spending_unit : j # k => spending_unit'[j] = spending_unit[j]
    BY <2>1 DEF TablesTypeOK, Put
  <2> QED
    BY <1>2, <2>1, <2>2 DEF TablesTypeOK
<1> QED
  BY <1>1, <1>2

\* ConsumeFreeCredit changes one credit and no row's existence.
LEMMA ConsumeType ==
    ASSUME TablesTypeOK, NEW u \in Digest, NEW n \in Nat,
           ConsumeFreeCredit(u, n),
           UNCHANGED <<user_account, spending_unit, invalid_subscription>>
    PROVE  /\ TablesTypeOK'
           /\ DOMAIN free_credit' = DOMAIN free_credit
BY DEF ConsumeFreeCredit, TablesTypeOK, Least

\* InsertInvalidSubscription keeps every row; it adds the new one if the
\* account is there.
LEMMA InvalidType ==
    ASSUME TablesTypeOK, NEW u \in Digest, NEW sub \in Subscription,
           NEW cust \in Customer,
           InsertInvalidSubscription(u, sub, cust),
           UNCHANGED <<user_account, free_credit, spending_unit>>
    PROVE  /\ TablesTypeOK'
           /\ invalid_subscription \subseteq invalid_subscription'
           /\ HasAccount(u) =>
                 [user |-> u, sub |-> sub, cust |-> cust] \in invalid_subscription'
BY DEF InsertInvalidSubscription, TablesTypeOK, InvalidRow
-----------------------------------------------------------------------------
(***************************************************************************)
(* What the writers of a table may count on from each other.               *)
(***************************************************************************)

\* Every account stays as it is, and those that are added are bare.
AccountsOnlyAdded ==
    /\ \A u \in DOMAIN user_account :
          u \in DOMAIN user_account' /\ user_account'[u] = user_account[u]
    /\ \A u \in DOMAIN user_account' \ DOMAIN user_account : user_account'[u].sub = Null

\* A credit, if any, is opened, and every other stays as it is.
OpensCredit ==
    \/ UNCHANGED free_credit
    \/ \E u \in Digest \ DOMAIN free_credit :
          free_credit' = Put(free_credit, u, InitialCredit)

\* UpsertAndGetFreeCredit opens the user's credit or does nothing.
LEMMA CreditOpened ==
    ASSUME NEW u \in Digest, UpsertAndGetFreeCredit(u) PROVE OpensCredit
BY DEF UpsertAndGetFreeCredit, OpensCredit

\* The credits there are stay as they are, and one that is added is whole.
LEMMA OthersCredits ==
    ASSUME OpensCredit
    PROVE  /\ \A u \in DOMAIN free_credit :
                 u \in DOMAIN free_credit' /\ free_credit'[u] = free_credit[u]
           /\ \A u \in DOMAIN free_credit' \ DOMAIN free_credit :
                 free_credit'[u] = InitialCredit
BY DEF OpensCredit, Put

\* The account fallback of GetFreeCredit adds a bare account.
LEMMA BareAccount ==
    ASSUME TablesTypeOK, NEW u \in Digest, UpsertUserAccount(u, Null, Null),
           UNCHANGED <<free_credit, spending_unit, invalid_subscription>>
    PROVE  AccountsOnlyAdded
<1>1. Null \in Subscription \cup {Null} /\ Null \in Customer \cup {Null}
  OBVIOUS
<1>2. /\ DOMAIN user_account' = DOMAIN user_account \cup {u}
      /\ \A v \in DOMAIN user_account : v # u => user_account'[v] = user_account[v]
      /\ IF HasAccount(u) THEN user_account' = user_account
                          ELSE user_account'[u].sub = Null
  BY <1>1, UpsertType
<1> QED
  BY <1>2 DEF AccountsOnlyAdded, HasAccount
=============================================================================
