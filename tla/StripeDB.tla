------------------------------ MODULE StripeDB ------------------------------
(***************************************************************************)
(* The PostgreSQL tables of the Stripe service and the statements that     *)
(* sqlc generates for them (internal/autogenerated/sqldb).  A table is a   *)
(* function from the key of its unique index to the columns some code      *)
(* reads; the rows present are the function's domain.  Every statement     *)
(* commits on its own (no handler opens a transaction), so one statement   *)
(* is one atomic step of the modules that extend this one.  Left out:      *)
(* surrogate ids, created_at/updated_at of the rows (never read back for a *)
(* decision, except spending_unit.created_at) and stripe_plan_id (always   *)
(* "no_need" or NULL, never read for a decision).                          *)
(***************************************************************************)
EXTENDS Integers, FiniteSets

CONSTANTS
    RawId,              \* external identifiers as clients send them
    Digest,             \* values of HashExternalID
    Alnum,              \* Alnum[s]: SHA-256 of the alphanumerics of s
    Subscription,       \* Stripe subscription ids
    Customer,           \* Stripe customer ids
    Null,               \* SQL NULL, which toNullString makes of ""
    InitialFreeCredit,  \* INITIAL_FREE_CREDIT, a Go int
    Word                \* 2^32: the number of values of an INTEGER column

ASSUME AlnumAssumption == Alnum \in [RawId -> Digest]
ASSUME CreditAssumption == InitialFreeCredit \in Int
ASSUME WordAssumption == Word \in Nat \ {0}

VARIABLES
    user_account,           \* user digest -> [sub, cust]
    free_credit,            \* user digest -> credit
    spending_unit,          \* unit digest -> [user, amount, created_at]
    invalid_subscription    \* set of [user, sub, cust]

-----------------------------------------------------------------------------
(***************************************************************************)
(* Identifiers and columns.                                                *)
(***************************************************************************)

\* Mutant: identifiers are stored as they come.
HashExternalID_Raw(s) == s

\* Only ASCII letters and digits survive, then SHA-256: identifiers that
\* differ in punctuation alone have one digest.
HashExternalID(s) == Alnum[s]

\* int32(n) in Go: two's complement wrap-around.
Int32(n) == ((n + Word \div 2) % Word) - (Word \div 2)

InitialCredit == Int32(InitialFreeCredit)

Coalesce(new, old) == IF new = Null THEN old ELSE new

\* Table f with the row of key k set to row.
Put(f, k, row) == [x \in DOMAIN f \cup {k} |-> IF x = k THEN row ELSE f[x]]

Least(a, b) == IF a <= b THEN a ELSE b

AccountRow == [sub : Subscription \cup {Null}, cust : Customer \cup {Null}]

UnitRow == [user : Digest, amount : Nat \ {0}, created_at : Int \ {0}]

\* The amount column of the units, as SUM(amount) reads it.
Amount == [k \in DOMAIN spending_unit |-> spending_unit[k].amount]

InvalidRow == [user : Digest, sub : Subscription, cust : Customer]

-----------------------------------------------------------------------------
(***************************************************************************)
(* Statements.  HasAccount is the foreign key to user_account that the     *)
(* other three tables declare: a statement that would insert a row for a   *)
(* user without one fails with SQLSTATE 23503 and changes nothing.         *)
(***************************************************************************)

HasAccount(u) == u \in DOMAIN user_account

\* Mutant: without COALESCE the new columns, NULL or not, replace the old.
UpsertUserAccount_NoCoalesce(u, sub, cust) ==
    user_account' = Put(user_account, u, [sub |-> sub, cust |-> cust])

\* A row that exists keeps each column whose new value is NULL.
UpsertUserAccount(u, sub, cust) ==
    LET old == IF HasAccount(u) THEN user_account[u]
                                ELSE [sub |-> Null, cust |-> Null]
    IN  user_account' = Put(user_account, u,
                            [sub  |-> Coalesce(sub, old.sub),
                             cust |-> Coalesce(cust, old.cust)])

\* Mutant: a conflict sets credit = EXCLUDED.credit.
UpsertAndGetFreeCredit_Refill(u) ==
    free_credit' = IF HasAccount(u) THEN Put(free_credit, u, InitialCredit)
                                    ELSE free_credit

\* A conflict rewrites user_external_id with itself: the credit stays.
UpsertAndGetFreeCredit(u) ==
    free_credit' = IF u \in DOMAIN free_credit \/ ~HasAccount(u)
                   THEN free_credit
                   ELSE Put(free_credit, u, InitialCredit)

\* Mutant: credit - n, without LEAST.
ConsumeFreeCredit_Unclamped(u, n) ==
    free_credit' = [v \in DOMAIN free_credit |->
                       IF v = u THEN free_credit[v] - n ELSE free_credit[v]]

\* credit - LEAST(credit, n) for the row of u, if there is one.
ConsumeFreeCredit(u, n) ==
    free_credit' = [v \in DOMAIN free_credit |->
                       IF v = u THEN free_credit[v] - Least(free_credit[v], n)
                                ELSE free_credit[v]]

\* Mutant: ON CONFLICT (external_id) DO UPDATE.
InsertSpendingUnit_Overwrite(k, row) ==
    spending_unit' = IF HasAccount(row.user) THEN Put(spending_unit, k, row)
                                             ELSE spending_unit

\* ON CONFLICT (external_id) DO NOTHING: the row that came first stays.
InsertSpendingUnit(k, row) ==
    spending_unit' = IF k \in DOMAIN spending_unit \/ ~HasAccount(row.user)
                     THEN spending_unit
                     ELSE Put(spending_unit, k, row)

InsertInvalidSubscription(u, sub, cust) ==
    invalid_subscription' =
        IF HasAccount(u)
        THEN invalid_subscription \cup {[user |-> u, sub |-> sub, cust |-> cust]}
        ELSE invalid_subscription

-----------------------------------------------------------------------------
TablesTypeOK ==
    /\ DOMAIN user_account \subseteq Digest
    /\ user_account \in [DOMAIN user_account -> AccountRow]
    /\ DOMAIN free_credit \subseteq Digest
    /\ free_credit \in [DOMAIN free_credit -> Int]
    /\ DOMAIN spending_unit \subseteq Digest
    /\ spending_unit \in [DOMAIN spending_unit -> UnitRow]
    /\ invalid_subscription \subseteq InvalidRow

EmptyTable == [x \in {} |-> x]

TablesInit ==
    /\ user_account = EmptyTable
    /\ free_credit = EmptyTable
    /\ spending_unit = EmptyTable
    /\ invalid_subscription = {}
=============================================================================
