---------------------------- MODULE CreditLedger ----------------------------
(***************************************************************************)
(* What the spending-unit side of the service promises, without handlers,  *)
(* statements or failures: a ledger in which a user's credit is opened     *)
(* once, a unit is recorded once and never rewritten, and a recorded unit  *)
(* is charged to its user's credit at most once.  The ledger says nothing  *)
(* of when a recorded unit is charged.                                     *)
(***************************************************************************)
EXTENDS Integers

CONSTANTS
    Digest,     \* hashed identifiers, of users and of units
    Opening,    \* the credit a user starts with
    Row         \* what is recorded of a unit

VARIABLES
    credit,     \* user -> credit left
    recorded,   \* unit -> its row
    charged     \* units whose amount has been taken from the credit

vars == <<credit, recorded, charged>>

\* What is left of credit c once n is taken from it, never below zero.
Deduct(c, n) == IF c <= n THEN 0 ELSE c - n

With(f, k, x) == [j \in DOMAIN f \cup {k} |-> IF j = k THEN x ELSE f[j]]

-----------------------------------------------------------------------------
Init ==
    /\ credit = [u \in {} |-> Opening]
    /\ recorded = [k \in {} |-> Opening]
    /\ charged = {}

Open(u) ==
    /\ u \notin DOMAIN credit
    /\ credit' = With(credit, u, Opening)
    /\ UNCHANGED <<recorded, charged>>

Record(k, row) ==
    /\ k \notin DOMAIN recorded
    /\ row.user \in DOMAIN credit
    /\ recorded' = With(recorded, k, row)
    /\ UNCHANGED <<credit, charged>>

Charge(k) ==
    /\ k \in DOMAIN recorded \ charged
    /\ LET row == recorded[k]
       IN  credit' = With(credit, row.user, Deduct(credit[row.user], row.amount))
    /\ charged' = charged \cup {k}
    /\ UNCHANGED recorded

Next ==
    \/ \E u \in Digest : Open(u)
    \/ \E k \in Digest, row \in Row : Record(k, row)
    \/ \E k \in Digest : Charge(k)

Spec == Init /\ [][Next]_vars
=============================================================================
