------------------------------ MODULE MCVerify ------------------------------
(***************************************************************************)
(* One user with two subscriptions, one of $1.99 for one unit per dollar   *)
(* and one whose price has no plan; a unit inside the first period, one on *)
(* the boundary of two, and a report that reuses the key of the first with *)
(* another amount.                                                         *)
(***************************************************************************)
EXTENDS Verify, TLC

MCRawId == {"", "u"}
MCDigest == {"#", "#u", "#e1", "#e2"}
MCAlnum == ("" :> "#") @@ ("u" :> "#u")

MCSession == {[user |-> "u", sub |-> "s1", cust |-> "c1"],
              [user |-> "u", sub |-> "s2", cust |-> "c2"]}

MCPlan == ("s1" :> [amount |-> 199, quantity |-> 1])
          @@ ("s2" :> [amount |-> Null, quantity |-> 1])

Spent(k, n, t) ==
    [key |-> k, row |-> [user |-> "#u", amount |-> n, created_at |-> t]]

MCReport == {Spent("#e1", 1, 1500), Spent("#e2", 1, 2000), Spent("#e1", 3, 500)}
=============================================================================
