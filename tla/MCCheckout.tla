----------------------------- MODULE MCCheckout -----------------------------
(***************************************************************************)
(* A user who completes two sessions, and a session without a              *)
(* subscription, as one-off payments have.                                 *)
(***************************************************************************)
EXTENDS Checkout, TLC

MCRawId == {"", "u"}
MCDigest == {"#", "#u"}
MCAlnum == ("" :> "#") @@ ("u" :> "#u")

MCPair ==
    {[user |-> "u", sub |-> "s1", cust |-> "c1"],
     [user |-> "u", sub |-> "s2", cust |-> "c2"]}

MCSession == MCPair \cup {[user |-> "u", sub |-> Null, cust |-> "c1"]}

Symmetry == Permutations(Handler)
=============================================================================
