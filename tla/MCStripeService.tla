-------------------------- MODULE MCStripeService --------------------------
(***************************************************************************)
(* One user who buys a subscription and spends meanwhile, in two spellings *)
(* of the id that the clients use.  The second unit of the good batch is   *)
(* under the other spelling; the bad one has a good item before a bad one. *)
(***************************************************************************)
EXTENDS StripeService, TLC

MCRawId == {"", "u", "u-", "e1", "e2"}
MCDigest == {"#", "#u", "#e1", "#e2"}
MCAlnum == ("" :> "#") @@ ("u" :> "#u") @@ ("u-" :> "#u")
           @@ ("e1" :> "#e1") @@ ("e2" :> "#e2")

Unit(e, u, n) == [external |-> e, user |-> u, amount |-> n, created_at |-> 1]

good == <<Unit("e1", "u", 2), Unit("e2", "u-", 2)>>
bad == <<Unit("e1", "u", 1), Unit("", "u", 1)>>
MCBatch == {good, bad}

MCSession == {[user |-> "u", sub |-> "s1", cust |-> "c1"]}
=============================================================================
