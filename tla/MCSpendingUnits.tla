-------------------------- MODULE MCSpendingUnits --------------------------
(***************************************************************************)
(* A small service: users u and v, u also written "u-" by a client, and    *)
(* three unit ids, of which "e1" and "e-1" have one digest.  Batches b1    *)
(* and b2 share a unit, b3 reuses its digest under another id and opens    *)
(* the same account from the other spelling, b4 has a good item before a   *)
(* bad one.                                                                *)
(***************************************************************************)
EXTENDS SpendingUnits, TLC

MCRawId == {"", "u", "u-", "v", "e1", "e-1", "e2", "e4"}
MCDigest == {"#", "#u", "#v", "#e1", "#e2", "#e4"}
MCAlnum == ("" :> "#") @@ ("u" :> "#u") @@ ("u-" :> "#u") @@ ("v" :> "#v")
           @@ ("e1" :> "#e1") @@ ("e-1" :> "#e1") @@ ("e2" :> "#e2")
           @@ ("e4" :> "#e4")

Unit(e, u, n) == [external |-> e, user |-> u, amount |-> n, created_at |-> 1]

b1 == <<Unit("e1", "u", 2), Unit("e2", "u", 2)>>
b2 == <<Unit("e2", "u", 2), Unit("e2", "v", 1)>>
b3 == <<Unit("e-1", "u-", 1)>>
b4 == <<Unit("e4", "v", 1), Unit("", "v", 1)>>

MCBatch == {b1, b2, b3, b4}

Symmetry == Permutations(Handler)
=============================================================================
