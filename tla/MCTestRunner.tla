---------------------------- MODULE MCTestRunner ----------------------------
(***************************************************************************)
(* Every set of up to four binaries, any of them or none the integration   *)
(* binary, and a flag that makes no sense beside one that makes three      *)
(* binaries share two slots.                                               *)
(***************************************************************************)
EXTENDS TestRunner

MCPkgParallel == {0, 2}
=============================================================================
