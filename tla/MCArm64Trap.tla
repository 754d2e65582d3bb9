---------------------------- MODULE MCArm64Trap -----------------------------
(***************************************************************************)
(* Arm64Trap with two register values, for TLC.                            *)
(***************************************************************************)
EXTENDS Arm64Trap

MCData == {"a", "b"}
=============================================================================
