----------------------------- MODULE MCDepositFreeze -----------------------------
(* Small instances of DepositFreeze for TLC. *)
EXTENDS DepositFreeze
=============================================================================
