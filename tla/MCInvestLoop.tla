------------------------------ MODULE MCInvestLoop ------------------------------
(* A small instance of InvestLoop for TLC. *)
EXTENDS InvestLoop

MCReserves == 1..3
MCBreak == {1}
MCExclude == {2}
MCBlacklist == {3}
=============================================================================
