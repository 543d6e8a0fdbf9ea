------------------------------ MODULE MCDangerPass ------------------------------
(* Small instances of DangerPass for TLC. *)
EXTENDS DangerPass, TLC

CONSTANTS p1, p2, p3, r1, r2

TwoVaultReserves == <<{r1, r2}, {r1}>>
SharedReserve == <<{r1}, {r1}>>
FirstLive == {1}
BothLive == {1, 2}
PassSymmetry == Permutations(Passes)
=============================================================================
