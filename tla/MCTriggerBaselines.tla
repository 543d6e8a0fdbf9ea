-------------------------- MODULE MCTriggerBaselines --------------------------
(* Small instances of TriggerBaselines for TLC. *)
EXTENDS TriggerBaselines, TLC

CONSTANTS p1, p2, a, b, c, market, usd, onre

\* A dry-run vault and a live one that holds its reserve too; the reserves of the
\* vaults share a mint and a market, backed by a third reserve.
OneMarket == [x \in Known |-> market]
SharedMint == [x \in Known |-> IF x = c THEN onre ELSE usd]
DryRunInsideLive == <<{b}, {a, b}>>
DryRunBesideLive == <<{b}, {a}>>
Healthy == [x \in Known |-> "healthy"]
Changes == {<<usd, "supply">>, <<onre, "supply">>, <<b, "rate">>, <<b, "price">>,
            <<c, "price">>}
CollateralMayBeZero == {Healthy, [Healthy EXCEPT ![c] = "zero"]}
AllHealthy == {Healthy}
SecondLive == {2}
Appetites == <<5, 1>>
PassSymmetry == Permutations(Passes)
=============================================================================
