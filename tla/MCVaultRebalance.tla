--------------------------- MODULE MCVaultRebalance ---------------------------
\* Two vaults with two reserves; the first has the longer frequency.
EXTENDS VaultRebalance

Entry(frequency) ==
  [frequency |-> frequency, dryRun |-> FALSE, signable |-> TRUE, farms |-> FALSE,
   broken |-> FALSE, large |-> FALSE]

MCConfigs ==
  {<<Entry(3), [Entry(1) EXCEPT !.broken = TRUE]>>,
   <<[Entry(3) EXCEPT !.broken = TRUE], Entry(1)>>,
   <<[Entry(3) EXCEPT !.farms = TRUE, !.large = TRUE], Entry(1)>>,
   <<[Entry(3) EXCEPT !.signable = FALSE, !.dryRun = TRUE],
     [Entry(1) EXCEPT !.signable = FALSE]>>}
===============================================================================
