\* A dry-run vault and a live one hold different reserves of the market that a third
\* reserve backs, and the reserve of the dry-run vault is drained.
SPECIFICATION FairSpec
CONSTANTS
  p1 = p1
  p2 = p2
  a = a
  b = b
  c = c
  market = market
  usd = usd
  onre = onre
  Passes = {p1}
  NoPass = NoPass
  NumVaults = 2
  Reserves = {a, b}
  Collateral = {c}
  Market <- OneMarket
  Mint <- SharedMint
  VaultReserves <- DryRunBesideLive
  Live <- SecondLive
  Threshold <- Appetites
  Supplies = {2, 4}
  Rates = {1, 2}
  MaxAge = 2
  Limit = 1
  Unknown = Unknown
  Drained = Drained
  StartPrices <- AllHealthy
  MayChange <- Changes
  MaxEvents = 1
  MaxFaults = 0
PROPERTY MintsStayWatched
