\* A dry-run vault and a live one share a reserve; the two vault reserves share a
\* mint, and the market that a third reserve backs.  One mint, one loss or one
\* price change, and one fault; prices may start at zero.
SPECIFICATION FairSpec
CONSTANTS
  p1 = p1
  p2 = p2
  a = a
  b = b
  c = c
  market = market
  usd = usd
  onre = onre
  Passes = {p1, p2}
  NoPass = NoPass
  NumVaults = 2
  Reserves = {a, b}
  Collateral = {c}
  Market <- OneMarket
  Mint <- SharedMint
  VaultReserves <- DryRunInsideLive
  Live <- SecondLive
  Threshold <- Appetites
  Supplies = {2, 4}
  Rates = {1, 2}
  MaxAge = 2
  Limit = 1
  Unknown = Unknown
  Drained = Drained
  StartPrices <- CollateralMayBeZero
  MayChange <- Changes
  MaxEvents = 1
  MaxFaults = 1
PROPERTIES BreachNeverAbsorbed MintsStayWatched LastingZeroIsLeft
