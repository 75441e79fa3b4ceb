\* One outpoint, three caches on top of the database.
SPECIFICATION Spec
CONSTANTS
  OutPoints = {o1}
  small = small
  large = large
  Coins <- MCCoins
  CoinUsage <- MCCoinUsage
  Spent = Spent
  NoEntry = NoEntry
  Blocks = {b1, b2}
  NullHash = NullHash
  Depth = 3
INVARIANTS FreshMeansAbsentBelow CleanMatchesParent NoLogicError UsageExact
PROPERTIES ImplementsStack
