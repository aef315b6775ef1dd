SPECIFICATION MarketSpec
CONSTANTS
  p1 = p1
  p2 = p2
  Players <- MCPlayers
  InitialGold <- MCGold
  InitialItems <- MCItems
  InitialCoins <- MCCoins
  Prices = {1}
  Fee = 1
  Words = 64
  MaxOffers = 2
  MaxQueue = 2
  MaxDrift = 1
  MaxSearches = 1
PROPERTIES
  NothingIsMadeOrLost
  OnlyAStaleBalanceIsOverspent
  ExpiredOffersLeave
