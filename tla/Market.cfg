CONSTANTS
  Configs <- MCConfigs
  Markets <- MCMarkets
  StartPrice = 5
  MinRefreshFreq = 1
  MaxClock = 2
  MaxMove <- MCMaxMove
  MaxQueue = 1
SPECIFICATION MarketSpec
INVARIANT MarketTypeOK
INVARIANT PriceFloor
PROPERTY Follows
