SPECIFICATION FairSpec
CONSTANTS
  Tokens = {btc}
  Prices <- TwoPrices
  Percentages <- Upwards
  Keys = {k1}
  Watchers = {w1, w2}
  Unlisted = Unlisted
  None = None
PROPERTY PercentageHonoured
