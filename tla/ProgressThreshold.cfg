SPECIFICATION FairSpec
CONSTANTS
  Tokens = {btc}
  Prices <- RisingPrices
  Percentages <- Upwards
  Keys = {k1}
  Watchers = {w1, w2}
  Unlisted = Unlisted
  None = None
PROPERTY ThresholdIsNotified
