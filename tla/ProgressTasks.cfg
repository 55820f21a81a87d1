\* Prices go on coming for ever, so no state is final.
SPECIFICATION Spec
CONSTANTS
  Tokens = {btc, eth}
  Prices <- TwoPrices
  Percentages <- Upwards
  Keys = {k1, k2}
  Watchers = {w1, w2}
  Unlisted = Unlisted
  None = None
SYMMETRY Symmetry
INVARIANTS
  TypeOK
  NotifiedOnce
  OneLateCheck
  ChainUnbroken
PROPERTY ImplementsPriceAlerts
