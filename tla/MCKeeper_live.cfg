CONSTANTS
  Markets = {m1, m2}
  TwoStat = {}
  Provable = {m1}
  Crons = {k1}
  Posts = {}
  NoMarket = NoMarket
  UsesKv = TRUE
  RpcLags = TRUE
  KvLags = TRUE
  MaxStops = 1
  MaxForks = 0
SPECIFICATION FairSpec
PROPERTIES EveryDueMarketSettles
