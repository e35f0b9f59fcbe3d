CONSTANTS
  Markets = {m1, m2}
  TwoStat = {m2}
  Provable = {m1, m2}
  Crons = {k1}
  Posts = {p1, p2}
  NoMarket = NoMarket
  UsesKv = TRUE
  RpcLags = TRUE
  KvLags = FALSE
  MaxStops = 1
  MaxForks = 1
SPECIFICATION Spec
INVARIANTS
  TypeOK
  NotedIsFinal
  NeverSentTwice
SYMMETRY PostSymmetry
PROPERTIES NotedStaysQuiet
