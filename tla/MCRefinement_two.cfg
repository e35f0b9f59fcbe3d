\* Two markets, two bettors of four and of two units, tokens sent into an escrow;
\* the first market is watched for its promise.
CONSTANTS
  c1 = c1
  b1 = b1
  Creators = {c1}
  Nonces = {1, 2}
  Bettors = {b1, b2}
  Treasury = treasury
  NoKey = NoKey
  NoStat = NoStat
  NoOp = NoOp
  Params <- TwoParams
  Attestable <- TwoAttestable
  OneRoot = FALSE
  Amounts = {2}
  Payees <- TwoPayees
  InitialWallet <- TwoWallets
  MIN_STAKE = 2
  MAX_FEE_BPS = 1
  BPS_DENOMINATOR = 2
  U64Max = 6
  MaxTime = 1
  TheMarket <- FirstMarket
SPECIFICATION Spec
INVARIANTS
  BooksBalance
  Solvent
  OutcomeIsProven
PROPERTIES
  KeepsItsPromise
  KeeperSeesLedger
  FinalIsFinal
  EscrowPaysOnlyWhatIsOwed
CHECK_DEADLOCK FALSE
