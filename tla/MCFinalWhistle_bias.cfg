\* One market whose oracle attests two events of the fixture.
CONSTANTS
  c1 = c1
  b1 = b1
  Creators = {c1}
  Nonces = {1}
  Bettors = {b1, b2}
  Treasury = treasury
  NoKey = NoKey
  NoStat = NoStat
  NoOp = NoOp
  Params <- OneParams
  Attestable <- OneAttestable
  OneRoot = TRUE
  Amounts = {1, 2, 3, 5}
  Payees = {}
  InitialWallet <- OneWallets
  MIN_STAKE = 2
  MAX_FEE_BPS = 3
  BPS_DENOMINATOR = 7
  U64Max = 14
  MaxTime = 1
SPECIFICATION Spec
INVARIANT CallerCannotBias
CHECK_DEADLOCK FALSE
