\* One market, two bettors of five units each, under fairness.
CONSTANTS
  Creators = {ann}
  Bettors = {ann, bob}
  Nonces = {1}
  Treasury = treasury
  NoKey = NoKey
  NoStat = NoStat
  NoOp = NoOp
  Params <- LiveParams
  Attestable <- LiveAttestable
  OneRoot = FALSE
  Amounts = {2, 3, 20}
  Payees = {}
  InitialWallet <- LiveWallets
  MIN_STAKE = 2
  MAX_FEE_BPS = 3
  BPS_DENOMINATOR = 7
  U64Max = 10
  MaxTime = 2
  Mint = mint
  MintProgram <- TOKEN_PROGRAM_ID
  CreateArgs <- LiveArgs
  Typed <- LiveTyped
  Settler = settler
  NoMarket = NoMarket
  MsPerDay = 2
  MinTimestamp = 3
SPECIFICATION FairSpec
INVARIANTS
  SdkIsUnderstood
  OracleIsAskedRightly
  
PROPERTIES
  
  EveryoneIsPaid
CHECK_DEADLOCK FALSE
