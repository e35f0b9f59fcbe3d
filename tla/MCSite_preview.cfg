\* A form whose threshold is no integer.
CONSTANTS
  Creators = {ann}
  Bettors = {ann, bob}
  Nonces = {1}
  Treasury = treasury
  NoKey = NoKey
  NoStat = NoStat
  NoOp = NoOp
  Params <- MCParams
  Attestable <- PreviewAttestable
  OneRoot = TRUE
  Amounts = {2}
  Typed <- MCTyped
  Payees = {}
  InitialWallet <- MCWallets
  MIN_STAKE = 2
  MAX_FEE_BPS = 1
  BPS_DENOMINATOR = 2
  U64Max = 8
  MaxTime = 1
  Mint = mint
  MintProgram <- TOKEN_PROGRAM_ID
  CreateArgs <- PreviewArgs
  Settler = settler
  NoMarket = NoMarket
  MsPerDay = 2
  MinTimestamp = 3
  MaxLanded = 1
  NoWallet = NoWallet
  NoList = NoList
  CHUNK = 1
  MaxWallets = 0
  Forms <- PreviewForms
  Minute = 1
  attempts = 2
  NoData = NoData
  FeedStats <- PreviewAttestable
  HasToken = TRUE
  MaxVisits = 1
SPECIFICATION SiteSpec
INVARIANTS
  StoredAsPreviewed
CHECK_DEADLOCK FALSE
