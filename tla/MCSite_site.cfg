\* Two users of the SDK, one of them at the web client.
CONSTANTS
  Creators = {ann}
  Bettors = {ann, bob}
  Nonces = {1, 2}
  Treasury = treasury
  NoKey = NoKey
  NoStat = NoStat
  NoOp = NoOp
  Params <- MCParams
  Attestable <- SiteAttestable
  OneRoot = TRUE
  Amounts = {2}
  Typed <- MCTyped
  Payees = {}
  InitialWallet <- MCWallets
  MIN_STAKE = 2
  MAX_FEE_BPS = 1
  BPS_DENOMINATOR = 2
  U64Max = 8
  MaxTime = 1
  Mint = mint
  MintProgram <- TOKEN_PROGRAM_ID
  CreateArgs <- SiteArgs
  Settler = settler
  NoMarket = NoMarket
  MsPerDay = 2
  MinTimestamp = 3
  MaxLanded = 3
  NoWallet = NoWallet
  NoList = NoList
  CHUNK = 1
  MaxWallets = 1
  Forms <- SiteForms
  Minute = 1
  attempts = 2
  NoData = NoData
  FeedStats <- SiteFeed
  HasToken = TRUE
  MaxVisits = 1
SPECIFICATION SiteSpec
INVARIANTS
  SiteTypeOK
  MineIsMine
  BoardIsTrue
  NoDoubleMarket
  RedirectIsWanted
  TitleIsTrue
  StampIsTrue
CHECK_DEADLOCK FALSE
