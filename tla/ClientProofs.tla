---------------------------- MODULE ClientProofs ----------------------------
(***************************************************************************)
(* What holds of the SDK for every request: the program takes each for     *)
(* what was meant, so that users of the SDK do nothing that FinalWhistle   *)
(* does not allow, and what is proved of FinalWhistle holds of them.       *)
(***************************************************************************)
EXTENDS Client, FinalWhistleProofs

-----------------------------------------------------------------------------
(* Lists of accounts and fields.                                           *)

Distinct(table) == \A i, j \in DOMAIN table : table[i].name = table[j].name => i = j

\* In a list without two fields of one name, a name has one place.
LEMMA PlaceOfName ==
  ASSUME NEW table, Distinct(table), NEW i \in DOMAIN table
  PROVE  PlaceOf(table, table[i].name) = i
  BY DEF Distinct, PlaceOf

\* A handler finds the key that the client gave for an account's name.
LEMMA TakenIsMeant ==
  ASSUME NEW table, NEW keys, Distinct(table), NEW i \in DOMAIN table
  PROVE  Taken(table, Metas(table, keys))[table[i].name] = keys[table[i].name]
<1>1. PlaceOf(table, table[i].name) = i
  BY PlaceOfName
<1>2. Metas(table, keys)[i].key = keys[table[i].name]
  BY DEF Metas
<1>3. table[i].name \in NamesOf(table)
  BY DEF NamesOf
<1> QED BY <1>1, <1>2, <1>3 DEF Taken

\* A field is read as what its writer wrote, by the variants of each.
LEMMA DecodeField ==
  ASSUME NEW fields, NEW V, NEW W, NEW rec, Distinct(fields), NEW i \in DOMAIN fields
  PROVE  Decode(fields, W, Encode(fields, V, rec))[fields[i].name]
           = Named(W, fields[i].kind, Numbered(V, fields[i].kind, rec[fields[i].name]))
<1>1. PlaceOf(fields, fields[i].name) = i
  BY PlaceOfName
<1>2. Encode(fields, V, rec)[i].raw = Numbered(V, fields[i].kind, rec[fields[i].name])
  BY DEF Encode
<1>3. fields[i].name \in NamesOf(fields)
  BY DEF NamesOf
<1> QED BY <1>1, <1>2, <1>3 DEF Decode

\* What was written with a list fits the same list, and names the same fields.
LEMMA EncodedFits ==
  ASSUME NEW fields, NEW V, NEW rec, NEW n \in Nat, DOMAIN fields = 1..n
  PROVE  Fits(fields, Encode(fields, V, rec))
<1>1. DOMAIN Encode(fields, V, rec) = 1..n
  BY DEF Encode
<1>2. Len(Encode(fields, V, rec)) = n /\ Len(fields) = n
  BY <1>1
<1>3. \A i \in DOMAIN fields : Encode(fields, V, rec)[i].kind = fields[i].kind
  BY DEF Encode
<1> QED BY <1>2, <1>3 DEF Fits

\* So are the accounts that a client lists as the program does.
LEMMA MetasAdmitted ==
  ASSUME NEW accounts, NEW keys, NEW n \in Nat, DOMAIN accounts = 1..n
  PROVE  Admits(accounts, Metas(accounts, keys))
<1>1. DOMAIN Metas(accounts, keys) = 1..n
  BY DEF Metas
<1>2. Len(Metas(accounts, keys)) = n /\ Len(accounts) = n
  BY <1>1
<1>3. \A i \in DOMAIN accounts : Metas(accounts, keys)[i].flags = accounts[i].flags
  BY DEF Metas
<1> QED BY <1>2, <1>3 DEF Admits

\* A value that is no variant of an enum goes over the wire as it is.
LEMMA PlainValue ==
  ASSUME NEW V, NEW W, NEW kind, NEW value, kind[2] \notin DOMAIN V, kind[2] \notin DOMAIN W
  PROVE  Named(W, kind, Numbered(V, kind, value)) = value
  BY DEF Named, Numbered

\* The types that are no enums.
PlainTypes ==
  {"u8", "u16", "u32", "u64", "i32", "i64", "bool", "string", "pubkey", "[u8_32]",
   "CreateMarketParams", "SettleProof", "TxProofNode", "TxStatTerm", "TxScoreStat",
   "TxScoresBatchSummary", "TxScoresUpdateStats", "TxTraderPredicate"}

Plain(V) == \A t \in PlainTypes : t \notin DOMAIN V

LEMMA PlainVariants ==
  /\ Plain(CamelVariants) /\ Plain(Variants) /\ Plain(IdlVariants)
  /\ Plain(OracleVariants) /\ Plain(TxlineVariants)
BY DEF Plain, PlainTypes, CamelVariants, Variants, IdlVariants, OracleVariants, TxlineVariants

LEMMA DecodePlain ==
  ASSUME NEW fields, NEW V, NEW W, NEW rec, Distinct(fields), NEW i \in DOMAIN fields,
         Plain(V), Plain(W), fields[i].kind[2] \in PlainTypes
  PROVE  Decode(fields, W, Encode(fields, V, rec))[fields[i].name] = rec[fields[i].name]
BY DecodeField, PlainValue DEF Plain

-----------------------------------------------------------------------------
(* The lists themselves: the IDL's and the program's.                     *)

\* The accounts of claims are the same on both sides.
LEMMA ClaimTable ==
  /\ Distinct(ClaimAccounts) /\ DOMAIN ClaimAccounts = 1..8
  /\ ClaimAccounts[1].name = "claimant"
  /\ ClaimAccounts[2].name = "market"
  /\ ClaimAccounts[3].name = "position"
  /\ ClaimAccounts[4].name = "owner"
  /\ ClaimAccounts[5].name = "escrow"
  /\ ClaimAccounts[6].name = "claimant_usdc"
  /\ ClaimAccounts[7].name = "usdc_mint"
  /\ ClaimAccounts[8].name = "token_program"
  /\ IdlClaim.accounts = ClaimAccounts
<1> DEFINE t == ClaimAccounts
<1>1. /\ DOMAIN t = 1..8
      /\ t[1].name = "claimant"
      /\ t[2].name = "market"
      /\ t[3].name = "position"
      /\ t[4].name = "owner"
      /\ t[5].name = "escrow"
      /\ t[6].name = "claimant_usdc"
      /\ t[7].name = "usdc_mint"
      /\ t[8].name = "token_program"
  BY DEF ClaimAccounts, Mut, Payer, Ro
<1> HIDE DEF t
<1>2. \A i, j \in DOMAIN t : t[i].name = t[j].name => i = j
  BY <1>1
<1>3. IdlClaim.accounts = ClaimAccounts
  BY DEF ClaimAccounts, IdlClaim
<1> QED BY <1>1, <1>2, <1>3 DEF t, Distinct

\* The accounts of creations are the same on both sides.
LEMMA CreateMarketTable ==
  /\ Distinct(CreateMarketAccounts) /\ DOMAIN CreateMarketAccounts = 1..6
  /\ CreateMarketAccounts[1].name = "creator"
  /\ CreateMarketAccounts[2].name = "usdc_mint"
  /\ CreateMarketAccounts[3].name = "market"
  /\ CreateMarketAccounts[4].name = "escrow"
  /\ CreateMarketAccounts[5].name = "token_program"
  /\ CreateMarketAccounts[6].name = "system_program"
  /\ IdlCreateMarket.accounts = CreateMarketAccounts
<1> DEFINE t == CreateMarketAccounts
<1>1. /\ DOMAIN t = 1..6
      /\ t[1].name = "creator"
      /\ t[2].name = "usdc_mint"
      /\ t[3].name = "market"
      /\ t[4].name = "escrow"
      /\ t[5].name = "token_program"
      /\ t[6].name = "system_program"
  BY DEF CreateMarketAccounts, Mut, Payer, Ro
<1> HIDE DEF t
<1>2. \A i, j \in DOMAIN t : t[i].name = t[j].name => i = j
  BY <1>1
<1>3. IdlCreateMarket.accounts = CreateMarketAccounts
  BY DEF CreateMarketAccounts, IdlCreateMarket
<1> QED BY <1>1, <1>2, <1>3 DEF t, Distinct

\* The accounts of stakes are the same on both sides.
LEMMA PlacePositionTable ==
  /\ Distinct(PlacePositionAccounts) /\ DOMAIN PlacePositionAccounts = 1..8
  /\ PlacePositionAccounts[1].name = "bettor"
  /\ PlacePositionAccounts[2].name = "market"
  /\ PlacePositionAccounts[3].name = "position"
  /\ PlacePositionAccounts[4].name = "bettor_usdc"
  /\ PlacePositionAccounts[5].name = "escrow"
  /\ PlacePositionAccounts[6].name = "usdc_mint"
  /\ PlacePositionAccounts[7].name = "token_program"
  /\ PlacePositionAccounts[8].name = "system_program"
  /\ IdlPlacePosition.accounts = PlacePositionAccounts
<1> DEFINE t == PlacePositionAccounts
<1>1. /\ DOMAIN t = 1..8
      /\ t[1].name = "bettor"
      /\ t[2].name = "market"
      /\ t[3].name = "position"
      /\ t[4].name = "bettor_usdc"
      /\ t[5].name = "escrow"
      /\ t[6].name = "usdc_mint"
      /\ t[7].name = "token_program"
      /\ t[8].name = "system_program"
  BY DEF PlacePositionAccounts, Mut, Payer, Ro
<1> HIDE DEF t
<1>2. \A i, j \in DOMAIN t : t[i].name = t[j].name => i = j
  BY <1>1
<1>3. IdlPlacePosition.accounts = PlacePositionAccounts
  BY DEF PlacePositionAccounts, IdlPlacePosition
<1> QED BY <1>1, <1>2, <1>3 DEF t, Distinct

\* The accounts of settlements are the same on both sides.
LEMMA SettleTable ==
  /\ Distinct(SettleAccounts) /\ DOMAIN SettleAccounts = 1..11
  /\ SettleAccounts[1].name = "settler"
  /\ SettleAccounts[2].name = "market"
  /\ SettleAccounts[3].name = "escrow"
  /\ SettleAccounts[4].name = "daily_scores_merkle_roots"
  /\ SettleAccounts[5].name = "txline_program"
  /\ SettleAccounts[6].name = "treasury"
  /\ SettleAccounts[7].name = "treasury_usdc"
  /\ SettleAccounts[8].name = "usdc_mint"
  /\ SettleAccounts[9].name = "token_program"
  /\ SettleAccounts[10].name = "associated_token_program"
  /\ SettleAccounts[11].name = "system_program"
  /\ IdlSettle.accounts = SettleAccounts
<1> DEFINE t == SettleAccounts
<1>1. /\ DOMAIN t = 1..11
      /\ t[1].name = "settler"
      /\ t[2].name = "market"
      /\ t[3].name = "escrow"
      /\ t[4].name = "daily_scores_merkle_roots"
      /\ t[5].name = "txline_program"
      /\ t[6].name = "treasury"
      /\ t[7].name = "treasury_usdc"
      /\ t[8].name = "usdc_mint"
      /\ t[9].name = "token_program"
      /\ t[10].name = "associated_token_program"
      /\ t[11].name = "system_program"
  BY DEF SettleAccounts, Mut, Payer, Ro
<1> HIDE DEF t
<1>2. \A i, j \in DOMAIN t : t[i].name = t[j].name => i = j
  BY <1>1
<1>3. IdlSettle.accounts = SettleAccounts
  BY DEF SettleAccounts, IdlSettle
<1> QED BY <1>1, <1>2, <1>3 DEF t, Distinct

\* The accounts of voids are the same on both sides.
LEMMA VoidMarketTable ==
  /\ Distinct(VoidMarketAccounts) /\ DOMAIN VoidMarketAccounts = 1..2
  /\ VoidMarketAccounts[1].name = "authority"
  /\ VoidMarketAccounts[2].name = "market"
  /\ IdlVoidMarket.accounts = VoidMarketAccounts
<1> DEFINE t == VoidMarketAccounts
<1>1. /\ DOMAIN t = 1..2
      /\ t[1].name = "authority"
      /\ t[2].name = "market"
  BY DEF VoidMarketAccounts, Mut, Signer
<1> HIDE DEF t
<1>2. \A i, j \in DOMAIN t : t[i].name = t[j].name => i = j
  BY <1>1
<1>3. IdlVoidMarket.accounts = VoidMarketAccounts
  BY DEF VoidMarketAccounts, IdlVoidMarket
<1> QED BY <1>1, <1>2, <1>3 DEF t, Distinct

LEMMA Tables ==
  /\ Idl.claim = Handlers.claim /\ Handlers.claim.accounts = ClaimAccounts
  /\ Idl.create_market = Handlers.create_market
  /\ Handlers.create_market.accounts = CreateMarketAccounts
  /\ Idl.place_position = Handlers.place_position
  /\ Handlers.place_position.accounts = PlacePositionAccounts
  /\ Idl.settle = Handlers.settle /\ Handlers.settle.accounts = SettleAccounts
  /\ Idl.void_market = Handlers.void_market
  /\ Handlers.void_market.accounts = VoidMarketAccounts
<1>1. /\ Idl.claim = [accounts |-> ClaimAccounts, args |-> <<>>]
      /\ Handlers.claim = [accounts |-> ClaimAccounts, args |-> <<>>]
  BY ClaimTable DEF Idl, Handlers, IdlClaim
<1>2. /\ Idl.create_market = [accounts |-> CreateMarketAccounts,
           args |-> <<Field("u64", "nonce"), Field("CreateMarketParams", "params")>>]
      /\ Handlers.create_market = Idl.create_market
  BY CreateMarketTable DEF Idl, Handlers, IdlCreateMarket
<1>3. /\ Idl.place_position = [accounts |-> PlacePositionAccounts,
           args |-> <<Field("u8", "side"), Field("u64", "amount")>>]
      /\ Handlers.place_position = Idl.place_position
  BY PlacePositionTable DEF Idl, Handlers, IdlPlacePosition
<1>4. /\ Idl.settle = [accounts |-> SettleAccounts, args |-> <<Field("SettleProof", "proof")>>]
      /\ Handlers.settle = Idl.settle
  BY SettleTable DEF Idl, Handlers, IdlSettle
<1>5. /\ Idl.void_market = [accounts |-> VoidMarketAccounts, args |-> <<>>]
      /\ Handlers.void_market = Idl.void_market
  BY VoidMarketTable DEF Idl, Handlers, IdlVoidMarket
<1> QED BY <1>1, <1>2, <1>3, <1>4, <1>5

-----------------------------------------------------------------------------
(* Addresses.                                                              *)

LEMMA KeyOfMarket ==
  ASSUME NEW m \in Markets, NEW x \in Markets
  PROVE  KeyOf(x) = KeyOf(m) <=> x = m
BY DEF KeyOf, MarketPda, Markets

LEMMA KeyOfPosition ==
  ASSUME NEW m \in Markets, NEW x \in Markets, NEW b, NEW c
  PROVE  PositionPda(KeyOf(x), c) = PositionPda(KeyOf(m), b) <=> x = m /\ c = b
BY KeyOfMarket DEF PositionPda

LEMMA TokenAccountOfBettor ==
  ASSUME NEW b \in Bettors, NEW a \in Accounts
  PROVE  TokenAccount(a) = TokenAccount(b) <=> a = b
<1>1. b \notin Markets /\ b # Treasury /\ b # TreasuryPda
  BY KeysAssumption, CallersAssumption
<1>2. CASE a \in Markets
  BY <1>1, <1>2 DEF TokenAccount, EscrowPda, Ata
<1>3. CASE a \notin Markets
  BY <1>1, <1>3, CallersAssumption DEF TokenAccount, Ata, Accounts
<1> QED BY <1>2, <1>3

-----------------------------------------------------------------------------
(* Instructions.                                                           *)

\* An instruction whose lists are the program's is not refused for them.
LEMMA Admitted ==
  ASSUME NEW h, NEW n \in Nat, NEW k \in Nat, NEW keys, NEW args,
         DOMAIN h.accounts = 1..n, DOMAIN h.args = 1..k
  PROVE  /\ Admits(h.accounts, Metas(h.accounts, keys))
         /\ Fits(h.args, Encode(h.args, CamelVariants, args))
BY MetasAdmitted, EncodedFits

LEMMA VoidReceived ==
  ASSUME NEW m \in Markets, NEW by
  PROVE  Receive(buildVoidMarketIx(by, KeyOf(m)))
           = {[call |-> "void_market", authority |-> by, m |-> m]}
<1> DEFINE keys == [authority |-> by, market |-> KeyOf(m)]
           h == Handlers.void_market
           ix == Instruction("void_market", keys, <<>>)
           a == Taken(h.accounts, Metas(h.accounts, keys))
<1>1. DOMAIN h.args = 1..0 /\ DOMAIN h.accounts = 1..2
  BY VoidMarketTable, Tables DEF Handlers
<1>2. /\ ix.name = "void_market" /\ ix.metas = Metas(h.accounts, keys)
      /\ ix.cells = Encode(h.args, CamelVariants, <<>>)
  BY Tables DEF Instruction
<1>3. a.authority = by /\ a.market = KeyOf(m)
  BY VoidMarketTable, TakenIsMeant, Tables
<1>4. /\ Admits(h.accounts, Metas(h.accounts, keys))
      /\ Fits(h.args, Encode(h.args, CamelVariants, <<>>))
  BY <1>1, Admitted
<1> HIDE DEF keys, ix
<1>5. Receive(ix) = AsVoidMarket(a)
  BY <1>2, <1>4 DEF Receive
<1> HIDE DEF a
<1>6. AsVoidMarket(a) = {[call |-> "void_market", authority |-> by, m |-> m]}
  BY <1>3, KeyOfMarket DEF AsVoidMarket
<1> QED BY <1>5, <1>6 DEF ix, keys, buildVoidMarketIx

\* A market's own accounts pass its constraints, and no other market's.
LEMMA OfItsMarket ==
  ASSUME NEW m \in Markets, NEW x \in Markets, NEW a,
         a.market = KeyOf(m), a.escrow = EscrowPda(KeyOf(m)), a.usdc_mint = Mint,
         a.token_program = TOKEN_PROGRAM_ID
  PROVE  OfMarket(x, a) <=> x = m
BY KeyOfMarket, CallersAssumption DEF OfMarket

LEMMA ClaimReceived ==
  ASSUME NEW m \in Markets, NEW b \in Bettors
  PROVE  Receive(buildClaimIx(b, KeyOf(m), b, Mint))
           = {[call |-> "claim", claimant |-> b, m |-> m, pm |-> m, pb |-> b, dest |-> b]}
<1> DEFINE keys == [claimant |-> b, market |-> KeyOf(m), position |-> PositionPda(KeyOf(m), b),
                    owner |-> b, escrow |-> EscrowPda(KeyOf(m)),
                    claimant_usdc |-> Ata(Mint, b, TOKEN_PROGRAM_ID),
                    usdc_mint |-> Mint, token_program |-> TOKEN_PROGRAM_ID]
           h == Handlers.claim
           ix == Instruction("claim", keys, <<>>)
           a == Taken(h.accounts, Metas(h.accounts, keys))
<1>1. DOMAIN h.args = 1..0 /\ DOMAIN h.accounts = 1..8
  BY ClaimTable, Tables DEF Handlers
<1>2. /\ ix.name = "claim" /\ ix.metas = Metas(h.accounts, keys)
      /\ ix.cells = Encode(h.args, CamelVariants, <<>>)
  BY Tables DEF Instruction
<1>3. /\ a.claimant = b /\ a.market = KeyOf(m) /\ a.position = PositionPda(KeyOf(m), b)
      /\ a.owner = b /\ a.escrow = EscrowPda(KeyOf(m))
      /\ a.claimant_usdc = Ata(Mint, b, TOKEN_PROGRAM_ID)
      /\ a.usdc_mint = Mint /\ a.token_program = TOKEN_PROGRAM_ID
  BY ClaimTable, TakenIsMeant, Tables
<1>4. /\ Admits(h.accounts, Metas(h.accounts, keys))
      /\ Fits(h.args, Encode(h.args, CamelVariants, <<>>))
  BY <1>1, Admitted
<1> HIDE DEF keys, ix
<1>5. Receive(ix) = AsClaim(a)
  BY <1>2, <1>4 DEF Receive
<1>6. a.claimant_usdc = TokenAccount(b)
  BY <1>3, KeysAssumption, CallersAssumption DEF TokenAccount
<1> HIDE DEF a
<1>7. ASSUME NEW x \in Markets \X Markets \X Bettors \X Accounts
      PROVE  (/\ OfMarket(x[1], a)
              /\ a.position = PositionPda(KeyOf(x[2]), x[3]) /\ a.owner = x[3]
              /\ a.claimant_usdc = TokenAccount(x[4]))
               <=> x = <<m, m, b, b>>
  <2>1. OfMarket(x[1], a) <=> x[1] = m
    BY <1>3, OfItsMarket
  <2>2. a.position = PositionPda(KeyOf(x[2]), x[3]) <=> x[2] = m /\ x[3] = b
    BY <1>3, KeyOfPosition
  <2>3. a.claimant_usdc = TokenAccount(x[4]) <=> x[4] = b
    BY <1>6, TokenAccountOfBettor
  <2> QED BY <1>3, <2>1, <2>2, <2>3
<1>8. <<m, m, b, b>> \in Markets \X Markets \X Bettors \X Accounts
  BY DEF Accounts
<1>9. AsClaim(a) = {[call |-> "claim", claimant |-> b, m |-> m, pm |-> m, pb |-> b, dest |-> b]}
  BY <1>3, <1>7, <1>8 DEF AsClaim
<1> QED BY <1>5, <1>9 DEF ix, keys, buildClaimIx

LEMMA StakeReceived ==
  ASSUME NEW m \in Markets, NEW b \in Bettors, NEW side, NEW amount
  PROVE  Receive(buildPlacePositionIx(b, KeyOf(m), Mint, side, amount))
           = {[call |-> "place_position", bettor |-> b, m |-> m,
               side |-> IF side = "YES" THEN 1 ELSE 2, amount |-> amount]}
<1> DEFINE keys == [bettor |-> b, market |-> KeyOf(m), position |-> PositionPda(KeyOf(m), b),
                    bettor_usdc |-> Ata(Mint, b, TOKEN_PROGRAM_ID),
                    escrow |-> EscrowPda(KeyOf(m)), usdc_mint |-> Mint,
                    token_program |-> TOKEN_PROGRAM_ID, system_program |-> SystemProgram]
           args == [side |-> IF side = "YES" THEN 1 ELSE 2, amount |-> amount]
           h == Handlers.place_position
           ix == Instruction("place_position", keys, args)
           a == Taken(h.accounts, Metas(h.accounts, keys))
           arg == Decode(h.args, Variants, Encode(h.args, CamelVariants, args))
<1>1. /\ DOMAIN h.args = 1..2 /\ DOMAIN h.accounts = 1..8
      /\ h.args[1] = Field("u8", "side") /\ h.args[2] = Field("u64", "amount")
  BY PlacePositionTable, Tables DEF Handlers
<1>2. /\ ix.name = "place_position" /\ ix.metas = Metas(h.accounts, keys)
      /\ ix.cells = Encode(h.args, CamelVariants, args)
  BY Tables DEF Instruction
<1>3. /\ a.bettor = b /\ a.market = KeyOf(m) /\ a.position = PositionPda(KeyOf(m), b)
      /\ a.bettor_usdc = Ata(Mint, b, TOKEN_PROGRAM_ID) /\ a.escrow = EscrowPda(KeyOf(m))
      /\ a.usdc_mint = Mint /\ a.token_program = TOKEN_PROGRAM_ID
      /\ a.system_program = SystemProgram
  BY PlacePositionTable, TakenIsMeant, Tables
<1>4. /\ Admits(h.accounts, Metas(h.accounts, keys))
      /\ Fits(h.args, Encode(h.args, CamelVariants, args))
  BY <1>1, Admitted
<1>5. arg.side = args.side /\ arg.amount = amount
  <2>1. Distinct(h.args) /\ h.args[1].name = "side" /\ h.args[2].name = "amount"
    BY <1>1 DEF Distinct, Field
  <2>2. \A i \in 1..2 : h.args[i].kind[2] \in PlainTypes
    <3>1. h.args[1].kind[2] = "u8" /\ h.args[2].kind[2] = "u64"
      BY <1>1 DEF Field
    <3>2. "u8" \in PlainTypes /\ "u64" \in PlainTypes
      BY DEF PlainTypes
    <3>3. \A i \in 1..2 : i = 1 \/ i = 2
      OBVIOUS
    <3> QED BY <3>1, <3>2, <3>3
  <2> HIDE DEF h, args
  <2>3. \A i \in 1..2 : arg[h.args[i].name] = args[h.args[i].name]
    BY <1>1, <2>1, <2>2, DecodePlain, PlainVariants
  <2> QED BY <2>1, <2>3 DEF args
<1> HIDE DEF keys, ix, args
<1>6. Receive(ix) = AsPlacePosition(a, arg)
  BY <1>2, <1>4 DEF Receive
<1>7. a.bettor_usdc = TokenAccount(b)
  BY <1>3, KeysAssumption, CallersAssumption DEF TokenAccount
<1> HIDE DEF a, arg
<1>8. ASSUME NEW x \in Markets
      PROVE  (/\ OfMarket(x, a) /\ a.position = PositionPda(a.market, a.bettor)
              /\ a.bettor_usdc = TokenAccount(a.bettor) /\ a.system_program = SystemProgram)
               <=> x = m
  BY <1>3, <1>7, OfItsMarket
<1>9. AsPlacePosition(a, arg)
        = {[call |-> "place_position", bettor |-> b, m |-> m, side |-> args.side,
            amount |-> amount]}
  BY <1>3, <1>5, <1>8 DEF AsPlacePosition
<1> QED BY <1>6, <1>9 DEF ix, keys, args, buildPlacePositionIx

-----------------------------------------------------------------------------
(* Enums: one casing is written, another is read.                          *)

\* A variant of one list is read as the variant in its place of another.
LEMMA VariantRead ==
  ASSUME NEW V, NEW W, NEW kind, NEW v1, NEW v2, NEW w1, NEW w2, v1 # v2,
         kind[2] \in DOMAIN V, kind[2] \in DOMAIN W,
         V[kind[2]] = <<v1, v2>>, W[kind[2]] = <<w1, w2>>
  PROVE  /\ Named(W, kind, Numbered(V, kind, v1)) = w1
         /\ Named(W, kind, Numbered(V, kind, v2)) = w2
<1> DEFINE vs == V[kind[2]]
           ws == W[kind[2]]
<1>1. /\ DOMAIN vs = 1..2 /\ vs[1] = v1 /\ vs[2] = v2
      /\ DOMAIN ws = 1..2 /\ ws[1] = w1 /\ ws[2] = w2
  OBVIOUS
<1> HIDE DEF vs, ws
<1>2. v1 \in Range(vs) /\ v2 \in Range(vs)
  BY <1>1 DEF Range
<1>3. (CHOOSE i \in DOMAIN vs : vs[i] = v1) = 1 /\ (CHOOSE i \in DOMAIN vs : vs[i] = v2) = 2
  <2>1. \A i \in 1..2 : i = 1 \/ i = 2
    OBVIOUS
  <2> QED BY <1>1, <2>1
<1>4. Numbered(V, kind, v1) = 1 /\ Numbered(V, kind, v2) = 2
  BY <1>2, <1>3 DEF Numbered, vs
<1> QED BY <1>1, <1>4 DEF Named, ws

\* A value that is no variant, nor a variant's number, is read as it was written.
LEMMA NoVariantRead ==
  ASSUME NEW V, NEW W, NEW kind, NEW value,
         value \notin Range(V[kind[2]]), value \notin DOMAIN W[kind[2]]
  PROVE  Named(W, kind, Numbered(V, kind, value)) = value
BY DEF Named, Numbered

LEMMA PascalNames ==
  /\ Pascal("add") = "Add" /\ Pascal("subtract") = "Subtract"
  /\ Pascal("greaterThan") = "GreaterThan" /\ Pascal("lessThan") = "LessThan"
BY DEF Pascal, Camel

LEMMA Pairs ==
  /\ CamelVariants.BinaryOp = <<"add", "subtract">> /\ Variants.BinaryOp = <<"Add", "Subtract">>
  /\ CamelVariants.Comparison = <<"greaterThan", "lessThan">>
  /\ Variants.Comparison = <<"GreaterThan", "LessThan">>
  /\ CamelVariants.TxBinaryExpression = <<"add", "subtract">>
  /\ OracleVariants.TxBinaryExpression = <<"Add", "Subtract">>
  /\ {"BinaryOp", "Comparison", "TxBinaryExpression"} \subseteq DOMAIN CamelVariants
  /\ {"BinaryOp", "Comparison"} \subseteq DOMAIN Variants
  /\ "TxBinaryExpression" \in DOMAIN OracleVariants
BY DEF CamelVariants, IdlVariants, Camel, Variants, OracleVariants

LEMMA OpRead ==
  ASSUME NEW op \in {"add", "subtract", NoOp}, NEW kind
  PROVE  /\ kind[2] = "BinaryOp" => Named(Variants, kind, Numbered(CamelVariants, kind, op))
                                      = IF op = NoOp THEN NoOp ELSE Pascal(op)
         /\ kind[2] = "TxBinaryExpression" =>
              Named(OracleVariants, kind, Numbered(CamelVariants, kind, op))
                = IF op = NoOp THEN NoOp ELSE Pascal(op)
<1>1. CASE op = NoOp
  <2>1. NoOp \notin {"add", "subtract"} /\ NoOp \notin 1..2
    BY ClientAssumption
  <2>2. NoOp \notin Range(CamelVariants.BinaryOp) /\ NoOp \notin DOMAIN Variants.BinaryOp
    BY <2>1, Pairs DEF Range
  <2>3. NoOp \notin Range(CamelVariants.TxBinaryExpression)
        /\ NoOp \notin DOMAIN OracleVariants.TxBinaryExpression
    BY <2>1, Pairs DEF Range
  <2> QED BY <1>1, <2>2, <2>3, NoVariantRead
<1>2. CASE op # NoOp
  <2>1. /\ kind[2] = "BinaryOp" =>
             /\ Named(Variants, kind, Numbered(CamelVariants, kind, "add")) = "Add"
             /\ Named(Variants, kind, Numbered(CamelVariants, kind, "subtract")) = "Subtract"
        /\ kind[2] = "TxBinaryExpression" =>
             /\ Named(OracleVariants, kind, Numbered(CamelVariants, kind, "add")) = "Add"
             /\ Named(OracleVariants, kind, Numbered(CamelVariants, kind, "subtract"))
                  = "Subtract"
    BY Pairs, VariantRead
  <2> QED BY <1>2, <2>1, PascalNames
<1> QED BY <1>1, <1>2

LEMMA ComparisonRead ==
  ASSUME NEW c \in {"greaterThan", "lessThan"}, NEW kind, kind[2] = "Comparison"
  PROVE  Named(Variants, kind, Numbered(CamelVariants, kind, c)) = Pascal(c)
<1>1. /\ Named(Variants, kind, Numbered(CamelVariants, kind, "greaterThan")) = "GreaterThan"
      /\ Named(Variants, kind, Numbered(CamelVariants, kind, "lessThan")) = "LessThan"
  BY Pairs, VariantRead
<1> QED BY <1>1, PascalNames

-----------------------------------------------------------------------------
(* Creations.                                                              *)

\* The fields of a creation are the same on both sides.
LEMMA CreateFields ==
  /\ Distinct(CreateMarketParams) /\ DOMAIN CreateMarketParams = 1..11
  /\ IdlCreateMarketParams = CreateMarketParams
  /\ NamesOf(CreateMarketParams) = {"fixture_id", "seq", "stat_key", "stat_key2", "op",
       "period", "threshold", "comparison", "close_ts", "fee_bps", "title"}
  /\ \A i \in 1..11 : \/ i = 5 /\ CreateMarketParams[i] = Opt("BinaryOp", "op")
                      \/ i = 8 /\ CreateMarketParams[i] = Field("Comparison", "comparison")
                      \/ i \notin {5, 8} /\ CreateMarketParams[i].kind[2] \in PlainTypes
                           /\ CreateMarketParams[i].name \notin {"op", "comparison"}
<1> DEFINE t == CreateMarketParams
<1>1. /\ DOMAIN t = 1..11
      /\ t[1].name = "fixture_id" /\ t[1].kind[2] = "i64"
      /\ t[2].name = "seq"        /\ t[2].kind[2] = "u32"
      /\ t[3].name = "stat_key"   /\ t[3].kind[2] = "u32"
      /\ t[4].name = "stat_key2"  /\ t[4].kind[2] = "u32"
      /\ t[5] = Opt("BinaryOp", "op")
      /\ t[6].name = "period"     /\ t[6].kind[2] = "i32"
      /\ t[7].name = "threshold"  /\ t[7].kind[2] = "i32"
      /\ t[8] = Field("Comparison", "comparison")
      /\ t[9].name = "close_ts"   /\ t[9].kind[2] = "i64"
      /\ t[10].name = "fee_bps"   /\ t[10].kind[2] = "u16"
      /\ t[11].name = "title"     /\ t[11].kind[2] = "string"
  BY DEF CreateMarketParams, Field, Opt
<1>2. IdlCreateMarketParams = t
  BY DEF CreateMarketParams, IdlCreateMarketParams
<1> HIDE DEF t
<1>3. t[5].name = "op" /\ t[8].name = "comparison"
  BY <1>1 DEF Field, Opt
<1>4. \A i \in 1..11 : \/ i = 1 \/ i = 2 \/ i = 3 \/ i = 4 \/ i = 5 \/ i = 6
                       \/ i = 7 \/ i = 8 \/ i = 9 \/ i = 10 \/ i = 11
  OBVIOUS
<1>5. \A i, j \in DOMAIN t : t[i].name = t[j].name => i = j
  BY <1>1, <1>3, <1>4
<1>6. NamesOf(t) = {"fixture_id", "seq", "stat_key", "stat_key2", "op",
        "period", "threshold", "comparison", "close_ts", "fee_bps", "title"}
  BY <1>1, <1>3, <1>4 DEF NamesOf
<1>7. {"i64", "u32", "i32", "u16", "string"} \subseteq PlainTypes
  BY DEF PlainTypes
<1>8. \A i \in 1..11 : i \notin {5, 8} =>
        t[i].kind[2] \in PlainTypes /\ t[i].name \notin {"op", "comparison"}
  BY <1>1, <1>4, <1>7
<1> QED BY <1>1, <1>2, <1>5, <1>6, <1>8 DEF t, Distinct

\* The handler reads the parameters that the caller meant.
LEMMA ParamsRead ==
  ASSUME NEW a \in CreateArgsType, NEW rec,
         rec = [fixture_id |-> a.fixtureId, seq |-> a.seq, stat_key |-> a.statKey,
                stat_key2 |-> a.statKey2,
                op |-> IF a.op = NoOp THEN NoOp ELSE toTxlineOp(a.op),
                period |-> a.period, threshold |-> ToI32(a.threshold),
                comparison |-> toTxlineComparison(a.comparison), close_ts |-> a.closeTs,
                fee_bps |-> a.feeBps, title |-> a.title],
         NEW p, p = Decode(CreateMarketParams, Variants,
                           Encode(CreateMarketParams, CamelVariants, rec))
  PROVE  p = ParamsOf(a)
<1> DEFINE t == CreateMarketParams
<1>1. rec.op = a.op /\ rec.comparison = a.comparison
  BY DEF CreateArgsType, toTxlineOp, toTxlineComparison
<1>2. ASSUME NEW name \in NamesOf(t) PROVE \E i \in DOMAIN t : name = t[i].name
  BY DEF NamesOf
<1>3. ASSUME NEW name \in NamesOf(t), name \notin {"op", "comparison"}
      PROVE  p[name] = rec[name]
  <2>1. PICK i \in DOMAIN t : name = t[i].name
    BY <1>2
  <2>2. t[i].kind[2] \in PlainTypes
    <3>1. Opt("BinaryOp", "op").name = "op" /\ Field("Comparison", "comparison").name = "comparison"
      BY DEF Opt, Field
    <3> QED BY <1>3, <2>1, <3>1, CreateFields
  <2> QED BY <2>1, <2>2, CreateFields, DecodePlain, PlainVariants
<1>4. p["op"] = ParamsOf(a).op
  <2>1. t[5].name = "op" /\ t[5].kind[2] = "BinaryOp" /\ 5 \in DOMAIN t
    BY CreateFields DEF Opt
  <2>2. p["op"] = Named(Variants, t[5].kind, Numbered(CamelVariants, t[5].kind, rec["op"]))
    BY <2>1, CreateFields, DecodeField
  <2>3. a.op \in {"add", "subtract", NoOp}
    BY DEF CreateArgsType
  <2> QED BY <1>1, <2>1, <2>2, <2>3, OpRead DEF ParamsOf
<1>5. p["comparison"] = ParamsOf(a).comparison
  <2>1. t[8].name = "comparison" /\ t[8].kind[2] = "Comparison" /\ 8 \in DOMAIN t
    BY CreateFields DEF Field
  <2>2. p["comparison"]
          = Named(Variants, t[8].kind, Numbered(CamelVariants, t[8].kind, rec["comparison"]))
    BY <2>1, CreateFields, DecodeField
  <2>3. a.comparison \in {"greaterThan", "lessThan"}
    BY DEF CreateArgsType
  <2> QED BY <1>1, <2>1, <2>2, <2>3, ComparisonRead DEF ParamsOf
<1> DEFINE names == {"fixture_id", "seq", "stat_key", "stat_key2", "op", "period",
                     "threshold", "comparison", "close_ts", "fee_bps", "title"}
<1>6. p = [name \in NamesOf(t) |-> p[name]]
  BY DEF Decode
<1>7. NamesOf(t) = names
  BY CreateFields
<1>8. \A name \in names : name \in NamesOf(t)
  BY CreateFields
<1>9. \A name \in names : p[name] = ParamsOf(a)[name]
  <2>1. \A name \in names \ {"op", "comparison"} : p[name] = rec[name]
    BY <1>3, <1>8
  <2>2. \A name \in names \ {"op", "comparison"} : rec[name] = ParamsOf(a)[name]
    BY DEF ParamsOf
  <2> QED BY <1>4, <1>5, <2>1, <2>2
<1>10. ParamsOf(a) = [name \in names |-> ParamsOf(a)[name]]
  BY DEF ParamsOf
<1> QED BY <1>6, <1>7, <1>9, <1>10

LEMMA CreateReceived ==
  ASSUME NEW m \in Markets, NEW creator, NEW nonce, m = <<creator, nonce>>,
         NEW a \in CreateArgsType
  PROVE  Receive(buildCreateMarketIx(creator, Mint, nonce, a))
           = {[call |-> "create_market", m |-> m, params |-> ParamsOf(a)]}
<1> DEFINE keys == [creator |-> creator, usdc_mint |-> Mint,
                    market |-> MarketPda(creator, nonce),
                    escrow |-> EscrowPda(MarketPda(creator, nonce)),
                    token_program |-> TOKEN_PROGRAM_ID, system_program |-> SystemProgram]
           rec == [fixture_id |-> a.fixtureId, seq |-> a.seq, stat_key |-> a.statKey,
                   stat_key2 |-> a.statKey2,
                   op |-> IF a.op = NoOp THEN NoOp ELSE toTxlineOp(a.op),
                   period |-> a.period, threshold |-> ToI32(a.threshold),
                   comparison |-> toTxlineComparison(a.comparison), close_ts |-> a.closeTs,
                   fee_bps |-> a.feeBps, title |-> a.title]
           cells == Encode(CreateMarketParams, CamelVariants, rec)
           args == [nonce |-> nonce, params |-> cells]
           h == Handlers.create_market
           ix == Instruction("create_market", keys, args)
           b == Taken(h.accounts, Metas(h.accounts, keys))
           arg == Decode(h.args, Variants, Encode(h.args, CamelVariants, args))
<1>1. /\ DOMAIN h.args = 1..2 /\ DOMAIN h.accounts = 1..6
      /\ h.args[1] = Field("u64", "nonce") /\ h.args[2] = Field("CreateMarketParams", "params")
  BY CreateMarketTable, Tables DEF Handlers
<1>2. /\ ix.name = "create_market" /\ ix.metas = Metas(h.accounts, keys)
      /\ ix.cells = Encode(h.args, CamelVariants, args)
  BY Tables DEF Instruction
<1>3. /\ b.creator = creator /\ b.market = KeyOf(m) /\ b.escrow = EscrowPda(KeyOf(m))
      /\ b.usdc_mint = Mint /\ b.token_program = TOKEN_PROGRAM_ID
      /\ b.system_program = SystemProgram
  BY CreateMarketTable, TakenIsMeant, Tables DEF KeyOf
<1>4. /\ Admits(h.accounts, Metas(h.accounts, keys))
      /\ Fits(h.args, Encode(h.args, CamelVariants, args))
  BY <1>1, Admitted
<1> HIDE DEF rec, cells
<1>5. arg.nonce = nonce /\ arg.params = cells
  <2>1. Distinct(h.args) /\ h.args[1].name = "nonce" /\ h.args[2].name = "params"
    BY <1>1 DEF Distinct, Field
  <2>2. \A i \in 1..2 : h.args[i].kind[2] \in PlainTypes
    <3>1. h.args[1].kind[2] = "u64" /\ h.args[2].kind[2] = "CreateMarketParams"
      BY <1>1 DEF Field
    <3>2. "u64" \in PlainTypes /\ "CreateMarketParams" \in PlainTypes
      BY DEF PlainTypes
    <3>3. \A i \in 1..2 : i = 1 \/ i = 2
      OBVIOUS
    <3> QED BY <3>1, <3>2, <3>3
  <2> HIDE DEF h, args
  <2>3. \A i \in 1..2 : arg[h.args[i].name] = args[h.args[i].name]
    BY <1>1, <2>1, <2>2, DecodePlain, PlainVariants
  <2> QED BY <2>1, <2>3 DEF args
<1> HIDE DEF keys, ix, args
<1>6. Receive(ix) = AsCreateMarket(b, arg)
  BY <1>2, <1>4 DEF Receive
<1>7. Fits(CreateMarketParams, cells)
  BY CreateFields, EncodedFits DEF cells
<1> HIDE DEF b, arg
<1>8. ASSUME NEW x \in Markets
      PROVE  (/\ Fits(CreateMarketParams, arg.params) /\ x = <<b.creator, arg.nonce>>
              /\ OfMarket(x, b) /\ b.system_program = SystemProgram)
               <=> x = m
  BY <1>3, <1>5, <1>7, OfItsMarket
<1> DEFINE p == Decode(CreateMarketParams, Variants, arg.params)
<1>9. p = ParamsOf(a)
  BY <1>5, ParamsRead DEF rec, cells
<1>10. AsCreateMarket(b, arg)
         = {[call |-> "create_market", m |-> m, params |-> ParamsOf(a)]}
  BY <1>3, <1>8, <1>9 DEF AsCreateMarket
<1>11. buildCreateMarketIx(creator, Mint, nonce, a) = ix
  BY CreateFields DEF ix, keys, args, cells, rec, buildCreateMarketIx
<1> QED BY <1>6, <1>10, <1>11

-----------------------------------------------------------------------------
(* Proofs of the oracle.                                                   *)

\* The cell of a field that is no enum holds the field's value.
LEMMA CellOfField ==
  ASSUME NEW fields, NEW V, NEW rec, Distinct(fields), NEW i \in DOMAIN fields,
         Plain(V), fields[i].kind[2] \in PlainTypes
  PROVE  Encode(fields, V, rec)[PlaceOf(fields, fields[i].name)].raw = rec[fields[i].name]
<1>1. PlaceOf(fields, fields[i].name) = i
  BY PlaceOfName
<1> QED BY <1>1 DEF Encode, Plain, Numbered

StructNames == {"TxScoreStat", "TxScoresUpdateStats", "TxScoresBatchSummary", "TxStatTerm"}

\* A sender's structs of the oracle are the program's.
SameStructs(types) == \A t \in StructNames : types[t] = OracleTypes[t]

LEMMA IdlStructs == SameStructs(IdlOracleTypes) /\ SameStructs(OracleTypes)
<1>1. /\ IdlOracleTypes["TxScoreStat"] = OracleTypes["TxScoreStat"]
      /\ IdlOracleTypes["TxScoresUpdateStats"] = OracleTypes["TxScoresUpdateStats"]
      /\ IdlOracleTypes["TxScoresBatchSummary"] = OracleTypes["TxScoresBatchSummary"]
      /\ IdlOracleTypes["TxStatTerm"] = OracleTypes["TxStatTerm"]
  BY DEF IdlOracleTypes, OracleTypes
<1> QED BY <1>1 DEF SameStructs, StructNames

LEMMA ScoreStatFields ==
  LET t == OracleTypes.TxScoreStat IN
  /\ Distinct(t) /\ DOMAIN t = 1..3
  /\ t[1].name = "key" /\ t[2].name = "value" /\ t[3].name = "period"
  /\ \A i \in 1..3 : t[i].kind[2] \in PlainTypes
<1> DEFINE t == OracleTypes.TxScoreStat
<1>0. t = <<Field("u32", "key"), Field("i32", "value"), Field("i32", "period")>>
  BY DEF OracleTypes
<1> HIDE DEF t
<1>1. /\ DOMAIN t = 1..3
      /\ t[1].name = "key"    /\ t[1].kind[2] = "u32"
      /\ t[2].name = "value"  /\ t[2].kind[2] = "i32"
      /\ t[3].name = "period" /\ t[3].kind[2] = "i32"
  BY <1>0 DEF Field
<1>2. \A i \in 1..3 : i = 1 \/ i = 2 \/ i = 3
  OBVIOUS
<1>3. "u32" \in PlainTypes /\ "i32" \in PlainTypes
  BY DEF PlainTypes
<1>4. \A i, j \in DOMAIN t : t[i].name = t[j].name => i = j
  BY <1>1, <1>2
<1>5. \A i \in 1..3 : t[i].kind[2] \in PlainTypes
  BY <1>1, <1>2, <1>3
<1> QED BY <1>1, <1>4, <1>5 DEF t, Distinct

LEMMA StatTermFields ==
  LET t == OracleTypes.TxStatTerm IN
  /\ Distinct(t) /\ DOMAIN t = 1..3
  /\ t[1].name = "stat_to_prove" /\ t[2].name = "event_stat_root" /\ t[3].name = "stat_proof"
  /\ \A i \in 1..3 : t[i].kind[2] \in PlainTypes
<1> DEFINE t == OracleTypes.TxStatTerm
<1>0. t = <<Field("TxScoreStat", "stat_to_prove"), Field("[u8_32]", "event_stat_root"),
            Vec("TxProofNode", "stat_proof")>>
  BY DEF OracleTypes
<1> HIDE DEF t
<1>1. /\ DOMAIN t = 1..3
      /\ t[1].name = "stat_to_prove"   /\ t[1].kind[2] = "TxScoreStat"
      /\ t[2].name = "event_stat_root" /\ t[2].kind[2] = "[u8_32]"
      /\ t[3].name = "stat_proof"      /\ t[3].kind[2] = "TxProofNode"
  BY <1>0 DEF Field, Vec
<1>2. \A i \in 1..3 : i = 1 \/ i = 2 \/ i = 3
  OBVIOUS
<1>3. "TxScoreStat" \in PlainTypes /\ "[u8_32]" \in PlainTypes /\ "TxProofNode" \in PlainTypes
  BY DEF PlainTypes
<1>4. \A i, j \in DOMAIN t : t[i].name = t[j].name => i = j
  BY <1>1, <1>2
<1>5. \A i \in 1..3 : t[i].kind[2] \in PlainTypes
  BY <1>1, <1>2, <1>3
<1> QED BY <1>1, <1>4, <1>5 DEF t, Distinct

LEMMA SummaryFields ==
  LET t == OracleTypes.TxScoresBatchSummary IN
  /\ Distinct(t) /\ DOMAIN t = 1..3
  /\ t[1].name = "fixture_id" /\ t[2].name = "update_stats"
  /\ t[3].name = "events_sub_tree_root"
  /\ \A i \in 1..3 : t[i].kind[2] \in PlainTypes
<1> DEFINE t == OracleTypes.TxScoresBatchSummary
<1>0. t = <<Field("i64", "fixture_id"), Field("TxScoresUpdateStats", "update_stats"),
            Field("[u8_32]", "events_sub_tree_root")>>
  BY DEF OracleTypes
<1> HIDE DEF t
<1>1. /\ DOMAIN t = 1..3
      /\ t[1].name = "fixture_id"           /\ t[1].kind[2] = "i64"
      /\ t[2].name = "update_stats"         /\ t[2].kind[2] = "TxScoresUpdateStats"
      /\ t[3].name = "events_sub_tree_root" /\ t[3].kind[2] = "[u8_32]"
  BY <1>0 DEF Field
<1>2. \A i \in 1..3 : i = 1 \/ i = 2 \/ i = 3
  OBVIOUS
<1>3. "i64" \in PlainTypes /\ "TxScoresUpdateStats" \in PlainTypes /\ "[u8_32]" \in PlainTypes
  BY DEF PlainTypes
<1>4. \A i, j \in DOMAIN t : t[i].name = t[j].name => i = j
  BY <1>1, <1>2
<1>5. \A i \in 1..3 : t[i].kind[2] \in PlainTypes
  BY <1>1, <1>2, <1>3
<1> QED BY <1>1, <1>4, <1>5 DEF t, Distinct

\* A stat that is written as a term is read as that stat of that event.
LEMMA StatIsRead ==
  ASSUME NEW types, NEW back, SameStructs(types), SameStructs(back),
         NEW V, NEW W, Plain(V), Plain(W), NEW stat, NEW root, NEW fixture,
         NEW cells, cells = StatCells(types, V, toStatTerm(stat, root))
  PROVE  /\ StatFits(back, cells)
         /\ StatRead(back, W, fixture, cells)
              = [fixture_id |-> fixture, seq |-> root[2], key |-> stat.key,
                 period |-> stat.period, value |-> stat.value]
<1> DEFINE t == OracleTypes.TxStatTerm
           u == OracleTypes.TxScoreStat
           inner == Encode(u, V, stat)
           term == [stat_to_prove |-> inner, event_stat_root |-> root, stat_proof |-> <<>>]
           read == Decode(t, W, cells)
<1>1. types.TxStatTerm = t /\ types.TxScoreStat = u /\ back.TxStatTerm = t /\ back.TxScoreStat = u
  <2>1. "TxStatTerm" \in StructNames /\ "TxScoreStat" \in StructNames
    BY DEF StructNames
  <2> QED BY <2>1 DEF SameStructs
<1>2. cells = Encode(t, V, term)
  BY <1>1 DEF StatCells, toStatTerm
<1>3. Fits(t, cells) /\ Fits(u, inner)
  BY <1>2, EncodedFits, StatTermFields, ScoreStatFields
<1> HIDE DEF inner, term
<1>4. cells[PlaceOf(t, "stat_to_prove")].raw = term["stat_to_prove"]
  <2>1. 1 \in DOMAIN t /\ t[1].name = "stat_to_prove" /\ t[1].kind[2] \in PlainTypes /\ Distinct(t)
    BY StatTermFields
  <2> HIDE DEF t
  <2> QED BY <1>2, <2>1, CellOfField
<1>5. read["stat_to_prove"] = term["stat_to_prove"] /\ read["event_stat_root"] = root
  <2>1. \A i \in 1..3 : read[t[i].name] = term[t[i].name]
    BY <1>2, StatTermFields, DecodePlain
  <2> QED BY <2>1, StatTermFields DEF term
<1>6. term["stat_to_prove"] = inner
  BY DEF term
<1> HIDE DEF read
<1> DEFINE x == Decode(u, W, inner)
<1>7. \A i \in 1..3 : x[u[i].name] = stat[u[i].name]
  BY ScoreStatFields, DecodePlain DEF inner
<1>8. x["key"] = stat.key /\ x["value"] = stat.value /\ x["period"] = stat.period
  BY <1>7, ScoreStatFields
<1>9. StatFits(back, cells)
  BY <1>1, <1>3, <1>4, <1>6 DEF StatFits
<1>10. StatRead(back, W, fixture, cells)
         = [fixture_id |-> fixture, seq |-> read.event_stat_root[2], key |-> x.key,
            period |-> x.period, value |-> x.value]
  BY <1>1, <1>5, <1>6 DEF StatRead, read
<1> QED BY <1>5, <1>8, <1>9, <1>10

\* So is the fixture of a summary.
LEMMA SummaryIsRead ==
  ASSUME NEW types, NEW back, SameStructs(types), SameStructs(back),
         NEW V, NEW W, Plain(V), Plain(W), NEW fixture, NEW update, NEW root,
         NEW cells,
         cells = SummaryCells(types, V, [fixture_id |-> fixture, update_stats |-> update,
                                         events_sub_tree_root |-> root])
  PROVE  /\ Fits(back.TxScoresBatchSummary, cells)
         /\ Decode(back.TxScoresBatchSummary, W, cells).fixture_id = fixture
<1> DEFINE t == OracleTypes.TxScoresBatchSummary
           summary == [fixture_id |-> fixture,
                       update_stats |-> Encode(types.TxScoresUpdateStats, V, update),
                       events_sub_tree_root |-> root]
<1>1. types.TxScoresBatchSummary = t /\ back.TxScoresBatchSummary = t
  <2>1. "TxScoresBatchSummary" \in StructNames
    BY DEF StructNames
  <2> QED BY <2>1 DEF SameStructs
<1>2. cells = Encode(t, V, summary)
  BY <1>1 DEF SummaryCells
<1> HIDE DEF summary
<1>3. Fits(t, cells)
  BY <1>2, EncodedFits, SummaryFields
<1>4. Decode(t, W, cells)["fixture_id"] = summary["fixture_id"]
  <2>1. 1 \in DOMAIN t /\ t[1].name = "fixture_id" /\ t[1].kind[2] \in PlainTypes /\ Distinct(t)
    BY SummaryFields
  <2> HIDE DEF t
  <2> QED BY <1>2, <2>1, DecodePlain
<1> QED BY <1>1, <1>3, <1>4 DEF summary

\* What is written of a proof, field by field.
WrittenProof(types, V, v, op) ==
  [ts |-> v.minTimestamp,
   fixture_summary |->
     SummaryCells(types, V,
       [fixture_id |-> v.fixtureId,
        update_stats |-> [update_count |-> 1, min_timestamp |-> v.minTimestamp,
                          max_timestamp |-> v.minTimestamp],
        events_sub_tree_root |-> v.eventStatRoot]),
   fixture_proof |-> <<>>, main_tree_proof |-> <<>>,
   stat_a |-> StatCells(types, V, toStatTerm(v.statToProve, v.eventStatRoot)),
   stat_b |-> IF v.statToProve2 = NoStat THEN NoStat
              ELSE StatCells(types, V, toStatTerm(v.statToProve2, v.eventStatRoot)),
   op |-> IF v.statToProve2 = NoStat THEN NoOp ELSE toTxlineOp(op)]

LEMMA ProofIsWritten ==
  ASSUME NEW fields, NEW types, NEW V, NEW v \in Validations, NEW op
  PROVE  ProofCells(fields, types, V, buildSettleProof(v, op))
           = Encode(fields, V, WrittenProof(types, V, v, op))
<1> DEFINE summary == [fixture_id |-> v.fixtureId,
                       update_stats |-> [update_count |-> 1, min_timestamp |-> v.minTimestamp,
                                         max_timestamp |-> v.minTimestamp],
                       events_sub_tree_root |-> v.eventStatRoot]
           a == toStatTerm(v.statToProve, v.eventStatRoot)
           b == toStatTerm(v.statToProve2, v.eventStatRoot)
<1>1. v.statToProve2 # NoStat => b # NoStat
  BY NoneAssumption
<1>2. buildSettleProof(v, op)
        = [ts |-> v.minTimestamp, fixture_summary |-> summary,
           fixture_proof |-> <<>>, main_tree_proof |-> <<>>, stat_a |-> a,
           stat_b |-> IF v.statToProve2 = NoStat THEN NoStat ELSE b,
           op |-> IF v.statToProve2 = NoStat THEN NoOp ELSE toTxlineOp(op)]
  BY DEF buildSettleProof
<1>3. WrittenProof(types, V, v, op)
        = [ts |-> v.minTimestamp, fixture_summary |-> SummaryCells(types, V, summary),
           fixture_proof |-> <<>>, main_tree_proof |-> <<>>, stat_a |-> StatCells(types, V, a),
           stat_b |-> IF v.statToProve2 = NoStat THEN NoStat ELSE StatCells(types, V, b),
           op |-> IF v.statToProve2 = NoStat THEN NoOp ELSE toTxlineOp(op)]
  BY DEF WrittenProof
<1> DEFINE p  == buildSettleProof(v, op)
           p1 == [p EXCEPT !.fixture_summary = SummaryCells(types, V, p.fixture_summary)]
           p2 == [p1 EXCEPT !.stat_a = StatCells(types, V, p.stat_a)]
           p3 == [p2 EXCEPT !.stat_b = IF p.stat_b = NoStat THEN NoStat
                                       ELSE StatCells(types, V, p.stat_b)]
<1>4. ProofCells(fields, types, V, p) = Encode(fields, V, p3)
  BY DEF ProofCells
<1> HIDE DEF summary, a, b, p
<1>5. p.fixture_summary = summary /\ p.stat_a = a
      /\ (IF p.stat_b = NoStat THEN NoStat ELSE StatCells(types, V, p.stat_b))
           = IF v.statToProve2 = NoStat THEN NoStat ELSE StatCells(types, V, b)
  BY <1>1, <1>2 DEF p
<1>6. p1 = [ts |-> v.minTimestamp, fixture_summary |-> SummaryCells(types, V, summary),
            fixture_proof |-> <<>>, main_tree_proof |-> <<>>, stat_a |-> p.stat_a,
            stat_b |-> p.stat_b, op |-> p.op]
  BY <1>2, <1>5 DEF p
<1> HIDE DEF p1
<1>7. p2 = [ts |-> v.minTimestamp, fixture_summary |-> SummaryCells(types, V, summary),
            fixture_proof |-> <<>>, main_tree_proof |-> <<>>,
            stat_a |-> StatCells(types, V, a), stat_b |-> p.stat_b, op |-> p.op]
  BY <1>5, <1>6
<1> HIDE DEF p2
<1>8. p3 = [ts |-> v.minTimestamp, fixture_summary |-> SummaryCells(types, V, summary),
            fixture_proof |-> <<>>, main_tree_proof |-> <<>>,
            stat_a |-> StatCells(types, V, a),
            stat_b |-> IF v.statToProve2 = NoStat THEN NoStat ELSE StatCells(types, V, b),
            op |-> p.op]
  BY <1>5, <1>7
<1>9. p.op = IF v.statToProve2 = NoStat THEN NoOp ELSE toTxlineOp(op)
  BY <1>2 DEF p
<1> HIDE DEF p3
<1> QED BY <1>3, <1>4, <1>8, <1>9 DEF p

\* The fields of a proof are the same on both sides.
LEMMA ProofFields ==
  /\ Distinct(SettleProof) /\ DOMAIN SettleProof = 1..7
  /\ IdlSettleProof = SettleProof
  /\ SettleProof[1].name = "ts" /\ SettleProof[2].name = "fixture_summary"
  /\ SettleProof[5].name = "stat_a" /\ SettleProof[6].name = "stat_b"
  /\ SettleProof[7].name = "op" /\ SettleProof[7].kind[2] = "TxBinaryExpression"
  /\ \A i \in {1, 2, 5, 6} : SettleProof[i].kind[2] \in PlainTypes
<1> DEFINE t == SettleProof
<1>1. /\ DOMAIN t = 1..7
      /\ t[1].name = "ts"              /\ t[1].kind[2] = "i64"
      /\ t[2].name = "fixture_summary" /\ t[2].kind[2] = "TxScoresBatchSummary"
      /\ t[3].name = "fixture_proof"   /\ t[4].name = "main_tree_proof"
      /\ t[5].name = "stat_a"          /\ t[5].kind[2] = "TxStatTerm"
      /\ t[6].name = "stat_b"          /\ t[6].kind[2] = "TxStatTerm"
      /\ t[7].name = "op"              /\ t[7].kind[2] = "TxBinaryExpression"
  BY DEF SettleProof, Field, Opt, Vec
<1>2. IdlSettleProof = t
  BY DEF SettleProof, IdlSettleProof
<1> HIDE DEF t
<1>3. "i64" \in PlainTypes /\ "TxScoresBatchSummary" \in PlainTypes /\ "TxStatTerm" \in PlainTypes
  BY DEF PlainTypes
<1>4. \A i \in 1..7 : i = 1 \/ i = 2 \/ i = 3 \/ i = 4 \/ i = 5 \/ i = 6 \/ i = 7
  OBVIOUS
<1>5. \A i, j \in DOMAIN t : t[i].name = t[j].name => i = j
  BY <1>1, <1>4
<1> QED BY <1>1, <1>2, <1>3, <1>5 DEF t, Distinct

\* A list of fields that has those of a proof.
HasField(fields, name) ==
  \E i \in DOMAIN fields : fields[i].name = name /\ fields[i].kind[2] \in PlainTypes

IsProofList(fields) ==
  /\ Distinct(fields)
  /\ \E n \in Nat : DOMAIN fields = 1..n
  /\ HasField(fields, "ts") /\ HasField(fields, "fixture_summary")
  /\ HasField(fields, "stat_a") /\ HasField(fields, "stat_b")

LEMMA FieldIsRead ==
  ASSUME NEW fields, Distinct(fields), NEW name, HasField(fields, name),
         NEW V, NEW W, Plain(V), Plain(W), NEW rec
  PROVE  /\ Decode(fields, W, Encode(fields, V, rec))[name] = rec[name]
         /\ Encode(fields, V, rec)[PlaceOf(fields, name)].raw = rec[name]
<1>1. PICK i \in DOMAIN fields : fields[i].name = name /\ fields[i].kind[2] \in PlainTypes
  BY DEF HasField
<1> QED BY <1>1, DecodePlain, CellOfField

\* The structs of a stat have no enums: whose lists they are written with does
\* not matter.
LEMMA StatCellsAlike ==
  ASSUME NEW types, SameStructs(types), NEW V, Plain(V), NEW stat, NEW root
  PROVE  StatCells(types, V, toStatTerm(stat, root))
           = StatCells(IdlOracleTypes, CamelVariants, toStatTerm(stat, root))
<1> DEFINE t == OracleTypes.TxStatTerm
           u == OracleTypes.TxScoreStat
           inner(X) == Encode(u, X, stat)
           term(X) == [stat_to_prove |-> inner(X), event_stat_root |-> root,
                       stat_proof |-> <<>>]
<1>1. /\ types.TxStatTerm = t /\ types.TxScoreStat = u
      /\ IdlOracleTypes.TxStatTerm = t /\ IdlOracleTypes.TxScoreStat = u
  <2>1. "TxStatTerm" \in StructNames /\ "TxScoreStat" \in StructNames
    BY DEF StructNames
  <2> QED BY <2>1, IdlStructs DEF SameStructs
<1>2. /\ StatCells(types, V, toStatTerm(stat, root)) = Encode(t, V, term(V))
      /\ StatCells(IdlOracleTypes, CamelVariants, toStatTerm(stat, root))
           = Encode(t, CamelVariants, term(CamelVariants))
  BY <1>1 DEF StatCells, toStatTerm
<1>3. ASSUME NEW fields, \A i \in DOMAIN fields : fields[i].kind[2] \in PlainTypes, NEW rec
      PROVE  Encode(fields, V, rec) = Encode(fields, CamelVariants, rec)
  BY <1>3, PlainVariants DEF Encode, Numbered, Plain
<1>4. inner(V) = inner(CamelVariants)
  BY <1>3, ScoreStatFields
<1>5. \A r : Encode(t, V, r) = Encode(t, CamelVariants, r)
  BY <1>3, StatTermFields
<1> QED BY <1>2, <1>4, <1>5

\* Stats that are written with one list and read with it are the answer's.
LEMMA ProofIsRead ==
  ASSUME NEW fields, IsProofList(fields),
         NEW types, NEW back, SameStructs(types), SameStructs(back),
         NEW V, NEW W, Plain(V), Plain(W), NEW v \in Validations, NEW op,
         NEW rec,
         rec.fixture_summary = WrittenProof(types, V, v, op).fixture_summary,
         rec.stat_a = WrittenProof(types, V, v, op).stat_a,
         rec.stat_b = WrittenProof(types, V, v, op).stat_b,
         NEW cells, cells = Encode(fields, V, rec)
  PROVE  /\ ProofFits(fields, back, cells)
         /\ ProofRead(fields, back, W, cells)
              = [a  |-> StatOf(v, v.statToProve),
                 b  |-> IF v.statToProve2 = NoStat THEN NoStat ELSE StatOf(v, v.statToProve2),
                 op |-> Decode(fields, W, cells).op]
<1> DEFINE update == [update_count |-> 1, min_timestamp |-> v.minTimestamp,
                      max_timestamp |-> v.minTimestamp]
           summary == SummaryCells(types, V,
                        [fixture_id |-> v.fixtureId, update_stats |-> update,
                         events_sub_tree_root |-> v.eventStatRoot])
           a == StatCells(types, V, toStatTerm(v.statToProve, v.eventStatRoot))
           b == StatCells(types, V, toStatTerm(v.statToProve2, v.eventStatRoot))
           At(name) == cells[PlaceOf(fields, name)].raw
           p == Decode(fields, W, cells)
<1>1. /\ rec.fixture_summary = summary /\ rec.stat_a = a
      /\ rec.stat_b = IF v.statToProve2 = NoStat THEN NoStat ELSE b
  BY DEF WrittenProof
<1>2. v.statToProve2 # NoStat => b # NoStat
  BY NoneAssumption, StatCellsAlike
<1>3. /\ Fits(back.TxScoresBatchSummary, summary)
      /\ Decode(back.TxScoresBatchSummary, W, summary).fixture_id = v.fixtureId
  BY SummaryIsRead
<1>4. StatFits(back, a) /\ StatRead(back, W, v.fixtureId, a) = StatOf(v, v.statToProve)
  BY StatIsRead DEF StatOf
<1>5. StatFits(back, b) /\ StatRead(back, W, v.fixtureId, b) = StatOf(v, v.statToProve2)
  BY StatIsRead DEF StatOf
<1> HIDE DEF summary, a, b
<1>6. /\ At("fixture_summary") = rec["fixture_summary"] /\ p["fixture_summary"] = rec["fixture_summary"]
      /\ At("stat_a") = rec["stat_a"] /\ p["stat_a"] = rec["stat_a"]
      /\ At("stat_b") = rec["stat_b"] /\ p["stat_b"] = rec["stat_b"]
  BY FieldIsRead DEF IsProofList
<1>7. Fits(fields, cells)
  BY EncodedFits DEF IsProofList
<1>8. ProofFits(fields, back, cells)
  BY <1>1, <1>2, <1>3, <1>4, <1>5, <1>6, <1>7 DEF ProofFits
<1>9. ProofRead(fields, back, W, cells)
        = [a  |-> StatRead(back, W, v.fixtureId, p.stat_a),
           b  |-> IF p.stat_b = NoStat THEN NoStat ELSE StatRead(back, W, v.fixtureId, p.stat_b),
           op |-> p.op]
  BY <1>1, <1>3, <1>6 DEF ProofRead
<1> HIDE DEF p
<1> QED BY <1>1, <1>2, <1>4, <1>5, <1>6, <1>8, <1>9 DEF p

LEMMA SettleProofList == IsProofList(SettleProof)
<1>1. {1, 2, 5, 6} \subseteq DOMAIN SettleProof /\ 7 \in Nat
  BY ProofFields
<1> QED BY <1>1, ProofFields DEF IsProofList, HasField

LEMMA SettleReceived ==
  ASSUME NEW m \in Markets, NEW v \in Validations, NEW op \in {"add", "subtract"}
  PROVE  Receive(buildSettleIx(Settler, KeyOf(m), Mint,
                               DailyScoresPda(epochDayForValidation(v)),
                               buildSettleProof(v, op)))
           = {[call |-> "settle", m |-> m,
               proof |-> [a  |-> StatOf(v, v.statToProve),
                          b  |-> IF v.statToProve2 = NoStat THEN NoStat
                                 ELSE StatOf(v, v.statToProve2),
                          op |-> IF v.statToProve2 = NoStat THEN NoOp ELSE Pascal(op)]]}
<1> DEFINE roots == DailyScoresPda(epochDayForValidation(v))
           keys == [settler |-> Settler, market |-> KeyOf(m), escrow |-> EscrowPda(KeyOf(m)),
                    daily_scores_merkle_roots |-> roots, txline_program |-> TXLINE_PROGRAM_ID,
                    treasury |-> TreasuryPda,
                    treasury_usdc |-> Ata(Mint, TreasuryPda, TOKEN_PROGRAM_ID),
                    usdc_mint |-> Mint, token_program |-> TOKEN_PROGRAM_ID,
                    associated_token_program |-> AtaProgram, system_program |-> SystemProgram]
           rec == WrittenProof(IdlOracleTypes, CamelVariants, v, op)
           cells == Encode(SettleProof, CamelVariants, rec)
           args == [proof |-> cells]
           h == Handlers.settle
           ix == Instruction("settle", keys, args)
           a == Taken(h.accounts, Metas(h.accounts, keys))
           arg == Decode(h.args, Variants, Encode(h.args, CamelVariants, args))
<1>1. /\ DOMAIN h.args = 1..1 /\ DOMAIN h.accounts = 1..11
      /\ h.args[1] = Field("SettleProof", "proof")
  BY SettleTable, Tables DEF Handlers
<1>2. /\ ix.name = "settle" /\ ix.metas = Metas(h.accounts, keys)
      /\ ix.cells = Encode(h.args, CamelVariants, args)
  BY Tables DEF Instruction
<1> HIDE DEF roots
<1>3. /\ a.market = KeyOf(m) /\ a.escrow = EscrowPda(KeyOf(m))
      /\ a.daily_scores_merkle_roots = roots /\ a.txline_program = TXLINE_PROGRAM_ID
      /\ a.treasury = TreasuryPda /\ a.treasury_usdc = Ata(Mint, TreasuryPda, TOKEN_PROGRAM_ID)
      /\ a.usdc_mint = Mint /\ a.token_program = TOKEN_PROGRAM_ID
      /\ a.associated_token_program = AtaProgram /\ a.system_program = SystemProgram
  BY SettleTable, TakenIsMeant, Tables
<1>4. /\ Admits(h.accounts, Metas(h.accounts, keys))
      /\ Fits(h.args, Encode(h.args, CamelVariants, args))
  BY <1>1, Admitted
<1> HIDE DEF rec, cells
<1>5. arg.proof = cells
  <2>1. Distinct(h.args) /\ h.args[1].name = "proof" /\ h.args[1].kind[2] = "SettleProof"
    BY <1>1 DEF Distinct, Field
  <2>2. "SettleProof" \in PlainTypes /\ 1 \in DOMAIN h.args
    BY <1>1 DEF PlainTypes
  <2> HIDE DEF h, args
  <2>3. arg[h.args[1].name] = args[h.args[1].name]
    BY <2>1, <2>2, DecodePlain, PlainVariants
  <2> QED BY <2>1, <2>3 DEF args
<1> HIDE DEF keys, ix, args
<1>6. Receive(ix) = AsSettle(a, arg)
  BY <1>2, <1>4 DEF Receive
<1> HIDE DEF a, arg
<1> DEFINE p == Decode(SettleProof, OracleVariants, cells)
<1>7. /\ ProofFits(SettleProof, OracleTypes, cells)
      /\ ProofRead(SettleProof, OracleTypes, OracleVariants, cells)
           = [a  |-> StatOf(v, v.statToProve),
              b  |-> IF v.statToProve2 = NoStat THEN NoStat ELSE StatOf(v, v.statToProve2),
              op |-> p.op]
  <2> DEFINE w == WrittenProof(IdlOracleTypes, CamelVariants, v, op)
  <2>1. /\ rec.fixture_summary = w.fixture_summary /\ rec.stat_a = w.stat_a
        /\ rec.stat_b = w.stat_b
    BY DEF rec
  <2>2. cells = Encode(SettleProof, CamelVariants, rec)
    BY DEF cells
  <2> QED BY <2>1, <2>2, ProofIsRead, SettleProofList, IdlStructs, PlainVariants
<1>8. p["op"] = IF v.statToProve2 = NoStat THEN NoOp ELSE Pascal(op)
  <2>1. p["op"] = Named(OracleVariants, SettleProof[7].kind,
                        Numbered(CamelVariants, SettleProof[7].kind, rec["op"]))
    BY ProofFields, DecodeField DEF cells
  <2>2. rec["op"] = IF v.statToProve2 = NoStat THEN NoOp ELSE op
    BY DEF rec, WrittenProof, toTxlineOp
  <2>3. op # NoOp
    BY ClientAssumption
  <2>4. CASE v.statToProve2 = NoStat
    BY <2>1, <2>2, <2>4, ProofFields, OpRead
  <2>5. CASE v.statToProve2 # NoStat
    BY <2>1, <2>2, <2>3, <2>5, ProofFields, OpRead
  <2> QED BY <2>4, <2>5
<1>9. Decode(SettleProof, Variants, cells)["ts"] = v.minTimestamp
  <2>1. Decode(SettleProof, Variants, cells)["ts"] = rec["ts"]
    BY FieldIsRead, SettleProofList, PlainVariants DEF cells, IsProofList
  <2> QED BY <2>1 DEF rec, WrittenProof
<1>10. a.treasury_usdc = TokenAccount(Treasury)
  BY <1>3, KeysAssumption, CallersAssumption DEF TokenAccount
<1> HIDE DEF p
<1>11. ASSUME NEW x \in Markets
       PROVE  (/\ ProofFits(SettleProof, OracleTypes, arg.proof)
               /\ OfMarket(x, a) /\ a.txline_program = TXLINE_PROGRAM_ID
               /\ a.daily_scores_merkle_roots =
                    DailyScoresPda(Decode(SettleProof, Variants, arg.proof).ts \div MsPerDay)
               /\ a.treasury = TreasuryPda /\ a.treasury_usdc = TokenAccount(Treasury)
               /\ a.associated_token_program = AtaProgram
               /\ a.system_program = SystemProgram)
                <=> x = m
  <2>1. DailyScoresPda(Decode(SettleProof, Variants, arg.proof).ts \div MsPerDay) = roots
    BY <1>5, <1>9 DEF roots, epochDayForValidation
  <2>2. OfMarket(x, a) <=> x = m
    BY <1>3, OfItsMarket
  <2> QED BY <1>3, <1>5, <1>7, <1>10, <2>1, <2>2
<1>12. AsSettle(a, arg)
         = {[call |-> "settle", m |-> m,
             proof |-> ProofRead(SettleProof, OracleTypes, OracleVariants, cells)]}
  BY <1>5, <1>11 DEF AsSettle
<1>13. ProofCells(IdlSettleProof, IdlOracleTypes, CamelVariants, buildSettleProof(v, op)) = cells
  BY ProofIsWritten, ProofFields DEF cells, rec
<1>14. buildSettleIx(Settler, KeyOf(m), Mint, DailyScoresPda(epochDayForValidation(v)),
                     buildSettleProof(v, op)) = ix
  BY <1>13 DEF ix, keys, args, roots, buildSettleIx
<1> QED BY <1>6, <1>7, <1>8, <1>12, <1>14

-----------------------------------------------------------------------------
(* Amounts, as they are typed and shown.                                   *)

LEMMA PowersOfTen ==
  /\ Ten(0) = 1 /\ Ten(1) = 10 /\ Ten(2) = 100 /\ Ten(3) = 1000 /\ Ten(4) = 10000
  /\ Ten(5) = 100000 /\ Ten(6) = 1000000 /\ Ten(7) = 10000000 /\ Ten(8) = 100000000
  /\ Ten(9) = 1000000000
BY DEF Ten

\* The amount box means what it says: what is typed becomes the greatest number of
\* base units that is not more, with fewer or more digits after the point than a base
\* unit has (parseUsdc, format.ts).
THEOREM AmountsParsed ==
  ASSUME NEW n \in Numeral
  PROVE  parseUsdc(n) \in Nat /\ parseUsdc(n) = BaseUnits(n)
<1> DEFINE w == n.whole
           f == n.frac
           k == n.places
<1>1. w \in Nat /\ f \in Nat /\ k \in 0..9 /\ f < Ten(k)
  BY DEF Numeral, MaxPlaces
<1>2. parseUsdc(n) = w * Ten(6) + IF k > 6 THEN f \div Ten(k - 6) ELSE f * Ten(6 - k)
  BY DEF parseUsdc, USDC_DECIMALS
<1>3. BaseUnits(n) = ((w * Ten(k) + f) * Ten(6)) \div Ten(k)
  BY DEF BaseUnits, USDC_DECIMALS
<1> HIDE DEF w, f, k
<1>4. CASE k \in 0..3
  <2>1. CASE k = 0
    BY <1>1, <1>2, <1>3, <2>1, PowersOfTen
  <2>2. CASE k = 1
    BY <1>1, <1>2, <1>3, <2>2, PowersOfTen
  <2>3. CASE k = 2
    BY <1>1, <1>2, <1>3, <2>3, PowersOfTen
  <2>4. CASE k = 3
    BY <1>1, <1>2, <1>3, <2>4, PowersOfTen
  <2> QED BY <1>4, <2>1, <2>2, <2>3, <2>4
<1>5. CASE k \in 4..6
  <2>1. CASE k = 4
    BY <1>1, <1>2, <1>3, <2>1, PowersOfTen
  <2>2. CASE k = 5
    BY <1>1, <1>2, <1>3, <2>2, PowersOfTen
  <2>3. CASE k = 6
    BY <1>1, <1>2, <1>3, <2>3, PowersOfTen
  <2> QED BY <1>5, <2>1, <2>2, <2>3
<1>6. CASE k \in 7..9
  <2>1. CASE k = 7
    BY <1>1, <1>2, <1>3, <2>1, PowersOfTen
  <2>2. CASE k = 8
    BY <1>1, <1>2, <1>3, <2>2, PowersOfTen
  <2>3. CASE k = 9
    BY <1>1, <1>2, <1>3, <2>3, PowersOfTen
  <2> QED BY <1>6, <2>1, <2>2, <2>3
<1> QED BY <1>1, <1>4, <1>5, <1>6

\* Some number of digits is the least that is enough.
LEMMA LeastEnough ==
  ASSUME NEW v \in Nat
  PROVE  \E k \in Enough(v) : \A j \in Enough(v) : k <= j
<1>1. 6 \in Enough(v)
  BY PowersOfTen DEF Enough, USDC_DECIMALS
<1>2. Enough(v) \subseteq 0..6
  BY DEF Enough, USDC_DECIMALS
<1> HIDE DEF Enough
<1>3. CASE 0 \in Enough(v)
  BY <1>2, <1>3
<1>4. CASE 0 \notin Enough(v) /\ 1 \in Enough(v)
  BY <1>2, <1>4
<1>5. CASE {0, 1} \cap Enough(v) = {} /\ 2 \in Enough(v)
  BY <1>2, <1>5
<1>6. CASE {0, 1, 2} \cap Enough(v) = {} /\ 3 \in Enough(v)
  BY <1>2, <1>6
<1>7. CASE {0, 1, 2, 3} \cap Enough(v) = {} /\ 4 \in Enough(v)
  BY <1>2, <1>7
<1>8. CASE {0, 1, 2, 3, 4} \cap Enough(v) = {} /\ 5 \in Enough(v)
  BY <1>2, <1>8
<1>9. CASE {0, 1, 2, 3, 4, 5} \cap Enough(v) = {}
  BY <1>1, <1>2, <1>9
<1> QED BY <1>3, <1>4, <1>5, <1>6, <1>7, <1>8, <1>9

\* An amount on the screen is the exact one, whatever it is: typed again, it gives the
\* same number of base units (formatUsdc and parseUsdc, format.ts).
THEOREM AmountsReadBack ==
  ASSUME NEW v \in Nat
  PROVE  formatUsdc(v) \in Numeral /\ parseUsdc(formatUsdc(v)) = v
<1> DEFINE k == CHOOSE k \in Enough(v) : \A j \in Enough(v) : k <= j
           n == [whole |-> v \div Ten(6), frac |-> (v % Ten(6)) \div Ten(6 - k), places |-> k]
<1>1. k \in Enough(v)
  BY LeastEnough
<1>2. formatUsdc(v) = n
  BY DEF formatUsdc, USDC_DECIMALS
<1> HIDE DEF k
<1>3. k \in 0..6 /\ v % Ten(6 - k) = 0
  BY <1>1 DEF Enough, USDC_DECIMALS
<1>4. SUFFICES /\ v \div Ten(6) \in Nat /\ (v % Ten(6)) \div Ten(6 - k) \in Nat
               /\ (v % Ten(6)) \div Ten(6 - k) < Ten(k)
               /\ (v \div Ten(6)) * Ten(6) + ((v % Ten(6)) \div Ten(6 - k)) * Ten(6 - k) = v
  <2>1. n \in Numeral
    BY <1>3, <1>4 DEF Numeral, MaxPlaces
  <2>2. parseUsdc(n) = (v \div Ten(6)) * Ten(6)
                         + ((v % Ten(6)) \div Ten(6 - k)) * Ten(6 - k)
    BY <1>3 DEF parseUsdc, USDC_DECIMALS
  <2> QED BY <1>2, <1>4, <2>1, <2>2
<1>5. CASE k = 0
  <2>1. v % Ten(6) = 0 /\ Ten(6 - k) = 1000000 /\ Ten(6) = 1000000 /\ Ten(k) = 1
    BY <1>3, <1>5, PowersOfTen
  <2>2. (v % Ten(6)) \div Ten(6 - k) = 0
    <3>1. 0 \div 1000000 = 0
      OBVIOUS
    <3> QED BY <2>1, <3>1
  <2>3. v \div Ten(6) \in Nat /\ (v \div Ten(6)) * Ten(6) = v
    BY <2>1
  <2>4. (v \div Ten(6)) * Ten(6) + 0 * Ten(6 - k) = v
    BY <2>1, <2>3
  <2>5. (v % Ten(6)) \div Ten(6 - k) \in Nat /\ (v % Ten(6)) \div Ten(6 - k) < Ten(k)
    <3>1. 0 \in Nat /\ 0 < Ten(k)
      BY <2>1
    <3> QED BY <2>2, <3>1, Zenon
  <2>6. (v \div Ten(6)) * Ten(6) + ((v % Ten(6)) \div Ten(6 - k)) * Ten(6 - k) = v
    BY <2>2, <2>4, Zenon
  <2> QED BY <2>3, <2>5, <2>6
<1>6. CASE k = 1
  BY <1>3, <1>6, PowersOfTen
<1>7. CASE k = 2
  BY <1>3, <1>7, PowersOfTen
<1>8. CASE k = 3
  BY <1>3, <1>8, PowersOfTen
<1>9. CASE k = 4
  BY <1>3, <1>9, PowersOfTen
<1>10. CASE k = 5
  BY <1>3, <1>10, PowersOfTen
<1>11. CASE k = 6
  BY <1>3, <1>11, PowersOfTen
<1> QED BY <1>3, <1>5, <1>6, <1>7, <1>8, <1>9, <1>10, <1>11

-----------------------------------------------------------------------------
(* Requests.                                                               *)

LEMMA AnswersAreOfOneEvent ==
  ASSUME NEW v \in Validations
  PROVE  /\ StatOf(v, v.statToProve) \in Attestable
         /\ v.statToProve2 # NoStat => StatOf(v, v.statToProve2) \in Attestable
<1>1. PICK a \in Attestable, b \in Attestable \cup {NoStat} :
        /\ v = Validation(a, b)
        /\ b # NoStat => b \in Attestable /\ a.fixture_id = b.fixture_id /\ a.seq = b.seq
  <2>1. CASE v \in {Validation(a, b) : a \in Attestable, b \in {NoStat}}
    BY <2>1
  <2>2. CASE v \in {Validation(ab[1], ab[2]) : ab \in
                      {p \in Attestable \X Attestable : /\ p[1].fixture_id = p[2].fixture_id
                                                        /\ p[1].seq = p[2].seq}}
    BY <2>2
  <2> QED BY <2>1, <2>2 DEF Validations
<1>2. ASSUME NEW s \in Attestable
      PROVE  s = [fixture_id |-> s.fixture_id, seq |-> s.seq, key |-> s.key,
                  period |-> s.period, value |-> s.value]
  BY InputAssumption DEF StatType
<1>3. /\ v.fixtureId = a.fixture_id /\ v.eventStatRoot[2] = a.seq
      /\ v.statToProve = [key |-> a.key, value |-> a.value, period |-> a.period]
      /\ v.statToProve2 = IF b = NoStat THEN NoStat
                          ELSE [key |-> b.key, value |-> b.value, period |-> b.period]
  BY <1>1 DEF Validation
<1>4. StatOf(v, v.statToProve) = a
  BY <1>2, <1>3 DEF StatOf
<1>5. b # NoStat => StatOf(v, v.statToProve2) = b
  <2>1. ASSUME b # NoStat PROVE StatOf(v, v.statToProve2) = b
    <3>1. b = [fixture_id |-> b.fixture_id, seq |-> b.seq, key |-> b.key,
               period |-> b.period, value |-> b.value]
      BY <1>1, <1>2, <2>1
    <3> QED BY <1>1, <1>3, <2>1, <3>1 DEF StatOf
  <2> QED BY <2>1
<1> QED BY <1>1, <1>3, <1>4, <1>5

LEMMA RequestCases ==
  ASSUME NEW r \in Requests
  PROVE  \/ r \in Creations /\ r.what = "create"
         \/ r \in Stakes /\ r.what = "stake"
         \/ r \in Proofs /\ r.what = "settle"
         \/ r \in Claims /\ r.what = "claim"
         \/ r \in Voids /\ r.what = "void"
BY DEF Requests, Creations, Stakes, Proofs, Claims, Voids

\* Every request is taken for what it is meant as.
LEMMA Understood ==
  ASSUME NEW r \in Requests
  PROVE  Received[r] = {Meant(r)}
<1>0. Received[r] = Receive(Built(r))
  BY DEF Received
<1>1. CASE r \in Creations /\ r.what = "create"
  <2>1. /\ r.by \in Creators /\ r.nonce \in Nonces /\ r.args \in CreateArgsType
        /\ <<r.by, r.nonce>> \in Markets
    BY <1>1, ClientAssumption DEF Creations, Markets
  <2>2. /\ Built(r) = buildCreateMarketIx(r.by, Mint, r.nonce, r.args)
        /\ Meant(r) = [call |-> "create_market", m |-> <<r.by, r.nonce>>,
                       params |-> ParamsOf(r.args)]
    BY <1>1 DEF Built, Meant
  <2> QED BY <1>0, <2>1, <2>2, CreateReceived
<1>2. CASE r \in Stakes /\ r.what = "stake"
  <2>1. r.by \in Bettors /\ r.m \in Markets /\ r.amount \in Numeral
    BY <1>2, CallersAssumption DEF Stakes
  <2>2. /\ Built(r) = buildPlacePositionIx(r.by, KeyOf(r.m), Mint, r.side, parseUsdc(r.amount))
        /\ Meant(r) = [call |-> "place_position", bettor |-> r.by, m |-> r.m,
                       side |-> IF r.side = "YES" THEN 1 ELSE 2,
                       amount |-> BaseUnits(r.amount)]
    BY <1>2 DEF Built, Meant, SIDE_YES, SIDE_NO
  <2>3. parseUsdc(r.amount) = BaseUnits(r.amount)
    BY <2>1, AmountsParsed
  <2> QED BY <1>0, <2>1, <2>2, <2>3, StakeReceived
<1>3. CASE r \in Proofs /\ r.what = "settle"
  <2>1. r.m \in Markets /\ r.v \in Validations /\ r.op \in {"add", "subtract"}
    BY <1>3 DEF Proofs
  <2>2. Built(r) = buildSettleIx(Settler, KeyOf(r.m), Mint,
                     DailyScoresPda(epochDayForValidation(r.v)), buildSettleProof(r.v, r.op))
    BY <1>3 DEF Built
  <2>3. Meant(r)
          = [call |-> "settle", m |-> r.m,
             proof |-> [a  |-> StatOf(r.v, r.v.statToProve),
                        b  |-> IF r.v.statToProve2 = NoStat THEN NoStat
                               ELSE StatOf(r.v, r.v.statToProve2),
                        op |-> IF r.v.statToProve2 = NoStat THEN NoOp ELSE Pascal(r.op)]]
    BY <1>3 DEF Meant, StatOf
  <2> QED BY <1>0, <2>1, <2>2, <2>3, SettleReceived
<1>4. CASE r \in Claims /\ r.what = "claim"
  <2>1. r.by \in Bettors /\ r.m \in Markets
    BY <1>4 DEF Claims
  <2>2. /\ Built(r) = buildClaimIx(r.by, KeyOf(r.m), r.by, Mint)
        /\ Meant(r) = [call |-> "claim", claimant |-> r.by, m |-> r.m, pm |-> r.m,
                       pb |-> r.by, dest |-> r.by]
    BY <1>4 DEF Built, Meant
  <2> QED BY <1>0, <2>1, <2>2, ClaimReceived
<1>5. CASE r \in Voids /\ r.what = "void"
  <2>1. r.m \in Markets
    BY <1>5 DEF Voids
  <2>2. /\ Built(r) = buildVoidMarketIx(r.by, KeyOf(r.m))
        /\ Meant(r) = [call |-> "void_market", authority |-> r.by, m |-> r.m]
    BY <1>5 DEF Built, Meant
  <2> QED BY <1>0, <2>1, <2>2, VoidReceived
<1> QED BY <1>1, <1>2, <1>3, <1>4, <1>5, RequestCases

\* Whatever its callers ask of the SDK, the program takes the instruction for it:
\* every account and argument is in its place, whatever the market, the keys and
\* the values (instructions.ts, finalwhistle.idl.ts against instructions/*.rs).
THEOREM SdkAlwaysUnderstood == ClientSpec => []SdkIsUnderstood
<1>1. SdkIsUnderstood
  <2>1. Misunderstood = {}
    BY Understood DEF Misunderstood
  <2> QED BY <2>1 DEF SdkIsUnderstood
<1> QED BY <1>1, PTL

-----------------------------------------------------------------------------
(* The SDK's users among the program's.                                    *)

\* What is executed for a request is an instruction of the ledger's.
LEMMA CallIsAllowed ==
  ASSUME NEW r \in Requests, NEW c \in Received[r], Call(c)
  PROVE  Next
<1>0. c = Meant(r)
  BY Understood
<1>1. CASE r \in Creations /\ r.what = "create"
  <2>1. c = [call |-> "create_market", m |-> <<r.by, r.nonce>>, params |-> ParamsOf(r.args)]
    BY <1>0, <1>1 DEF Meant
  <2>2. r.by \in Creators /\ r.nonce \in Nonces /\ ParamsOf(r.args) \in Params
    BY <1>1, CallersAssumption DEF Creations
  <2>3. CreateMarket(r.by, r.nonce, ParamsOf(r.args))
    BY <2>1 DEF Call
  <2> QED BY <2>2, <2>3 DEF Next
<1>2. CASE r \in Stakes /\ r.what = "stake"
  <2>1. c = [call |-> "place_position", bettor |-> r.by, m |-> r.m,
             side |-> IF r.side = "YES" THEN SIDE_YES ELSE SIDE_NO,
             amount |-> BaseUnits(r.amount)]
    BY <1>0, <1>2 DEF Meant
  <2>2. /\ r.by \in Bettors /\ r.m \in Markets /\ c.side \in 0..2
        /\ BaseUnits(r.amount) \in Amounts
    <3>1. r.by \in Bettors /\ r.m \in Markets /\ r.amount \in Typed /\ c.side \in 0..2
      BY <1>2, <2>1 DEF Stakes, SIDE_YES, SIDE_NO
    <3>2. parseUsdc(r.amount) \in Amounts /\ parseUsdc(r.amount) = BaseUnits(r.amount)
      BY <3>1, CallersAssumption, AmountsParsed
    <3> QED BY <3>1, <3>2
  <2>3. PlacePosition(r.by, r.m, c.side, BaseUnits(r.amount))
    BY <2>1 DEF Call
  <2> QED BY <2>2, <2>3 DEF Next
<1>3. CASE r \in Proofs /\ r.what = "settle"
  <2> DEFINE a  == StatOf(r.v, r.v.statToProve)
             b  == IF r.v.statToProve2 = NoStat THEN NoStat ELSE StatOf(r.v, r.v.statToProve2)
             op == IF r.v.statToProve2 = NoStat THEN NoOp ELSE Pascal(r.op)
  <2>1. c = [call |-> "settle", m |-> r.m, proof |-> [a |-> a, b |-> b, op |-> op]]
    BY <1>0, <1>3 DEF Meant, StatOf
  <2>2. r.m \in Markets /\ r.v \in Validations /\ r.op \in {"add", "subtract"}
    BY <1>3 DEF Proofs
  <2>3. a \in Attestable /\ b \in Attestable \cup {NoStat}
    BY <2>2, AnswersAreOfOneEvent
  <2>4. op \in BinaryOps \cup {NoOp}
    BY <2>2, PascalNames DEF BinaryOps
  <2> HIDE DEF a, b, op
  <2>5. Settle(r.m, a, b, op)
    BY <2>1 DEF Call
  <2> QED BY <2>2, <2>3, <2>4, <2>5 DEF Next, SettleAny
<1>4. CASE r \in Claims /\ r.what = "claim"
  <2>1. c = [call |-> "claim", claimant |-> r.by, m |-> r.m, pm |-> r.m, pb |-> r.by,
             dest |-> r.by]
    BY <1>0, <1>4 DEF Meant
  <2>2. r.by \in Bettors /\ r.m \in Markets
    BY <1>4 DEF Claims
  <2>3. Claim(r.by, r.m, r.m, r.by, r.m, r.by)
    BY <2>1 DEF Call
  <2> QED BY <2>2, <2>3 DEF Next, ClaimAny
<1>5. CASE r \in Voids /\ r.what = "void"
  <2>1. c = [call |-> "void_market", authority |-> r.by, m |-> r.m]
    BY <1>0, <1>5 DEF Meant
  <2>2. r.by \in Signers /\ r.m \in Markets
    BY <1>5 DEF Voids, Signers
  <2>3. VoidMarket(r.by, r.m)
    BY <2>1 DEF Call
  <2> QED BY <2>2, <2>3 DEF Next
<1> QED BY <1>1, <1>2, <1>3, <1>4, <1>5, RequestCases

LEMMA ClientStepIsAllowed == [ClientNext]_clientVars => [Next]_vars
<1>1. ASSUME ExecuteAny PROVE Next
  <2>1. PICK r \in Requests : \E c \in Received[r] : Call(c)
    BY <1>1 DEF ExecuteAny, Execute, Calls
  <2> QED BY <2>1, CallIsAllowed
<1>2. ASSUME Environment PROVE Next
  BY <1>2 DEF Environment, Next
<1>3. UNCHANGED clientVars => UNCHANGED vars
  BY DEF clientVars
<1> QED BY <1>1, <1>2, <1>3 DEF ClientNext

\* Users of the SDK do nothing on the ledger that FinalWhistle does not have, so
\* that what is proved of the ledger holds of them.
THEOREM SdkImplementsLedger == ClientSpec => Spec
<1>1. ClientInit => Init
  BY DEF ClientInit
<1> QED BY <1>1, ClientStepIsAllowed, PTL DEF ClientSpec, Spec

\* An escrow covers what its market owes, whoever else the SDK's users are.
COROLLARY SdkKeepsSolvent == ClientSpec => []Solvent
BY SdkImplementsLedger, AlwaysSolvent, PTL

\* A proof of what a market is about passes every check of settle.
LEMMA ProofIsServed ==
  ASSUME TypeOK, BooksBalance, NEW m \in Markets, NEW r \in Proofs, r.m = m,
         market[m].status = "Open", now >= market[m].params.close_ts,
         ProvesStatsOf(r, market[m].params)
  PROVE  \E c \in Received[r] :
           /\ c.call = "settle" /\ c.m = m
           /\ SettleAllowed(m, c.proof.a, c.proof.b, c.proof.op)
<1> DEFINE p == market[m].params
           s2 == r.v.statToProve2
           a == StatOf(r.v, r.v.statToProve)
           b == IF s2 = NoStat THEN NoStat ELSE StatOf(r.v, s2)
           op == IF s2 = NoStat THEN NoOp ELSE Pascal(r.op)
<1>1. r.v \in Validations /\ r.what = "settle" /\ r \in Requests
  BY DEF Proofs, Requests
<1>2. Received[r] = {[call |-> "settle", m |-> m, proof |-> [a |-> a, b |-> b, op |-> op]]}
  BY <1>1, Understood DEF Meant
<1>3. /\ a \in posted /\ a.fixture_id = p.fixture_id /\ a.key = p.stat_key
      /\ a.period = p.period
      /\ (s2 = NoStat) = (p.stat_key2 = NoStat)
  BY DEF ProvesStatsOf, StatOf
<1>4. ASSUME s2 # NoStat
      PROVE  /\ b \in posted /\ b.fixture_id = a.fixture_id /\ b.seq = a.seq
             /\ b.key = p.stat_key2 /\ b.period = p.period /\ op = p.op
  BY <1>4 DEF ProvesStatsOf, StatOf
<1>5. b # NoStat <=> s2 # NoStat
  <2>1. NoStat \notin Attestable
    BY InputAssumption
  <2> QED BY <1>4, <2>1 DEF TypeOK
<1>6. (p.stat_key2 # NoStat) = (p.op # NoOp)
  BY DEF BooksBalance, Books, ParamsAreChecked
<1>7. s2 = NoStat => op = NoOp
  OBVIOUS
<1> HIDE DEF a, b, op, s2
<1>8. Authentic(a, b)
  BY <1>3, <1>4, <1>5 DEF Authentic
<1>9. BoundToMarket(p, a, b, op)
  <2>1. CASE s2 = NoStat
    BY <1>3, <1>5, <1>6, <1>7, <2>1 DEF BoundToMarket
  <2>2. CASE s2 # NoStat
    BY <1>3, <1>4, <1>5, <1>6, <2>2 DEF BoundToMarket
  <2> QED BY <2>1, <2>2
<1>10. SplitOk(WinnersOf(market[m], SideProven(m, a, b, op)),
               LosersOf(market[m], SideProven(m, a, b, op)), p.fee_bps)
  <2>1. SideProven(m, a, b, op) \in {SIDE_YES, SIDE_NO}
    BY DEF SideProven
  <2> QED BY <2>1, BooksNeverRefuse DEF NobodyIsRefused
<1>11. SettleAllowed(m, a, b, op)
  BY <1>8, <1>9, <1>10 DEF SettleAllowed
<1> QED BY <1>2, <1>11

\* Whoever has an attested proof of a market's stats settles it through the SDK as
\* soon as its window closes, and whoever a market owes is paid: no state of the
\* ledger that its instructions lead to stands in the way, and nothing that the
\* clients put into a request does (instructions.ts, settle.rs, claim.rs).
THEOREM UsersAreAlwaysServed == ClientSpec => []UsersAreServed
<1>1. TypeOK /\ BooksBalance => UsersAreServed
  <2> SUFFICES ASSUME TypeOK, BooksBalance PROVE UsersAreServed
    OBVIOUS
  <2>1. ASSUME NEW m \in Markets, NEW r \in Claims, r.m = m, market[m].status \in Final,
               r.by \in Unclaimed(m), Owed(m)[r.by] > 0
        PROVE  \E c \in Received[r] :
                 /\ c.call = "claim" /\ ClaimAllowed(c.claimant, m, c.pm, c.pb, m)
                 /\ c.dest = r.by
    <3>1. r.what = "claim" /\ r \in Requests
      BY DEF Claims, Requests
    <3>2. Received[r] = {[call |-> "claim", claimant |-> r.by, m |-> m, pm |-> m,
                          pb |-> r.by, dest |-> r.by]}
      BY <2>1, <3>1, Understood DEF Meant
    <3>3. ClaimAllowed(r.by, m, m, r.by, m)
      BY <2>1, BooksNeverRefuse DEF NobodyIsRefused
    <3> QED BY <3>2, <3>3
  <2> QED BY <2>1, ProofIsServed DEF UsersAreServed
<1> QED BY <1>1, SdkImplementsLedger, TypeCorrect, BooksAlwaysBalance, PTL

-----------------------------------------------------------------------------
(* What the program asks the oracle.                                       *)

LEMMA OracleStructs ==
  /\ SameStructs(TxlineTypes)
  /\ TxlineTypes.TxTraderPredicate = OracleTypes.TxTraderPredicate
<1>1. /\ TxlineTypes["TxScoreStat"] = TxlineScores["TxScoreStat"]
      /\ TxlineTypes["TxScoresUpdateStats"] = TxlineScores["TxScoresUpdateStats"]
      /\ TxlineTypes["TxScoresBatchSummary"] = TxlineScores["TxScoresBatchSummary"]
      /\ TxlineTypes["TxStatTerm"] = TxlineTerms["TxStatTerm"]
      /\ TxlineTypes["TxTraderPredicate"] = TxlineTerms["TxTraderPredicate"]
  <2>1. /\ DOMAIN TxlineScores = {"TxScoreStat", "TxScoresUpdateStats", "TxScoresBatchSummary"}
        /\ DOMAIN TxlineTerms = {"TxStatTerm", "TxTraderPredicate"}
    BY DEF TxlineScores, TxlineTerms
  <2> QED BY <2>1 DEF TxlineTypes, Joined
<1>2. /\ TxlineScores["TxScoreStat"] = OracleTypes["TxScoreStat"]
      /\ TxlineScores["TxScoresUpdateStats"] = OracleTypes["TxScoresUpdateStats"]
      /\ TxlineScores["TxScoresBatchSummary"] = OracleTypes["TxScoresBatchSummary"]
      /\ TxlineTerms["TxStatTerm"] = OracleTypes["TxStatTerm"]
      /\ TxlineTerms["TxTraderPredicate"] = OracleTypes["TxTraderPredicate"]
  BY DEF TxlineScores, TxlineTerms, OracleTypes
<1> QED BY <1>1, <1>2 DEF SameStructs, StructNames

\* The arguments in the program's buffer are those that the oracle reads.
LEMMA ValidateStatFields ==
  /\ Distinct(ValidateStatArgs) /\ DOMAIN ValidateStatArgs = 1..8
  /\ TxlineValidateStat = ValidateStatArgs
  /\ IsProofList(ValidateStatArgs) /\ HasField(ValidateStatArgs, "predicate")
  /\ ValidateStatArgs[8].name = "op" /\ ValidateStatArgs[8].kind[2] = "TxBinaryExpression"
<1> DEFINE t == ValidateStatArgs
<1>1. /\ DOMAIN t = 1..8
      /\ t[1].name = "ts"              /\ t[1].kind[2] = "i64"
      /\ t[2].name = "fixture_summary" /\ t[2].kind[2] = "TxScoresBatchSummary"
      /\ t[3].name = "fixture_proof"   /\ t[4].name = "main_tree_proof"
      /\ t[5].name = "predicate"       /\ t[5].kind[2] = "TxTraderPredicate"
      /\ t[6].name = "stat_a"          /\ t[6].kind[2] = "TxStatTerm"
      /\ t[7].name = "stat_b"          /\ t[7].kind[2] = "TxStatTerm"
      /\ t[8].name = "op"              /\ t[8].kind[2] = "TxBinaryExpression"
  BY DEF ValidateStatArgs, Field, Opt, Vec
<1>2. TxlineValidateStat = t
  BY DEF ValidateStatArgs, TxlineValidateStat
<1> HIDE DEF t
<1>3. /\ "i64" \in PlainTypes /\ "TxScoresBatchSummary" \in PlainTypes
      /\ "TxTraderPredicate" \in PlainTypes /\ "TxStatTerm" \in PlainTypes
  BY DEF PlainTypes
<1>4. \A i \in 1..8 : \/ i = 1 \/ i = 2 \/ i = 3 \/ i = 4
                      \/ i = 5 \/ i = 6 \/ i = 7 \/ i = 8
  OBVIOUS
<1>5. \A i, j \in DOMAIN t : t[i].name = t[j].name => i = j
  BY <1>1, <1>4
<1>6. {1, 2, 5, 6, 7} \subseteq DOMAIN t /\ 8 \in Nat
  BY <1>1
<1>7. /\ HasField(t, "ts") /\ HasField(t, "fixture_summary") /\ HasField(t, "predicate")
      /\ HasField(t, "stat_a") /\ HasField(t, "stat_b")
  BY <1>1, <1>3, <1>6 DEF HasField
<1> QED BY <1>1, <1>2, <1>5, <1>6, <1>7 DEF t, Distinct, IsProofList

\* The predicate that the oracle reads is the one that the program wrote.
LEMMA PredicateIsRead ==
  ASSUME NEW params \in Params, NEW cells,
         cells = Encode(OracleTypes.TxTraderPredicate, OracleVariants, TraderPredicate(params))
  PROVE  /\ Fits(TxlineTypes.TxTraderPredicate, cells)
         /\ Decode(TxlineTypes.TxTraderPredicate, TxlineVariants, cells)
              = TraderPredicate(params)
<1> DEFINE t == OracleTypes.TxTraderPredicate
           rec == TraderPredicate(params)
           p == Decode(t, TxlineVariants, cells)
<1>0. t = <<Field("i32", "threshold"), Field("TxComparison", "comparison")>>
  BY DEF OracleTypes
<1>c. cells = Encode(t, OracleVariants, rec)
  OBVIOUS
<1> HIDE DEF t
<1>1. /\ DOMAIN t = 1..2
      /\ t[1].name = "threshold"  /\ t[1].kind[2] = "i32"
      /\ t[2].name = "comparison" /\ t[2].kind[2] = "TxComparison"
  BY <1>0 DEF Field
<1>2. Distinct(t)
  BY <1>1 DEF Distinct
<1>3. p["threshold"] = rec["threshold"]
  <2>1. "i32" \in PlainTypes /\ 1 \in DOMAIN t
    BY <1>1 DEF PlainTypes
  <2> HIDE DEF rec
  <2> QED BY <1>c, <1>1, <1>2, <2>1, DecodePlain, PlainVariants
<1>4. p["comparison"] = rec["comparison"]
  <2> DEFINE k == t[2].kind
             c == params.comparison
  <2>1. p["comparison"] = Named(TxlineVariants, k, Numbered(OracleVariants, k, c))
    <3>1. rec["comparison"] = c
      BY DEF TraderPredicate
    <3>2. 2 \in DOMAIN t
      BY <1>1
    <3> HIDE DEF rec
    <3> QED BY <1>c, <1>1, <1>2, <3>1, <3>2, DecodeField
  <2>2. c \in {"GreaterThan", "LessThan"}
    BY InputAssumption DEF ParamsType, Comparisons
  <2> DEFINE vs == <<"GreaterThan", "LessThan", "EqualTo">>
  <2>3. /\ OracleVariants["TxComparison"] = vs /\ TxlineVariants["TxComparison"] = vs
        /\ "TxComparison" \in DOMAIN OracleVariants /\ "TxComparison" \in DOMAIN TxlineVariants
    BY DEF OracleVariants, TxlineVariants
  <2>4. DOMAIN vs = 1..3 /\ vs[1] = "GreaterThan" /\ vs[2] = "LessThan" /\ vs[3] = "EqualTo"
    OBVIOUS
  <2>5. \A i \in 1..3 : i = 1 \/ i = 2 \/ i = 3
    OBVIOUS
  <2> HIDE DEF vs
  <2>6. c \in Range(vs) /\ (CHOOSE i \in DOMAIN vs : vs[i] = c) \in DOMAIN vs
        /\ vs[CHOOSE i \in DOMAIN vs : vs[i] = c] = c
    <3>1. \E i \in DOMAIN vs : vs[i] = c
      BY <2>2, <2>4
    <3> QED BY <3>1 DEF Range
  <2> HIDE DEF c
  <2>7. Numbered(OracleVariants, k, c) = CHOOSE i \in DOMAIN vs : vs[i] = c
    BY <1>1, <2>3, <2>6 DEF Numbered
  <2>8. Named(TxlineVariants, k, CHOOSE i \in DOMAIN vs : vs[i] = c) = c
    BY <1>1, <2>3, <2>6 DEF Named
  <2> QED BY <2>1, <2>7, <2>8 DEF c, TraderPredicate
<1>5. p = [n \in {"threshold", "comparison"} |-> rec[n]]
  <2>1. NamesOf(t) = {"threshold", "comparison"}
    <3>1. \A i \in 1..2 : i = 1 \/ i = 2
      OBVIOUS
    <3> QED BY <1>1, <3>1 DEF NamesOf
  <2>2. DOMAIN p = NamesOf(t) /\ p = [n \in NamesOf(t) |-> p[n]]
    BY DEF Decode
  <2> HIDE DEF p, rec
  <2> QED BY <1>3, <1>4, <2>1, <2>2
<1>6. rec = [n \in {"threshold", "comparison"} |-> rec[n]]
  BY DEF TraderPredicate
<1>7. Fits(t, cells)
  BY <1>1, EncodedFits DEF t
<1> QED BY <1>5, <1>6, <1>7, OracleStructs DEF t

LEMMA OracleAsked ==
  ASSUME NEW params \in Params, NEW v \in Validations, NEW op \in {"add", "subtract"},
         NEW p, p = [buildSettleProof(v, op) EXCEPT !.op = IF @ = NoOp THEN NoOp ELSE Pascal(@)]
  PROVE  OracleReads(OracleCells(params, p))
           = {[predicate |-> TraderPredicate(params),
               proof |-> [a  |-> StatOf(v, v.statToProve),
                          b  |-> IF v.statToProve2 = NoStat THEN NoStat
                                 ELSE StatOf(v, v.statToProve2),
                          op |-> IF v.statToProve2 = NoStat THEN NoOp ELSE Pascal(op)]]}
<1> DEFINE none == v.statToProve2 = NoStat
           summary == [fixture_id |-> v.fixtureId,
                       update_stats |-> [update_count |-> 1, min_timestamp |-> v.minTimestamp,
                                         max_timestamp |-> v.minTimestamp],
                       events_sub_tree_root |-> v.eventStatRoot]
           a == toStatTerm(v.statToProve, v.eventStatRoot)
           b == toStatTerm(v.statToProve2, v.eventStatRoot)
           pascal == IF none THEN NoOp ELSE Pascal(op)
           pred == Encode(OracleTypes.TxTraderPredicate, OracleVariants, TraderPredicate(params))
           T == OracleTypes
           V == OracleVariants
           w == WrittenProof(T, V, v, op)
<1>1. w.fixture_summary = SummaryCells(T, V, summary) /\ w.stat_a = StatCells(T, V, a)
      /\ w.stat_b = IF none THEN NoStat ELSE StatCells(T, V, b)
  BY DEF WrittenProof
<1>2. v.statToProve2 # NoStat => b # NoStat
  BY NoneAssumption
<1>3. buildSettleProof(v, op)
        = [ts |-> v.minTimestamp, fixture_summary |-> summary,
           fixture_proof |-> <<>>, main_tree_proof |-> <<>>, stat_a |-> a,
           stat_b |-> IF none THEN NoStat ELSE b, op |-> IF none THEN NoOp ELSE op]
  BY DEF buildSettleProof, toTxlineOp
<1>4. op # NoOp
  BY ClientAssumption
<1> HIDE DEF summary, a, b, pred, w, T, V
<1>5. p = [ts |-> v.minTimestamp, fixture_summary |-> summary,
           fixture_proof |-> <<>>, main_tree_proof |-> <<>>, stat_a |-> a,
           stat_b |-> IF none THEN NoStat ELSE b, op |-> pascal]
  <2>1. CASE none
    BY <1>3, <2>1
  <2>2. CASE ~none
    BY <1>3, <1>4, <2>2
  <2> QED BY <2>1, <2>2
<1> HIDE DEF pascal
<1> DEFINE q == Joined([predicate |-> pred], p)
           names == {"predicate", "ts", "fixture_summary", "fixture_proof", "main_tree_proof",
                     "stat_a", "stat_b", "op"}
<1>6. /\ DOMAIN q = names /\ q["predicate"] = pred /\ q["fixture_summary"] = summary
      /\ q["stat_a"] = a /\ q["stat_b"] = (IF none THEN NoStat ELSE b) /\ q["op"] = pascal
  <2> DEFINE f == [predicate |-> pred]
  <2>1. DOMAIN f = {"predicate"} /\ f["predicate"] = pred
    OBVIOUS
  <2>2. /\ DOMAIN p = names \ {"predicate"} /\ p["fixture_summary"] = summary
        /\ p["stat_a"] = a /\ p["op"] = pascal /\ p["stat_b"] = (IF none THEN NoStat ELSE b)
    BY <1>5
  <2>3. q = Joined(f, p)
    OBVIOUS
  <2> HIDE DEF f, q
  <2>4. /\ DOMAIN q = DOMAIN f \cup DOMAIN p /\ q["predicate"] = f["predicate"]
        /\ \A n \in DOMAIN p : n # "predicate" => q[n] = p[n]
    BY <2>1, <2>3 DEF Joined
  <2> QED BY <2>1, <2>2, <2>4
<1> DEFINE q1 == [q EXCEPT !.fixture_summary = SummaryCells(T, V, q.fixture_summary)]
           q2 == [q1 EXCEPT !.stat_a = StatCells(T, V, q.stat_a)]
           q3 == [q2 EXCEPT !.stat_b = IF q.stat_b = NoStat THEN NoStat
                                       ELSE StatCells(T, V, q.stat_b)]
           cells == OracleCells(params, p)
<1>7. cells = Encode(ValidateStatArgs, V, q3)
  BY DEF OracleCells, ProofCells, T, V, pred
<1> HIDE DEF q, cells
<1>8. /\ q3["predicate"] = pred /\ q3["fixture_summary"] = SummaryCells(T, V, summary)
      /\ q3["stat_a"] = StatCells(T, V, a) /\ q3["op"] = pascal
      /\ q3["stat_b"] = IF none THEN NoStat ELSE StatCells(T, V, b)
  <2>1. /\ DOMAIN q1 = names /\ q1["fixture_summary"] = SummaryCells(T, V, summary)
        /\ q1["predicate"] = pred /\ q1["op"] = pascal
    BY <1>6
  <2> HIDE DEF q1
  <2>2. /\ DOMAIN q2 = names /\ q2["fixture_summary"] = SummaryCells(T, V, summary)
        /\ q2["predicate"] = pred /\ q2["op"] = pascal /\ q2["stat_a"] = StatCells(T, V, a)
    BY <1>6, <2>1
  <2> HIDE DEF q2
  <2>3. (IF q.stat_b = NoStat THEN NoStat ELSE StatCells(T, V, q.stat_b))
          = IF none THEN NoStat ELSE StatCells(T, V, b)
    BY <1>2, <1>6
  <2> QED BY <2>2, <2>3
<1> HIDE DEF q3
<1> DEFINE F == ValidateStatArgs
           W == TxlineVariants
           read == Decode(F, W, cells)
<1>9. SameStructs(T) /\ SameStructs(TxlineTypes) /\ Plain(V) /\ Plain(W)
  BY IdlStructs, OracleStructs, PlainVariants DEF T, V
<1>10. /\ ProofFits(F, TxlineTypes, cells)
       /\ ProofRead(F, TxlineTypes, W, cells)
            = [a  |-> StatOf(v, v.statToProve),
               b  |-> IF v.statToProve2 = NoStat THEN NoStat ELSE StatOf(v, v.statToProve2),
               op |-> read.op]
  <2>1. /\ q3.fixture_summary = w.fixture_summary /\ q3.stat_a = w.stat_a
        /\ q3.stat_b = w.stat_b
    BY <1>1, <1>8
  <2> QED BY <1>7, <1>9, <2>1, ProofIsRead, ValidateStatFields DEF w
<1>11. read["predicate"] = pred
  BY <1>7, <1>8, <1>9, FieldIsRead, ValidateStatFields
<1>12. read["op"] = pascal
  <2> DEFINE k == F[8].kind
  <2>1. read["op"] = Named(W, k, Numbered(V, k, q3["op"]))
    BY <1>7, ValidateStatFields, DecodeField
  <2>2. k[2] = "TxBinaryExpression"
    BY ValidateStatFields
  <2>3. /\ V["TxBinaryExpression"] = <<"Add", "Subtract">>
        /\ W["TxBinaryExpression"] = <<"Add", "Subtract">>
        /\ "TxBinaryExpression" \in DOMAIN V /\ "TxBinaryExpression" \in DOMAIN W
    BY DEF V, OracleVariants, TxlineVariants
  <2> HIDE DEF k
  <2>4. /\ Named(W, k, Numbered(V, k, "Add")) = "Add"
        /\ Named(W, k, Numbered(V, k, "Subtract")) = "Subtract"
    BY <2>2, <2>3, VariantRead
  <2>5. Named(W, k, Numbered(V, k, NoOp)) = NoOp
    <3>1. NoOp \notin {"Add", "Subtract"} /\ NoOp \notin 1..2
      BY ClientAssumption DEF BinaryOps
    <3>2. NoOp \notin Range(V[k[2]]) /\ NoOp \notin DOMAIN W[k[2]]
      BY <2>2, <2>3, <3>1 DEF Range
    <3> QED BY <3>2, NoVariantRead
  <2> QED BY <1>8, <2>1, <2>4, <2>5, PascalNames DEF pascal
<1>13. /\ Fits(TxlineTypes.TxTraderPredicate, pred)
       /\ Decode(TxlineTypes.TxTraderPredicate, TxlineVariants, pred) = TraderPredicate(params)
  BY PredicateIsRead DEF pred
<1> HIDE DEF read
<1>14. OracleReads(cells)
         = {[predicate |-> TraderPredicate(params), proof |-> ProofRead(F, TxlineTypes, W, cells)]}
  <2>1. Decode(F, W, cells).predicate = pred
    BY <1>11 DEF read
  <2> QED BY <1>10, <1>13, <2>1, ValidateStatFields DEF OracleReads
<1> QED BY <1>10, <1>12, <1>14 DEF cells, pascal

\* For whatever parameters a market was made with and whatever proof is given of
\* it, the arguments that the program writes by hand are read by the oracle as
\* that market's predicate and the proof's stats (oracle.rs:101-118, settle.rs
\* against idl/txoracle.ts).
THEOREM OracleAlwaysAskedRightly == ClientSpec => []OracleIsAskedRightly
<1>1. ASSUME NEW y \in Params \X Proofs,
             NEW p, p = buildSettleProof(y[2].v, y[2].op),
             NEW q, q = [p EXCEPT !.op = IF @ = NoOp THEN NoOp ELSE Pascal(@)]
      PROVE  OracleReads(OracleCells(y[1], q))
               = {[predicate |-> TraderPredicate(y[1]), proof |-> Meant(y[2]).proof]}
  <2> DEFINE r == y[2]
  <2>1. /\ y[1] \in Params /\ r \in Proofs /\ r.what = "settle"
        /\ r.v \in Validations /\ r.op \in {"add", "subtract"}
    BY DEF Proofs
  <2>2. Meant(r).proof
          = [a  |-> StatOf(r.v, r.v.statToProve),
             b  |-> IF r.v.statToProve2 = NoStat THEN NoStat ELSE StatOf(r.v, r.v.statToProve2),
             op |-> IF r.v.statToProve2 = NoStat THEN NoOp ELSE Pascal(r.op)]
    BY <2>1 DEF Meant, StatOf
  <2> QED BY <1>1, <2>1, <2>2, OracleAsked
<1>2. AskedWrongly = {}
  BY <1>1 DEF AskedWrongly
<1>3. OracleIsAskedRightly
  BY <1>2 DEF OracleIsAskedRightly
<1> QED BY <1>3, PTL
=============================================================================
