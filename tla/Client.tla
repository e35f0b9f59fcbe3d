------------------------------- MODULE Client -------------------------------
(***************************************************************************)
(* What the clients' SDK (packages/sdk) puts between its callers and the   *)
(* ledger.  Going there, a request is built into an instruction, whose     *)
(* accounts and arguments the program takes for what its own lists say     *)
(* (module Wire), checks, and acts on: the actions of FinalWhistle.  Coming *)
(* back, an account is written by the program's list and read by the IDL's. *)
(*                                                                         *)
(* Addresses are tuples: two derivations are equal when their seeds are.   *)
(* A JavaScript number that a user may type is given in halves, so that a  *)
(* fraction can be told from an integer.                                   *)
(***************************************************************************)
EXTENDS FinalWhistle, Wire, Usdc

CONSTANTS
  Mint, MintProgram,  (* the collateral, and the token program that owns it *)
  CreateArgs,         (* what callers ask of buildCreateMarketIx            *)
  Typed,              (* the amounts that users type                        *)
  Settler,            (* whoever submits proofs                             *)
  NoMarket,
  MsPerDay,
  MinTimestamp        (* when the oracle's events happened, in ms           *)

CreateArgsType ==
  [fixtureId : Int, seq : Int, statKey : Int, statKey2 : Int \cup {NoStat},
   op : {"add", "subtract", NoOp}, period : Int, threshold : Int,
   comparison : {"greaterThan", "lessThan"}, closeTs : Int, feeBps : Nat, title : Nat]

ASSUME ClientAssumption ==
  /\ NoMarket \notin Markets
  /\ CreateArgs \subseteq CreateArgsType
  /\ MsPerDay \in Nat \ {0} /\ MinTimestamp \in Nat
  /\ NoOp \notin Nat \cup BinaryOps \cup {"add", "subtract"}

VARIABLE
  provenBy    (* provenBy[m]: the seq of the event that settled m           *)

ClientInit == Init /\ provenBy = [m \in Markets |-> NoStat]

-----------------------------------------------------------------------------
(* Addresses: program.ts, tokens.ts.                                       *)

MarketPda(creator, nonce)   == <<"market", creator, nonce>>
EscrowPda(marketKey)        == <<"escrow", marketKey>>
PositionPda(marketKey, key) == <<"position", marketKey, key>>
TreasuryPda                 == <<"treasury">>
DailyScoresPda(epochDay)    == <<"daily_scores_roots", epochDay>>

Ata(mint, owner, tokenProgram) == <<"ata", mint, owner, tokenProgram>>

TOKEN_PROGRAM_ID  == <<"program", "token">>
SystemProgram     == <<"program", "system">>
AtaProgram        == <<"program", "associated_token">>
TXLINE_PROGRAM_ID == <<"program", "txline">>

KeyOf(m) == MarketPda(m[1], m[2])

\* The token account that FinalWhistle names by its holder.
TokenAccount(holder) ==
  IF holder \in Markets THEN EscrowPda(KeyOf(holder))
  ELSE Ata(Mint, IF holder = Treasury THEN TreasuryPda ELSE holder, MintProgram)

-----------------------------------------------------------------------------
(* Names of variants: PascalCase in the IDL, camelCase in the clients.     *)

Camel ==
  [GreaterThan |-> "greaterThan", LessThan |-> "lessThan", Add |-> "add",
   Subtract |-> "subtract", Open |-> "open", Resolved |-> "resolved",
   Voided |-> "voided"]

Pascal(name) == CHOOSE n \in DOMAIN Camel : Camel[n] = name

\* Anchor's client reads the IDL in camelCase.
CamelVariants ==
  [t \in DOMAIN IdlVariants |->
     [i \in DOMAIN IdlVariants[t] |-> Camel[IdlVariants[t][i]]]]

\* What is left of a JavaScript number, in halves, in an i32.
ToI32(halves) == IF halves >= 0 THEN halves \div 2 ELSE -((-halves) \div 2)

\* What the ledger stores of what a caller asks for.
ParamsOf(a) ==
  [fixture_id |-> a.fixtureId, seq |-> a.seq, stat_key |-> a.statKey,
   stat_key2 |-> a.statKey2, op |-> IF a.op = NoOp THEN NoOp ELSE Pascal(a.op),
   period |-> a.period, threshold |-> ToI32(a.threshold),
   comparison |-> Pascal(a.comparison), close_ts |-> a.closeTs, fee_bps |-> a.feeBps,
   title |-> a.title]

\* Every caller's market, and every stake, is one that the ledger's inputs include,
\* and the mint is a classic one, since no caller names another token program.  A derived address
\* is nobody's key.
ASSUME CallersAssumption ==
  /\ {ParamsOf(a) : a \in CreateArgs} \subseteq Params
  /\ Typed \subseteq Numeral /\ {parseUsdc(n) : n \in Typed} \subseteq Amounts
  /\ MintProgram = TOKEN_PROGRAM_ID
  /\ TreasuryPda \notin Bettors

toTxlineComparison(comparison) ==
  IF comparison = "greaterThan" THEN "greaterThan" ELSE "lessThan"

toTxlineOp(op) == IF op = "add" THEN "add" ELSE "subtract"

\* Mutant of enumKey: the name as the coder returns it.
enumKeyRaw(name) == name

enumKey(name) == Camel[name]

-----------------------------------------------------------------------------
(* A proof of the oracle's feed, and what the SDK makes of it: txline.ts.  *)

\* The answer about one stat of an event, or two.  The Merkle nodes are left
\* out; the root of an event's stats stands for the event.
Validation(a, b) ==
  [statToProve   |-> [key |-> a.key, value |-> a.value, period |-> a.period],
   statToProve2  |-> IF b = NoStat THEN NoStat
                     ELSE [key |-> b.key, value |-> b.value, period |-> b.period],
   eventStatRoot |-> <<a.fixture_id, a.seq>>,
   fixtureId     |-> a.fixture_id,
   minTimestamp  |-> MinTimestamp]

Validations ==
  {Validation(a, b) : a \in Attestable, b \in {NoStat}} \cup
  {Validation(ab[1], ab[2]) : ab \in
     {p \in Attestable \X Attestable : /\ p[1].fixture_id = p[2].fixture_id
                                       /\ p[1].seq = p[2].seq}}

toStatTerm(stat, eventStatRoot) ==
  [stat_to_prove |-> stat, event_stat_root |-> eventStatRoot, stat_proof |-> <<>>]

buildSettleProof(v, op) ==
  [ts |-> v.minTimestamp,
   fixture_summary |->
     [fixture_id |-> v.fixtureId,
      update_stats |-> [update_count |-> 1, min_timestamp |-> v.minTimestamp,
                        max_timestamp |-> v.minTimestamp],
      events_sub_tree_root |-> v.eventStatRoot],
   fixture_proof |-> <<>>, main_tree_proof |-> <<>>,
   stat_a |-> toStatTerm(v.statToProve, v.eventStatRoot),
   stat_b |-> IF v.statToProve2 = NoStat THEN NoStat
              ELSE toStatTerm(v.statToProve2, v.eventStatRoot),
   op |-> IF v.statToProve2 = NoStat THEN NoOp ELSE toTxlineOp(op)]

epochDayForValidation(v) == v.minTimestamp \div MsPerDay

\* The structs in a proof are written and read by lists of their own.
StatCells(types, variants, term) ==
  Encode(types.TxStatTerm, variants,
    [term EXCEPT !.stat_to_prove = Encode(types.TxScoreStat, variants, @)])

SummaryCells(types, variants, summary) ==
  Encode(types.TxScoresBatchSummary, variants,
    [summary EXCEPT !.update_stats = Encode(types.TxScoresUpdateStats, variants, @)])

ProofCells(fields, types, variants, proof) ==
  Encode(fields, variants,
    [proof EXCEPT !.fixture_summary = SummaryCells(types, variants, @),
                  !.stat_a = StatCells(types, variants, @),
                  !.stat_b = IF @ = NoStat THEN NoStat ELSE StatCells(types, variants, @)])

StatFits(types, cells) ==
  /\ Fits(types.TxStatTerm, cells)
  /\ Fits(types.TxScoreStat, cells[PlaceOf(types.TxStatTerm, "stat_to_prove")].raw)

ProofFits(fields, types, cells) ==
  LET At(name) == cells[PlaceOf(fields, name)].raw IN
  /\ Fits(fields, cells)
  /\ Fits(types.TxScoresBatchSummary, At("fixture_summary"))
  /\ StatFits(types, At("stat_a"))
  /\ At("stat_b") # NoStat => StatFits(types, At("stat_b"))

\* The stat of an event that a term names.
StatRead(types, variants, fixture, cells) ==
  LET term == Decode(types.TxStatTerm, variants, cells)
      stat == Decode(types.TxScoreStat, variants, term.stat_to_prove)
  IN [fixture_id |-> fixture, seq |-> term.event_stat_root[2], key |-> stat.key,
      period |-> stat.period, value |-> stat.value]

ProofRead(fields, types, variants, cells) ==
  LET p == Decode(fields, variants, cells)
      f == Decode(types.TxScoresBatchSummary, variants, p.fixture_summary).fixture_id
  IN [a  |-> StatRead(types, variants, f, p.stat_a),
      b  |-> IF p.stat_b = NoStat THEN NoStat ELSE StatRead(types, variants, f, p.stat_b),
      op |-> p.op]

\* None is none of the stats that a proof may have beside the first.
ASSUME NoneAssumption ==
  \A v \in Validations : v.statToProve2 # NoStat =>
    /\ toStatTerm(v.statToProve2, v.eventStatRoot) # NoStat
    /\ StatCells(IdlOracleTypes, CamelVariants,
                 toStatTerm(v.statToProve2, v.eventStatRoot)) # NoStat

-----------------------------------------------------------------------------
(* Instructions: instructions.ts.  The callers leave the token program out, *)
(* so it is the classic one.                                               *)

Instruction(name, keys, args) ==
  [name  |-> name,
   metas |-> Metas(Idl[name].accounts, keys),
   cells |-> Encode(Idl[name].args, CamelVariants, args)]

buildCreateMarketIx(creator, usdcMint, nonce, a) ==
  LET key == MarketPda(creator, nonce) IN
  Instruction("create_market",
    [creator |-> creator, usdc_mint |-> usdcMint, market |-> key,
     escrow |-> EscrowPda(key), token_program |-> TOKEN_PROGRAM_ID,
     system_program |-> SystemProgram],
    [nonce |-> nonce,
     params |-> Encode(IdlCreateMarketParams, CamelVariants,
       [fixture_id |-> a.fixtureId, seq |-> a.seq, stat_key |-> a.statKey,
        stat_key2 |-> a.statKey2, op |-> IF a.op = NoOp THEN NoOp ELSE toTxlineOp(a.op),
        period |-> a.period, threshold |-> ToI32(a.threshold),
        comparison |-> toTxlineComparison(a.comparison), close_ts |-> a.closeTs,
        fee_bps |-> a.feeBps, title |-> a.title])])

\* Mutant of buildPlacePositionIx: the sides as the places in a list.
buildPlacePositionIxFromZero(bettor, key, usdcMint, side, amount) ==
  Instruction("place_position",
    [bettor |-> bettor, market |-> key, position |-> PositionPda(key, bettor),
     bettor_usdc |-> Ata(usdcMint, bettor, TOKEN_PROGRAM_ID),
     escrow |-> EscrowPda(key), usdc_mint |-> usdcMint,
     token_program |-> TOKEN_PROGRAM_ID, system_program |-> SystemProgram],
    [side |-> IF side = "YES" THEN 0 ELSE 1, amount |-> amount])

buildPlacePositionIx(bettor, key, usdcMint, side, amount) ==
  Instruction("place_position",
    [bettor |-> bettor, market |-> key, position |-> PositionPda(key, bettor),
     bettor_usdc |-> Ata(usdcMint, bettor, TOKEN_PROGRAM_ID),
     escrow |-> EscrowPda(key), usdc_mint |-> usdcMint,
     token_program |-> TOKEN_PROGRAM_ID, system_program |-> SystemProgram],
    [side |-> IF side = "YES" THEN 1 ELSE 2, amount |-> amount])

buildSettleIx(settler, key, usdcMint, roots, proof) ==
  Instruction("settle",
    [settler |-> settler, market |-> key, escrow |-> EscrowPda(key),
     daily_scores_merkle_roots |-> roots, txline_program |-> TXLINE_PROGRAM_ID,
     treasury |-> TreasuryPda,
     treasury_usdc |-> Ata(usdcMint, TreasuryPda, TOKEN_PROGRAM_ID),
     usdc_mint |-> usdcMint, token_program |-> TOKEN_PROGRAM_ID,
     associated_token_program |-> AtaProgram, system_program |-> SystemProgram],
    [proof |-> ProofCells(IdlSettleProof, IdlOracleTypes, CamelVariants, proof)])

buildClaimIx(claimant, key, owner, usdcMint) ==
  Instruction("claim",
    [claimant |-> claimant, market |-> key, position |-> PositionPda(key, owner),
     owner |-> owner, escrow |-> EscrowPda(key),
     claimant_usdc |-> Ata(usdcMint, claimant, TOKEN_PROGRAM_ID),
     usdc_mint |-> usdcMint, token_program |-> TOKEN_PROGRAM_ID],
    <<>>)

buildVoidMarketIx(authority, key) ==
  Instruction("void_market", [authority |-> authority, market |-> key], <<>>)

-----------------------------------------------------------------------------
(* What the program takes an instruction for: the calls of a handler, one  *)
(* or, when an account or the data is refused, none.                       *)

\* has_one = usdc_mint, has_one = escrow, and the mint's token program.
OfMarket(m, a) ==
  /\ a.market = KeyOf(m) /\ a.escrow = EscrowPda(a.market)
  /\ a.usdc_mint = Mint /\ a.token_program = MintProgram

AsCreateMarket(a, arg) ==
  {[call |-> "create_market", m |-> m,
    params |-> Decode(CreateMarketParams, Variants, arg.params)] :
     m \in {x \in Markets : /\ Fits(CreateMarketParams, arg.params)
                            /\ x = <<a.creator, arg.nonce>>
                            /\ OfMarket(x, a)
                            /\ a.system_program = SystemProgram}}

AsPlacePosition(a, arg) ==
  {[call |-> "place_position", bettor |-> a.bettor, m |-> m, side |-> arg.side,
    amount |-> arg.amount] :
     m \in {x \in Markets : /\ OfMarket(x, a)
                            /\ a.position = PositionPda(a.market, a.bettor)
                            /\ a.bettor_usdc = TokenAccount(a.bettor)
                            /\ a.system_program = SystemProgram}}

\* The oracle checks that the roots are those of the proof's day.
AsSettle(a, arg) ==
  {[call |-> "settle", m |-> m,
    proof |-> ProofRead(SettleProof, OracleTypes, OracleVariants, arg.proof)] :
     m \in {x \in Markets :
            /\ ProofFits(SettleProof, OracleTypes, arg.proof)
            /\ OfMarket(x, a)
            /\ a.txline_program = TXLINE_PROGRAM_ID
            /\ a.daily_scores_merkle_roots =
                 DailyScoresPda(Decode(SettleProof, Variants, arg.proof).ts \div MsPerDay)
            /\ a.treasury = TreasuryPda /\ a.treasury_usdc = TokenAccount(Treasury)
            /\ a.associated_token_program = AtaProgram
            /\ a.system_program = SystemProgram}}

\* The owner is compared with the position's, which is the key it was made for.
AsClaim(a) ==
  {[call |-> "claim", claimant |-> a.claimant, m |-> k[1], pm |-> k[2], pb |-> k[3],
    dest |-> k[4]] :
     k \in {x \in Markets \X Markets \X Bettors \X Accounts :
            /\ OfMarket(x[1], a)
            /\ a.position = PositionPda(KeyOf(x[2]), x[3]) /\ a.owner = x[3]
            /\ a.claimant_usdc = TokenAccount(x[4])}}

AsVoidMarket(a) ==
  {[call |-> "void_market", authority |-> a.authority, m |-> m] :
     m \in {x \in Markets : a.market = KeyOf(x)}}

Receive(ix) ==
  LET h   == Handlers[ix.name]
      a   == Taken(h.accounts, ix.metas)
      arg == Decode(h.args, Variants, ix.cells)
  IN IF ~(Admits(h.accounts, ix.metas) /\ Fits(h.args, ix.cells)) THEN {}
     ELSE CASE ix.name = "create_market"  -> AsCreateMarket(a, arg)
            [] ix.name = "place_position" -> AsPlacePosition(a, arg)
            [] ix.name = "settle"         -> AsSettle(a, arg)
            [] ix.name = "claim"          -> AsClaim(a)
            [] ix.name = "void_market"    -> AsVoidMarket(a)

-----------------------------------------------------------------------------
(* Requests of the clients' users.                                         *)

Creations == [what : {"create"}, by : Creators, nonce : Nonces, args : CreateArgs]
Stakes    == [what : {"stake"}, by : Bettors, m : Markets, side : {"YES", "NO"},
              amount : Typed]
Proofs    == [what : {"settle"}, m : Markets, v : Validations, op : {"add", "subtract"}]
Claims    == [what : {"claim"}, by : Bettors, m : Markets]
Voids     == [what : {"void"}, by : Creators, m : Markets]
Requests  == Creations \cup Stakes \cup Proofs \cup Claims \cup Voids

Built(r) ==
  CASE r.what = "create" -> buildCreateMarketIx(r.by, Mint, r.nonce, r.args)
    [] r.what = "stake"  -> buildPlacePositionIx(r.by, KeyOf(r.m), Mint, r.side,
                                             parseUsdc(r.amount))
    [] r.what = "settle" -> buildSettleIx(Settler, KeyOf(r.m), Mint,
                              DailyScoresPda(epochDayForValidation(r.v)),
                              buildSettleProof(r.v, r.op))
    [] r.what = "claim"  -> buildClaimIx(r.by, KeyOf(r.m), r.by, Mint)
    [] r.what = "void"   -> buildVoidMarketIx(r.by, KeyOf(r.m))

Received == [r \in Requests |-> Receive(Built(r))]

Call(c) ==
  \/ /\ c.call = "create_market"
     /\ CreateMarket(c.m[1], c.m[2], c.params) /\ UNCHANGED provenBy
  \/ /\ c.call = "place_position"
     /\ PlacePosition(c.bettor, c.m, c.side, c.amount) /\ UNCHANGED provenBy
  \/ /\ c.call = "settle"
     /\ Settle(c.m, c.proof.a, c.proof.b, c.proof.op)
     /\ provenBy' = [provenBy EXCEPT ![c.m] = c.proof.a.seq]
  \/ /\ c.call = "claim"
     /\ Claim(c.claimant, c.m, c.pm, c.pb, c.m, c.dest) /\ UNCHANGED provenBy
  \/ /\ c.call = "void_market"
     /\ VoidMarket(c.authority, c.m) /\ UNCHANGED provenBy

\* An instruction is executed.
Execute(calls) == \E c \in calls : Call(c)

\* One of whatever request of whatever user.
Calls == UNION {Received[r] : r \in Requests}

ExecuteAny == Execute(Calls)

Environment ==
  /\ Tick \/ \E stat \in Attestable : Post(stat)
  /\ UNCHANGED provenBy

ClientNext == ExecuteAny \/ Environment

clientVars == <<vars, provenBy>>

ClientSpec == ClientInit /\ [][ClientNext]_clientVars

(***************************************************************************)
(* Fairness.  The clock runs, the oracle posts what it has attested, and   *)
(* settle is permissionless, so that somebody (the keeper's cron) submits  *)
(* an authentic proof for as long as one settles the market.  A bettor     *)
(* owed something keeps submitting the claim that the clients build.       *)
(***************************************************************************)
SettleAnyhow(m) == \E c \in Calls : c.call = "settle" /\ c.m = m /\ Call(c)
ClaimOwn(b, m)  == \E c \in Calls : c.call = "claim" /\ c.m = m /\ c.pb = b /\ Call(c)

FairSpec ==
  /\ ClientSpec
  /\ WF_clientVars(Tick /\ UNCHANGED provenBy)
  /\ \A stat \in Attestable : WF_clientVars(Post(stat) /\ UNCHANGED provenBy)
  /\ \A m \in Markets : WF_clientVars(SettleAnyhow(m))
  /\ \A m \in Markets, b \in Bettors : WF_clientVars(ClaimOwn(b, m))

-----------------------------------------------------------------------------
(* What the program asks the oracle: settle.rs, oracle.rs.                 *)

TraderPredicate(params) ==
  [threshold |-> params.threshold, comparison |-> params.comparison]

OracleCells(params, proof) ==
  ProofCells(ValidateStatArgs, OracleTypes, OracleVariants,
    Joined([predicate |-> Encode(OracleTypes.TxTraderPredicate, OracleVariants,
                                 TraderPredicate(params))], proof))

\* What the oracle reads of it: nothing, if it does not decode.
TxlineTypes == Joined(TxlineScores, TxlineTerms)

OracleReads(cells) ==
  IF ~ProofFits(TxlineValidateStat, TxlineTypes, cells) THEN {}
  ELSE LET p == Decode(TxlineValidateStat, TxlineVariants, cells).predicate IN
       IF ~Fits(TxlineTypes.TxTraderPredicate, p) THEN {}
       ELSE {[predicate |-> Decode(TxlineTypes.TxTraderPredicate, TxlineVariants, p),
              proof |-> ProofRead(TxlineValidateStat, TxlineTypes, TxlineVariants, cells)]}

-----------------------------------------------------------------------------
(* Reading accounts: accounts.ts.                                          *)

AccountOf(m) ==
  Joined(Joined(market[m].params, market[m]),
    [authority |-> m[1], nonce |-> m[2], usdc_mint |-> Mint, escrow |-> EscrowPda(KeyOf(m)),
     settle_slot |-> market[m].settle_ts, bump |-> 255, escrow_bump |-> 255])

\* decode: none, if the bytes were not written as the IDL reads them.
decodeMarket(cells) ==
  LET fields == IdlMarketConfig \o IdlMarketLifecycle IN
  IF Fits(fields, cells) THEN {Decode(fields, IdlVariants, cells)} ELSE {}

\* MarketAccount of a market that is on the ledger.
fetchMarket(m) ==
  IF market[m].status = "Absent" THEN {}
  ELSE decodeMarket(Encode(MarketConfig \o MarketLifecycle, Variants, AccountOf(m)))

summarizeMarket(address, a) ==
  [address |-> address, authority |-> a.authority, status |-> enumKey(a.status),
   fixtureId |-> a.fixture_id, seq |-> a.seq, statKey |-> a.stat_key,
   statKey2 |-> a.stat_key2,
   op |-> IF a.op = NoOp THEN NoOp ELSE IF enumKey(a.op) = "add" THEN "add" ELSE "subtract",
   period |-> a.period, threshold |-> a.threshold,
   comparison |-> IF enumKey(a.comparison) = "greaterThan" THEN "greaterThan" ELSE "lessThan",
   closeTs |-> a.close_ts, yesPool |-> a.yes_pool, noPool |-> a.no_pool,
   feeBps |-> a.fee_bps, winningSide |-> a.winning_side]

\* GET /markets/:address; an account that does not decode is an error.
MarketView(m) == {summarizeMarket(KeyOf(m), a) : a \in fetchMarket(m)}

\* scanMarkets skips what does not decode as a market.
scanMarkets == UNION {MarketView(m) : m \in Markets}

\* Whether there is an account at a position's address.
PositionExists(key) ==
  \E m \in Markets, b \in Bettors :
    key = PositionPda(KeyOf(m), b) /\ position[m][b].market # NoKey

-----------------------------------------------------------------------------
(* Properties                                                              *)

\* The stat s of the event that the validation v is about.
StatOf(v, s) ==
  [fixture_id |-> v.fixtureId, seq |-> v.eventStatRoot[2], key |-> s.key,
   period |-> s.period, value |-> s.value]

\* What a request is meant to do on the ledger.
Meant(r) ==
  CASE r.what = "create" ->
         [call |-> "create_market", m |-> <<r.by, r.nonce>>,
          params |-> ParamsOf(r.args)]
    [] r.what = "stake" ->
         [call |-> "place_position", bettor |-> r.by, m |-> r.m,
          side |-> IF r.side = "YES" THEN SIDE_YES ELSE SIDE_NO,
          amount |-> BaseUnits(r.amount)]
    [] r.what = "settle" ->
         [call |-> "settle", m |-> r.m,
          proof |-> [a  |-> StatOf(r.v, r.v.statToProve),
                     b  |-> IF r.v.statToProve2 = NoStat THEN NoStat
                            ELSE StatOf(r.v, r.v.statToProve2),
                     op |-> IF r.v.statToProve2 = NoStat THEN NoOp ELSE Pascal(r.op)]]
    [] r.what = "claim" ->
         [call |-> "claim", claimant |-> r.by, m |-> r.m, pm |-> r.m, pb |-> r.by,
          dest |-> r.by]
    [] r.what = "void" -> [call |-> "void_market", authority |-> r.by, m |-> r.m]

\* What is meant by the requests that are refused or taken for something else.
Misunderstood == {Meant(r) : r \in {q \in Requests : Received[q] # {Meant(q)}}}

OnLedger(m) == market[m].status # "Absent"

\* The clients' copy of the IDL and the program's structs agree: a request about
\* any market there is reaches its handler with every account and argument in
\* its place, and none is refused for its accounts (instructions.ts against
\* instructions/*.rs).
SdkIsUnderstood ==
  \A c \in Misunderstood : c.call # "create_market" /\ ~OnLedger(c.m)

\* The parameters with which the oracle would, on some proof, be asked about
\* something else than their predicate of what the proof says.
AskedWrongly ==
  {x[1] : x \in
     {y \in Params \X Proofs :
        LET p == buildSettleProof(y[2].v, y[2].op) IN
        OracleReads(OracleCells(y[1], [p EXCEPT !.op = IF @ = NoOp THEN NoOp ELSE Pascal(@)]))
          # {[predicate |-> TraderPredicate(y[1]), proof |-> Meant(y[2]).proof]}}}

\* Whatever is proved about a market on the ledger, the oracle is asked about
\* that market's predicate and those stats: the arguments that oracle.rs writes
\* by hand are those that the oracle's own IDL reads.
OracleIsAskedRightly ==
  \A m \in Markets : OnLedger(m) => market[m].params \notin AskedWrongly

\* What the proof request r proves is attested, of the event and of the stats that a
\* market with parameters p names.
ProvesStatsOf(r, p) ==
  LET s1 == r.v.statToProve  s2 == r.v.statToProve2 IN
  /\ r.v.fixtureId = p.fixture_id /\ r.v.eventStatRoot = <<p.fixture_id, p.seq>>
  /\ s1.key = p.stat_key /\ s1.period = p.period /\ StatOf(r.v, s1) \in posted
  /\ (s2 = NoStat) = (p.stat_key2 = NoStat)
  /\ s2 # NoStat => /\ s2.key = p.stat_key2 /\ s2.period = p.period
                    /\ StatOf(r.v, s2) \in posted
                    /\ Pascal(r.op) = p.op

\* Users of the SDK are served: whoever has the proof that a market's predicate names
\* (state.rs:47-51) settles the market by it from the moment its window closes; and
\* whoever is owed something is paid for the asking (instructions.ts against
\* settle.rs and claim.rs).  What another event's proof does is CallerCannotBias's.
UsersAreServed ==
  \A m \in Markets :
    /\ market[m].status = "Open" /\ now >= market[m].params.close_ts =>
         \A r \in Proofs : r.m = m /\ ProvesStatsOf(r, market[m].params) =>
           \E c \in Received[r] :
             c.call = "settle" /\ c.m = m /\ SettleAllowed(m, c.proof.a, c.proof.b, c.proof.op)
    /\ market[m].status \in Final =>
         \A r \in Claims : r.m = m /\ r.by \in Unclaimed(m) /\ Owed(m)[r.by] > 0 =>
           \E c \in Received[r] :
             c.call = "claim" /\ ClaimAllowed(c.claimant, m, c.pm, c.pb, m) /\ c.dest = r.by
=============================================================================
