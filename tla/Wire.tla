-------------------------------- MODULE Wire --------------------------------
(***************************************************************************)
(* What goes over the wire between the clients, the program and the score  *)
(* oracle.  Anchor and Borsh send values without their names: an account   *)
(* or a field is known by its place in a list that sender and receiver     *)
(* each keep.  The clients' lists are the IDL that the repository holds a  *)
(* copy of (packages/shared/src/finalwhistle.idl.ts), the program's are    *)
(* its Rust structs; for the call into the oracle the program keeps a list *)
(* by hand (oracle.rs) and the oracle's is its own IDL (idl/txoracle.ts).  *)
(*                                                                         *)
(* A field keeps the source's name, in the casing of the Rust code.        *)
(***************************************************************************)
EXTENDS Naturals, Sequences, Functions

Field(type, name) == [name |-> name, kind |-> <<"one", type>>]
Opt(type, name)   == [name |-> name, kind |-> <<"option", type>>]
Vec(type, name)   == [name |-> name, kind |-> <<"vec", type>>]

Ro(name)     == [name |-> name, flags |-> {}]
Mut(name)    == [name |-> name, flags |-> {"mut"}]
Signer(name) == [name |-> name, flags |-> {"signer"}]
Payer(name)  == [name |-> name, flags |-> {"signer", "mut"}]

\* @@ of TLC, which the proofs cannot expand.
Joined(f, g) == [x \in DOMAIN f \cup DOMAIN g |-> IF x \in DOMAIN f THEN f[x] ELSE g[x]]

-----------------------------------------------------------------------------
(* The clients' side: the IDL.                                             *)

IdlClaim ==
  [accounts |-> <<Payer("claimant"), Mut("market"), Mut("position"), Ro("owner"),
     Mut("escrow"), Mut("claimant_usdc"), Ro("usdc_mint"), Ro("token_program")>>,
   args |-> <<>>]

IdlCreateMarket ==
  [accounts |-> <<Payer("creator"), Ro("usdc_mint"), Mut("market"), Mut("escrow"),
     Ro("token_program"), Ro("system_program")>>,
   args |-> <<Field("u64", "nonce"), Field("CreateMarketParams", "params")>>]

\* Mutant of IdlPlacePosition: a copy from before an account was moved.
IdlPlacePositionStale ==
  [accounts |-> <<Payer("bettor"), Mut("market"), Mut("position"), Mut("escrow"),
     Mut("bettor_usdc"), Ro("usdc_mint"), Ro("token_program"), Ro("system_program")>>,
   args |-> <<Field("u8", "side"), Field("u64", "amount")>>]

IdlPlacePosition ==
  [accounts |-> <<Payer("bettor"), Mut("market"), Mut("position"), Mut("bettor_usdc"),
     Mut("escrow"), Ro("usdc_mint"), Ro("token_program"), Ro("system_program")>>,
   args |-> <<Field("u8", "side"), Field("u64", "amount")>>]

IdlSettle ==
  [accounts |-> <<Payer("settler"), Mut("market"), Mut("escrow"),
     Ro("daily_scores_merkle_roots"), Ro("txline_program"), Ro("treasury"),
     Mut("treasury_usdc"), Ro("usdc_mint"), Ro("token_program"),
     Ro("associated_token_program"), Ro("system_program")>>,
   args |-> <<Field("SettleProof", "proof")>>]

IdlVoidMarket ==
  [accounts |-> <<Signer("authority"), Mut("market")>>, args |-> <<>>]

IdlVariants ==
  [BinaryOp           |-> <<"Add", "Subtract">>,
   Comparison         |-> <<"GreaterThan", "LessThan">>,
   MarketStatus       |-> <<"Open", "Resolved", "Voided">>,
   TxBinaryExpression |-> <<"Add", "Subtract">>]

\* Mutant of IdlCreateMarketParams: two fields of one type in the wrong order.
IdlCreateMarketParamsSwapped ==
  <<Field("i64", "fixture_id"), Field("u32", "seq"), Field("u32", "stat_key"),
    Opt("u32", "stat_key2"), Opt("BinaryOp", "op"),
    Field("i32", "threshold"), Field("i32", "period"),
    Field("Comparison", "comparison"), Field("i64", "close_ts"),
    Field("u16", "fee_bps"), Field("string", "title")>>

IdlCreateMarketParams ==
  <<Field("i64", "fixture_id"), Field("u32", "seq"), Field("u32", "stat_key"),
    Opt("u32", "stat_key2"), Opt("BinaryOp", "op"),
    Field("i32", "period"), Field("i32", "threshold"),
    Field("Comparison", "comparison"), Field("i64", "close_ts"),
    Field("u16", "fee_bps"), Field("string", "title")>>

IdlMarketConfig ==
  <<Field("pubkey", "authority"), Field("pubkey", "usdc_mint"), Field("pubkey", "escrow"),
    Field("u64", "nonce"), Field("i64", "fixture_id"), Field("u32", "seq"),
    Field("u32", "stat_key"), Opt("u32", "stat_key2"),
    Opt("BinaryOp", "op"), Field("i32", "period"), Field("i32", "threshold"),
    Field("Comparison", "comparison"), Field("i64", "close_ts")>>

IdlMarketLifecycle ==
  <<Field("u64", "yes_pool"), Field("u64", "no_pool"), Field("u16", "fee_bps"),
    Field("MarketStatus", "status"), Field("u8", "winning_side"),
    Field("i64", "settle_ts"), Field("u64", "settle_slot"), Field("u64", "fee_collected"),
    Field("u64", "total_payout_pool"), Field("u64", "total_claimed"), Field("u8", "bump"),
    Field("u8", "escrow_bump"), Field("string", "title")>>

IdlPosition ==
  <<Field("pubkey", "market"), Field("pubkey", "owner"), Field("u64", "yes_amount"),
    Field("u64", "no_amount"), Field("bool", "claimed"), Field("u8", "bump")>>

IdlSettleProof ==
  <<Field("i64", "ts"), Field("TxScoresBatchSummary", "fixture_summary"),
    Vec("TxProofNode", "fixture_proof"), Vec("TxProofNode", "main_tree_proof"),
    Field("TxStatTerm", "stat_a"), Opt("TxStatTerm", "stat_b"),
    Opt("TxBinaryExpression", "op")>>

IdlOracleTypes ==
  [TxScoreStat          |-> <<Field("u32", "key"), Field("i32", "value"), Field("i32", "period")>>,
   TxScoresUpdateStats  |-> <<Field("i32", "update_count"), Field("i64", "min_timestamp"),
                              Field("i64", "max_timestamp")>>,
   TxScoresBatchSummary |-> <<Field("i64", "fixture_id"),
                              Field("TxScoresUpdateStats", "update_stats"),
                              Field("[u8_32]", "events_sub_tree_root")>>,
   TxStatTerm           |-> <<Field("TxScoreStat", "stat_to_prove"),
                              Field("[u8_32]", "event_stat_root"),
                              Vec("TxProofNode", "stat_proof")>>]

Idl ==
  [claim |-> IdlClaim, create_market |-> IdlCreateMarket,
   place_position |-> IdlPlacePosition, settle |-> IdlSettle,
   void_market |-> IdlVoidMarket]

-----------------------------------------------------------------------------
(* The program's side: its Rust structs.                                   *)

ClaimAccounts ==
  <<Payer("claimant"), Mut("market"), Mut("position"), Ro("owner"), Mut("escrow"),
    Mut("claimant_usdc"), Ro("usdc_mint"), Ro("token_program")>>

CreateMarketAccounts ==
  <<Payer("creator"), Ro("usdc_mint"), Mut("market"), Mut("escrow"),
    Ro("token_program"), Ro("system_program")>>

PlacePositionAccounts ==
  <<Payer("bettor"), Mut("market"), Mut("position"), Mut("bettor_usdc"), Mut("escrow"),
    Ro("usdc_mint"), Ro("token_program"), Ro("system_program")>>

SettleAccounts ==
  <<Payer("settler"), Mut("market"), Mut("escrow"), Ro("daily_scores_merkle_roots"),
    Ro("txline_program"), Ro("treasury"), Mut("treasury_usdc"), Ro("usdc_mint"),
    Ro("token_program"), Ro("associated_token_program"), Ro("system_program")>>

VoidMarketAccounts == <<Signer("authority"), Mut("market")>>

Handlers ==
  [claim          |-> [accounts |-> ClaimAccounts, args |-> <<>>],
   create_market  |-> [accounts |-> CreateMarketAccounts,
     args |-> <<Field("u64", "nonce"), Field("CreateMarketParams", "params")>>],
   place_position |-> [accounts |-> PlacePositionAccounts,
     args |-> <<Field("u8", "side"), Field("u64", "amount")>>],
   settle         |-> [accounts |-> SettleAccounts,
     args |-> <<Field("SettleProof", "proof")>>],
   void_market    |-> [accounts |-> VoidMarketAccounts, args |-> <<>>]]

Variants ==
  [BinaryOp     |-> <<"Add", "Subtract">>,
   Comparison   |-> <<"GreaterThan", "LessThan">>,
   MarketStatus |-> <<"Open", "Resolved", "Voided">>]

CreateMarketParams ==
  <<Field("i64", "fixture_id"), Field("u32", "seq"), Field("u32", "stat_key"),
    Opt("u32", "stat_key2"), Opt("BinaryOp", "op"),
    Field("i32", "period"), Field("i32", "threshold"),
    Field("Comparison", "comparison"), Field("i64", "close_ts"),
    Field("u16", "fee_bps"), Field("string", "title")>>

MarketConfig ==
  <<Field("pubkey", "authority"), Field("pubkey", "usdc_mint"), Field("pubkey", "escrow"),
    Field("u64", "nonce"), Field("i64", "fixture_id"), Field("u32", "seq"),
    Field("u32", "stat_key"), Opt("u32", "stat_key2"),
    Opt("BinaryOp", "op"), Field("i32", "period"), Field("i32", "threshold"),
    Field("Comparison", "comparison"), Field("i64", "close_ts")>>

MarketLifecycle ==
  <<Field("u64", "yes_pool"), Field("u64", "no_pool"), Field("u16", "fee_bps"),
    Field("MarketStatus", "status"), Field("u8", "winning_side"),
    Field("i64", "settle_ts"), Field("u64", "settle_slot"), Field("u64", "fee_collected"),
    Field("u64", "total_payout_pool"), Field("u64", "total_claimed"), Field("u8", "bump"),
    Field("u8", "escrow_bump"), Field("string", "title")>>

SettleProof ==
  <<Field("i64", "ts"), Field("TxScoresBatchSummary", "fixture_summary"),
    Vec("TxProofNode", "fixture_proof"), Vec("TxProofNode", "main_tree_proof"),
    Field("TxStatTerm", "stat_a"), Opt("TxStatTerm", "stat_b"),
    Opt("TxBinaryExpression", "op")>>

OracleTypes ==
  [TxScoreStat          |-> <<Field("u32", "key"), Field("i32", "value"), Field("i32", "period")>>,
   TxScoresUpdateStats  |-> <<Field("i32", "update_count"), Field("i64", "min_timestamp"),
                              Field("i64", "max_timestamp")>>,
   TxScoresBatchSummary |-> <<Field("i64", "fixture_id"),
                              Field("TxScoresUpdateStats", "update_stats"),
                              Field("[u8_32]", "events_sub_tree_root")>>,
   TxTraderPredicate    |-> <<Field("i32", "threshold"), Field("TxComparison", "comparison")>>,
   TxStatTerm           |-> <<Field("TxScoreStat", "stat_to_prove"),
                              Field("[u8_32]", "event_stat_root"),
                              Vec("TxProofNode", "stat_proof")>>]

OracleVariants ==
  [TxComparison       |-> <<"GreaterThan", "LessThan", "EqualTo">>,
   TxBinaryExpression |-> <<"Add", "Subtract">>]

\* Mutant of ValidateStatArgs: the predicate is written after the stats.
ValidateStatArgsLatePredicate ==
  <<Field("i64", "ts"), Field("TxScoresBatchSummary", "fixture_summary"),
    Vec("TxProofNode", "fixture_proof"), Vec("TxProofNode", "main_tree_proof"),
    Field("TxStatTerm", "stat_a"), Opt("TxStatTerm", "stat_b"),
    Field("TxTraderPredicate", "predicate"), Opt("TxBinaryExpression", "op")>>

\* What cpi_validate_stat appends to its buffer, in order.
ValidateStatArgs ==
  <<Field("i64", "ts"), Field("TxScoresBatchSummary", "fixture_summary"),
    Vec("TxProofNode", "fixture_proof"), Vec("TxProofNode", "main_tree_proof"),
    Field("TxTraderPredicate", "predicate"), Field("TxStatTerm", "stat_a"),
    Opt("TxStatTerm", "stat_b"), Opt("TxBinaryExpression", "op")>>

-----------------------------------------------------------------------------
(* The oracle's side: its IDL.                                             *)

TxlineValidateStat ==
  <<Field("i64", "ts"), Field("TxScoresBatchSummary", "fixture_summary"),
    Vec("TxProofNode", "fixture_proof"), Vec("TxProofNode", "main_tree_proof"),
    Field("TxTraderPredicate", "predicate"), Field("TxStatTerm", "stat_a"),
    Opt("TxStatTerm", "stat_b"), Opt("TxBinaryExpression", "op")>>

TxlineVariants ==
  [TxBinaryExpression |-> <<"Add", "Subtract">>,
   TxComparison       |-> <<"GreaterThan", "LessThan", "EqualTo">>]

TxlineScores ==
  [TxScoreStat          |-> <<Field("u32", "key"), Field("i32", "value"), Field("i32", "period")>>,
   TxScoresBatchSummary |-> <<Field("i64", "fixture_id"),
                              Field("TxScoresUpdateStats", "update_stats"),
                              Field("[u8_32]", "events_sub_tree_root")>>,
   TxScoresUpdateStats  |-> <<Field("i32", "update_count"), Field("i64", "min_timestamp"),
                              Field("i64", "max_timestamp")>>]

TxlineTerms ==
  [TxStatTerm        |-> <<Field("TxScoreStat", "stat_to_prove"),
                           Field("[u8_32]", "event_stat_root"),
                           Vec("TxProofNode", "stat_proof")>>,
   TxTraderPredicate |-> <<Field("i32", "threshold"), Field("TxComparison", "comparison")>>]

-----------------------------------------------------------------------------
(* Values in place of bytes: a cell keeps what it is read as, but not the  *)
(* field's name; a variant of an enum is its number.                       *)

Numbered(variants, kind, value) ==
  IF kind[2] \in DOMAIN variants /\ value \in Range(variants[kind[2]])
    THEN CHOOSE i \in DOMAIN variants[kind[2]] : variants[kind[2]][i] = value
    ELSE value

Named(variants, kind, raw) ==
  IF kind[2] \in DOMAIN variants /\ raw \in DOMAIN variants[kind[2]]
    THEN variants[kind[2]][raw]
    ELSE raw

Encode(fields, variants, rec) ==
  [i \in DOMAIN fields |->
     [kind |-> fields[i].kind, raw |-> Numbered(variants, fields[i].kind, rec[fields[i].name])]]

\* Cells that were not written as these fields are read do not decode.
Fits(fields, cells) ==
  /\ Len(cells) = Len(fields)
  /\ \A i \in DOMAIN fields : cells[i].kind = fields[i].kind

NamesOf(table)        == {table[i].name : i \in DOMAIN table}
PlaceOf(table, name)  == CHOOSE i \in DOMAIN table : table[i].name = name

Decode(fields, variants, cells) ==
  [n \in NamesOf(fields) |->
     LET i == PlaceOf(fields, n) IN Named(variants, fields[i].kind, cells[i].raw)]

\* The metas of an instruction, and the accounts a handler takes them for.
Metas(accounts, keys) ==
  [i \in DOMAIN accounts |-> [key |-> keys[accounts[i].name], flags |-> accounts[i].flags]]

\* Anchor refuses too few accounts, and an account that is not writable or has
\* not signed where the struct says so.
Admits(accounts, metas) ==
  /\ Len(metas) = Len(accounts)
  /\ \A i \in DOMAIN accounts : accounts[i].flags \subseteq metas[i].flags

Taken(accounts, metas) ==
  [n \in NamesOf(accounts) |-> metas[PlaceOf(accounts, n)].key]
=============================================================================
