----------------------------- MODULE ReceiptPage -----------------------------
(***************************************************************************)
(* The settlement receipt: GET /receipt/:address of the read API           *)
(* (apps/api/src/index.ts), which reads the market, asks the TxLINE feed   *)
(* for the proof of the event that the market names and the keeper's KV    *)
(* for the signature, and the page that computes the outcome again from    *)
(* the values in that proof (app/receipt/page.tsx, components/Receipt.tsx). *)
(* Neither looks at the answer's event, keys, period, roots or Merkle path, *)
(* so the feed is free to answer with any stats.                           *)
(***************************************************************************)
EXTENDS Client, FetchRetry

CONSTANTS
  NoData,
  FeedStats,      (* the stats that the feed may answer with                *)
  HasToken        (* whether the API has a token for the feed               *)

\* What is attested has one stat of a key in an event; and None is no stat.
ASSUME FeedAssumption ==
  /\ \A a, b \in Attestable :
       a.fixture_id = b.fixture_id /\ a.seq = b.seq /\ a.key = b.key => a = b
  /\ FeedStats \subseteq StatType /\ NoStat \notin StatType
  /\ \A a \in FeedStats : Validation(a, a).statToProve2 # NoStat

VARIABLES
  receiptOf,      (* the market that the page is about                      *)
  stage,          (* where the request is, or how it ended                  *)
  marketSummary,  (* the market as the API read it                          *)
  validation,     (* what the feed answered                                 *)
  data            (* what the page shows                                    *)

receiptVars == <<receiptOf, stage, marketSummary, validation, data, fetchVars>>

ReceiptInit(m) ==
  /\ receiptOf = m
  /\ stage = IF m = NoMarket THEN "none" ELSE "market"
  /\ marketSummary = NoData /\ validation = NoData /\ data = NoData
  /\ FetchInit

-----------------------------------------------------------------------------
(* predicate.ts, as the API and the page call it.                          *)

\* Mutant of winningSide: the comparison is not looked at.
winningSideAlwaysMore(s, a, b) ==
  IF Holds(Combine(IF s.op = NoOp THEN NoOp ELSE Pascal(s.op), a, b),
           "GreaterThan", s.threshold)
    THEN "YES" ELSE "NO"

winningSide(s, a, b) ==
  IF Holds(Combine(IF s.op = NoOp THEN NoOp ELSE Pascal(s.op), a, b),
           Pascal(s.comparison), s.threshold)
    THEN "YES" ELSE "NO"

\* Of a market and a validation.
SideOf(s, v) ==
  winningSide(s, v.statToProve.value,
              IF v.statToProve2 = NoStat THEN 0 ELSE v.statToProve2.value)

\* The API's own computation of the value.
ProvenValue(s, v) ==
  LET a == v.statToProve.value
      b == IF v.statToProve2 = NoStat THEN 0 ELSE v.statToProve2.value
  IN IF s.op = "subtract" THEN a - b ELSE IF s.op = "add" THEN a + b ELSE a

-----------------------------------------------------------------------------
(* The API.                                                                *)

\* 404, or the market, whose proof is wanted once it is resolved.
ReadMarket ==
  /\ stage = "market"
  /\ IF MarketView(receiptOf) = {}
       THEN stage' = "error" /\ UNCHANGED <<marketSummary, fetchVars>>
       ELSE /\ marketSummary' \in MarketView(receiptOf)
            /\ IF marketSummary'.status = "resolved" /\ HasToken
                 THEN stage' = "proof" /\ StartFetch
                 ELSE stage' = "kv" /\ UNCHANGED fetchVars
  /\ UNCHANGED <<receiptOf, validation, data>>

\* What the feed may answer (external), whatever it is asked.
Answers == {Validation(a, b) : a \in FeedStats, b \in FeedStats \cup {NoStat}}

\* fetchStatValidation, attempt by attempt.
FetchProof ==
  /\ stage = "proof"
  /\ \/ Answered /\ validation' \in Answers
     \/ Refused /\ UNCHANGED validation
  /\ UNCHANGED <<receiptOf, stage, marketSummary, data>>

\* Without a proof the receipt goes on.
EndProof ==
  /\ stage = "proof" /\ call \in {"answered", "threw"}
  /\ stage' = "kv" /\ StopFetch
  /\ UNCHANGED <<receiptOf, marketSummary, validation, data>>

ReadKv ==
  /\ stage = "kv"
  /\ stage' = "answer"
  /\ UNCHANGED <<receiptOf, marketSummary, validation, data, fetchVars>>

-----------------------------------------------------------------------------
(* The page.                                                               *)

\* The page is mounted, or left.
MountReceipt(m) ==
  /\ receiptOf' = m
  /\ stage' = IF m = NoMarket THEN "none" ELSE "market"
  /\ marketSummary' = NoData /\ validation' = NoData /\ data' = NoData
  /\ StopFetch

\* "Two-stat predicate requires statB": the page cannot be rendered.
Throws(s, v) == v # NoData /\ s.op # NoOp /\ v.statToProve2 = NoStat

ShowReceipt ==
  /\ stage = "answer"
  /\ IF Throws(marketSummary, validation) THEN stage' = "error" /\ UNCHANGED data
     ELSE /\ stage' = "shown"
          /\ data' = [market |-> marketSummary, proof |-> validation,
                      winningSide |-> marketSummary.winningSide,
                      provenValue |-> IF validation = NoData THEN NoData
                                      ELSE ProvenValue(marketSummary, validation)]
  /\ marketSummary' = NoData /\ validation' = NoData
  /\ UNCHANGED <<receiptOf, fetchVars>>

\* Any await may reject, the get of the signature too, and the request with it.
RequestFails ==
  /\ stage \in {"market", "proof", "kv", "answer"}
  /\ stage' = "error"
  /\ marketSummary' = NoData /\ validation' = NoData
  /\ StopFetch
  /\ UNCHANGED <<receiptOf, data>>

ReceiptNext ==
  \/ ReadMarket \/ FetchProof \/ EndProof \/ ReadKv \/ ShowReceipt \/ RequestFails

sideLabel(n) == IF n = 1 THEN "YES" ELSE IF n = 2 THEN "NO" ELSE "none"

\* The stamp on the receipt.
Stamp(d) ==
  IF d.proof = NoData THEN "none"
  ELSE IF SideOf(d.market, d.proof) = sideLabel(d.winningSide) THEN "VERIFIED"
  ELSE "MISMATCH"

-----------------------------------------------------------------------------
(* Properties                                                              *)

ReceiptTypeOK ==
  /\ receiptOf \in Markets \cup {NoMarket}
  /\ stage \in {"none", "market", "proof", "kv", "answer", "shown", "error"}
  /\ stage # "shown" => data = NoData
  /\ stage \notin {"proof", "kv", "answer"} => marketSummary = NoData
  /\ call \in {"idle", "trying", "answered", "threw"}

\* The stats that the answer v speaks of.
ShownStats(v) ==
  <<StatOf(v, v.statToProve),
    IF v.statToProve2 = NoStat THEN NoStat ELSE StatOf(v, v.statToProve2)>>

\* The stats a and b are attested, of the event and the keys that p names.
AttestedFor(p, a, b) ==
  /\ a \in posted /\ b \in posted \cup {NoStat}
  /\ a.fixture_id = p.fixture_id /\ a.seq = p.seq /\ a.key = p.stat_key
  /\ IF p.stat_key2 = NoStat THEN b = NoStat
     ELSE b # NoStat /\ b.fixture_id = p.fixture_id /\ b.seq = p.seq /\ b.key = p.stat_key2

\* A stamp compares the ledger of now with the values on show as the program
\* itself would (Receipt.tsx:18-38 and predicate.ts against settle.rs): the market
\* is resolved, though it was read three awaits ago; VERIFIED says that these
\* values give the side it was resolved to, and MISMATCH that they do not; the
\* value that the API names gives the same side.  Should the values be attested,
\* then MISMATCH says that another event's proof settled the market.  That they
\* are attested is not said: nobody checks it.
StampIsTrue ==
  data # NoData /\ data.proof # NoData =>
    LET mk  == market[receiptOf]
        p   == mk.params
        a   == ShownStats(data.proof)[1]
        b   == ShownStats(data.proof)[2]
        yes == YesHolds(p, a, b, p.op)
    IN
    /\ mk.status = "Resolved"
    /\ Stamp(data) = IF mk.winning_side = (IF yes THEN SIDE_YES ELSE SIDE_NO)
                       THEN "VERIFIED" ELSE "MISMATCH"
    /\ Holds(data.provenValue, p.comparison, p.threshold) = yes
    /\ AttestedFor(p, a, b) /\ Stamp(data) = "MISMATCH" => provenBy[receiptOf] # p.seq
=============================================================================
