----------------------- MODULE FinalWhistleRefinement -----------------------
(***************************************************************************)
(* Each market of the program, among all the others and whatever anybody   *)
(* submits, behaves as BettingPool promises.                               *)
(***************************************************************************)
EXTENDS FinalWhistle

CONSTANT TheMarket
ASSUME TheMarketAssumption == TheMarket \in Markets

\* What the pot of the market has left for those who have not claimed.
Left(m) == Pot(m) - market[m].total_claimed

\* Until the market is final nobody is due anything.
DueFrom(m) ==
  IF market[m].status \in Final THEN Owed(m) ELSE [b \in Bettors |-> 0]

Pool == INSTANCE BettingPool WITH
  phase <- market[TheMarket].status,
  yes   <- StakesOn(TheMarket, SIDE_YES),
  no    <- StakesOn(TheMarket, SIDE_NO),
  due   <- DueFrom(TheMarket),
  paid  <- Claimed(TheMarket),
  pot   <- Left(TheMarket)

\* The market keeps BettingPool's promise (all five instructions).
KeepsItsPromise == Pool!Spec

\* The same market as Keeper has it, among steps of others alone; that it is not
\* there yet is nothing to the keeper.
Seen == INSTANCE Keeper WITH
  Markets  <- {TheMarket},
  TwoStat  <- {}, Provable <- {}, Crons <- {}, Posts <- {}, NoMarket <- NoKey,
  UsesKv   <- FALSE, RpcLags <- FALSE, KvLags <- FALSE, MaxStops <- 0, MaxForks <- 0,
  status   <- [m \in {TheMarket} |-> IF market[m].status \in Final THEN "Final" ELSE "Open"],
  closed   <- {m \in {TheMarket} : market[m].status # "Absent" /\ now >= market[m].params.close_ts},
  due      <- {}, noted <- {},
  at       <- [j \in {} |-> "idle"], cur <- [j \in {} |-> NoKey], rest <- [j \in {} |-> {}],
  tx       <- [j \in {} |-> [m \in {TheMarket} |-> "none"]],
  stops    <- 0, forks <- 0

\* What Keeper takes the ledger for is what the program makes of it: a market opens
\* before its window closes, closes when the clock gets there and not again, and is
\* finished once, from then on for good (market.rs, scan.ts:23-33).
KeeperSeesLedger == Seen!Spec
=============================================================================
