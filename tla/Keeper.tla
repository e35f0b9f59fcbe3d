------------------------------- MODULE Keeper -------------------------------
(***************************************************************************)
(* The keeper: apps/keeper, a Cloudflare Worker that settles markets.      *)
(*                                                                         *)
(* A job is one invocation of the worker: the cron tick and POST /run      *)
(* sweep every due market, POST /settle/:market settles one.  Jobs overlap *)
(* freely, since a sweep can outlast the minute between two ticks.  Each   *)
(* await of the code ends one step, and between two steps anything else    *)
(* may happen: other jobs, the market's authority, the ledger, the clock.  *)
(* Any await may reject, and the platform may stop a job anywhere.         *)
(*                                                                         *)
(* The ledger is reduced to whether each market is still open; FinalWhistle *)
(* has the rest.  A settle transaction lands, reverts, or dies with its    *)
(* blockhash, whether or not its sender is still there to hear of it.      *)
(***************************************************************************)
EXTENDS Naturals, FiniteSets

CONSTANTS
  Markets,      (* market addresses                                         *)
  TwoStat,      (* the markets with a second stat                           *)
  Provable,     (* the markets whose proof the TxLINE API serves            *)
  Crons, Posts, (* slots for jobs started by the cron and over HTTP         *)
  NoMarket,
  UsesKv,       (* whether the SETTLED namespace is bound                   *)
  RpcLags,      (* whether a read may show a market as it was before        *)
  KvLags,       (* whether a get may miss a key that was put                *)
  MaxStops,     (* bound on the jobs that the platform stops                *)
  MaxForks      (* bound on the settlements that a fork unwinds             *)

Jobs == Crons \cup Posts

ASSUME KeeperAssumption ==
  /\ TwoStat \subseteq Markets /\ Provable \subseteq Markets
  /\ NoMarket \notin Markets
  /\ UsesKv \in BOOLEAN /\ RpcLags \in BOOLEAN /\ KvLags \in BOOLEAN
  /\ MaxStops \in Nat /\ MaxForks \in Nat

VARIABLES
  status,   (* status[m]: the market's status on the ledger                 *)
  closed,   (* the markets whose close_ts the ledger's clock has reached    *)
  due,      (* the markets whose close_ts the keeper's clock has reached    *)
  noted,    (* the keys in the SETTLED namespace                            *)
  at,       (* at[j]: the await at which job j is                           *)
  cur,      (* cur[j]: the market job j is settling                         *)
  rest,     (* rest[j]: the markets its sweep has still to try              *)
  tx,       (* tx[j][m]: the transaction that j sent to settle m            *)
  stops,
  forks

ledger == <<status, closed, due>>
job    == <<at, cur, rest>>
vars   == <<ledger, noted, job, tx, stops, forks>>

Awaits == {"kv", "read", "proof", "send", "confirm", "note"}

Init ==
  /\ status = [m \in Markets |-> "Open"]
  /\ closed = {}
  /\ due = {}
  /\ noted = {}
  /\ at = [j \in Jobs |-> "idle"]
  /\ cur = [j \in Jobs |-> NoMarket]
  /\ rest = [j \in Jobs |-> {}]
  /\ tx = [j \in Jobs |-> [m \in Markets |-> "none"]]
  /\ stops = 0
  /\ forks = 0

-----------------------------------------------------------------------------
(* The ledger, the clocks and the market's authority (external).           *)

LedgerCloses(m) ==
  /\ m \notin closed
  /\ closed' = closed \cup {m}
  /\ UNCHANGED <<status, due, noted, job, tx, stops, forks>>

KeeperCloses(m) ==
  /\ m \notin due
  /\ due' = due \cup {m}
  /\ UNCHANGED <<status, closed, noted, job, tx, stops, forks>>

\* Somebody else settles the market, or its authority voids it.
OthersFinish(m) ==
  /\ status[m] = "Open"
  /\ status' = [status EXCEPT ![m] = "Final"]
  /\ UNCHANGED <<closed, due, noted, job, tx, stops, forks>>

\* A job that still waits for its transaction keeps what became of it.
Became(j, m, result) ==
  tx' = [tx EXCEPT ![j][m] =
    IF at[j] = "confirm" /\ cur[j] = m THEN result ELSE "none"]

\* What the program's settle checks of a market.
Accepts(m) == status[m] = "Open" /\ m \in closed

\* The transaction is executed.
Land(j, m) ==
  /\ tx[j][m] = "pending"
  /\ \/ /\ Accepts(m)
        /\ status' = [status EXCEPT ![m] = "Final"]
        /\ Became(j, m, "landed")
     \/ /\ ~Accepts(m)
        /\ Became(j, m, "reverted")
        /\ UNCHANGED status
  /\ UNCHANGED <<closed, due, noted, job, stops, forks>>

\* The block height passes the transaction's lastValidBlockHeight.
Expire(j, m) ==
  /\ tx[j][m] = "pending"
  /\ Became(j, m, "expired")
  /\ UNCHANGED <<ledger, noted, job, stops, forks>>

\* A fork drops the block that finished m; a transaction that landed in it is
\* lost, or waits to land again.
Fork(m) ==
  /\ forks < MaxForks
  /\ status[m] = "Final"
  /\ status' = [status EXCEPT ![m] = "Open"]
  /\ \E fate \in {"pending", "expired"} :
       tx' = [j \in Jobs |->
         [tx[j] EXCEPT ![m] = IF @ = "landed" THEN fate ELSE @]]
  /\ forks' = forks + 1
  /\ UNCHANGED <<closed, due, noted, job, stops>>

-----------------------------------------------------------------------------
(* Jobs.                                                                   *)

Goto(j, stage) == at' = [at EXCEPT ![j] = stage]

\* The job ends; a transaction that is still pending goes on without it.
End(j) ==
  /\ Goto(j, "idle")
  /\ cur' = [cur EXCEPT ![j] = NoMarket]
  /\ rest' = [rest EXCEPT ![j] = {}]

Abandon(j) ==
  tx' = [tx EXCEPT ![j] = [m \in Markets |-> IF @[m] = "pending" THEN @[m] ELSE "none"]]

\* A slot takes a new job when the last job's transactions are gone.
Free(j) == at[j] = "idle" /\ \A m \in Markets : tx[j][m] = "none"

StartSweep(j) ==
  /\ Free(j)
  /\ Goto(j, "scan")
  /\ UNCHANGED <<ledger, noted, cur, rest, tx, stops, forks>>

\* POST /settle/:market, with whichever market the caller names.
StartSettle(j, m) ==
  /\ Free(j)
  /\ Goto(j, "kv")
  /\ cur' = [cur EXCEPT ![j] = m]
  /\ UNCHANGED <<ledger, noted, rest, tx, stops, forks>>

\* What an RPC node may answer for the status of m.
Seen(m) == {status[m]} \cup (IF RpcLags THEN {"Open"} ELSE {})

Scan(j) ==
  /\ at[j] = "scan"
  /\ \E seen \in [Markets -> {"Open", "Final"}] :
       /\ \A m \in Markets : seen[m] \in Seen(m)
       /\ rest' = [rest EXCEPT ![j] = {m \in Markets : seen[m] = "Open" /\ m \in due}]
  /\ Goto(j, "next")
  /\ UNCHANGED <<ledger, noted, cur, tx, stops, forks>>

\* The loop of the sweep, in the order in which the RPC node listed accounts.
NextMarket(j) ==
  /\ at[j] = "next"
  /\ \/ rest[j] = {} /\ End(j)
     \/ \E m \in rest[j] :
          /\ Goto(j, "kv")
          /\ cur' = [cur EXCEPT ![j] = m]
          /\ rest' = [rest EXCEPT ![j] = @ \ {m}]
  /\ UNCHANGED <<ledger, noted, tx, stops, forks>>

\* Mutant of CheckKv: the key is not looked up.
CheckNothing(j) ==
  /\ at[j] = "kv"
  /\ Goto(j, "read")
  /\ UNCHANGED <<ledger, noted, cur, rest, tx, stops, forks>>

CheckKv(j) ==
  /\ at[j] = "kv"
  /\ \/ UsesKv /\ cur[j] \in noted /\ Goto(j, "next")
     \/ (~UsesKv \/ cur[j] \notin noted \/ KvLags) /\ Goto(j, "read")
  /\ UNCHANGED <<ledger, noted, cur, rest, tx, stops, forks>>

ReadMarket(j) ==
  /\ at[j] = "read"
  /\ \E seen \in Seen(cur[j]) :
       Goto(j, IF seen = "Open" /\ cur[j] \in due /\ cur[j] \notin TwoStat
                 THEN "proof" ELSE "next")
  /\ UNCHANGED <<ledger, noted, cur, rest, tx, stops, forks>>

FetchProof(j) ==
  /\ at[j] = "proof"
  /\ cur[j] \in Provable
  /\ Goto(j, "send")
  /\ UNCHANGED <<ledger, noted, cur, rest, tx, stops, forks>>

Send(j) ==
  /\ at[j] = "send"
  /\ tx' = [tx EXCEPT ![j][cur[j]] = "pending"]
  /\ Goto(j, "confirm")
  /\ UNCHANGED <<ledger, noted, cur, rest, stops, forks>>

\* What sendAndConfirm may answer, given what became of the transaction: by
\* the time it gives up it need not have seen that the transaction landed.
Outcomes(result) ==
  CASE result = "landed"   -> {"confirmed", "expired"}
    [] result = "reverted" -> {"failed", "expired"}
    [] result = "expired"  -> {"expired"}
    [] OTHER               -> {}

\* Mutant of Confirm: an answer is taken for success, whatever the outcome.
ConfirmAnyway(j) ==
  /\ at[j] = "confirm"
  /\ Outcomes(tx[j][cur[j]]) # {}
  /\ Goto(j, "note")
  /\ Abandon(j)
  /\ UNCHANGED <<ledger, noted, cur, rest, stops, forks>>

Confirm(j) ==
  /\ at[j] = "confirm"
  /\ \E outcome \in Outcomes(tx[j][cur[j]]) :
       Goto(j, IF outcome = "confirmed" THEN "note" ELSE "next")
  /\ Abandon(j)
  /\ UNCHANGED <<ledger, noted, cur, rest, stops, forks>>

\* Mutant of Note: the job moves on before it writes the key.
NoteAfterReset(j) ==
  /\ at[j] = "note"
  /\ cur' = [cur EXCEPT ![j] = NoMarket]
  /\ noted' = IF UsesKv THEN noted \cup {cur'[j]} ELSE noted
  /\ Goto(j, "next")
  /\ UNCHANGED <<ledger, rest, tx, stops, forks>>

Note(j) ==
  /\ at[j] = "note"
  /\ noted' = IF UsesKv THEN noted \cup {cur[j]} ELSE noted
  /\ Goto(j, "next")
  /\ UNCHANGED <<ledger, cur, rest, tx, stops, forks>>

\* Mutant of Fail: an error ends the whole sweep.
FailSweep(j) ==
  /\ at[j] \in Awaits \cup {"scan"}
  /\ End(j)
  /\ Abandon(j)
  /\ UNCHANGED <<ledger, noted, stops, forks>>

\* Mutant of Fail: what failed is tried again at once.
RetryAtOnce(j) ==
  /\ \/ at[j] = "scan" /\ End(j)
     \/ at[j] \in Awaits /\ Goto(j, "kv") /\ UNCHANGED <<cur, rest>>
  /\ Abandon(j)
  /\ UNCHANGED <<ledger, noted, stops, forks>>

\* An await rejects: the sweep goes on with its next market; without a list
\* of markets it ends.
Fail(j) ==
  /\ \/ at[j] = "scan" /\ End(j)
     \/ at[j] \in Awaits /\ Goto(j, "next") /\ UNCHANGED <<cur, rest>>
  /\ Abandon(j)
  /\ UNCHANGED <<ledger, noted, stops, forks>>

\* The platform stops the job.
Stop(j) ==
  /\ stops < MaxStops
  /\ at[j] # "idle"
  /\ End(j)
  /\ Abandon(j)
  /\ stops' = stops + 1
  /\ UNCHANGED <<ledger, noted, forks>>

-----------------------------------------------------------------------------
Step(j) ==
  \/ Scan(j) \/ NextMarket(j) \/ CheckKv(j) \/ ReadMarket(j) \/ FetchProof(j)
  \/ Send(j) \/ Confirm(j) \/ Note(j) \/ Fail(j)

Next ==
  \/ \E m \in Markets : LedgerCloses(m) \/ KeeperCloses(m) \/ OthersFinish(m) \/ Fork(m)
  \/ \E j \in Jobs, m \in Markets : Land(j, m) \/ Expire(j, m)
  \/ \E j \in Jobs : StartSweep(j)
  \/ \E j \in Posts, m \in Markets : StartSettle(j, m)
  \/ \E j \in Jobs : Step(j) \/ Stop(j)

Spec == Init /\ [][Next]_vars

(***************************************************************************)
(* Fairness.  Clocks run; the cron fires every minute; an await is over    *)
(* some day, one way or the other, and what is tried for ever does not     *)
(* fail for ever; a transaction does not stay pending, and one that is     *)
(* sent again for ever lands some day.                                     *)
(***************************************************************************)
FairSpec ==
  /\ Spec
  /\ \A m \in Markets : WF_vars(LedgerCloses(m)) /\ WF_vars(KeeperCloses(m))
  /\ \A j \in Crons : WF_vars(StartSweep(j)) /\ SF_vars(Scan(j))
  /\ \A j \in Jobs : WF_vars(Step(j))
  /\ \A j \in Jobs, m \in Markets :
       /\ WF_vars(Expire(j, m))
       /\ SF_vars(Land(j, m))
  /\ \A j \in Crons, m \in Markets :
       /\ SF_vars(cur[j] = m /\ CheckKv(j))
       /\ SF_vars(cur[j] = m /\ ReadMarket(j))
       /\ SF_vars(cur[j] = m /\ FetchProof(j))
       /\ SF_vars(cur[j] = m /\ Send(j))

-----------------------------------------------------------------------------
(* Properties                                                              *)

\* Every variable keeps its shape.
TypeOK ==
  /\ status \in [Markets -> {"Open", "Final"}]
  /\ closed \subseteq Markets /\ due \subseteq Markets /\ noted \subseteq Markets
  /\ at \in [Jobs -> {"idle", "scan", "next"} \cup Awaits]
  /\ cur \in [Jobs -> Markets \cup {NoMarket}]
  /\ rest \in [Jobs -> SUBSET Markets]
  /\ tx \in [Jobs -> [Markets -> {"none", "pending", "landed", "reverted", "expired"}]]
  /\ stops \in 0..MaxStops
  /\ forks \in 0..MaxForks

\* A market that the keeper has noted as settled is final on the ledger, as long
\* as no fork has unwound a settlement: whatever was retried, stopped, heard
\* late or raced by another job, nothing is written off too early (runSettle).
NotedIsFinal == forks = 0 => \A m \in noted : status[m] = "Final"

\* A job never sends for a market a second time while what it sent first may
\* still land, whatever it heard of it, an error included: it neither works on
\* that market nor has it on its list (runSettle and sweep, which leave what
\* failed to the next job; sender.ts, "never re-signs -> no double-pay").
NeverSentTwice ==
  \A j \in Jobs :
    /\ \A m \in rest[j] : tx[j][m] = "none"
    /\ at[j] \in {"kv", "read", "proof", "send"} => tx[j][cur[j]] = "none"

\* No job is about to send, or has on its way, a transaction for m.
Quiet(m) ==
  \A j \in Jobs :
    /\ tx[j][m] = "none"
    /\ cur[j] = m => at[j] \notin {"read", "proof", "send", "confirm"}

QuietStep == \A m \in noted : Quiet(m) => Quiet(m)'

\* Once a market is noted and the jobs that were under way are through with it,
\* the keeper leaves it alone for good, although lagging nodes may still show
\* it as open (runSettle).  This rests on a get that misses no key.
NotedStaysQuiet == [][~KvLags => QuietStep]_vars

\* "Settle every market whose betting window has closed" (index.ts:102), of the
\* markets with one stat: each one ends up final, and stays or becomes final
\* again if a fork unwinds it; a market that fails does not hold up the others.
EveryDueMarketSettles ==
  \A m \in Provable \ TwoStat : m \in due ~> status[m] = "Final"
=============================================================================
