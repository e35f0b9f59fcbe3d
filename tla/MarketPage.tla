----------------------------- MODULE MarketPage -----------------------------
(***************************************************************************)
(* The market page of the web client (apps/web): one browser tab that      *)
(* shows a market, sends stakes and claims through the wallet, and reads   *)
(* the market again after each send.                                       *)
(*                                                                         *)
(* The ledger keeps, of this market, the statuses of its successive        *)
(* versions: each instruction that changes it adds one.  A read is answered *)
(* with some version between the newest one that all nodes had when it was *)
(* asked and the newest one there is; version 0 is a node that does not    *)
(* have the market yet.  Answers need not come in the order of the         *)
(* questions.  Each await of the page ends one step.                       *)
(***************************************************************************)
EXTENDS Naturals, FiniteSets, Sequences, SequencesExt

CONSTANTS
  Sends,        (* the transactions that the user may make                  *)
  NoSend,
  Prompt,       (* whether nodes lag less than the page's timer runs        *)
  Overtakes,    (* whether an answer may overtake an earlier one            *)
  FetchFails,   (* whether a request to the read API may fail               *)
  MaxVersions,  (* bound on the changes that others make                    *)
  MaxOpens      (* bound on how often the user opens the page               *)

ASSUME MarketPageAssumption ==
  /\ NoSend \notin Sends
  /\ Prompt \in BOOLEAN /\ Overtakes \in BOOLEAN
  /\ FetchFails \in BOOLEAN
  /\ MaxVersions \in Nat /\ MaxOpens \in Nat

ASSUME SendsAssumption == IsFiniteSet(Sends)

VARIABLES
  history,    (* history[v]: the market's status in its version v           *)
  everywhere, (* the newest version that every node has                     *)
  tx,         (* tx[s]: what became of the transaction s                    *)
  kind,       (* kind[s]: what s is for                                     *)
  wanted,     (* how many stakes the user has decided to make               *)
  adrift,     (* the sends that rejected after their broadcast              *)
  view,       (* the version that the page shows; 0: LOADING                *)
  error,      (* whether the page shows an error in place of the market     *)
  busy,       (* whether the buttons are disabled                           *)
  at,         (* the await at which the send is                             *)
  cur,        (* the send under way, or the one that the panel is about     *)
  panel,      (* what the result panel says                                 *)
  heard,      (* the market's version when the outcome was heard            *)
  pending,    (* the reads not yet answered: the oldest version each may get *)
  timers,     (* the timers of the second reads: the version when each was set *)
  opens

ledger == <<history, everywhere>>
intent == <<kind, wanted, adrift>>
screen == <<view, error, pending, timers>>
send   == <<busy, at, cur, panel, heard>>
vars   == <<ledger, tx, intent, screen, send, opens>>

Init ==
  /\ history = <<"open">>
  /\ everywhere \in {0, 1}
  /\ tx = [s \in Sends |-> "unused"]
  /\ kind = [s \in Sends |-> "none"]
  /\ wanted = 0 /\ adrift = {}
  /\ view = 0
  /\ error = FALSE
  /\ busy = FALSE
  /\ at = "idle"
  /\ cur = NoSend
  /\ panel = "none"
  /\ heard = 0
  /\ pending = <<everywhere>>
  /\ timers = <<>>
  /\ opens = 1

-----------------------------------------------------------------------------
(* The ledger (external; FinalWhistle has the program).                    *)

Status == Last(history)

\* Somebody else stakes, or settles or voids the market.
OthersChange ==
  /\ Status = "open"
  /\ Len(history) < MaxVersions
  /\ \E status \in {"open", "final"} : history' = Append(history, status)
  /\ UNCHANGED <<everywhere, tx, intent, screen, send, opens>>

CatchUp ==
  /\ \E v \in (everywhere + 1)..Len(history) : everywhere' = v
  /\ UNCHANGED <<history, tx, intent, screen, send, opens>>

\* What the program's place_position and claim need at least.
Accepts(s) ==
  \/ kind[s] = "stake" /\ Status = "open"
  \/ /\ kind[s] = "claim" /\ Status = "final"
     /\ \A t \in Sends : kind[t] = "claim" => tx[t] # "landed"

Land(s) ==
  /\ tx[s] = "pending"
  /\ Accepts(s)
  /\ tx' = [tx EXCEPT ![s] = "landed"]
  /\ history' = Append(history, Status)
  /\ UNCHANGED <<everywhere, intent, screen, send, opens>>

\* Executed without effect (the window has closed, there are no funds, there is
\* nothing to claim), or dead with its blockhash.
Die(s) ==
  /\ tx[s] = "pending"
  /\ \E end \in {"reverted", "expired"} : tx' = [tx EXCEPT ![s] = end]
  /\ UNCHANGED <<ledger, intent, screen, send, opens>>

-----------------------------------------------------------------------------
(* Reads.                                                                  *)

\* reload(): the answer will be at least as new as what every node has now.
Ask(reads) == Append(reads, everywhere)

\* setMarket or setError; nothing ever clears the error.
Answer(i) ==
  /\ i \in DOMAIN pending
  /\ Overtakes \/ i = 1
  /\ pending' = RemoveAt(pending, i)
  /\ \/ \E v \in pending[i]..Len(history) :
          IF v = 0 THEN error' = TRUE /\ UNCHANGED view
                   ELSE view' = v /\ UNCHANGED error
     \/ FetchFails /\ error' = TRUE /\ UNCHANGED view
  /\ UNCHANGED <<ledger, tx, intent, timers, send, opens>>

\* Mutant of Refresh: there is no second read.
RefreshOnce == pending' = Ask(pending) /\ UNCHANGED timers

\* refreshMarket(): a read at once and a second one when the timer fires.
Refresh ==
  /\ pending' = Ask(pending)
  /\ timers' = Append(timers, Len(history))

TimerFires ==
  /\ timers # <<>>
  /\ Prompt => everywhere >= Head(timers)
  /\ timers' = Tail(timers)
  /\ pending' = Ask(pending)
  /\ UNCHANGED <<ledger, tx, intent, view, error, send, opens>>

-----------------------------------------------------------------------------
(* Sends.                                                                  *)

\* Mutant of Enabled: the buttons stay enabled during a send.
EnabledAlways(what) ==
  /\ view > 0 /\ ~error
  /\ what = IF history[view] = "open" THEN "stake" ELSE "claim"

\* The button is there, and it is not disabled.
Enabled(what) ==
  /\ view > 0 /\ ~error
  /\ ~busy
  /\ what = IF history[view] = "open" THEN "stake" ELSE "claim"

\* Why a user clicks again who wants no more than before: nothing seems to
\* happen, or the panel says that it failed, or the panel says to "check the
\* explorer, then retry if it didn't" land, and it did not.
ClicksAgain ==
  \/ busy
  \/ panel = "error"
  \/ panel \in {"expired", "failed"} /\ tx[cur] # "landed"

\* stake() and claim(), up to the first await.
Click(s, what) ==
  /\ tx[s] = "unused"
  /\ Enabled(what)
  /\ \/ what = "stake" /\ wanted' = wanted + 1
     \/ what = "stake" /\ cur # NoSend /\ kind[cur] = "stake" /\ ClicksAgain
        /\ UNCHANGED wanted
     \/ what = "claim" /\ UNCHANGED wanted
  /\ tx' = [tx EXCEPT ![s] = "built"]
  /\ kind' = [kind EXCEPT ![s] = what]
  /\ busy' = TRUE
  /\ at' = "blockhash"
  /\ cur' = s
  /\ panel' = "none"
  /\ heard' = 0
  /\ UNCHANGED <<ledger, adrift, screen, opens>>

Proceed(here, there) ==
  /\ at = here
  /\ at' = there
  /\ UNCHANGED <<ledger, intent, screen, busy, cur, panel, heard, opens>>

GetBlockhash == Proceed("blockhash", "preflight") /\ UNCHANGED tx

\* The simulation passes, or cannot be had.
Preflight == Proceed("preflight", "prompt") /\ UNCHANGED tx

\* The wallet signs; the transaction is broadcast.
Sign ==
  /\ Proceed("prompt", "confirm")
  /\ tx' = [tx EXCEPT ![cur] = "pending"]

\* What signAndSend may answer: it waits until the transaction is executed or
\* its blockhash is dead, but may have missed that it was executed.
Outcomes(result) ==
  CASE result = "landed"   -> {"confirmed", "expired"}
    [] result = "reverted" -> {"failed", "expired"}
    [] result = "expired"  -> {"expired"}
    [] OTHER               -> {}

Finish ==
  /\ at' = "idle"
  /\ busy' = FALSE
  /\ UNCHANGED cur

\* Mutant of Confirm: the status of the transaction passes for the outcome.
ConfirmRaw ==
  /\ at = "confirm" /\ tx[cur] # "pending"
  /\ panel' = tx[cur]
  /\ heard' = Len(history)
  /\ Refresh
  /\ Finish
  /\ UNCHANGED <<ledger, tx, intent, view, error, opens>>

\* Mutant of Confirm: an answer is taken for success, whatever the outcome.
ConfirmAnyway ==
  /\ at = "confirm" /\ Outcomes(tx[cur]) # {}
  /\ panel' = "confirmed"
  /\ heard' = Len(history)
  /\ Refresh
  /\ Finish
  /\ UNCHANGED <<ledger, tx, intent, view, error, opens>>

Confirm ==
  /\ at = "confirm"
  /\ panel' \in Outcomes(tx[cur])
  /\ heard' = Len(history)
  /\ Refresh
  /\ Finish
  /\ UNCHANGED <<ledger, tx, intent, view, error, opens>>

\* Mutant of Reject: the buttons are not enabled again.
RejectOnly ==
  /\ at \in {"blockhash", "preflight", "prompt"}
  /\ tx' = [tx EXCEPT ![cur] = "dropped"]
  /\ panel' = "error"
  /\ at' = "idle"
  /\ UNCHANGED <<ledger, intent, screen, busy, cur, heard, opens>>

\* An await rejects: no blockhash, a preflight that fails, a user who declines;
\* or, should signAndSend do so, the last one, when the transaction is broadcast.
Reject ==
  /\ \/ /\ at \in {"blockhash", "preflight", "prompt"}
        /\ tx' = [tx EXCEPT ![cur] = "dropped"] /\ UNCHANGED adrift
     \/ /\ at = "confirm"
        /\ adrift' = adrift \cup {cur} /\ UNCHANGED tx
  /\ panel' = "error"
  /\ Finish
  /\ UNCHANGED <<ledger, kind, wanted, screen, heard, opens>>

\* The user opens the page anew.  Its state is gone; what was broadcast is not,
\* and a send that waits for the wallet is dropped with the tab or, when the user
\* went by a link, goes on out of sight.
Reopen ==
  /\ opens < MaxOpens
  /\ opens' = opens + 1
  /\ \E end \in {"dropped", "pending"} :
        tx' = [s \in Sends |-> IF tx[s] = "built" THEN end ELSE tx[s]]
  /\ view' = 0 /\ error' = FALSE
  /\ busy' = FALSE /\ at' = "idle" /\ cur' = NoSend
  /\ panel' = "none" /\ heard' = 0
  /\ pending' = <<everywhere>> /\ timers' = <<>>
  /\ UNCHANGED <<ledger, intent>>

-----------------------------------------------------------------------------
Ends == GetBlockhash \/ Preflight \/ Sign \/ Confirm \/ Reject

Next ==
  \/ OthersChange \/ CatchUp
  \/ \E s \in Sends : Land(s) \/ Die(s)
  \/ \E i \in DOMAIN pending : Answer(i)
  \/ TimerFires
  \/ \E s \in Sends, what \in {"stake", "claim"} : Click(s, what)
  \/ Ends
  \/ Reopen

Spec == Init /\ [][Next]_vars

(***************************************************************************)
(* Fairness: an await of a send is over some day, and a pending transaction *)
(* lands or dies.                                                          *)
(***************************************************************************)
FairSpec ==
  /\ Spec
  /\ WF_vars(Ends)
  /\ \A s \in Sends : WF_vars(Die(s))

-----------------------------------------------------------------------------
(* Properties                                                              *)

\* Every variable keeps its shape.
TypeOK ==
  /\ history \in Seq({"open", "final"})
  /\ everywhere \in 0..Len(history)
  /\ tx \in [Sends -> {"unused", "built", "dropped", "pending", "landed",
                       "reverted", "expired"}]
  /\ kind \in [Sends -> {"none", "stake", "claim"}]
  /\ wanted \in Nat /\ adrift \subseteq Sends \cup {NoSend}
  /\ view \in 0..Len(history)
  /\ error \in BOOLEAN /\ busy \in BOOLEAN
  /\ at \in {"idle", "blockhash", "preflight", "prompt", "confirm"}
  /\ cur \in Sends \cup {NoSend}
  /\ panel \in {"none", "confirmed", "expired", "failed", "error"}
  /\ heard \in 0..Len(history)
  /\ pending \in Seq(0..Len(history))
  /\ timers \in Seq(0..Len(history))
  /\ opens \in Nat

Landed(what) == {s \in Sends : kind[s] = what /\ tx[s] = "landed"}

\* A user who does as the page says, clicks again when nothing seems to happen
\* and may open the page anew at any moment never stakes more often than
\* decided (the result panel's advice; disabled={busy}), but for the stakes whose
\* send rejected once it had been broadcast: of these the panel says that they
\* failed (lib/sender.tsx:154), and they may land beside the ones that the user
\* makes in their place.
NoDoubleStake == Cardinality(Landed("stake") \ adrift) <= wanted

\* The panel speaks the truth: confirmed has landed, failed has not, and after
\* any outcome the transaction will not land any more (TxResultPanel).
PanelIsTrue ==
  /\ panel = "confirmed" => tx[cur] = "landed"
  /\ panel = "failed" => tx[cur] = "reverted"
  /\ panel = "expired" => tx[cur] \in {"landed", "reverted", "expired"}

\* "Refresh the market after a write lands so the new pools / resolved state
\* show" (market/page.tsx:32): when all reads after an outcome are answered, the
\* page shows the market no older than it was when the outcome was heard.
PageCatchesUp ==
  (panel \in {"confirmed", "expired", "failed"} /\ pending = <<>> /\ timers = <<>>)
    => error \/ view >= heard

\* "A just-confirmed market is immediately available" (create/page.tsx:55): the
\* page of a market that is on the ledger does not show an error, unless a
\* request fails.
AvailableAtOnce == ~FetchFails => ~error

\* The buttons do not stay disabled for ever (the finally of stake and claim).
BusyEnds == busy ~> ~busy
=============================================================================
