----------------------------- MODULE CreatePage -----------------------------
(***************************************************************************)
(* The form that creates a market (apps/web/src/app/create/page.tsx): the  *)
(* send, the result panel that leads the user's next step, and the timer   *)
(* that takes the user to a market whose creation was confirmed.  The      *)
(* fields may hold anything when the button is clicked; nothing but the    *)
(* preview reads them before.  MarketPage has the sender in detail.        *)
(***************************************************************************)
EXTENDS Client

CONSTANTS
  Forms,          (* what the fields may hold                               *)
  Minute          (* 60 seconds, in units of the ledger's clock             *)

\* The stats that the lists offer.
STAT_OPTIONS == 1..8

\* What the fields can hold: typed text that reads as an integer (a threshold as
\* a number, in halves), a choice of each list, and the box that shows the
\* second stat and the operator; they keep their choices while it hides them.
FormType ==
  [fixtureId : Int, period : Int, threshold : Int, closeIn : Int, feeBps : Nat,
   statKey : STAT_OPTIONS, comparison : {"greaterThan", "lessThan"},
   twoStat : BOOLEAN, statKey2 : STAT_OPTIONS, op : {"subtract", "add"}]

\* Mutant of predicateOf: it is made from the hidden fields, too.
predicateOfAllFields(form) ==
  [fixtureId |-> form.fixtureId, seq |-> 0, statKey |-> form.statKey,
   statKey2 |-> form.statKey2, op |-> form.op, period |-> form.period,
   threshold |-> form.threshold, comparison |-> form.comparison]

\* The second stat and the operator are left out unless the box is ticked.
predicateOf(form) ==
  [fixtureId |-> form.fixtureId, seq |-> 0, statKey |-> form.statKey,
   statKey2 |-> IF form.twoStat THEN form.statKey2 ELSE NoStat,
   op |-> IF form.twoStat THEN form.op ELSE NoOp, period |-> form.period,
   threshold |-> form.threshold, comparison |-> form.comparison]

\* What a description tells of a predicate.
describePredicate(p) ==
  [statKey |-> p.statKey, statKey2 |-> p.statKey2, op |-> p.op,
   comparison |-> p.comparison, threshold |-> p.threshold]

\* The title of the market, and its preview.
titleOf(form) == describePredicate(predicateOf(form))

\* Date.now() is no small number, and a description is something.
ASSUME CreatePageAssumption ==
  /\ Minute \in Nat /\ Nonces \subseteq Nat \ {0}
  /\ Forms \subseteq FormType
  /\ NoMarket \notin {titleOf(form) : form \in Forms}

\* Date.now() is another one at each click: the page's nonces, in order.  What is
\* asked for is bounded by Nonces and CreateArgs.
VARIABLES
  decided,    (* how many markets the user has decided to create            *)
  clicks,     (* how often the button was clicked: the last nonce           *)
  ctx,        (* ctx[n]: what became of the transaction with nonce n        *)
  asked,      (* asked[n]: the request of that transaction                  *)
  titles,     (* titles[m]: the predicate as its creator saw it described   *)
  busy, at,   (* whether the button is disabled, the await of the send      *)
  result,     (* what the result panel says                                 *)
  timer       (* the market that the pending redirect leads to              *)

formVars == <<busy, at, result, timer>>
createVars == <<decided, clicks, ctx, asked, titles, formVars>>

CreateInit ==
  /\ decided = 0 /\ clicks = 0
  /\ ctx = [n \in Nonces |-> "unused"]
  /\ asked = [n \in Nonces |-> NoMarket]
  /\ titles = [m \in Markets |-> NoMarket]
  /\ busy = FALSE /\ at = "idle" /\ result = "none" /\ timer = NoMarket

-----------------------------------------------------------------------------
\* A description of a predicate is never too long for the program; how long it is
\* is all the same.
TITLE_LEN == 40

ArgsOf(form) ==
  [fixtureId |-> form.fixtureId, seq |-> 0, statKey |-> form.statKey,
   statKey2 |-> IF form.twoStat THEN form.statKey2 ELSE NoStat,
   op |-> IF form.twoStat THEN form.op ELSE NoOp, period |-> form.period,
   threshold |-> form.threshold, comparison |-> form.comparison,
   closeTs |-> now + form.closeIn * Minute, feeBps |-> form.feeBps, title |-> TITLE_LEN]

\* Why a user clicks who wants no more markets than before: nothing seems to
\* happen, if the button lets them; or (CreateResultPanel) it could not be created,
\* or it was not confirmed and did not land.
ClicksAgain ==
  \/ busy \/ result = "err"
  \/ result \in {"expired", "failed"} /\ ctx[clicks] = "dead"

\* Mutant of Create: the button is not disabled.
CreateAnyTime(creator, form) ==
  /\ clicks + 1 \in Nonces /\ ArgsOf(form) \in CreateArgs
  /\ \/ decided' = decided + 1
     \/ ClicksAgain /\ UNCHANGED decided
  /\ clicks' = clicks + 1
  /\ asked' = [asked EXCEPT ![clicks'] = [by |-> creator, form |-> form, args |-> ArgsOf(form)]]
  /\ ctx' = [ctx EXCEPT ![clicks'] = "built"]
  /\ busy' = TRUE /\ at' = "sign" /\ result' = "none" /\ timer' = NoMarket
  /\ UNCHANGED titles

\* create() up to the wallet; the effect's cleanup clears the timer.
Create(creator, form) ==
  /\ ~busy
  /\ clicks + 1 \in Nonces /\ ArgsOf(form) \in CreateArgs
  /\ \/ decided' = decided + 1
     \/ ClicksAgain /\ UNCHANGED decided
  /\ clicks' = clicks + 1
  /\ asked' = [asked EXCEPT ![clicks'] = [by |-> creator, form |-> form, args |-> ArgsOf(form)]]
  /\ ctx' = [ctx EXCEPT ![clicks'] = "built"]
  /\ busy' = TRUE /\ at' = "sign" /\ result' = "none" /\ timer' = NoMarket
  /\ UNCHANGED titles

\* The wallet signs; the transaction is broadcast.
Broadcast ==
  /\ at = "sign"
  /\ at' = "confirm"
  /\ ctx' = [ctx EXCEPT ![clicks] = "pending"]
  /\ UNCHANGED <<decided, clicks, asked, titles, busy, result, timer>>

\* Mutant of RejectCreate: no finally.
RejectCreateBusy ==
  /\ at = "sign"
  /\ ctx' = [ctx EXCEPT ![clicks] = "dead"]
  /\ at' = "idle" /\ UNCHANGED busy /\ result' = "err"
  /\ UNCHANGED <<decided, clicks, asked, titles, timer>>

\* A transaction whose send was rejected after its broadcast.
Astray == [pending |-> "adrift", landed |-> "stray", dead |-> "dead"]

\* No blockhash, a simulation that fails, a user who declines; or, should the
\* sender do so, a rejection of what is broadcast: it goes astray.
RejectCreate ==
  /\ \/ at = "sign" /\ ctx' = [ctx EXCEPT ![clicks] = "dead"]
     \/ at = "confirm" /\ ctx' = [ctx EXCEPT ![clicks] = Astray[@]]
  /\ at' = "idle" /\ busy' = FALSE /\ result' = "err"
  /\ UNCHANGED <<decided, clicks, asked, titles, timer>>

CreationOf(n) ==
  [what |-> "create", by |-> asked[n].by, nonce |-> n, args |-> asked[n].args]

LandCreate(n) ==
  /\ ctx[n] \in {"pending", "adrift"}
  /\ Execute(Received[CreationOf(n)])
  /\ ctx' = [ctx EXCEPT ![n] = IF @ = "pending" THEN "landed" ELSE "stray"]
  /\ titles' = [titles EXCEPT ![<<asked[n].by, n>>] = titleOf(asked[n].form)]
  /\ UNCHANGED <<decided, clicks, asked, formVars>>

\* It reverts, or expires.
DieCreate(n) ==
  /\ ctx[n] \in {"pending", "adrift"}
  /\ ctx' = [ctx EXCEPT ![n] = "dead"]
  /\ UNCHANGED <<decided, clicks, asked, titles, formVars>>

\* What the sender may report of a transaction (MarketPage's Outcomes).
Reported(fate) ==
  CASE fate = "landed" -> {"confirmed", "expired"}
    [] fate = "dead"   -> {"failed", "expired"}
    [] OTHER           -> {}

\* Mutant of ConfirmCreate: the redirect does not wait for the outcome.
ConfirmCreateEarly ==
  /\ at = "confirm"
  /\ result' = "confirmed"
  /\ at' = "idle" /\ busy' = FALSE
  /\ timer' = <<asked[clicks].by, clicks>>
  /\ UNCHANGED <<decided, clicks, ctx, asked, titles>>

\* setResult, and the effect: a confirmed creation sets the timer.
ConfirmCreate ==
  /\ at = "confirm"
  /\ result' \in Reported(ctx[clicks])
  /\ at' = "idle" /\ busy' = FALSE
  /\ timer' = IF result' = "confirmed" THEN <<asked[clicks].by, clicks>> ELSE NoMarket
  /\ UNCHANGED <<decided, clicks, ctx, asked, titles>>

\* Mutant of LeaveCreate: the timer outlives the page.
LeaveCreateTimer ==
  /\ \E end \in {"dead", "pending"} :
       ctx' = [n \in Nonces |-> IF ctx[n] = "built" THEN end ELSE ctx[n]]
  /\ busy' = FALSE /\ at' = "idle" /\ result' = "none" /\ UNCHANGED timer
  /\ UNCHANGED <<decided, clicks, asked, titles>>

\* The page is left: by a link, what waits for the wallet goes on out of sight.
LeaveCreate ==
  /\ \E end \in {"dead", "pending"} :
       ctx' = [n \in Nonces |-> IF ctx[n] = "built" THEN end ELSE ctx[n]]
  /\ busy' = FALSE /\ at' = "idle" /\ result' = "none" /\ timer' = NoMarket
  /\ UNCHANGED <<decided, clicks, asked, titles>>

SendNext ==
  /\ Broadcast \/ RejectCreate \/ ConfirmCreate \/ (\E n \in Nonces : DieCreate(n))
  /\ UNCHANGED clientVars

-----------------------------------------------------------------------------
(* Properties                                                              *)

CreateTypeOK ==
  /\ decided \in 0..clicks /\ clicks \in Nonces \cup {0}
  /\ ctx \in [Nonces -> {"unused", "built", "pending", "landed", "dead",
                      "adrift", "stray"}]
  /\ busy = (at # "idle") /\ at \in {"idle", "sign", "confirm"}
  /\ result \in {"none", "confirmed", "expired", "failed", "err"}
  /\ timer \in Markets \cup {NoMarket}

\* Each click makes a transaction of its own, with its own nonce, so nothing on
\* the ledger stops a second market.  A user who does as the result panel says
\* ("check the explorer, then retry if it didn't", create/page.tsx:292) never
\* gets more markets than decided, but for those whose send rejected although
\* they were broadcast, of which the panel says that they could not be created.
NoDoubleMarket == Cardinality({n \in Nonces : ctx[n] = "landed"}) <= decided

\* A market with the parameters p is about the stats that its title t names, and
\* whatever they turn out to be, it resolves to YES just when its title holds.
TitleHolds(t, p) ==
  /\ t.statKey = p.stat_key /\ t.statKey2 = p.stat_key2
  /\ \A a \in 0..3, b \in 0..3 :
       Holds(2 * Combine(IF t.op = NoOp THEN NoOp ELSE Pascal(t.op), a, b),
             Pascal(t.comparison), t.threshold)
         = Holds(Combine(p.op, a, b), p.comparison, p.threshold)

\* The title under which a market is traded says what its predicate says
\* ("YES <=> title", create/page.tsx:229), although form, title and instruction
\* each put the predicate together on their own, from fields of which some may
\* be hidden; a threshold with a fraction is another matter.
TitleIsTrue ==
  \A m \in Markets :
    titles[m] # NoMarket /\ titles[m].threshold % 2 = 0 =>
      TitleHolds(titles[m], market[m].params)

\* The same, whatever is typed.
StoredAsPreviewed ==
  \A m \in Markets : titles[m] # NoMarket => TitleHolds(titles[m], market[m].params)
=============================================================================
