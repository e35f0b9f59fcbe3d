-------------------------------- MODULE Board --------------------------------
(***************************************************************************)
(* The live board of the web client (components/MarketsSection.tsx): the   *)
(* list of markets, read once when the board opens, and the tab MINE, for  *)
(* which the board asks a node whether the wallet has a position in each of *)
(* the listed markets, so many of them at a time.  The wallet may change    *)
(* while that is going on.  Each await ends one step.                      *)
(***************************************************************************)
EXTENDS Client

CONSTANTS
  NoWallet, NoList,
  CHUNK,          (* how many positions one request asks for                *)
  MaxWallets      (* bound on how often the wallet changes                  *)

ASSUME BoardAssumption ==
  /\ NoWallet \notin Bettors
  /\ CHUNK \in Nat \ {0} /\ MaxWallets \in Nat

VARIABLES
  wallet,     (* the connected wallet                                       *)
  wallets,    (* how often it has changed                                   *)
  feed,       (* where the reading of the list is                           *)
  answer,     (* the list as the read API served it                         *)
  markets,    (* the list that the board shows                              *)
  stakedSet,  (* the markets in which the wallet is known to have a stake   *)
  reads,      (* the reads of positions under way, cancelled ones too       *)
  had         (* where the wallet had a stake when a read that succeeded was *)
              (* asked                                                      *)

boardVars == <<feed, answer, markets, stakedSet, reads, had>>
walletVars == <<wallet, wallets>>

BoardInit(open) ==
  /\ feed = IF open THEN "asked" ELSE "none"
  /\ answer = {} /\ markets = NoList
  /\ stakedSet = {} /\ reads = {} /\ had = {}

-----------------------------------------------------------------------------
\* What is true, which the board is to find out.
HasStake(key, owner) == PositionExists(PositionPda(key, owner))

Addresses(list) == {s.address : s \in list}

\* The effect of a new wallet or list: earlier reads are cancelled, a new one is
\* asked.
StakedEffect(owner, list) ==
  LET cancelled == {[r EXCEPT !.live = FALSE] : r \in reads} IN
  IF owner = NoWallet \/ list = NoList \/ list = {}
    THEN /\ stakedSet' = {} /\ had' = {}
         /\ reads' = cancelled
    ELSE /\ UNCHANGED <<stakedSet, had>>
         /\ reads' = cancelled \cup
              {[owner |-> owner, left |-> Addresses(list), staked |-> {}, live |-> TRUE,
                had |-> {key \in Addresses(list) : HasStake(key, owner)}]}

\* The board is mounted, or left: what is still under way sets the state of a
\* component that is gone.
MountBoard(open) ==
  /\ feed' = IF open THEN "asked" ELSE "none"
  /\ answer' = {} /\ markets' = NoList
  /\ stakedSet' = {} /\ reads' = {} /\ had' = {}

\* GET /markets, at the API.
ServeMarkets ==
  /\ feed = "asked"
  /\ feed' = "served" /\ answer' = scanMarkets
  /\ UNCHANGED <<markets, stakedSet, reads, had>>

ShowMarkets ==
  /\ feed = "served"
  /\ feed' = "shown" /\ markets' = answer /\ answer' = {}
  /\ StakedEffect(wallet, answer)

FeedFails ==
  /\ feed \in {"asked", "served"}
  /\ feed' = "error" /\ answer' = {}
  /\ UNCHANGED <<markets, stakedSet, reads, had>>

\* The user connects another wallet, or disconnects.
ChangeWallet(owner) ==
  /\ wallets < MaxWallets /\ owner # wallet
  /\ wallet' = owner /\ wallets' = wallets + 1
  /\ IF feed = "none" THEN UNCHANGED boardVars
     ELSE StakedEffect(owner, markets) /\ UNCHANGED <<feed, answer, markets>>

\* Mutant of Settled: the answer to a cancelled read is used.
SettledAnyway(r, staked, had_) == stakedSet' = staked /\ had' = had_

\* The promise of a read settles; a cancelled one has no effect.
Settled(r, staked, had_) ==
  IF r.live THEN stakedSet' = staked /\ had' = had_ ELSE UNCHANGED <<stakedSet, had>>

\* One getMultipleAccounts of fetchStakedAddresses.
ReadChunk(r) ==
  \E slice \in SUBSET r.left :
    LET left   == r.left \ slice
        staked == r.staked \cup {key \in slice : HasStake(key, r.owner)}
    IN
    /\ slice # {} /\ (Cardinality(slice) = CHUNK \/ slice = r.left)
    /\ Cardinality(slice) <= CHUNK
    /\ IF left = {}
         THEN reads' = reads \ {r} /\ Settled(r, staked, r.had)
         ELSE /\ reads' = (reads \ {r}) \cup {[r EXCEPT !.left = left, !.staked = staked]}
              /\ UNCHANGED <<stakedSet, had>>
    /\ UNCHANGED <<feed, answer, markets>>

ReadFails(r) ==
  /\ reads' = reads \ {r}
  /\ Settled(r, {}, {})
  /\ UNCHANGED <<feed, answer, markets>>

BoardNext ==
  \/ ServeMarkets \/ ShowMarkets \/ FeedFails
  \/ \E r \in reads : ReadChunk(r) \/ ReadFails(r)

-----------------------------------------------------------------------------
(* What the board shows.                                                   *)

Listed == IF markets = NoList THEN {} ELSE markets

mineSet ==
  IF wallet = NoWallet THEN {}
  ELSE Addresses({s \in Listed : s.authority = wallet \/ s.address \in stakedSet})

TABS == {"all", "mine", "open", "resolved", "voided"}

Shown(filter) ==
  CASE filter = "all"  -> Listed
    [] filter = "mine" -> {s \in Listed : s.address \in mineSet}
    [] OTHER           -> {s \in Listed : s.status = filter}

\* MarketCard: the money in the market, as text.
CardPool(s) == formatUsdc(s.yesPool + s.noPool)

\* MarketCard: the page behind a card, and what it says of the outcome.
CardHref(s) == IF s.status = "resolved" THEN "receipt" ELSE "market"

CardWinner(s) ==
  IF s.status # "resolved" THEN ""
  ELSE IF s.winningSide = 1 THEN "YES" ELSE IF s.winningSide = 2 THEN "NO" ELSE ""

-----------------------------------------------------------------------------
(* Properties                                                              *)

BoardTypeOK ==
  /\ wallet \in Bettors \cup {NoWallet} /\ wallets \in Nat
  /\ feed \in {"none", "asked", "served", "shown", "error"}
  /\ markets # NoList => \A s \in markets : s.address \in {KeyOf(m) : m \in Markets}
  /\ stakedSet \cup had \subseteq {KeyOf(m) : m \in Markets}
  /\ \A r \in reads : /\ r.owner \in Bettors /\ r.live \in BOOLEAN
                       /\ r.left \cup r.staked \subseteq {KeyOf(m) : m \in Markets}

\* "MINE = markets I created (authority) or have a stake in (position PDA
\* exists)" (MarketsSection.tsx:70): unless the question is still open, no other
\* wallet's market is under MINE, and no stake that the wallet had when the board
\* last asked is missing.
MineIsMine ==
  (\A r \in reads : ~r.live) =>
    /\ \A m \in Markets : KeyOf(m) \in mineSet => m[1] = wallet \/ HasStake(KeyOf(m), wallet)
    /\ had \subseteq mineSet

\* What the board says of a market may be old but was never wrong: it is over,
\* with that winner and behind the link to its receipt, only if it is so on the
\* ledger; a market is there that the board's predicate describes; there is at
\* least as much money in it, of which the card leaves no digit out; and each
\* market is under one tab of its status.
BoardIsTrue ==
  \A m \in Markets, s \in Listed :
    s.address = KeyOf(m) =>
      /\ s.authority = m[1]
      /\ s.status # "open" => s.status = enumKey(market[m].status)
      /\ CardHref(s) = "receipt" =>
           /\ market[m].status = "Resolved"
           /\ CardWinner(s) = IF market[m].winning_side = SIDE_YES THEN "YES" ELSE "NO"
      /\ s.yesPool <= market[m].yes_pool /\ s.noPool <= market[m].no_pool
      /\ parseUsdc(CardPool(s)) = s.yesPool + s.noPool
      /\ s.threshold = market[m].params.threshold
      /\ s.comparison = Camel[market[m].params.comparison]
      /\ Cardinality({tab \in TABS \ {"all", "mine"} : s \in Shown(tab)}) = 1
=============================================================================
