-------------------------------- MODULE Site --------------------------------
(***************************************************************************)
(* One browser tab of the web client on a live ledger: the board, the      *)
(* creation form and the receipt, one of them on screen at a time, with the *)
(* links between them; the wallet, which any page shares; and meanwhile the *)
(* instructions of all users of the SDK, the clock and the oracle.  The     *)
(* market page has a module of its own (MarketPage): here it is a place to  *)
(* go, and what the user does there is among what all users do.             *)
(*                                                                         *)
(* A page that is left is unmounted: its state is gone and what it still   *)
(* waits for has no effect, except what it has given to the wallet.        *)
(***************************************************************************)
EXTENDS Board, CreatePage, ReceiptPage

CONSTANTS
  MaxVisits,  (* bound on how often the user goes to another page           *)
  MaxLanded   (* bound on the instructions that are executed                *)

\* Whoever creates a market may stake as well.
ASSUME SiteAssumption ==
  /\ MaxVisits \in Nat /\ MaxLanded \in Nat
  /\ Creators \subseteq Bettors

VARIABLES
  route,      (* the page on screen                                         *)
  target,     (* the market that the market page is about                   *)
  visits, landed

navVars  == <<route, target, visits>>
pageVars == <<boardVars, createVars, receiptVars>>
siteVars == <<clientVars, landed, walletVars, pageVars, navVars>>

\* The tab may be opened at any page, by a creator or without a wallet.
SiteInit ==
  /\ ClientInit /\ CreateInit
  /\ route \in {"board", "create", "market", "receipt"}
  /\ BoardInit(route = "board")
  /\ IF route = "receipt" THEN \E m \in Markets : ReceiptInit(m)
     ELSE ReceiptInit(NoMarket)
  /\ wallet \in Creators \cup {NoWallet} /\ wallets = 0
  /\ target \in IF route = "market" THEN Markets ELSE {NoMarket}
  /\ visits = 0 /\ landed = 0

-----------------------------------------------------------------------------
(* Ledger.                                                                 *)

OthersAct ==
  /\ landed < MaxLanded /\ landed' = landed + 1
  /\ ExecuteAny
  /\ UNCHANGED <<walletVars, pageVars, navVars>>

TimePasses == Environment /\ UNCHANGED <<landed, walletVars, pageVars, navVars>>

-----------------------------------------------------------------------------
(* Navigation: the old page is unmounted, the new one is mounted.          *)

Go(to, m) ==
  /\ visits < MaxVisits /\ visits' = visits + 1
  /\ route' = to /\ target' = IF to = "market" THEN m ELSE NoMarket
  /\ MountBoard(to = "board") /\ LeaveCreate
  /\ MountReceipt(IF to = "receipt" THEN m ELSE NoMarket)
  /\ UNCHANGED <<clientVars, landed, walletVars>>

\* The header of every page.
GoToBoard  == route # "board" /\ Go("board", NoMarket)
GoToCreate == route # "create" /\ Go("create", NoMarket)

\* The link on the page of a market that is not open.
FollowReceipt ==
  /\ route = "market" /\ target # NoMarket
  /\ \E s \in MarketView(target) : s.status # "open"
  /\ Go("receipt", target)

\* The links of the cards.
FollowCard ==
  /\ route = "board"
  /\ \E s \in Listed, m \in Markets : s.address = KeyOf(m) /\ Go(CardHref(s), m)

\* "View now", or the timer.
FollowCreated ==
  /\ route = "create" /\ timer # NoMarket
  /\ Go("market", timer)

-----------------------------------------------------------------------------
Switch ==
  /\ \E owner \in Bettors \cup {NoWallet} : ChangeWallet(owner)
  /\ UNCHANGED <<clientVars, landed, createVars, receiptVars, navVars>>

OnBoard ==
  /\ BoardNext
  /\ UNCHANGED <<clientVars, landed, walletVars, createVars, receiptVars, navVars>>

OnForm ==
  /\ \/ /\ route = "create" /\ wallet \in Creators
        /\ \E form \in Forms : Create(wallet, form)
        /\ UNCHANGED <<clientVars, landed>>
     \/ SendNext /\ UNCHANGED landed
     \/ /\ landed < MaxLanded /\ landed' = landed + 1
        /\ \E n \in Nonces : LandCreate(n)
  /\ UNCHANGED <<walletVars, boardVars, receiptVars, navVars>>

OnReceipt ==
  /\ ReceiptNext
  /\ UNCHANGED <<clientVars, landed, walletVars, boardVars, createVars, navVars>>

SiteNext ==
  \/ OthersAct \/ TimePasses
  \/ GoToBoard \/ GoToCreate \/ FollowReceipt \/ FollowCard \/ FollowCreated
  \/ Switch \/ OnBoard \/ OnForm \/ OnReceipt

SiteSpec == SiteInit /\ [][SiteNext]_siteVars

-----------------------------------------------------------------------------
(* Properties                                                              *)

\* Every variable of the pages keeps its shape.
SiteTypeOK ==
  /\ BoardTypeOK /\ CreateTypeOK /\ ReceiptTypeOK
  /\ landed \in Nat
  /\ provenBy \in [Markets -> Int \cup {NoStat}]
  /\ route \in {"board", "create", "market", "receipt"}
  /\ target \in Markets \cup {NoMarket}

\* The redirect of a confirmed creation (create/page.tsx:53-61) takes the user
\* only from the form that still shows that confirmation, while nothing else is
\* being sent, and to a market that is on the ledger.
RedirectIsWanted ==
  timer # NoMarket =>
    /\ route = "create" /\ result = "confirmed" /\ ~busy
    /\ OnLedger(timer) /\ titles[timer] # NoMarket
=============================================================================
