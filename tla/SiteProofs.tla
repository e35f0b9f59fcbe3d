----------------------------- MODULE SiteProofs -----------------------------
(***************************************************************************)
(* What holds of a tab of the web client for every number of users, markets *)
(* and visits: what the pages send is what users of the SDK may send, the  *)
(* feed is not asked for ever, and the form, the board and the receipt show *)
(* and do what they promise, whatever the ledger does meanwhile.           *)
(***************************************************************************)
EXTENDS Site, ClientProofs, FiniteSetTheorems, SequenceTheorems

-----------------------------------------------------------------------------
(* Steps of the ledger.                                                    *)

\* What never goes back, of a market that is on the ledger.
Advanced(m) ==
  OnLedger(m) =>
    /\ OnLedger(m)'
    /\ market'[m].params = market[m].params
    /\ market[m].yes_pool <= market'[m].yes_pool /\ market[m].no_pool <= market'[m].no_pool
    /\ market[m].status \in Final =>
         /\ market'[m].status = market[m].status
         /\ market'[m].winning_side = market[m].winning_side

LEMMA SameAdvanced ==
  ASSUME TypeOK, NEW m \in Markets, market'[m] = market[m]
  PROVE  Advanced(m)
BY DEF Advanced, OnLedger, TypeOK, MarketType

LEMMA LedgerAdvances ==
  ASSUME TypeOK, BooksBalance, [Next]_vars, NEW m \in Markets
  PROVE  Advanced(m)
<1>0. market[m] \in MarketType
  BY DEF TypeOK
<1>1. ASSUME NEW creator \in Creators, NEW nonce \in Nonces, NEW params \in Params,
             CreateMarket(creator, nonce, params)
      PROVE  Advanced(m)
  <2>1. CASE m = <<creator, nonce>>
    BY <1>1, <2>1 DEF CreateMarket, Advanced, OnLedger
  <2>2. CASE m # <<creator, nonce>>
    <3>1. market'[m] = market[m]
      BY <1>1, <2>2 DEF CreateMarket, TypeOK
    <3> QED BY <3>1, SameAdvanced
  <2> QED BY <2>1, <2>2
<1>2. ASSUME NEW bettor \in Bettors, NEW n \in Markets, NEW side \in 0..2, NEW amount \in Nat,
             PlacePosition(bettor, n, side, amount)
      PROVE  Advanced(m)
  <2>1. market[n].status = "Open"
    BY <1>2 DEF PlacePosition
  <2>2. PICK yes \in Nat, no \in Nat : StakeAdded(bettor, n, yes, no)
    BY <1>2, PlacePositionEffect
  <2>3. CASE m = n
    <3>1. /\ market'[m].status = market[m].status /\ market'[m].params = market[m].params
          /\ market'[m].yes_pool = market[m].yes_pool + yes
          /\ market'[m].no_pool = market[m].no_pool + no
      BY <1>0, <2>2, <2>3 DEF StakeAdded, MarketType
    <3>2. market[m].yes_pool \in Nat /\ market[m].no_pool \in Nat
      BY <1>0 DEF MarketType
    <3> QED BY <2>1, <2>3, <3>1, <3>2 DEF Advanced, OnLedger, Final
  <2>4. CASE m # n
    <3>1. market'[m] = market[m]
      BY <2>2, <2>4 DEF StakeAdded
    <3> QED BY <3>1, SameAdvanced
  <2> QED BY <2>3, <2>4
<1>3. ASSUME NEW n \in Markets, MakeVoid(n), market[n].status = "Open"
      PROVE  Advanced(m)
  <2>1. /\ \A k \in Markets \ {n} : market'[k] = market[k]
        /\ market'[n] =
             [market[n] EXCEPT !.status = "Voided", !.winning_side = SIDE_NONE, !.settle_ts = now]
    BY <1>3, VoidEffect
  <2>2. CASE m = n
    <3>1. /\ market'[m].status = "Voided" /\ market'[m].params = market[m].params
          /\ market'[m].yes_pool = market[m].yes_pool
          /\ market'[m].no_pool = market[m].no_pool
      BY <1>0, <2>1, <2>2 DEF MarketType
    <3>2. market[m].yes_pool \in Nat /\ market[m].no_pool \in Nat
      BY <1>0 DEF MarketType
    <3> QED BY <1>3, <2>2, <3>1, <3>2 DEF Advanced, OnLedger, Final
  <2>3. CASE m # n
    BY <2>1, <2>3, SameAdvanced
  <2> QED BY <2>2, <2>3
<1>4. ASSUME NEW n \in Markets, SettleAny(n)
      PROVE  Advanced(m)
  <2>1. market[n].status = "Open"
    BY <1>4, SettleCases
  <2>2. CASE VoidForLackOfWinners(n)
    BY <1>3, <2>1, <2>2 DEF VoidForLackOfWinners
  <2>3. ASSUME NEW side \in {SIDE_YES, SIDE_NO}, Resolve(n, side),
               SplitOk(WinnersOf(market[n], side), LosersOf(market[n], side),
                       market[n].params.fee_bps)
        PROVE  Advanced(m)
    <3>1. /\ \A k \in Markets \ {n} : market'[k] = market[k]
          /\ market'[n] = [market[n] EXCEPT
               !.status = "Resolved", !.winning_side = side, !.settle_ts = now,
               !.fee_collected = FeeOf(n, side), !.total_payout_pool = PoolOf(n, side)]
      BY <2>3, ResolveEffect
    <3>2. CASE m = n
      <4>1. /\ market'[m].status = "Resolved" /\ market'[m].params = market[m].params
            /\ market'[m].yes_pool = market[m].yes_pool
            /\ market'[m].no_pool = market[m].no_pool
        BY <1>0, <3>1, <3>2 DEF MarketType
      <4>2. market[m].yes_pool \in Nat /\ market[m].no_pool \in Nat
        BY <1>0 DEF MarketType
      <4> QED BY <2>1, <3>2, <4>1, <4>2 DEF Advanced, OnLedger, Final
    <3>3. CASE m # n
      BY <3>1, <3>3, SameAdvanced
    <3> QED BY <3>2, <3>3
  <2> QED BY <1>4, <2>2, <2>3, SettleCases
<1>5. ASSUME NEW authority \in Signers, NEW n \in Markets, VoidMarket(authority, n)
      PROVE  Advanced(m)
  BY <1>3, <1>5 DEF VoidMarket
<1>6. ASSUME NEW claimant \in Bettors, NEW n \in Markets, NEW pb \in Bettors,
             NEW dest \in Accounts, Claim(claimant, n, n, pb, n, dest)
      PROVE  Advanced(m)
  <2> DEFINE payout == ClaimAmount(market[n], position[n][pb])
  <2>1. /\ \A k \in Markets \ {n} : market'[k] = market[k]
        /\ market'[n] = [market[n] EXCEPT !.total_claimed = @ + payout]
        /\ position'[n][pb] = [position[n][pb] EXCEPT !.claimed = TRUE]
    BY <1>6, ClaimEffect
  <2> HIDE DEF payout
  <2>2. CASE m = n
    <3>1. /\ market'[m].status = market[m].status /\ market'[m].params = market[m].params
          /\ market'[m].yes_pool = market[m].yes_pool
          /\ market'[m].no_pool = market[m].no_pool
          /\ market'[m].winning_side = market[m].winning_side
      BY <1>0, <2>1, <2>2 DEF MarketType
    <3>2. market[m].yes_pool \in Nat /\ market[m].no_pool \in Nat
      BY <1>0 DEF MarketType
    <3> QED BY <3>1, <3>2 DEF Advanced, OnLedger
  <2>3. CASE m # n
    BY <2>1, <2>3, SameAdvanced
  <2> QED BY <2>2, <2>3
<1> QED BY <1>1, <1>2, <1>4, <1>5, <1>6, StepCases, InputAssumption, SameAdvanced

\* A position account stays: it is never closed.
LEMMA PositionsStay ==
  ASSUME TypeOK, BooksBalance, [Next]_vars, NEW m \in Markets, NEW b \in Bettors,
         position[m][b].market # NoKey
  PROVE  position'[m][b].market # NoKey
<1>0. position[m][b] \in PositionType
  BY DEF TypeOK
<1>1. ASSUME NEW bettor \in Bettors, NEW n \in Markets, NEW side \in 0..2, NEW amount \in Nat,
             PlacePosition(bettor, n, side, amount)
      PROVE  position'[m][b].market # NoKey
  <2>1. PICK yes \in Nat, no \in Nat : StakeAdded(bettor, n, yes, no)
    BY <1>1, PlacePositionEffect
  <2>2. n # NoKey
    BY KeysAssumption
  <2> QED BY <2>1, <2>2 DEF StakeAdded
<1>2. ASSUME NEW claimant \in Bettors, NEW n \in Markets, NEW pb \in Bettors,
             NEW dest \in Accounts, Claim(claimant, n, n, pb, n, dest)
      PROVE  position'[m][b].market # NoKey
  <2> DEFINE payout == ClaimAmount(market[n], position[n][pb])
  <2>1. /\ \A k \in Markets \ {n} : position'[k] = position[k]
        /\ market'[n] = [market[n] EXCEPT !.total_claimed = @ + payout]
        /\ position'[n][pb] = [position[n][pb] EXCEPT !.claimed = TRUE]
        /\ \A c \in Bettors \ {pb} : position'[n][c] = position[n][c]
    BY <1>2, ClaimEffect
  <2> HIDE DEF payout
  <2>2. CASE m = n /\ b = pb
    BY <1>0, <2>1, <2>2 DEF PositionType
  <2>3. CASE ~(m = n /\ b = pb)
    BY <2>1, <2>3
  <2> QED BY <2>2, <2>3
<1>3. ASSUME UNCHANGED position
      PROVE  position'[m][b].market # NoKey
  BY <1>3
<1>4. ASSUME NEW creator \in Creators, NEW nonce \in Nonces, NEW params \in Params,
             CreateMarket(creator, nonce, params)
      PROVE  UNCHANGED position
  BY <1>4 DEF CreateMarket
<1>5. ASSUME NEW n \in Markets, SettleAny(n)
      PROVE  UNCHANGED position
  BY <1>5, SettleCases
<1>6. ASSUME NEW authority \in Signers, NEW n \in Markets, VoidMarket(authority, n)
      PROVE  UNCHANGED position
  BY <1>6 DEF VoidMarket
<1> QED BY <1>1, <1>2, <1>3, <1>4, <1>5, <1>6, StepCases, InputAssumption

-----------------------------------------------------------------------------
(* What the form does in a step of the tab, and what the ledger does.      *)

Asks == [by : Creators, form : Forms, args : CreateArgs]

LEMMA TabSteps ==
  ASSUME [SiteNext]_siteVars
  PROVE  \/ /\ \E form \in Forms : Create(wallet, form)
            /\ wallet \in Creators /\ route = "create" /\ UNCHANGED <<clientVars, navVars>>
         \/ Broadcast /\ UNCHANGED <<clientVars, navVars>>
         \/ RejectCreate /\ UNCHANGED <<clientVars, navVars>>
         \/ ConfirmCreate /\ UNCHANGED <<clientVars, navVars>>
         \/ \E n \in Nonces : DieCreate(n) /\ UNCHANGED <<clientVars, navVars>>
         \/ \E n \in Nonces : LandCreate(n) /\ UNCHANGED navVars
         \/ LeaveCreate /\ UNCHANGED clientVars
         \/ [ClientNext]_clientVars /\ UNCHANGED <<createVars, navVars>>
<1>1. ASSUME NEW to, NEW m, Go(to, m)
      PROVE  LeaveCreate /\ UNCHANGED clientVars
  BY <1>1 DEF Go
<1>2. CASE GoToBoard \/ GoToCreate \/ FollowReceipt \/ FollowCard \/ FollowCreated
  BY <1>1, <1>2 DEF GoToBoard, GoToCreate, FollowReceipt, FollowCard, FollowCreated
<1>3. CASE OthersAct \/ TimePasses
  BY <1>3 DEF OthersAct, TimePasses, ClientNext, pageVars
<1>4. CASE Switch \/ OnBoard \/ OnReceipt
  BY <1>4 DEF Switch, OnBoard, OnReceipt
<1>5. CASE OnForm
  BY <1>5 DEF OnForm, SendNext
<1>6. CASE UNCHANGED siteVars
  BY <1>6 DEF siteVars, pageVars
<1> QED BY <1>2, <1>3, <1>4, <1>5, <1>6 DEF SiteNext

\* Whatever was sent was asked for by a creator, with arguments that callers use;
\* the last click is what the button and the result panel are about.
FormInv ==
  /\ clicks \in Nonces \cup {0}
  /\ asked \in [Nonces -> Asks \cup {NoMarket}]
  /\ ctx \in [Nonces -> {"unused", "built", "pending", "landed", "dead", "adrift", "stray"}]
  /\ \A n \in Nonces : ctx[n] # "unused" => asked[n] \in Asks /\ n <= clicks
  /\ at \in {"idle", "sign", "confirm"} /\ busy = (at # "idle")
  /\ result \in {"none", "confirmed", "expired", "failed", "err"}
  /\ busy => result = "none"
  /\ busy \/ result # "none" => clicks \in Nonces
  /\ at = "sign" => ctx[clicks] = "built"
  /\ at = "confirm" => ctx[clicks] \in {"pending", "landed", "dead"}
  /\ result = "err" => ctx[clicks] \in {"dead", "adrift", "stray"}
  /\ result = "confirmed" => ctx[clicks] = "landed"

LEMMA FormInit == SiteInit => FormInv
BY DEF SiteInit, CreateInit, FormInv

LEMMA FormStep == FormInv /\ [SiteNext]_siteVars => FormInv'
<1> SUFFICES ASSUME FormInv, [SiteNext]_siteVars
             PROVE  FormInv'
  OBVIOUS
<1>0. clicks \in Nat /\ \A n \in Nonces : n \in Nat
  BY CreatePageAssumption DEF FormInv
<1>1. ASSUME NEW form \in Forms, Create(wallet, form), wallet \in Creators
      PROVE  FormInv'
  <2> DEFINE ask == [by |-> wallet, form |-> form, args |-> ArgsOf(form)]
  <2>1. ask \in Asks
    BY <1>1 DEF Create, Asks
  <2>2. /\ clicks' \in Nonces /\ clicks' = clicks + 1
        /\ asked' = [asked EXCEPT ![clicks'] = ask]
        /\ ctx' = [ctx EXCEPT ![clicks'] = "built"]
        /\ busy' = TRUE /\ at' = "sign" /\ result' = "none"
    BY <1>1 DEF Create
  <2> HIDE DEF ask
  <2>3. /\ asked' \in [Nonces -> Asks \cup {NoMarket}] /\ asked'[clicks'] = ask
        /\ \A n \in Nonces : n # clicks' => asked'[n] = asked[n]
    BY <2>1, <2>2 DEF FormInv
  <2>4. /\ ctx' \in [Nonces -> {"unused", "built", "pending", "landed", "dead", "adrift", "stray"}]
        /\ ctx'[clicks'] = "built"
        /\ \A n \in Nonces : n # clicks' => ctx'[n] = ctx[n]
    BY <2>2 DEF FormInv
  <2>5. \A n \in Nonces : ctx'[n] # "unused" => asked'[n] \in Asks /\ n <= clicks'
    BY <1>0, <2>1, <2>2, <2>3, <2>4 DEF FormInv
  <2> QED BY <2>2, <2>3, <2>4, <2>5 DEF FormInv
<1>2. CASE Broadcast
  BY <1>2 DEF Broadcast, FormInv
<1>3. CASE RejectCreate
  <2>1. CASE at = "sign" /\ ctx' = [ctx EXCEPT ![clicks] = "dead"]
    BY <1>3, <2>1 DEF RejectCreate, FormInv
  <2>2. CASE at = "confirm" /\ ctx' = [ctx EXCEPT ![clicks] = Astray[@]]
    <3>1. clicks \in Nonces /\ ctx[clicks] \in {"pending", "landed", "dead"}
      BY <2>2 DEF FormInv
    <3>2. Astray[ctx[clicks]] \in {"dead", "adrift", "stray"}
      BY <3>1 DEF Astray
    <3> QED BY <1>3, <2>2, <3>1, <3>2 DEF RejectCreate, FormInv
  <2> QED BY <1>3, <2>1, <2>2 DEF RejectCreate
<1>4. CASE ConfirmCreate
  BY <1>4 DEF ConfirmCreate, FormInv, Reported
<1>5. ASSUME NEW n \in Nonces, DieCreate(n)
      PROVE  FormInv'
  BY <1>5 DEF DieCreate, FormInv, formVars
<1>6. ASSUME NEW n \in Nonces, LandCreate(n)
      PROVE  FormInv'
  BY <1>6 DEF LandCreate, FormInv, formVars
<1>7. CASE LeaveCreate
  BY <1>7 DEF LeaveCreate, FormInv
<1>8. CASE UNCHANGED createVars
  BY <1>8 DEF createVars, formVars, FormInv
<1> QED BY <1>1, <1>2, <1>3, <1>4, <1>5, <1>6, <1>7, <1>8, TabSteps

\* A creation of the form is one of the requests.
LEMMA CreationIsAsked ==
  ASSUME FormInv, NEW n \in Nonces, ctx[n] # "unused"
  PROVE  CreationOf(n) \in Creations
BY DEF FormInv, Asks, CreationOf, Creations

LEMMA LandIsAllowed ==
  ASSUME FormInv, NEW n \in Nonces, LandCreate(n)
  PROVE  ClientNext
<1>1. CreationOf(n) \in Requests
  BY CreationIsAsked DEF LandCreate, Requests
<1>2. Received[CreationOf(n)] \subseteq Calls
  BY <1>1 DEF Calls
<1> QED BY <1>2 DEF LandCreate, Execute, ExecuteAny, ClientNext

LEMMA TabIsClient == FormInv /\ [SiteNext]_siteVars => [ClientNext]_clientVars
BY LandIsAllowed, TabSteps

\* What the tab does to the ledger, and whatever happens to it meanwhile, is what
\* users of the SDK do: what is proved of them holds of a ledger with this client
\* (app/create/page.tsx, packages/sdk).
THEOREM TabIsUserOfSdk == SiteSpec => ClientSpec
<1>1. SiteInit => ClientInit
  BY DEF SiteInit
<1> QED BY <1>1, FormInit, FormStep, TabIsClient, PTL DEF SiteSpec, ClientSpec

-----------------------------------------------------------------------------
(* No market twice.                                                        *)

\* The clicks that may have made a market, or that the user is still to hear of.
Counted ==
  {n \in Nonces : \/ ctx[n] \in {"built", "pending", "landed"}
                  \/ n = clicks /\ (busy \/ result # "none")}

CountInv == decided \in Nat /\ Cardinality(Counted) <= decided

LEMMA CountedIsFinite ==
  ASSUME FormInv
  PROVE  IsFiniteSet(Counted) /\ Cardinality(Counted) \in Nat
<1>1. clicks \in Nat /\ \A n \in Nonces : n \in Nat \ {0}
  BY CreatePageAssumption DEF FormInv
<1>2. \A n \in Counted : n \in 1..clicks
  BY <1>1 DEF Counted, FormInv
<1>3. IsFiniteSet(1..clicks)
  BY <1>1, FS_Interval
<1> QED BY <1>2, <1>3, FS_Subset, FS_CardinalityType

LEMMA CountedLess ==
  ASSUME FormInv, CountInv, Counted' \subseteq Counted, UNCHANGED decided
  PROVE  CountInv'
<1>1. IsFiniteSet(Counted) /\ Cardinality(Counted) \in Nat
  BY CountedIsFinite
<1>2. Cardinality(Counted') <= Cardinality(Counted) /\ Cardinality(Counted') \in Nat
  BY <1>1, FS_Subset, FS_CardinalityType
<1> QED BY <1>1, <1>2 DEF CountInv

LEMMA CountInit == SiteInit => CountInv
<1> SUFFICES ASSUME SiteInit PROVE CountInv
  OBVIOUS
<1>1. Counted = {}
  BY DEF SiteInit, CreateInit, Counted
<1>2. Cardinality({}) = 0
  BY FS_EmptySet
<1> QED BY <1>1, <1>2 DEF SiteInit, CreateInit, CountInv

LEMMA CountStep == FormInv /\ CountInv /\ [SiteNext]_siteVars => CountInv'
<1> SUFFICES ASSUME FormInv, CountInv, [SiteNext]_siteVars
             PROVE  CountInv'
  OBVIOUS
<1>1. ASSUME NEW form \in Forms, Create(wallet, form)
      PROVE  CountInv'
  <2> DEFINE Live == {n \in Nonces : ctx[n] \in {"built", "pending", "landed"}}
  <2>1. /\ clicks \in Nat /\ clicks' = clicks + 1 /\ clicks' \in Nonces
        /\ \A n \in Nonces : n \in Nat
    BY <1>1, CreatePageAssumption DEF Create, FormInv
  <2>2. Counted' = Live \cup {clicks'} /\ clicks' \notin Counted
    <3>1. /\ ctx' = [ctx EXCEPT ![clicks'] = "built"] /\ busy' = TRUE
          /\ ctx \in [Nonces -> {"unused", "built", "pending", "landed", "dead", "adrift", "stray"}]
      BY <1>1 DEF Create, FormInv
    <3>2. ctx[clicks'] = "unused"
      BY <2>1 DEF FormInv
    <3> QED BY <2>1, <3>1, <3>2 DEF Counted
  <2>3. IsFiniteSet(Counted) /\ Cardinality(Counted) \in Nat /\ Live \subseteq Counted
    BY CountedIsFinite DEF Counted
  <2>4. IsFiniteSet(Live) /\ Cardinality(Live) \in Nat
        /\ Cardinality(Live) <= Cardinality(Counted)
    BY <2>3, FS_Subset, FS_CardinalityType
  <2>5. Cardinality(Live \cup {clicks'}) = Cardinality(Live) + 1
    BY <2>2, <2>3, <2>4, FS_AddElement
  <2>6. CASE decided' = decided + 1
    <3>1. Cardinality(Counted') = Cardinality(Live) + 1
      BY <2>2, <2>5
    <3> HIDE DEF Live
    <3> QED BY <2>3, <2>4, <2>6, <3>1 DEF CountInv
  <2>7. CASE ClicksAgain /\ UNCHANGED decided
    <3>1. ~busy /\ result # "none" /\ clicks \in Nonces /\ clicks \notin Live
      BY <1>1, <2>7 DEF Create, ClicksAgain, FormInv
    <3>2. Counted = Live \cup {clicks}
      BY <3>1 DEF Counted
    <3>3. Cardinality(Counted) = Cardinality(Live) + 1
      BY <2>4, <3>1, <3>2, FS_AddElement
    <3> QED BY <2>2, <2>5, <2>7, <3>3 DEF CountInv
  <2> QED BY <1>1, <2>6, <2>7 DEF Create
<1>2. CASE Broadcast
  BY <1>2, CountedLess DEF Broadcast, FormInv, Counted
<1>3. CASE RejectCreate
  <2>1. /\ clicks \in Nonces /\ busy /\ UNCHANGED <<clicks, decided>>
        /\ \A n \in Nonces : n # clicks => ctx'[n] = ctx[n]
    BY <1>3 DEF RejectCreate, FormInv
  <2>2. Counted' \subseteq Counted
    BY <2>1 DEF Counted
  <2> QED BY <2>1, <2>2, CountedLess
<1>4. CASE ConfirmCreate
  BY <1>4, CountedLess DEF ConfirmCreate, FormInv, Counted
<1>5. ASSUME NEW n \in Nonces, DieCreate(n)
      PROVE  CountInv'
  BY <1>5, CountedLess DEF DieCreate, FormInv, Counted, formVars
<1>6. ASSUME NEW n \in Nonces, LandCreate(n)
      PROVE  CountInv'
  BY <1>6, CountedLess DEF LandCreate, FormInv, Counted, formVars
<1>7. CASE LeaveCreate
  BY <1>7, CountedLess DEF LeaveCreate, FormInv, Counted
<1>8. CASE UNCHANGED createVars
  BY <1>8, CountedLess DEF createVars, formVars, Counted
<1> QED BY <1>1, <1>2, <1>3, <1>4, <1>5, <1>6, <1>7, <1>8, TabSteps

\* However often the user clicks, whatever the sender reports and wherever the
\* page is left, as many markets land as were decided, but for those whose send
\* rejected after the broadcast (app/create/page.tsx).
THEOREM TabNeverDoublesMarket == SiteSpec => []NoDoubleMarket
<1>1. FormInv /\ CountInv => NoDoubleMarket
  <2> SUFFICES ASSUME FormInv, CountInv PROVE NoDoubleMarket
    OBVIOUS
  <2> DEFINE Landed == {n \in Nonces : ctx[n] = "landed"}
  <2>1. Landed \subseteq Counted
    BY DEF Counted
  <2>2. IsFiniteSet(Counted) /\ Cardinality(Counted) \in Nat
    BY CountedIsFinite
  <2>3. Cardinality(Landed) <= Cardinality(Counted) /\ Cardinality(Landed) \in Nat
    BY <2>1, <2>2, FS_Subset, FS_CardinalityType
  <2> QED BY <2>2, <2>3 DEF CountInv, NoDoubleMarket
<1> QED BY <1>1, FormInit, FormStep, CountInit, CountStep, PTL DEF SiteSpec

-----------------------------------------------------------------------------
(* The call to the feed.                                                   *)

FetchInv == attempt \in Nat /\ call \in {"idle", "trying", "answered", "threw"}

LEMMA FetchStart == SiteInit => FetchInv
BY DEF SiteInit, ReceiptInit, FetchInit, FetchInv

LEMMA FetchStep == FetchInv /\ [SiteNext]_siteVars => FetchInv'
<1> SUFFICES ASSUME FetchInv, [SiteNext]_siteVars
             PROVE  FetchInv'
  OBVIOUS
<1>1. ASSUME StartFetch \/ StopFetch
      PROVE  FetchInv'
  BY <1>1 DEF StartFetch, StopFetch, FetchInv
<1>2. ASSUME UNCHANGED fetchVars
      PROVE  FetchInv'
  BY <1>2 DEF fetchVars, FetchInv
<1>3. ASSUME Answered \/ Refused
      PROVE  FetchInv'
  BY <1>3 DEF Answered, Refused, FetchInv
<1>4. CASE ReceiptNext
  BY <1>1, <1>2, <1>3, <1>4
  DEF ReceiptNext, ReadMarket, FetchProof, EndProof, ReadKv, ShowReceipt, RequestFails
<1>5. ASSUME NEW to, NEW m, Go(to, m)
      PROVE  FetchInv'
  BY <1>1, <1>5 DEF Go, MountReceipt
<1>6. CASE GoToBoard \/ GoToCreate \/ FollowReceipt \/ FollowCard \/ FollowCreated
  BY <1>5, <1>6 DEF GoToBoard, GoToCreate, FollowReceipt, FollowCard, FollowCreated
<1>7. CASE OthersAct \/ TimePasses
  BY <1>2, <1>7 DEF OthersAct, TimePasses, pageVars, receiptVars
<1>8. CASE Switch \/ OnBoard \/ OnForm
  BY <1>2, <1>8 DEF Switch, OnBoard, OnForm, receiptVars
<1>9. CASE UNCHANGED siteVars
  BY <1>2, <1>9 DEF siteVars, pageVars, receiptVars
<1> QED BY <1>4, <1>6, <1>7, <1>8, <1>9 DEF SiteNext, OnReceipt

-----------------------------------------------------------------------------
(* The redirect.                                                           *)

LedgerInv == TypeOK /\ BooksBalance

LEMMA LedgerAlwaysInOrder == SiteSpec => []LedgerInv
BY TabIsUserOfSdk, SdkImplementsLedger, TypeCorrect, BooksAlwaysBalance, PTL DEF LedgerInv

LEMMA TabStepIsAllowed ==
  ASSUME FormInv, [SiteNext]_siteVars
  PROVE  [Next]_vars
BY TabIsClient, ClientStepIsAllowed

\* What has landed is on the ledger, under the title that was previewed.
RedirectInv ==
  /\ DOMAIN titles = Markets
  /\ \A n \in Nonces :
       ctx[n] \in {"landed", "stray"} =>
         OnLedger(<<asked[n].by, n>>) /\ titles[<<asked[n].by, n>>] # NoMarket
  /\ busy \/ result # "none" => route = "create"
  /\ timer # NoMarket =>
       ~busy /\ result = "confirmed" /\ timer = <<asked[clicks].by, clicks>>

LEMMA RedirectInit == SiteInit => RedirectInv
BY DEF SiteInit, CreateInit, RedirectInv

LEMMA MarketOfAsk ==
  ASSUME FormInv, NEW n \in Nonces, ctx[n] # "unused"
  PROVE  <<asked[n].by, n>> \in Markets
BY DEF FormInv, Asks, Markets

\* Where neither the sends nor the titles have changed, nor the asks of what was sent.
LEMMA LandedStays ==
  ASSUME LedgerInv, FormInv, RedirectInv, [SiteNext]_siteVars, UNCHANGED titles,
         NEW n \in Nonces, ctx'[n] \in {"landed", "stray"}, ctx[n] \in {"landed", "stray"},
         asked'[n] = asked[n]
  PROVE  /\ market'[<<asked[n].by, n>>].status # "Absent"
         /\ titles'[<<asked[n].by, n>>] # NoMarket
<1>1. PICK m \in Markets : m = <<asked[n].by, n>>
  BY MarketOfAsk
<1>2. OnLedger(m) /\ titles[m] # NoMarket
  BY <1>1 DEF RedirectInv
<1>3. Advanced(m)
  BY TabStepIsAllowed, LedgerAdvances DEF LedgerInv
<1> QED BY <1>1, <1>2, <1>3 DEF Advanced, OnLedger

LEMMA LandMakesMarket ==
  ASSUME FormInv, TypeOK, NEW n \in Nonces, LandCreate(n)
  PROVE  market'[<<asked[n].by, n>>].status # "Absent"
<1> DEFINE r == CreationOf(n)
<1>1. PICK m \in Markets : m = <<asked[n].by, n>>
  BY MarketOfAsk DEF LandCreate
<1>2. r \in Creations /\ r.what = "create" /\ r \in Requests
  BY CreationIsAsked DEF LandCreate, Creations, Requests
<1>3. Received[r] = {[call |-> "create_market", m |-> m, params |-> ParamsOf(asked[n].args)]}
  BY <1>1, <1>2, Understood DEF Meant, CreationOf
<1>4. CreateMarket(m[1], m[2], ParamsOf(asked[n].args))
  BY <1>3 DEF LandCreate, Execute, Call
<1>5. market'[m].status = "Open"
  BY <1>1, <1>4 DEF CreateMarket, TypeOK, NewMarket
<1> QED BY <1>1, <1>5

LEMMA RedirectStep ==
  LedgerInv /\ FormInv /\ FormInv' /\ RedirectInv /\ [SiteNext]_siteVars => RedirectInv'
<1> SUFFICES ASSUME LedgerInv, FormInv, FormInv', RedirectInv, [SiteNext]_siteVars
             PROVE  RedirectInv'
  OBVIOUS
<1> DEFINE Good == \A n \in Nonces :
             ctx'[n] \in {"landed", "stray"} =>
               /\ market'[<<asked'[n].by, n>>].status # "Absent"
               /\ titles'[<<asked'[n].by, n>>] # NoMarket
           Rest == /\ DOMAIN titles' = Markets
                   /\ busy' \/ result' # "none" => route' = "create"
                   /\ timer' # NoMarket =>
                        /\ ~busy' /\ result' = "confirmed"
                        /\ timer' = <<asked'[clicks'].by, clicks'>>
<1>0. Good /\ Rest => RedirectInv'
  BY DEF RedirectInv, OnLedger
<1>1. ASSUME UNCHANGED titles,
             \A n \in Nonces :
               ctx'[n] \in {"landed", "stray"} =>
                 ctx[n] \in {"landed", "stray"} /\ asked'[n] = asked[n]
      PROVE  Good
  BY <1>1, LandedStays
<1> HIDE DEF Good
<1>2. ASSUME NEW form \in Forms, Create(wallet, form), route = "create", UNCHANGED navVars
      PROVE  Good /\ Rest
  <2> DEFINE ask == [by |-> wallet, form |-> form, args |-> ArgsOf(form)]
  <2>1. /\ clicks' \in Nonces /\ ctx' = [ctx EXCEPT ![clicks'] = "built"]
        /\ asked' = [asked EXCEPT ![clicks'] = ask]
        /\ UNCHANGED titles /\ timer' = NoMarket
    BY <1>2 DEF Create
  <2> HIDE DEF ask
  <2>2. Good
    BY <1>1, <2>1 DEF FormInv
  <2>3. Rest
    BY <1>2, <2>1 DEF navVars, RedirectInv
  <2> QED BY <2>2, <2>3
<1>3. CASE Broadcast /\ UNCHANGED navVars
  <2>1. Good
    BY <1>1, <1>3 DEF Broadcast, FormInv
  <2>2. Rest
    BY <1>3 DEF Broadcast, FormInv, RedirectInv, navVars
  <2> QED BY <1>0, <2>1, <2>2
<1>4. CASE RejectCreate /\ UNCHANGED navVars
  <2>1. UNCHANGED <<titles, asked, clicks, timer>> /\ busy /\ clicks \in Nonces
    BY <1>4 DEF RejectCreate, FormInv
  <2>2. \A n \in Nonces : ctx'[n] \in {"landed", "stray"} => ctx[n] \in {"landed", "stray"}
    <3>1. CASE at = "sign" /\ ctx' = [ctx EXCEPT ![clicks] = "dead"]
      BY <2>1, <3>1 DEF FormInv
    <3>2. CASE at = "confirm" /\ ctx' = [ctx EXCEPT ![clicks] = Astray[@]]
      <4>1. ctx[clicks] \in {"pending", "landed", "dead"}
        BY <3>2 DEF FormInv
      <4>2. ctx[clicks] # "landed" => Astray[ctx[clicks]] \in {"dead", "adrift"}
        BY <4>1 DEF Astray
      <4> QED BY <2>1, <3>2, <4>1, <4>2 DEF FormInv
    <3> QED BY <1>4, <3>1, <3>2 DEF RejectCreate
  <2>3. Good
    BY <1>1, <2>1, <2>2
  <2>4. Rest
    BY <1>4, <2>1 DEF RedirectInv, navVars
  <2> QED BY <1>0, <2>3, <2>4
<1>5. CASE ConfirmCreate /\ UNCHANGED navVars
  <2>1. Good
    BY <1>1, <1>5 DEF ConfirmCreate
  <2>2. Rest
    BY <1>5 DEF ConfirmCreate, FormInv, RedirectInv, navVars
  <2> QED BY <1>0, <2>1, <2>2
<1>6. ASSUME NEW n \in Nonces, DieCreate(n), UNCHANGED navVars
      PROVE  Good /\ Rest
  <2>1. Good
    BY <1>1, <1>6 DEF DieCreate, FormInv
  <2>2. Rest
    BY <1>6 DEF DieCreate, formVars, RedirectInv, navVars
  <2> QED BY <1>0, <2>1, <2>2
<1>7. ASSUME NEW n \in Nonces, LandCreate(n), UNCHANGED navVars
      PROVE  Good /\ Rest
  <2> DEFINE m == <<asked[n].by, n>>
             d == titleOf(asked[n].form)
  <2>1. /\ ctx[n] \in {"pending", "adrift"} /\ UNCHANGED <<asked, clicks, formVars>>
        /\ ctx' = [ctx EXCEPT ![n] = IF @ = "pending" THEN "landed" ELSE "stray"]
        /\ titles' = [titles EXCEPT ![m] = d]
    BY <1>7 DEF LandCreate
  <2>2. d # NoMarket
    BY <2>1, CreatePageAssumption DEF FormInv, Asks
  <2>3. m \in Markets
    BY <2>1, MarketOfAsk
  <2>4. market'[m].status # "Absent"
    BY <1>7, LandMakesMarket DEF LedgerInv
  <2> HIDE DEF d
  <2>5. ASSUME NEW k \in Nonces, k # n, ctx'[k] \in {"landed", "stray"}
        PROVE  /\ market'[<<asked[k].by, k>>].status # "Absent"
               /\ titles'[<<asked[k].by, k>>] # NoMarket
    <3>1. PICK x \in Markets : x = <<asked[k].by, k>>
      BY <2>1, <2>5, MarketOfAsk DEF FormInv
    <3>2. OnLedger(x) /\ titles[x] # NoMarket /\ x # m
      BY <2>1, <2>5, <3>1 DEF RedirectInv, FormInv
    <3>3. Advanced(x)
      BY TabStepIsAllowed, LedgerAdvances DEF LedgerInv
    <3> QED BY <2>1, <3>1, <3>2, <3>3 DEF Advanced, OnLedger, RedirectInv
  <2>6. Good
    BY <2>1, <2>2, <2>3, <2>4, <2>5 DEF Good, RedirectInv
  <2>7. Rest
    BY <1>7, <2>1 DEF formVars, RedirectInv, navVars
  <2> QED BY <2>6, <2>7
<1>8. CASE LeaveCreate
  <2>1. Good
    BY <1>1, <1>8 DEF LeaveCreate, FormInv
  <2>2. Rest
    BY <1>8 DEF LeaveCreate, RedirectInv
  <2> QED BY <1>0, <2>1, <2>2
<1>9. CASE UNCHANGED <<createVars, navVars>>
  <2>1. Good
    BY <1>1, <1>9 DEF createVars
  <2>2. Rest
    BY <1>9 DEF createVars, formVars, RedirectInv, navVars
  <2> QED BY <1>0, <2>1, <2>2
<1> QED BY <1>0, <1>2, <1>3, <1>4, <1>5, <1>6, <1>7, <1>8, <1>9, TabSteps

\* Whatever page the user goes to and whatever is sent meanwhile, the redirect
\* leads only from the form that shows the confirmation, and to a market that is
\* there (app/create/page.tsx:53-61).
THEOREM TabRedirectsAsWanted == SiteSpec => []RedirectIsWanted
<1>1. FormInv /\ RedirectInv => RedirectIsWanted
  BY DEF FormInv, RedirectInv, RedirectIsWanted
<1> QED BY <1>1, FormInit, FormStep, RedirectInit, RedirectStep, LedgerAlwaysInOrder, PTL
    DEF SiteSpec

-----------------------------------------------------------------------------
(* The title.                                                              *)

\* Arguments, and parameters, that are of the predicate that t tells of.
Asked(t, args) ==
  /\ args.statKey = t.statKey /\ args.statKey2 = t.statKey2 /\ args.op = t.op
  /\ args.threshold = t.threshold /\ args.comparison = t.comparison

Kept(t, p) ==
  /\ p.stat_key = t.statKey /\ p.stat_key2 = t.statKey2
  /\ p.op = IF t.op = NoOp THEN NoOp ELSE Pascal(t.op)
  /\ p.threshold = ToI32(t.threshold) /\ p.comparison = Pascal(t.comparison)

\* Form, title and arguments agree about what was sent, and title and ledger about
\* what has landed.
TitleInv ==
  /\ \A n \in Nonces : ctx[n] # "unused" => Asked(titleOf(asked[n].form), asked[n].args)
  /\ \A m \in Markets :
       titles[m] # NoMarket =>
         /\ OnLedger(m) /\ Kept(titles[m], market[m].params)
         /\ \E form \in Forms : titles[m] = titleOf(form)

LEMMA TitleInit == SiteInit => TitleInv
BY DEF SiteInit, CreateInit, TitleInv

LEMMA AskedAsTitled ==
  ASSUME NEW form \in Forms
  PROVE  Asked(titleOf(form), ArgsOf(form))
BY DEF Asked, titleOf, describePredicate, predicateOf, ArgsOf

LEMMA KeptAsAsked ==
  ASSUME NEW t, NEW args \in CreateArgs, Asked(t, args)
  PROVE  Kept(t, ParamsOf(args))
BY DEF Asked, Kept, ParamsOf

\* A market whose title stays is kept by every step of the ledger.
LEMMA TitleStays ==
  ASSUME LedgerInv, FormInv, TitleInv, [SiteNext]_siteVars, NEW m \in Markets,
         titles'[m] = titles[m], titles[m] # NoMarket
  PROVE  /\ market'[m].status # "Absent" /\ Kept(titles'[m], market'[m].params)
         /\ \E form \in Forms : titles'[m] = titleOf(form)
<1>1. OnLedger(m) /\ Kept(titles[m], market[m].params)
      /\ \E form \in Forms : titles[m] = titleOf(form)
  BY DEF TitleInv
<1>2. Advanced(m)
  BY TabStepIsAllowed, LedgerAdvances DEF LedgerInv
<1> QED BY <1>1, <1>2 DEF Advanced, OnLedger

LEMMA LandKeepsTitle ==
  ASSUME LedgerInv, FormInv, TitleInv, NEW n \in Nonces, LandCreate(n)
  PROVE  /\ market'[<<asked[n].by, n>>].status # "Absent"
         /\ Kept(titleOf(asked[n].form), market'[<<asked[n].by, n>>].params)
         /\ asked[n].form \in Forms
<1> DEFINE r == CreationOf(n)
<1>1. PICK m \in Markets : m = <<asked[n].by, n>>
  BY MarketOfAsk DEF LandCreate
<1>2. r \in Creations /\ r.what = "create" /\ r \in Requests
  BY CreationIsAsked DEF LandCreate, Creations, Requests
<1>3. Received[r] = {[call |-> "create_market", m |-> m, params |-> ParamsOf(asked[n].args)]}
  BY <1>1, <1>2, Understood DEF Meant, CreationOf
<1>4. CreateMarket(m[1], m[2], ParamsOf(asked[n].args))
  BY <1>3 DEF LandCreate, Execute, Call
<1>5. market'[m].status = "Open" /\ market'[m].params = ParamsOf(asked[n].args)
  BY <1>1, <1>4 DEF CreateMarket, LedgerInv, TypeOK, NewMarket
<1>6. ctx[n] # "unused" /\ asked[n] \in Asks
  BY DEF LandCreate, FormInv
<1>7. Kept(titleOf(asked[n].form), ParamsOf(asked[n].args))
  BY <1>6, KeptAsAsked DEF TitleInv, Asks
<1> QED BY <1>1, <1>5, <1>6, <1>7 DEF Asks

LEMMA TitleStep ==
  LedgerInv /\ FormInv /\ RedirectInv /\ TitleInv /\ [SiteNext]_siteVars => TitleInv'
<1> SUFFICES ASSUME LedgerInv, FormInv, RedirectInv, TitleInv, [SiteNext]_siteVars
             PROVE  TitleInv'
  OBVIOUS
<1> DEFINE Sent == \A n \in Nonces :
             ctx'[n] # "unused" => Asked(titleOf(asked'[n].form), asked'[n].args)
           Traded == \A m \in Markets :
             titles'[m] # NoMarket =>
               /\ market'[m].status # "Absent" /\ Kept(titles'[m], market'[m].params)
               /\ \E form \in Forms : titles'[m] = titleOf(form)
<1>0. Sent /\ Traded => TitleInv'
  BY DEF TitleInv, OnLedger, Kept
<1>1. UNCHANGED titles => Traded
  BY TitleStays
<1>2. ASSUME UNCHANGED asked, \A n \in Nonces : ctx'[n] # "unused" => ctx[n] # "unused"
      PROVE  Sent
  BY <1>2 DEF TitleInv
<1> HIDE DEF Sent, Traded
<1>3. ASSUME NEW form \in Forms, Create(wallet, form)
      PROVE  Sent /\ Traded
  <2> DEFINE ask == [by |-> wallet, form |-> form, args |-> ArgsOf(form)]
  <2>1. /\ clicks' \in Nonces /\ ctx' = [ctx EXCEPT ![clicks'] = "built"]
        /\ asked' = [asked EXCEPT ![clicks'] = ask] /\ UNCHANGED titles
    BY <1>3 DEF Create
  <2>2. Asked(titleOf(ask.form), ask.args)
    BY AskedAsTitled
  <2> HIDE DEF ask
  <2>3. ASSUME NEW n \in Nonces, ctx'[n] # "unused"
        PROVE  Asked(titleOf(asked'[n].form), asked'[n].args)
    BY <2>1, <2>2, <2>3 DEF FormInv, TitleInv
  <2> QED BY <1>1, <2>1, <2>3 DEF Sent
<1>4. CASE Broadcast \/ ConfirmCreate
  BY <1>0, <1>1, <1>2, <1>4 DEF Broadcast, ConfirmCreate, FormInv
<1>5. CASE RejectCreate
  <2>1. UNCHANGED <<titles, asked>> /\ clicks \in Nonces /\ ctx[clicks] # "unused"
    BY <1>5 DEF RejectCreate, FormInv
  <2>2. \A n \in Nonces : n # clicks => ctx'[n] = ctx[n]
    BY <1>5 DEF RejectCreate, FormInv
  <2> QED BY <1>0, <1>1, <1>2, <2>1, <2>2
<1>6. ASSUME NEW n \in Nonces, DieCreate(n)
      PROVE  Sent /\ Traded
  BY <1>1, <1>2, <1>6 DEF DieCreate, FormInv
<1>7. ASSUME NEW n \in Nonces, LandCreate(n)
      PROVE  Sent /\ Traded
  <2> DEFINE m == <<asked[n].by, n>>
             t == titleOf(asked[n].form)
  <2>1. /\ ctx[n] \in {"pending", "adrift"} /\ UNCHANGED asked
        /\ ctx' = [ctx EXCEPT ![n] = IF @ = "pending" THEN "landed" ELSE "stray"]
        /\ titles' = [titles EXCEPT ![m] = t]
    BY <1>7 DEF LandCreate
  <2>2. /\ market'[m].status # "Absent" /\ Kept(t, market'[m].params)
        /\ \E form \in Forms : t = titleOf(form)
    BY <1>7, LandKeepsTitle
  <2>3. m \in Markets
    BY <2>1, MarketOfAsk
  <2> HIDE DEF m, t
  <2>4. Sent
    BY <1>2, <2>1 DEF FormInv
  <2>5. ASSUME NEW x \in Markets, titles'[x] # NoMarket
        PROVE  /\ market'[x].status # "Absent" /\ Kept(titles'[x], market'[x].params)
               /\ \E form \in Forms : titles'[x] = titleOf(form)
    <3>1. CASE x = m
      BY <2>1, <2>2, <2>3, <3>1 DEF RedirectInv
    <3>2. CASE x # m
      <4>1. titles'[x] = titles[x]
        BY <2>1, <3>2 DEF RedirectInv
      <4> QED BY <2>5, <4>1, TitleStays
    <3> QED BY <3>1, <3>2
  <2> QED BY <2>4, <2>5 DEF Traded
<1>8. CASE LeaveCreate
  BY <1>0, <1>1, <1>2, <1>8 DEF LeaveCreate, FormInv
<1>9. CASE UNCHANGED createVars
  BY <1>0, <1>1, <1>2, <1>9 DEF createVars
<1> QED BY <1>0, <1>3, <1>4, <1>5, <1>6, <1>7, <1>8, <1>9, TabSteps

\* Doubling both sides of a comparison of integers changes nothing.
LEMMA TitleDecides ==
  ASSUME NEW form \in Forms, NEW p, Kept(titleOf(form), p), form.threshold % 2 = 0,
         NEW a \in Int, NEW b \in Int
  PROVE  LET t == titleOf(form) IN
         Holds(2 * Combine(IF t.op = NoOp THEN NoOp ELSE Pascal(t.op), a, b),
               Pascal(t.comparison), t.threshold)
           = Holds(Combine(p.op, a, b), p.comparison, p.threshold)
<1> DEFINE t == titleOf(form)
           v == Combine(p.op, a, b)
<1>1. form \in FormType
  BY CreatePageAssumption
<1>2. t.threshold = form.threshold /\ form.threshold \in Int
  BY <1>1 DEF titleOf, describePredicate, predicateOf, FormType
<1>3. 2 * p.threshold = t.threshold /\ p.threshold \in Int
  <2>1. p.threshold = ToI32(form.threshold)
    BY <1>2 DEF Kept
  <2>2. CASE form.threshold >= 0
    BY <1>2, <2>1, <2>2 DEF ToI32
  <2>3. CASE ~(form.threshold >= 0)
    BY <1>2, <2>1, <2>3 DEF ToI32
  <2> QED BY <2>2, <2>3
<1>4. v \in Int /\ v = Combine(IF t.op = NoOp THEN NoOp ELSE Pascal(t.op), a, b)
  BY DEF Kept, Combine
<1>5. p.comparison = Pascal(t.comparison)
  BY DEF Kept
<1> HIDE DEF t, v
<1>6. Holds(2 * v, Pascal(t.comparison), t.threshold) = Holds(v, p.comparison, p.threshold)
  <2>1. (2 * v > t.threshold) = (v > p.threshold) /\ (2 * v < t.threshold) = (v < p.threshold)
    BY <1>3, <1>4
  <2> QED BY <1>5, <2>1 DEF Holds
<1> QED BY <1>4, <1>6 DEF t, v

\* Whatever the fields hold or hide, and whichever of its transactions lands, a
\* market made by the form is traded under a title that says what it resolves by,
\* if its threshold was typed without a fraction (create/page.tsx:39-86, 229).
THEOREM TitlesAlwaysTrue == SiteSpec => []TitleIsTrue
<1>1. TitleInv => TitleIsTrue
  <2> SUFFICES ASSUME TitleInv, NEW m \in Markets, titles[m] # NoMarket,
                      titles[m].threshold % 2 = 0
               PROVE  TitleHolds(titles[m], market[m].params)
    BY DEF TitleIsTrue
  <2>1. Kept(titles[m], market[m].params)
    BY DEF TitleInv
  <2>2. PICK form \in Forms : titles[m] = titleOf(form)
    BY DEF TitleInv
  <2>3. form.threshold % 2 = 0
    BY <2>2 DEF titleOf, describePredicate, predicateOf
  <2>4. \A a \in 0..3, b \in 0..3 : a \in Int /\ b \in Int
    OBVIOUS
  <2> QED BY <2>1, <2>2, <2>3, <2>4, TitleDecides DEF TitleHolds, Kept
<1> QED BY <1>1, FormInit, FormStep, RedirectInit, RedirectStep, TitleInit, TitleStep,
           LedgerAlwaysInOrder, PTL DEF SiteSpec

-----------------------------------------------------------------------------
(* Market accounts, as the IDL reads them.                                 *)

MarketFields == MarketConfig \o MarketLifecycle

\* The place of each field, by its name.
PlaceInMarket ==
  [authority |-> 1, usdc_mint |-> 2, escrow |-> 3, nonce |-> 4, fixture_id |-> 5,
   seq |-> 6, stat_key |-> 7, stat_key2 |-> 8, op |-> 9, period |-> 10, threshold
   |-> 11, comparison |-> 12, close_ts |-> 13, yes_pool |-> 14, no_pool |-> 15,
   fee_bps |-> 16, status |-> 17, winning_side |-> 18, settle_ts |-> 19, settle_slot
   |-> 20, fee_collected |-> 21, total_payout_pool |-> 22, total_claimed |-> 23,
   bump |-> 24, escrow_bump |-> 25, title |-> 26]

LEMMA ConfigFields ==
  /\ DOMAIN MarketConfig = 1..13 /\ IdlMarketConfig = MarketConfig
  /\ \A i \in 1..13 : PlaceInMarket[MarketConfig[i].name] = i
  /\ MarketConfig[1] = Field("pubkey", "authority") /\ MarketConfig[5] = Field("i64", "fixture_id")
  /\ MarketConfig[6] = Field("u32", "seq") /\ MarketConfig[7] = Field("u32", "stat_key")
  /\ MarketConfig[8] = Opt("u32", "stat_key2") /\ MarketConfig[9] = Opt("BinaryOp", "op")
  /\ MarketConfig[11] = Field("i32", "threshold")
  /\ MarketConfig[12] = Field("Comparison", "comparison")
<1> DEFINE t == MarketConfig
           p == PlaceInMarket
<1>1. /\ DOMAIN t = 1..13
      /\ t[1].name = "authority" /\ t[2].name = "usdc_mint"
      /\ t[3].name = "escrow" /\ t[4].name = "nonce"
      /\ t[5].name = "fixture_id" /\ t[6].name = "seq"
      /\ t[7].name = "stat_key" /\ t[8].name = "stat_key2"
      /\ t[9].name = "op" /\ t[10].name = "period"
      /\ t[11].name = "threshold" /\ t[12].name = "comparison"
      /\ t[13].name = "close_ts"
  BY DEF MarketConfig, Field, Opt
<1>2. /\ t[1] = Field("pubkey", "authority") /\ t[5] = Field("i64", "fixture_id")
      /\ t[6] = Field("u32", "seq") /\ t[7] = Field("u32", "stat_key")
      /\ t[8] = Opt("u32", "stat_key2") /\ t[9] = Opt("BinaryOp", "op")
      /\ t[11] = Field("i32", "threshold")
      /\ t[12] = Field("Comparison", "comparison") /\ IdlMarketConfig = t
  BY DEF MarketConfig, IdlMarketConfig
<1>3. /\ p["authority"] = 1 /\ p["usdc_mint"] = 2 /\ p["escrow"] = 3
      /\ p["nonce"] = 4 /\ p["fixture_id"] = 5 /\ p["seq"] = 6
      /\ p["stat_key"] = 7 /\ p["stat_key2"] = 8 /\ p["op"] = 9
      /\ p["period"] = 10 /\ p["threshold"] = 11 /\ p["comparison"] = 12
      /\ p["close_ts"] = 13
  BY DEF PlaceInMarket
<1> HIDE DEF t, p
<1>4. \A i \in 1..13 : \/ i = 1 \/ i = 2 \/ i = 3 \/ i = 4 \/ i = 5 \/ i = 6 \/ i = 7
                       \/ i = 8 \/ i = 9 \/ i = 10 \/ i = 11 \/ i = 12 \/ i = 13
  OBVIOUS
<1>5. \A i \in 1..13 : p[t[i].name] = i
  BY <1>1, <1>3, <1>4
<1> QED BY <1>1, <1>2, <1>5 DEF t, p

LEMMA LifecycleFields ==
  /\ DOMAIN MarketLifecycle = 1..13 /\ IdlMarketLifecycle = MarketLifecycle
  /\ \A i \in 1..13 : PlaceInMarket[MarketLifecycle[i].name] = i + 13
  /\ MarketLifecycle[1] = Field("u64", "yes_pool") /\ MarketLifecycle[2] = Field("u64", "no_pool")
  /\ MarketLifecycle[4] = Field("MarketStatus", "status")
  /\ MarketLifecycle[5] = Field("u8", "winning_side")
<1> DEFINE t == MarketLifecycle
           p == PlaceInMarket
<1>1. /\ DOMAIN t = 1..13
      /\ t[1].name = "yes_pool" /\ t[2].name = "no_pool"
      /\ t[3].name = "fee_bps" /\ t[4].name = "status"
      /\ t[5].name = "winning_side" /\ t[6].name = "settle_ts"
      /\ t[7].name = "settle_slot" /\ t[8].name = "fee_collected"
      /\ t[9].name = "total_payout_pool" /\ t[10].name = "total_claimed"
      /\ t[11].name = "bump" /\ t[12].name = "escrow_bump"
      /\ t[13].name = "title"
  BY DEF MarketLifecycle, Field
<1>2. /\ t[1] = Field("u64", "yes_pool") /\ t[2] = Field("u64", "no_pool")
      /\ t[4] = Field("MarketStatus", "status") /\ t[5] = Field("u8", "winning_side")
      /\ IdlMarketLifecycle = t
  BY DEF MarketLifecycle, IdlMarketLifecycle
<1>3. /\ p["yes_pool"] = 14 /\ p["no_pool"] = 15 /\ p["fee_bps"] = 16
      /\ p["status"] = 17 /\ p["winning_side"] = 18 /\ p["settle_ts"] = 19
      /\ p["settle_slot"] = 20 /\ p["fee_collected"] = 21 /\ p["total_payout_pool"] = 22
      /\ p["total_claimed"] = 23 /\ p["bump"] = 24 /\ p["escrow_bump"] = 25
      /\ p["title"] = 26
  BY DEF PlaceInMarket
<1> HIDE DEF t, p
<1>4. \A i \in 1..13 : \/ i = 1 \/ i = 2 \/ i = 3 \/ i = 4 \/ i = 5 \/ i = 6 \/ i = 7
                       \/ i = 8 \/ i = 9 \/ i = 10 \/ i = 11 \/ i = 12 \/ i = 13
  OBVIOUS
<1>5. \A i \in 1..13 : p[t[i].name] = i + 13
  BY <1>1, <1>3, <1>4
<1> QED BY <1>1, <1>2, <1>5 DEF t, p

LEMMA FieldsOfMarket ==
  /\ DOMAIN MarketFields = 1..26 /\ Distinct(MarketFields)
  /\ IdlMarketConfig \o IdlMarketLifecycle = MarketFields
  /\ MarketFields[1] = Field("pubkey", "authority")
  /\ MarketFields[5] = Field("i64", "fixture_id") /\ MarketFields[6] = Field("u32", "seq")
  /\ MarketFields[7] = Field("u32", "stat_key") /\ MarketFields[8] = Opt("u32", "stat_key2")
  /\ MarketFields[9] = Opt("BinaryOp", "op")
  /\ MarketFields[11] = Field("i32", "threshold")
  /\ MarketFields[12] = Field("Comparison", "comparison")
  /\ MarketFields[14] = Field("u64", "yes_pool") /\ MarketFields[15] = Field("u64", "no_pool")
  /\ MarketFields[17] = Field("MarketStatus", "status")
  /\ MarketFields[18] = Field("u8", "winning_side")
<1> DEFINE c == MarketConfig
           l == MarketLifecycle
           t == MarketFields
           p == PlaceInMarket
<1>1. /\ DOMAIN c = 1..13 /\ DOMAIN l = 1..13
      /\ \A i \in 1..13 : p[c[i].name] = i
      /\ \A i \in 1..13 : p[l[i].name] = i + 13
  BY ConfigFields, LifecycleFields
<1> DEFINE S == Range(c) \cup Range(l)
<1>2. c \in Seq(S) /\ l \in Seq(S) /\ Len(c) = 13 /\ Len(l) = 13
  BY DEF MarketConfig, MarketLifecycle, Range
<1>3. t = c \o l
  BY DEF MarketFields
<1>4. IdlMarketConfig \o IdlMarketLifecycle = t
  BY ConfigFields, LifecycleFields DEF MarketFields
<1> HIDE DEF c, l, t, p, S
<1>5. /\ DOMAIN t = 1..26
      /\ \A i \in 1..13 : t[i] = c[i]
      /\ \A i \in 14..26 : t[i] = l[i - 13]
  <2>1. /\ t \in Seq(S) /\ Len(t) = 13 + 13
        /\ \A i \in 1..(13 + 13) : t[i] = IF i <= 13 THEN c[i] ELSE l[i - 13]
    <3>1. /\ c \o l \in Seq(S) /\ Len(c \o l) = Len(c) + Len(l)
          /\ \A i \in 1..(Len(c) + Len(l)) :
               (c \o l)[i] = IF i <= Len(c) THEN c[i] ELSE l[i - Len(c)]
      BY <1>2, ConcatProperties, Zenon
    <3> QED BY <1>2, <1>3, <3>1
  <2>2. DOMAIN t = 1..Len(t)
    BY <2>1
  <2>3. Len(t) = 26 /\ \A i \in 1..26 : t[i] = IF i <= 13 THEN c[i] ELSE l[i - 13]
    BY <2>1
  <2> QED BY <2>2, <2>3
<1>6. \A i \in 1..26 : p[t[i].name] = i
  <2> TAKE i \in 1..26
  <2>1. CASE i \in 1..13
    BY <1>1, <1>5, <2>1
  <2>2. CASE i \notin 1..13
    <3>1. i - 13 \in 1..13 /\ i \in 14..26 /\ (i - 13) + 13 = i
      BY <2>2
    <3>2. t[i] = l[i - 13] /\ p[l[i - 13].name] = (i - 13) + 13
      BY <1>1, <1>5, <3>1
    <3> QED BY <3>1, <3>2
  <2> QED BY <2>1, <2>2
<1>7. \A i, j \in DOMAIN t : t[i].name = t[j].name => i = j
  <2> TAKE i, j \in DOMAIN t
  <2>1. p[t[i].name] = i /\ p[t[j].name] = j
    BY <1>5, <1>6
  <2> QED BY <2>1
<1>8. /\ t[1] = c[1] /\ t[5] = c[5] /\ t[6] = c[6] /\ t[7] = c[7] /\ t[8] = c[8]
      /\ t[9] = c[9] /\ t[11] = c[11] /\ t[12] = c[12]
      /\ t[14] = l[1] /\ t[15] = l[2] /\ t[17] = l[4] /\ t[18] = l[5]
  BY <1>5
<1> QED BY <1>4, <1>5, <1>7, <1>8, ConfigFields, LifecycleFields DEF t, c, l, Distinct

\* A variant that both sides list in the same place is read as it was written.
LEMMA SameVariantRead ==
  ASSUME NEW V, NEW W, NEW kind, NEW value, kind[2] \in DOMAIN V, kind[2] \in DOMAIN W,
         V[kind[2]] = W[kind[2]], value \in Range(V[kind[2]])
  PROVE  Named(W, kind, Numbered(V, kind, value)) = value
<1> DEFINE vs == V[kind[2]]
           i == CHOOSE j \in DOMAIN vs : vs[j] = value
<1>1. i \in DOMAIN vs /\ vs[i] = value
  BY DEF Range
<1>2. Numbered(V, kind, value) = i
  BY DEF Numbered
<1> HIDE DEF i
<1> QED BY <1>1, <1>2 DEF Named

\* What the program writes of a market.
LEMMA AccountOfMarket ==
  ASSUME TypeOK, NEW m \in Markets
  PROVE  /\ AccountOf(m).authority = m[1]
         /\ AccountOf(m).fixture_id = market[m].params.fixture_id
         /\ AccountOf(m).seq = market[m].params.seq
         /\ AccountOf(m).stat_key = market[m].params.stat_key
         /\ AccountOf(m).stat_key2 = market[m].params.stat_key2
         /\ AccountOf(m).op = market[m].params.op
         /\ AccountOf(m).threshold = market[m].params.threshold
         /\ AccountOf(m).comparison = market[m].params.comparison
         /\ AccountOf(m).yes_pool = market[m].yes_pool
         /\ AccountOf(m).no_pool = market[m].no_pool
         /\ AccountOf(m).status = market[m].status
         /\ AccountOf(m).winning_side = market[m].winning_side
<1> DEFINE f == market[m].params
           g == market[m]
           h == [authority |-> m[1], nonce |-> m[2], usdc_mint |-> Mint,
                 escrow |-> EscrowPda(KeyOf(m)), settle_slot |-> market[m].settle_ts,
                 bump |-> 255, escrow_bump |-> 255]
           df == {"fixture_id", "seq", "stat_key", "stat_key2", "op", "period", "threshold",
                  "comparison", "close_ts", "fee_bps", "title"}
           dg == {"status", "params", "yes_pool", "no_pool", "winning_side", "settle_ts",
                  "fee_collected", "total_payout_pool", "total_claimed"}
<1>1. f \in ParamsType /\ g \in MarketType
  BY InputAssumption DEF TypeOK, MarketType
<1>2. DOMAIN f = df
  BY <1>1 DEF ParamsType
<1>3. DOMAIN g = dg
  BY <1>1 DEF MarketType
<1>4. "authority" \in DOMAIN h /\ h["authority"] = m[1]
  OBVIOUS
<1>5. AccountOf(m) = Joined(Joined(f, g), h)
  BY DEF AccountOf
<1> HIDE DEF f, g, h
<1> DEFINE k == Joined(f, g)
<1>6. /\ DOMAIN k = df \cup dg
      /\ k["fixture_id"] = f["fixture_id"] /\ k["seq"] = f["seq"]
      /\ k["stat_key"] = f["stat_key"] /\ k["stat_key2"] = f["stat_key2"] /\ k["op"] = f["op"]
      /\ k["threshold"] = f["threshold"] /\ k["comparison"] = f["comparison"]
      /\ k["yes_pool"] = g["yes_pool"] /\ k["no_pool"] = g["no_pool"]
      /\ k["status"] = g["status"] /\ k["winning_side"] = g["winning_side"]
  BY <1>2, <1>3 DEF Joined
<1> HIDE DEF k
<1> DEFINE r == Joined(k, h)
<1>7. /\ r["fixture_id"] = k["fixture_id"] /\ r["seq"] = k["seq"]
      /\ r["stat_key"] = k["stat_key"] /\ r["stat_key2"] = k["stat_key2"] /\ r["op"] = k["op"]
      /\ r["threshold"] = k["threshold"] /\ r["comparison"] = k["comparison"]
      /\ r["yes_pool"] = k["yes_pool"] /\ r["no_pool"] = k["no_pool"]
      /\ r["status"] = k["status"] /\ r["winning_side"] = k["winning_side"]
      /\ r["authority"] = h["authority"]
  BY <1>4, <1>6 DEF Joined
<1> HIDE DEF r
<1>8. AccountOf(m) = r
  BY <1>5 DEF r, k
<1> QED BY <1>4, <1>6, <1>7, <1>8 DEF f, g

\* What the clients read of it: what never changes, and what does.
SameMarket(s, m) ==
  /\ s.address = KeyOf(m) /\ s.authority = m[1]
  /\ s.fixtureId = market[m].params.fixture_id /\ s.seq = market[m].params.seq
  /\ s.statKey = market[m].params.stat_key /\ s.statKey2 = market[m].params.stat_key2
  /\ s.op = IF market[m].params.op = NoOp THEN NoOp ELSE Camel[market[m].params.op]
  /\ s.threshold = market[m].params.threshold
  /\ s.comparison = Camel[market[m].params.comparison]

ShowsMarket(s, m) ==
  /\ SameMarket(s, m)
  /\ s.yesPool = market[m].yes_pool /\ s.noPool = market[m].no_pool
  /\ s.status = Camel[market[m].status]
  /\ s.winningSide = market[m].winning_side

LEMMA MarketIsRead ==
  ASSUME TypeOK, NEW m \in Markets, NEW s \in MarketView(m)
  PROVE  OnLedger(m) /\ ShowsMarket(s, m)
<1> DEFINE F == MarketFields
           cells == Encode(F, Variants, AccountOf(m))
           a == Decode(F, IdlVariants, cells)
<1>1. OnLedger(m) /\ s = summarizeMarket(KeyOf(m), a)
  BY FieldsOfMarket DEF MarketView, fetchMarket, decodeMarket, OnLedger, MarketFields
<1>2. Distinct(F) /\ DOMAIN F = 1..26
  BY FieldsOfMarket
<1>3. /\ HasField(F, "authority") /\ HasField(F, "fixture_id") /\ HasField(F, "seq")
      /\ HasField(F, "stat_key") /\ HasField(F, "stat_key2")
      /\ HasField(F, "threshold") /\ HasField(F, "yes_pool")
      /\ HasField(F, "no_pool") /\ HasField(F, "winning_side")
  <2>1. /\ {1, 5, 6, 7, 8, 11, 14, 15, 18} \subseteq DOMAIN F
        /\ F[1].name = "authority" /\ F[1].kind[2] = "pubkey"
        /\ F[5].name = "fixture_id" /\ F[5].kind[2] = "i64"
        /\ F[6].name = "seq" /\ F[6].kind[2] = "u32"
        /\ F[7].name = "stat_key" /\ F[7].kind[2] = "u32"
        /\ F[8].name = "stat_key2" /\ F[8].kind[2] = "u32"
        /\ F[11].name = "threshold" /\ F[11].kind[2] = "i32"
        /\ F[14].name = "yes_pool" /\ F[14].kind[2] = "u64"
        /\ F[15].name = "no_pool" /\ F[15].kind[2] = "u64"
        /\ F[18].name = "winning_side" /\ F[18].kind[2] = "u8"
    BY FieldsOfMarket DEF Field, Opt
  <2>2. {"pubkey", "i64", "u32", "i32", "u64", "u8"} \subseteq PlainTypes
    BY DEF PlainTypes
  <2> QED BY <2>1, <2>2 DEF HasField
<1>4. /\ 12 \in DOMAIN F /\ F[12].name = "comparison" /\ F[12].kind[2] = "Comparison"
      /\ 17 \in DOMAIN F /\ F[17].name = "status" /\ F[17].kind[2] = "MarketStatus"
      /\ 9 \in DOMAIN F /\ F[9].name = "op" /\ F[9].kind[2] = "BinaryOp"
  BY FieldsOfMarket DEF Field, Opt
<1> HIDE DEF F
<1>5. /\ a["authority"] = AccountOf(m)["authority"]
      /\ a["fixture_id"] = AccountOf(m)["fixture_id"] /\ a["seq"] = AccountOf(m)["seq"]
      /\ a["stat_key"] = AccountOf(m)["stat_key"] /\ a["stat_key2"] = AccountOf(m)["stat_key2"]
      /\ a["threshold"] = AccountOf(m)["threshold"]
      /\ a["yes_pool"] = AccountOf(m)["yes_pool"]
      /\ a["no_pool"] = AccountOf(m)["no_pool"]
      /\ a["winning_side"] = AccountOf(m)["winning_side"]
  BY <1>2, <1>3, PlainVariants, FieldIsRead
<1>6. /\ a["comparison"] = Named(IdlVariants, F[12].kind,
                              Numbered(Variants, F[12].kind, AccountOf(m)["comparison"]))
      /\ a["status"] = Named(IdlVariants, F[17].kind,
                          Numbered(Variants, F[17].kind, AccountOf(m)["status"]))
      /\ a["op"] = Named(IdlVariants, F[9].kind,
                      Numbered(Variants, F[9].kind, AccountOf(m)["op"]))
  BY <1>2, <1>4, DecodeField
<1> HIDE DEF a
<1>7. /\ market[m].params.comparison \in {"GreaterThan", "LessThan"}
      /\ market[m].status \in {"Open", "Resolved", "Voided"}
      /\ market[m].params.op \in {"Add", "Subtract"} \cup {NoOp}
  BY <1>1, InputAssumption
  DEF TypeOK, MarketType, ParamsType, Comparisons, BinaryOps, Final, OnLedger
<1>8. /\ {"BinaryOp", "Comparison", "MarketStatus"} \subseteq DOMAIN Variants
      /\ {"BinaryOp", "Comparison", "MarketStatus"} \subseteq DOMAIN IdlVariants
      /\ Variants["BinaryOp"] = <<"Add", "Subtract">>
      /\ IdlVariants["BinaryOp"] = <<"Add", "Subtract">>
      /\ Variants["Comparison"] = <<"GreaterThan", "LessThan">>
      /\ IdlVariants["Comparison"] = <<"GreaterThan", "LessThan">>
      /\ Variants["MarketStatus"] = <<"Open", "Resolved", "Voided">>
      /\ IdlVariants["MarketStatus"] = <<"Open", "Resolved", "Voided">>
  BY DEF Variants, IdlVariants
<1>9. a["comparison"] = market[m].params.comparison
  <2>1. market[m].params.comparison \in Range(Variants["Comparison"])
    BY <1>7, <1>8 DEF Range
  <2> QED BY <1>4, <1>6, <1>8, <2>1, SameVariantRead, AccountOfMarket
<1>10. a["status"] = market[m].status
  <2>1. market[m].status \in Range(Variants["MarketStatus"])
    BY <1>7, <1>8 DEF Range
  <2> QED BY <1>4, <1>6, <1>8, <2>1, SameVariantRead, AccountOfMarket
<1>11. a["op"] = market[m].params.op
  <2>1. CASE market[m].params.op = NoOp
    <3>1. NoOp \notin {"Add", "Subtract"} /\ NoOp \notin 1..2
      BY ClientAssumption DEF BinaryOps
    <3>2. NoOp \notin Range(Variants["BinaryOp"]) /\ NoOp \notin DOMAIN IdlVariants["BinaryOp"]
      BY <1>8, <3>1 DEF Range
    <3> QED BY <1>4, <1>6, <2>1, <3>2, NoVariantRead, AccountOfMarket
  <2>2. CASE market[m].params.op # NoOp
    <3>1. market[m].params.op \in Range(Variants["BinaryOp"])
      BY <1>7, <1>8, <2>2 DEF Range
    <3> QED BY <1>4, <1>6, <1>8, <3>1, SameVariantRead, AccountOfMarket
  <2> QED BY <2>1, <2>2
<1>12. /\ Camel["GreaterThan"] = "greaterThan" /\ Camel["LessThan"] = "lessThan"
       /\ Camel["Add"] = "add" /\ Camel["Subtract"] = "subtract"
  BY DEF Camel
<1> QED BY <1>1, <1>5, <1>7, <1>9, <1>10, <1>11, <1>12, AccountOfMarket
        DEF ShowsMarket, SameMarket, summarizeMarket, enumKey

-----------------------------------------------------------------------------
(* The board.                                                              *)

LEMMA BoardSteps ==
  ASSUME [SiteNext]_siteVars
  PROVE  \/ UNCHANGED <<clientVars, walletVars>> /\ ServeMarkets
         \/ UNCHANGED <<clientVars, walletVars>> /\ ShowMarkets
         \/ UNCHANGED <<clientVars, walletVars>> /\ FeedFails
         \/ UNCHANGED <<clientVars, walletVars>> /\ \E r \in reads : ReadChunk(r) \/ ReadFails(r)
         \/ UNCHANGED <<clientVars, walletVars>> /\ \E open : MountBoard(open)
         \/ UNCHANGED clientVars /\ \E owner \in Bettors \cup {NoWallet} : ChangeWallet(owner)
         \/ UNCHANGED <<boardVars, walletVars>>
<1>1. ASSUME NEW to, NEW m, Go(to, m)
      PROVE  UNCHANGED <<clientVars, walletVars>> /\ \E open : MountBoard(open)
  BY <1>1 DEF Go
<1>2. CASE GoToBoard \/ GoToCreate \/ FollowReceipt \/ FollowCard \/ FollowCreated
  BY <1>1, <1>2 DEF GoToBoard, GoToCreate, FollowReceipt, FollowCard, FollowCreated
<1>3. CASE OthersAct \/ TimePasses
  BY <1>3 DEF OthersAct, TimePasses, pageVars
<1>4. CASE Switch
  BY <1>4 DEF Switch
<1>5. CASE OnBoard
  BY <1>5 DEF OnBoard, BoardNext
<1>6. CASE OnForm \/ OnReceipt
  BY <1>6 DEF OnForm, OnReceipt
<1>7. CASE UNCHANGED siteVars
  BY <1>7 DEF siteVars, pageVars
<1> QED BY <1>2, <1>3, <1>4, <1>5, <1>6, <1>7 DEF SiteNext

\* What a summary says of its market, however long ago it was read.
WasTrue(s, m) ==
  /\ OnLedger(m) /\ SameMarket(s, m)
  /\ s.yesPool \in Nat /\ s.yesPool <= market[m].yes_pool
  /\ s.noPool \in Nat /\ s.noPool <= market[m].no_pool
  /\ s.status \in {"open", "resolved", "voided"}
  /\ s.status # "open" =>
       /\ market[m].status \in Final
       /\ s.status = Camel[market[m].status] /\ s.winningSide = market[m].winning_side

SummariesInv == \A s \in Listed \cup answer : \E m \in Markets : WasTrue(s, m)

LEMMA WasTrueStays ==
  ASSUME LedgerInv, [Next]_vars, NEW s, NEW m \in Markets, WasTrue(s, m)
  PROVE  WasTrue(s, m)'
<1>1. Advanced(m)
  BY LedgerAdvances DEF LedgerInv
<1>2. /\ OnLedger(m)' /\ market'[m].params = market[m].params
      /\ market[m].yes_pool <= market'[m].yes_pool /\ market[m].no_pool <= market'[m].no_pool
      /\ market[m].status \in Final =>
           /\ market'[m].status = market[m].status
           /\ market'[m].winning_side = market[m].winning_side
  BY <1>1 DEF Advanced, WasTrue
<1>3. /\ market[m].yes_pool \in Nat /\ market[m].no_pool \in Nat
      /\ market'[m].yes_pool \in Nat /\ market'[m].no_pool \in Nat
  BY NextTypeOK DEF LedgerInv, TypeOK, MarketType
<1> QED BY <1>2, <1>3 DEF WasTrue, SameMarket

LEMMA SummaryIsTrue ==
  ASSUME TypeOK, NEW m \in Markets, NEW s \in MarketView(m)
  PROVE  WasTrue(s, m)
<1>1. OnLedger(m) /\ ShowsMarket(s, m)
  BY MarketIsRead
<1>2. /\ market[m].yes_pool \in Nat /\ market[m].no_pool \in Nat
      /\ market[m].status \in {"Open", "Resolved", "Voided"}
  BY <1>1 DEF TypeOK, MarketType, OnLedger, Final
<1>3. Camel["Open"] = "open" /\ Camel["Resolved"] = "resolved" /\ Camel["Voided"] = "voided"
  BY DEF Camel
<1> QED BY <1>1, <1>2, <1>3 DEF ShowsMarket, WasTrue, Final

LEMMA ServedIsTrue ==
  ASSUME TypeOK, NEW s \in scanMarkets
  PROVE  \E m \in Markets : WasTrue(s, m)
BY SummaryIsTrue DEF scanMarkets

LEMMA SummariesStep ==
  LedgerInv /\ FormInv /\ SummariesInv /\ [SiteNext]_siteVars => SummariesInv'
<1> SUFFICES ASSUME LedgerInv, FormInv, SummariesInv, [SiteNext]_siteVars
             PROVE  SummariesInv'
  OBVIOUS
<1>1. [Next]_vars
  BY TabStepIsAllowed
<1>2. (Listed \cup answer)' \subseteq Listed \cup answer \cup scanMarkets
  BY BoardSteps
  DEF Listed, ServeMarkets, ShowMarkets, FeedFails, ReadChunk, ReadFails, MountBoard, ChangeWallet,
      boardVars
<1>3. ASSUME NEW s \in (Listed \cup answer)'
      PROVE  \E m \in Markets : WasTrue(s, m)'
  <2>1. PICK m \in Markets : WasTrue(s, m)
    BY <1>2, <1>3, ServedIsTrue DEF SummariesInv, LedgerInv
  <2> QED BY <1>1, <2>1, WasTrueStays
<1> QED BY <1>3 DEF SummariesInv

LEMMA SummariesInit == SiteInit => SummariesInv
BY DEF SiteInit, BoardInit, SummariesInv, Listed

\* Whatever happens on the ledger after the board was read, nothing that its cards
\* say has become wrong but what is still open (MarketsSection.tsx, MarketCard.tsx).
THEOREM BoardAlwaysTrue == SiteSpec => []BoardIsTrue
<1>1. LedgerInv /\ SummariesInv => BoardIsTrue
  <2> SUFFICES ASSUME LedgerInv, SummariesInv, NEW m \in Markets, NEW s \in Listed,
                      s.address = KeyOf(m)
               PROVE  /\ s.authority = m[1]
                      /\ s.status # "open" => s.status = enumKey(market[m].status)
                      /\ CardHref(s) = "receipt" =>
                           /\ market[m].status = "Resolved"
                           /\ CardWinner(s)
                                = IF market[m].winning_side = SIDE_YES THEN "YES" ELSE "NO"
                      /\ s.yesPool <= market[m].yes_pool /\ s.noPool <= market[m].no_pool
                      /\ parseUsdc(CardPool(s)) = s.yesPool + s.noPool
                      /\ s.threshold = market[m].params.threshold
                      /\ s.comparison = Camel[market[m].params.comparison]
                      /\ Cardinality({tab \in TABS \ {"all", "mine"} : s \in Shown(tab)}) = 1
    BY DEF BoardIsTrue
  <2>1. WasTrue(s, m)
    <3>1. PICK x \in Markets : WasTrue(s, x)
      BY DEF SummariesInv
    <3>2. KeyOf(x) = KeyOf(m)
      BY <3>1 DEF WasTrue, SameMarket
    <3> QED BY <3>1, <3>2, KeyOfMarket
  <2>2. s.status # "open" => s.status = enumKey(market[m].status)
    BY <2>1 DEF WasTrue, enumKey
  <2>3. ASSUME CardHref(s) = "receipt"
        PROVE  /\ market[m].status = "Resolved"
               /\ CardWinner(s)
                    = IF market[m].winning_side = SIDE_YES THEN "YES" ELSE "NO"
    <3>1. s.status = "resolved"
      BY <2>3 DEF CardHref
    <3>2. market[m].status = "Resolved" /\ s.winningSide = market[m].winning_side
      <4>1. /\ market[m].status \in {"Resolved", "Voided"}
            /\ Camel[market[m].status] = "resolved" /\ s.winningSide = market[m].winning_side
        BY <2>1, <3>1 DEF WasTrue, Final
      <4>2. Camel["Voided"] = "voided"
        BY DEF Camel
      <4> QED BY <4>1, <4>2
    <3>3. market[m].winning_side \in {1, 2}
      BY <3>2 DEF LedgerInv, BooksBalance, Books, ResolvedHasWinners, SIDE_YES, SIDE_NO
    <3> QED BY <3>1, <3>2, <3>3 DEF CardWinner, SIDE_YES
  <2>4. Cardinality({tab \in TABS \ {"all", "mine"} : s \in Shown(tab)}) = 1
    <3>1. s.status \in {"open", "resolved", "voided"}
      BY <2>1 DEF WasTrue
    <3>2. \A tab \in {"open", "resolved", "voided"} : s \in Shown(tab) <=> s.status = tab
      BY DEF Shown
    <3>3. TABS \ {"all", "mine"} = {"open", "resolved", "voided"}
      BY DEF TABS
    <3>4. {tab \in TABS \ {"all", "mine"} : s \in Shown(tab)} = {s.status}
      BY <3>1, <3>2, <3>3
    <3> QED BY <3>4, FS_Singleton
  <2>5. parseUsdc(CardPool(s)) = s.yesPool + s.noPool
    <3>1. s.yesPool + s.noPool \in Nat
      BY <2>1 DEF WasTrue
    <3> QED BY <3>1, AmountsReadBack DEF CardPool
  <2> QED BY <2>1, <2>2, <2>3, <2>4, <2>5 DEF WasTrue, SameMarket
<1> QED BY <1>1, FormInit, FormStep, SummariesInit, SummariesStep, LedgerAlwaysInOrder, PTL
    DEF SiteSpec

-----------------------------------------------------------------------------
(* The tab MINE.                                                           *)

Keys == {KeyOf(m) : m \in Markets}

ReadType ==
  [owner : Bettors, left : SUBSET Keys, staked : SUBSET Keys, live : BOOLEAN,
   had : SUBSET Keys]

\* A read that is under way for the wallet, of the listed markets.
LiveRead(r) ==
  /\ r.owner = wallet
  /\ \A key \in r.staked \cup r.had : HasStake(key, wallet)
  /\ r.had \subseteq r.left \cup r.staked
  /\ r.left \cup r.staked \subseteq Addresses(Listed)

MineInv ==
  /\ wallet \in Bettors \cup {NoWallet}
  /\ reads \subseteq ReadType
  /\ feed = "none" => reads = {} /\ stakedSet = {} /\ had = {}
  /\ \A r \in reads, q \in reads : r.live /\ q.live => r = q
  /\ \A r \in reads : r.live => LiveRead(r)
  /\ (\A r \in reads : ~r.live) =>
       /\ \A key \in stakedSet : HasStake(key, wallet)
       /\ had \subseteq stakedSet /\ had \subseteq Addresses(Listed)
       /\ wallet = NoWallet => had = {}

LEMMA MineInit == SiteInit => MineInv
BY SiteAssumption DEF SiteInit, BoardInit, MineInv

LEMMA StakeStays ==
  ASSUME LedgerInv, [Next]_vars, NEW key, NEW owner, HasStake(key, owner)
  PROVE  HasStake(key, owner)'
<1>1. PICK m \in Markets, b \in Bettors :
        PositionPda(key, owner) = PositionPda(KeyOf(m), b) /\ position[m][b].market # NoKey
  BY DEF HasStake, PositionExists
<1>2. position'[m][b].market # NoKey
  BY <1>1, PositionsStay DEF LedgerInv
<1> QED BY <1>1, <1>2 DEF HasStake, PositionExists

\* The effect of a new wallet or list.
LEMMA EffectOk ==
  ASSUME MineInv, NEW owner \in Bettors \cup {NoWallet}, NEW list,
         StakedEffect(owner, list), wallet' = owner, feed' # "none",
         Listed' = (IF list = NoList THEN {} ELSE list),
         list # NoList => Addresses(list) \subseteq Keys,
         UNCHANGED position
  PROVE  MineInv'
<1> DEFINE cancelled == {[r EXCEPT !.live = FALSE] : r \in reads}
<1>1. cancelled \subseteq ReadType /\ \A r \in cancelled : ~r.live
  BY DEF MineInv, ReadType
<1>2. CASE owner = NoWallet \/ list = NoList \/ list = {}
  <2>1. stakedSet' = {} /\ had' = {} /\ reads' = cancelled
    BY <1>2 DEF StakedEffect
  <2> HIDE DEF cancelled
  <2> QED BY <1>1, <2>1 DEF MineInv
<1>3. CASE ~(owner = NoWallet \/ list = NoList \/ list = {})
  <2> DEFINE had0 == {key \in Addresses(list) : HasStake(key, owner)}
             q == [owner |-> owner, left |-> Addresses(list), staked |-> {}, live |-> TRUE,
                   had |-> had0]
  <2>1. reads' = cancelled \cup {q}
    BY <1>3 DEF StakedEffect
  <2>2. /\ q \in ReadType /\ q.live /\ q.owner = owner /\ q.staked = {}
        /\ q.left = Addresses(list) /\ q.had = had0
    BY <1>3 DEF ReadType
  <2>3. had0 \subseteq Addresses(list) /\ \A key \in had0 : HasStake(key, owner)
    OBVIOUS
  <2>4. Listed' = list /\ \A key : HasStake(key, owner) => HasStake(key, owner)'
    BY <1>3 DEF HasStake, PositionExists
  <2> HIDE DEF had0, cancelled, q
  <2>5. PICK x \in ReadType : x = q
    BY <2>2
  <2>6. LiveRead(x)'
    BY <2>2, <2>3, <2>4, <2>5 DEF LiveRead, Addresses
  <2>7. reads' = cancelled \cup {x} /\ x.live
    BY <2>1, <2>2, <2>5
  <2>8. feed' # "none" /\ wallet' \in Bettors \cup {NoWallet}
    OBVIOUS
  <2> QED BY <1>1, <2>6, <2>7, <2>8 DEF MineInv
<1> QED BY <1>2, <1>3

LEMMA ChunkOk ==
  ASSUME MineInv, UNCHANGED <<clientVars, walletVars>>, NEW r \in reads, ReadChunk(r)
  PROVE  MineInv'
<1>1. PICK slice \in SUBSET r.left, left \in SUBSET Keys, staked \in SUBSET Keys :
        /\ left = r.left \ slice
        /\ staked = r.staked \cup {key \in slice : HasStake(key, r.owner)}
        /\ IF left = {}
             THEN reads' = reads \ {r} /\ Settled(r, staked, r.had)
             ELSE /\ reads' = (reads \ {r}) \cup {[r EXCEPT !.left = left, !.staked = staked]}
                  /\ UNCHANGED <<stakedSet, had>>
        /\ UNCHANGED <<feed, answer, markets>>
  <2>1. r.left \subseteq Keys /\ r.staked \subseteq Keys
    BY DEF MineInv, ReadType
  <2> QED BY <2>1 DEF ReadChunk
<1>2. /\ r \in ReadType /\ r.left \subseteq Keys /\ UNCHANGED <<feed, answer, markets, wallet>>
      /\ Listed' = Listed
  <2>1. r \in ReadType
    BY DEF MineInv
  <2> QED BY <1>1, <2>1 DEF ReadType, walletVars, Listed
<1>3. \A key, owner : HasStake(key, owner)' <=> HasStake(key, owner)
  BY DEF clientVars, vars, HasStake, PositionExists
<1>4. ASSUME r.live
      PROVE  /\ r.owner = wallet
             /\ \A key \in staked \cup r.had : HasStake(key, wallet)
             /\ r.had \subseteq left \cup staked
             /\ left \cup staked \subseteq Addresses(Listed)
             /\ \A q \in reads : q.live => q = r
  <2>1. LiveRead(r) /\ \A q \in reads : q.live => q = r
    BY <1>4 DEF MineInv
  <2>2. /\ r.owner = wallet /\ r.had \subseteq r.left \cup r.staked
        /\ \A key \in r.staked \cup r.had : HasStake(key, wallet)
        /\ r.left \cup r.staked \subseteq Addresses(Listed)
    BY <2>1 DEF LiveRead
  <2>3. staked = r.staked \cup {key \in slice : HasStake(key, wallet)} /\ left = r.left \ slice
    BY <1>1, <2>2
  <2> QED BY <1>1, <2>1, <2>2, <2>3
<1>5. feed # "none" /\ wallet \in Bettors \cup {NoWallet}
  BY DEF MineInv
<1>6. ASSUME NEW q \in reads, q.live
      PROVE  LiveRead(q)'
  BY <1>2, <1>3, <1>6 DEF MineInv, LiveRead, Addresses
<1>7. CASE left = {} /\ r.live
  <2>1. reads' = reads \ {r} /\ stakedSet' = staked /\ had' = r.had
    BY <1>1, <1>7 DEF Settled
  <2>2. \A q \in reads' : ~q.live /\ q \in ReadType
    BY <1>4, <1>7, <2>1 DEF MineInv
  <2>3. /\ \A key \in stakedSet' : HasStake(key, wallet)'
        /\ had' \subseteq stakedSet' /\ had' \subseteq Addresses(Listed)'
        /\ wallet' # NoWallet
    BY <1>2, <1>3, <1>4, <1>7, <2>1, BoardAssumption DEF Addresses, ReadType
  <2> QED BY <1>2, <1>5, <2>2, <2>3 DEF MineInv
<1>8. CASE left = {} /\ ~r.live
  <2>1. reads' = reads \ {r} /\ UNCHANGED <<stakedSet, had>>
    BY <1>1, <1>8 DEF Settled
  <2> QED BY <1>2, <1>3, <1>5, <1>6, <1>8, <2>1 DEF MineInv, Addresses
<1>9. CASE left # {}
  <2>1. PICK x \in ReadType : x = [r EXCEPT !.left = left, !.staked = staked]
    BY <1>2 DEF ReadType
  <2>2. /\ x.live = r.live /\ x.owner = r.owner /\ x.left = left /\ x.staked = staked
        /\ x.had = r.had
    BY <1>2, <2>1 DEF ReadType
  <2>3. reads' = (reads \ {r}) \cup {x} /\ UNCHANGED <<stakedSet, had>>
    BY <1>1, <1>9, <2>1
  <2>4. x.live => LiveRead(x)'
    BY <1>2, <1>3, <1>4, <2>2 DEF LiveRead, Addresses
  <2>5. \A p \in reads', q \in reads' : p.live /\ q.live => p = q
    BY <1>4, <2>2, <2>3 DEF MineInv
  <2>6. \A q \in reads' : q \in ReadType /\ (q.live => LiveRead(q)')
    BY <1>6, <2>3, <2>4 DEF MineInv
  <2>7. (\A q \in reads' : ~q.live) => \A q \in reads : ~q.live
    BY <2>2, <2>3
  <2> QED BY <1>2, <1>3, <1>5, <2>3, <2>5, <2>6, <2>7 DEF MineInv, Addresses
<1> QED BY <1>7, <1>8, <1>9

LEMMA FailOk ==
  ASSUME MineInv, UNCHANGED <<clientVars, walletVars>>, NEW r \in reads, ReadFails(r)
  PROVE  MineInv'
<1>1. /\ reads' = reads \ {r} /\ UNCHANGED <<feed, wallet>> /\ Listed' = Listed
      /\ IF r.live THEN stakedSet' = {} /\ had' = {} ELSE UNCHANGED <<stakedSet, had>>
  BY DEF ReadFails, Settled, walletVars, Listed
<1>2. \A key, owner : HasStake(key, owner)' <=> HasStake(key, owner)
  BY DEF clientVars, vars, HasStake, PositionExists
<1>3. \A q \in reads : q.live => LiveRead(q)'
  BY <1>1, <1>2 DEF MineInv, LiveRead, Addresses
<1> QED BY <1>1, <1>2, <1>3 DEF MineInv, Addresses

LEMMA MineStep ==
  LedgerInv /\ FormInv /\ SummariesInv /\ MineInv /\ [SiteNext]_siteVars => MineInv'
<1> SUFFICES ASSUME LedgerInv, FormInv, SummariesInv, MineInv, [SiteNext]_siteVars
             PROVE  MineInv'
  OBVIOUS
<1>1. Addresses(Listed) \subseteq Keys /\ Addresses(answer) \subseteq Keys
  BY DEF SummariesInv, WasTrue, SameMarket, Addresses, Keys
<1>2. CASE UNCHANGED <<clientVars, walletVars>> /\ (ServeMarkets \/ FeedFails)
  <2>1. /\ UNCHANGED <<reads, stakedSet, had, markets, wallet>> /\ Listed' = Listed
        /\ feed' # "none"
    BY <1>2 DEF ServeMarkets, FeedFails, walletVars, Listed
  <2>2. \A key, owner : HasStake(key, owner)' <=> HasStake(key, owner)
    BY <1>2 DEF clientVars, vars, HasStake, PositionExists
  <2>3. \A q \in reads : q.live => LiveRead(q)'
    BY <2>1, <2>2 DEF MineInv, LiveRead, Addresses
  <2> QED BY <2>1, <2>2, <2>3 DEF MineInv, Addresses
<1>3. CASE UNCHANGED <<clientVars, walletVars>> /\ ShowMarkets
  <2>1. /\ StakedEffect(wallet, answer) /\ feed' # "none"
        /\ Listed' = (IF answer = NoList THEN {} ELSE answer)
        /\ wallet' = wallet /\ UNCHANGED position
    BY <1>3 DEF ShowMarkets, Listed, walletVars, clientVars, vars
  <2> QED BY <1>1, <2>1, EffectOk DEF MineInv
<1>4. ASSUME NEW owner \in Bettors \cup {NoWallet}, ChangeWallet(owner), UNCHANGED clientVars
      PROVE  MineInv'
  <2>1. CASE feed = "none"
    BY <1>4, <2>1 DEF ChangeWallet, boardVars, MineInv
  <2>2. CASE feed # "none"
    <3>1. /\ StakedEffect(owner, markets) /\ feed' # "none" /\ wallet' = owner
          /\ Listed' = (IF markets = NoList THEN {} ELSE markets) /\ UNCHANGED position
      BY <1>4, <2>2 DEF ChangeWallet, Listed, clientVars, vars
    <3>2. markets # NoList => Addresses(markets) \subseteq Keys
      BY <1>1 DEF Listed
    <3> QED BY <3>1, <3>2, EffectOk
  <2> QED BY <2>1, <2>2
<1>5. ASSUME NEW open, MountBoard(open), UNCHANGED walletVars
      PROVE  MineInv'
  BY <1>5 DEF MountBoard, MineInv, walletVars
<1>6. CASE UNCHANGED <<boardVars, walletVars>>
  <2>1. UNCHANGED <<reads, stakedSet, had, feed, wallet>> /\ Listed' = Listed
    BY <1>6 DEF boardVars, walletVars, Listed
  <2>2. \A key, owner : HasStake(key, owner) => HasStake(key, owner)'
    BY TabStepIsAllowed, StakeStays
  <2>3. \A q \in reads : q.live => LiveRead(q)'
    BY <2>1, <2>2 DEF MineInv, LiveRead, Addresses
  <2> QED BY <2>1, <2>2, <2>3 DEF MineInv, Addresses
<1> QED BY <1>2, <1>3, <1>4, <1>5, <1>6, BoardSteps, ChunkOk, FailOk

\* Whatever wallet is connected while positions are being read, and however the
\* ledger moves, the tab MINE never shows another wallet's markets and misses none
\* that were staked on when the board asked (MarketsSection.tsx:62-92).
THEOREM MineAlwaysMine == SiteSpec => []MineIsMine
<1>1. SummariesInv /\ MineInv => MineIsMine
  <2> SUFFICES ASSUME SummariesInv, MineInv, \A r \in reads : ~r.live
               PROVE  /\ \A m \in Markets :
                           KeyOf(m) \in mineSet => m[1] = wallet \/ HasStake(KeyOf(m), wallet)
                      /\ had \subseteq mineSet
    BY DEF MineIsMine
  <2>1. ASSUME NEW m \in Markets, KeyOf(m) \in mineSet
        PROVE  m[1] = wallet \/ HasStake(KeyOf(m), wallet)
    <3>1. PICK s \in Listed : /\ s.address = KeyOf(m)
                              /\ s.authority = wallet \/ s.address \in stakedSet
      BY <2>1 DEF mineSet, Addresses
    <3>2. PICK x \in Markets : s.address = KeyOf(x) /\ s.authority = x[1]
      BY DEF SummariesInv, WasTrue, SameMarket
    <3>3. x = m
      BY <3>1, <3>2, KeyOfMarket
    <3> QED BY <3>1, <3>2, <3>3 DEF MineInv
  <2>2. had \subseteq mineSet
    BY DEF MineInv, mineSet, Addresses
  <2> QED BY <2>1, <2>2
<1> QED BY <1>1, FormInit, FormStep, SummariesInit, SummariesStep, MineInit, MineStep,
           LedgerAlwaysInOrder, PTL DEF SiteSpec

-----------------------------------------------------------------------------
(* How a market was settled.                                               *)

\* Stats that settled m are of the event that provenBy names.
DecidedBy(m, a, b) ==
  /\ AttestedFor([market[m].params EXCEPT !.seq = provenBy[m]], a, b)
  /\ market[m].winning_side
       = IF YesHolds(market[m].params, a, b, market[m].params.op) THEN SIDE_YES ELSE SIDE_NO

ProvenInv ==
  /\ provenBy \in [Markets -> Int \cup {NoStat}]
  /\ \A m \in Markets : market[m].status = "Resolved" => \E a, b : DecidedBy(m, a, b)

LEMMA ProvenInit == SiteInit => ProvenInv
BY DEF SiteInit, ClientInit, Init, NewMarket, ProvenInv

LEMMA ClientSteps ==
  ASSUME [ClientNext]_clientVars
  PROVE  \/ \E m \in Markets, a \in Attestable, b \in Attestable \cup {NoStat},
               op \in BinaryOps \cup {NoOp} :
              /\ Settle(m, a, b, op) /\ provenBy' = [provenBy EXCEPT ![m] = a.seq]
              /\ b # NoStat => b.seq = a.seq
         \/ /\ UNCHANGED provenBy
            /\ \/ \E creator \in Creators, nonce \in Nonces, params \in Params :
                    CreateMarket(creator, nonce, params)
               \/ \E bettor \in Bettors, n \in Markets, side \in 0..2, amount \in Amounts :
                    PlacePosition(bettor, n, side, amount)
               \/ \E claimant \in Bettors, n \in Markets, pb \in Bettors, dest \in Accounts :
                    Claim(claimant, n, n, pb, n, dest)
               \/ \E authority \in Signers, n \in Markets : VoidMarket(authority, n)
               \/ UNCHANGED market
<1>1. ASSUME NEW r \in Requests, NEW c \in Received[r], Call(c)
      PROVE  \/ \E m \in Markets, a \in Attestable, b \in Attestable \cup {NoStat},
                   op \in BinaryOps \cup {NoOp} :
                  /\ Settle(m, a, b, op) /\ provenBy' = [provenBy EXCEPT ![m] = a.seq]
                  /\ b # NoStat => b.seq = a.seq
             \/ /\ UNCHANGED provenBy
                /\ \/ \E creator \in Creators, nonce \in Nonces, params \in Params :
                        CreateMarket(creator, nonce, params)
                   \/ \E bettor \in Bettors, n \in Markets, side \in 0..2, amount \in Amounts :
                        PlacePosition(bettor, n, side, amount)
                   \/ \E claimant \in Bettors, n \in Markets, pb \in Bettors, dest \in Accounts :
                        Claim(claimant, n, n, pb, n, dest)
                   \/ \E authority \in Signers, n \in Markets : VoidMarket(authority, n)
  <2>0. c = Meant(r)
    BY <1>1, Understood
  <2>1. CASE r \in Creations /\ r.what = "create"
    <3>1. c = [call |-> "create_market", m |-> <<r.by, r.nonce>>, params |-> ParamsOf(r.args)]
      BY <2>0, <2>1 DEF Meant
    <3>2. r.by \in Creators /\ r.nonce \in Nonces /\ ParamsOf(r.args) \in Params
      BY <2>1, CallersAssumption DEF Creations
    <3>3. CreateMarket(r.by, r.nonce, ParamsOf(r.args)) /\ UNCHANGED provenBy
      BY <1>1, <3>1 DEF Call
    <3> QED BY <3>2, <3>3
  <2>2. CASE r \in Stakes /\ r.what = "stake"
    <3>1. c = [call |-> "place_position", bettor |-> r.by, m |-> r.m,
               side |-> IF r.side = "YES" THEN SIDE_YES ELSE SIDE_NO,
               amount |-> BaseUnits(r.amount)]
      BY <2>0, <2>2 DEF Meant
    <3>2. /\ r.by \in Bettors /\ r.m \in Markets /\ c.side \in 0..2
          /\ BaseUnits(r.amount) \in Amounts
      <4>1. r.by \in Bettors /\ r.m \in Markets /\ r.amount \in Typed /\ c.side \in 0..2
        BY <2>2, <3>1 DEF Stakes, SIDE_YES, SIDE_NO
      <4>2. parseUsdc(r.amount) \in Amounts /\ parseUsdc(r.amount) = BaseUnits(r.amount)
        BY <4>1, CallersAssumption, AmountsParsed
      <4> QED BY <4>1, <4>2
    <3>3. PlacePosition(r.by, r.m, c.side, BaseUnits(r.amount)) /\ UNCHANGED provenBy
      BY <1>1, <3>1 DEF Call
    <3> QED BY <3>2, <3>3
  <2>3. CASE r \in Proofs /\ r.what = "settle"
    <3> DEFINE a  == StatOf(r.v, r.v.statToProve)
               b  == IF r.v.statToProve2 = NoStat THEN NoStat ELSE StatOf(r.v, r.v.statToProve2)
               op == IF r.v.statToProve2 = NoStat THEN NoOp ELSE Pascal(r.op)
    <3>1. c = [call |-> "settle", m |-> r.m, proof |-> [a |-> a, b |-> b, op |-> op]]
      BY <2>0, <2>3 DEF Meant, StatOf
    <3>2. r.m \in Markets /\ r.v \in Validations /\ r.op \in {"add", "subtract"}
      BY <2>3 DEF Proofs
    <3>3. a \in Attestable /\ b \in Attestable \cup {NoStat}
      BY <3>2, AnswersAreOfOneEvent
    <3>4. op \in BinaryOps \cup {NoOp}
      BY <3>2, PascalNames DEF BinaryOps
    <3>6. b # NoStat => b.seq = a.seq
      BY DEF StatOf
    <3> HIDE DEF a, b, op
    <3>5. Settle(r.m, a, b, op) /\ provenBy' = [provenBy EXCEPT ![r.m] = a.seq]
      BY <1>1, <3>1 DEF Call
    <3> QED BY <3>2, <3>3, <3>4, <3>5, <3>6
  <2>4. CASE r \in Claims /\ r.what = "claim"
    <3>1. c = [call |-> "claim", claimant |-> r.by, m |-> r.m, pm |-> r.m, pb |-> r.by,
               dest |-> r.by]
      BY <2>0, <2>4 DEF Meant
    <3>2. r.by \in Bettors /\ r.m \in Markets /\ r.by \in Accounts
      BY <2>4 DEF Claims, Accounts
    <3>3. Claim(r.by, r.m, r.m, r.by, r.m, r.by) /\ UNCHANGED provenBy
      BY <1>1, <3>1 DEF Call
    <3> QED BY <3>2, <3>3
  <2>5. CASE r \in Voids /\ r.what = "void"
    <3>1. c = [call |-> "void_market", authority |-> r.by, m |-> r.m]
      BY <2>0, <2>5 DEF Meant
    <3>2. r.by \in Signers /\ r.m \in Markets
      BY <2>5 DEF Voids, Signers
    <3>3. VoidMarket(r.by, r.m) /\ UNCHANGED provenBy
      BY <1>1, <3>1 DEF Call
    <3> QED BY <3>2, <3>3
  <2> QED BY <2>1, <2>2, <2>3, <2>4, <2>5, RequestCases
<1>2. CASE ExecuteAny
  <2>1. PICK r \in Requests : \E c \in Received[r] : Call(c)
    BY <1>2 DEF ExecuteAny, Execute, Calls
  <2> QED BY <1>1, <2>1
<1>3. CASE Environment
  BY <1>3 DEF Environment, Tick, Post
<1>4. CASE UNCHANGED clientVars
  BY <1>4 DEF clientVars, vars
<1> QED BY <1>2, <1>3, <1>4 DEF ClientNext

LEMMA ProvenStep ==
  LedgerInv /\ FormInv /\ ProvenInv /\ [SiteNext]_siteVars => ProvenInv'
<1> SUFFICES ASSUME LedgerInv, FormInv, ProvenInv, [SiteNext]_siteVars
             PROVE  ProvenInv'
  OBVIOUS
<1>0. [ClientNext]_clientVars /\ [Next]_vars /\ TypeOK /\ BooksBalance /\ posted \subseteq posted'
  BY TabIsClient, TabStepIsAllowed, PostedGrows DEF LedgerInv
<1>1. provenBy' \in [Markets -> Int \cup {NoStat}]
  <2>1. \A a \in Attestable : a.seq \in Int
    BY InputAssumption DEF StatType
  <2> QED BY <1>0, <2>1, ClientSteps DEF ProvenInv
<1>2. ASSUME NEW m \in Markets, market'[m].status = "Resolved", market[m].status = "Resolved"
      PROVE  \E a, b : DecidedBy(m, a, b)'
  <2>1. PICK a, b : DecidedBy(m, a, b)
    BY <1>2 DEF ProvenInv
  <2>2. /\ market'[m].params = market[m].params
        /\ market'[m].winning_side = market[m].winning_side
    BY <1>0, <1>2, LedgerAdvances DEF Advanced, OnLedger, Final
  <2>3. provenBy'[m] = provenBy[m]
    <3>1. ASSUME NEW n \in Markets, NEW x, NEW y, NEW op, Settle(n, x, y, op)
          PROVE  n # m
      BY <1>2, <3>1 DEF Settle, SettleAllowed, SideProven
    <3> QED BY <1>0, <3>1, ClientSteps DEF ProvenInv
  <2> QED BY <1>0, <2>1, <2>2, <2>3 DEF DecidedBy, AttestedFor, YesHolds
<1>3. ASSUME NEW m \in Markets, market'[m].status = "Resolved", market[m].status # "Resolved"
      PROVE  \E a, b : DecidedBy(m, a, b)'
  <2>1. PICK n \in Markets, a \in Attestable, b \in Attestable \cup {NoStat},
             op \in BinaryOps \cup {NoOp} :
          /\ Settle(n, a, b, op) /\ provenBy' = [provenBy EXCEPT ![n] = a.seq]
          /\ b # NoStat => b.seq = a.seq
    BY <1>0, <1>3, ClientSteps, OthersResolveNone
  <2> DEFINE side == IF YesHolds(market[n].params, a, b, op) THEN SIDE_YES ELSE SIDE_NO
  <2>2. /\ market[n].status = "Open" /\ posted' = posted
        /\ BoundToMarket(market[n].params, a, b, op) /\ Authentic(a, b)
        /\ SplitOk(WinnersOf(market[n], side), LosersOf(market[n], side),
                   market[n].params.fee_bps)
        /\ VoidForLackOfWinners(n) \/ Resolve(n, side)
    BY <2>1 DEF Settle, SettleAllowed, SideProven
  <2>3. side \in {SIDE_YES, SIDE_NO} /\ market[n] \in MarketType
    BY <1>0 DEF TypeOK
  <2>4. /\ (market[n].params.stat_key2 # NoStat) = (market[n].params.op # NoOp)
    BY <1>0, <2>2 DEF BooksBalance, Books, ParamsAreChecked
  <2>5. /\ op = market[n].params.op
        /\ AttestedFor([market[n].params EXCEPT !.seq = a.seq], a, b)
    BY <2>1, <2>2, <2>3, <2>4 DEF BoundToMarket, Authentic, AttestedFor, MarketType, ParamsType
  <2>6. provenBy'[n] = a.seq
    BY <2>1 DEF ProvenInv
  <2>7. side = IF YesHolds(market[n].params, a, b, market[n].params.op)
                 THEN SIDE_YES ELSE SIDE_NO
    BY <2>5
  <2> HIDE DEF side
  <2>8. CASE VoidForLackOfWinners(n)
    <3>1. /\ \A k \in Markets \ {n} : market'[k] = market[k]
          /\ market'[n] = [market[n] EXCEPT
               !.status = "Voided", !.winning_side = SIDE_NONE, !.settle_ts = now]
      BY <1>0, <2>2, <2>8, VoidEffect DEF VoidForLackOfWinners
    <3>2. market'[n].status = "Voided"
      BY <2>3, <3>1 DEF MarketType
    <3> QED BY <1>3, <3>1, <3>2
  <2>9. CASE Resolve(n, side)
    <3>1. /\ \A k \in Markets \ {n} : market'[k] = market[k]
          /\ market'[n] = [market[n] EXCEPT
               !.status = "Resolved", !.winning_side = side, !.settle_ts = now,
               !.fee_collected = FeeOf(n, side), !.total_payout_pool = PoolOf(n, side)]
      BY <1>0, <2>2, <2>3, <2>9, ResolveEffect
    <3>2. market'[n].params = market[n].params /\ market'[n].winning_side = side /\ n = m
      BY <1>3, <2>3, <3>1 DEF MarketType
    <3>3. DecidedBy(n, a, b)'
      BY <2>2, <2>5, <2>6, <2>7, <3>2 DEF DecidedBy, AttestedFor, YesHolds
    <3> QED BY <3>2, <3>3
  <2> QED BY <2>2, <2>8, <2>9
<1> QED BY <1>1, <1>2, <1>3 DEF ProvenInv

-----------------------------------------------------------------------------
(* The receipt.                                                            *)

\* v is what the feed answered about a resolved market.
AnswerFor(v, s) == s.status = "resolved" /\ v \in Answers

\* The request and the page are about a market that there is.
AboutInv ==
  /\ route \in {"board", "create", "market", "receipt"}
  /\ target \in Markets \cup {NoMarket}
  /\ receiptOf \in Markets \cup {NoMarket}
  /\ stage \in {"none", "market", "proof", "kv", "answer", "shown", "error"}
  /\ stage # "none" => receiptOf \in Markets

ReceiptInv ==
  /\ IF stage \in {"proof", "kv", "answer"}
       THEN /\ WasTrue(marketSummary, receiptOf)
            /\ stage = "proof" => marketSummary.status = "resolved"
            /\ validation # NoData => AnswerFor(validation, marketSummary)
       ELSE marketSummary = NoData /\ validation = NoData
  /\ IF stage = "shown"
       THEN /\ WasTrue(data.market, receiptOf)
            /\ data.winningSide = data.market.winningSide
            /\ data.proof # NoData =>
                 /\ AnswerFor(data.proof, data.market)
                 /\ ~Throws(data.market, data.proof)
                 /\ data.provenValue = ProvenValue(data.market, data.proof)
       ELSE data = NoData

LEMMA ReceiptSteps ==
  ASSUME [SiteNext]_siteVars, AboutInv, FormInv, RedirectInv
  PROVE  \/ UNCHANGED <<clientVars, navVars>> /\ ReceiptNext
         \/ /\ UNCHANGED clientVars /\ \E m \in Markets \cup {NoMarket} : MountReceipt(m)
            /\ route' \in {"board", "create", "market", "receipt"}
            /\ target' \in Markets \cup {NoMarket}
         \/ UNCHANGED <<receiptVars, navVars>>
<1>1. ASSUME NEW to \in {"board", "create", "market", "receipt"},
             NEW m \in Markets \cup {NoMarket}, Go(to, m)
      PROVE  /\ UNCHANGED clientVars /\ \E n \in Markets \cup {NoMarket} : MountReceipt(n)
             /\ route' \in {"board", "create", "market", "receipt"}
             /\ target' \in Markets \cup {NoMarket}
  BY <1>1 DEF Go
<1>2. CASE GoToBoard \/ GoToCreate
  BY <1>1, <1>2 DEF GoToBoard, GoToCreate
<1>3. CASE FollowReceipt
  BY <1>1, <1>3 DEF FollowReceipt, AboutInv
<1>4. CASE FollowCard
  <2>1. PICK s \in Listed, m \in Markets : Go(CardHref(s), m)
    BY <1>4 DEF FollowCard
  <2>2. CardHref(s) \in {"market", "receipt"}
    BY DEF CardHref
  <2> HIDE DEF CardHref
  <2> QED BY <1>1, <2>1, <2>2
<1>5. CASE FollowCreated
  <2>1. timer # NoMarket /\ result = "confirmed" /\ timer = <<asked[clicks].by, clicks>>
    BY <1>5 DEF FollowCreated, RedirectInv
  <2>2. clicks \in Nonces /\ ctx[clicks] = "landed"
    BY <2>1 DEF FormInv
  <2>3. timer \in Markets
    BY <2>1, <2>2, MarketOfAsk
  <2> QED BY <1>1, <1>5, <2>3 DEF FollowCreated
<1>6. CASE OthersAct \/ TimePasses
  BY <1>6 DEF OthersAct, TimePasses, pageVars
<1>7. CASE Switch \/ OnBoard \/ OnForm
  BY <1>7 DEF Switch, OnBoard, OnForm
<1>8. CASE OnReceipt
  BY <1>8 DEF OnReceipt
<1>9. CASE UNCHANGED siteVars
  BY <1>9 DEF siteVars, pageVars
<1> QED BY <1>2, <1>3, <1>4, <1>5, <1>6, <1>7, <1>8, <1>9 DEF SiteNext

LEMMA AboutInit == SiteInit => AboutInv
BY DEF SiteInit, ReceiptInit, AboutInv

LEMMA AboutStep ==
  FormInv /\ RedirectInv /\ AboutInv /\ [SiteNext]_siteVars => AboutInv'
<1> SUFFICES ASSUME FormInv, RedirectInv, AboutInv, [SiteNext]_siteVars
             PROVE  AboutInv'
  OBVIOUS
<1>1. CASE ReceiptNext /\ UNCHANGED navVars
  BY <1>1
  DEF ReceiptNext, ReadMarket, FetchProof, EndProof, ReadKv, ShowReceipt, RequestFails, AboutInv,
      navVars
<1>2. ASSUME NEW m \in Markets \cup {NoMarket}, MountReceipt(m),
             route' \in {"board", "create", "market", "receipt"},
             target' \in Markets \cup {NoMarket}
      PROVE  AboutInv'
  BY <1>2 DEF MountReceipt, AboutInv
<1>3. CASE UNCHANGED <<receiptVars, navVars>>
  BY <1>3 DEF receiptVars, navVars, AboutInv
<1> QED BY <1>1, <1>2, <1>3, ReceiptSteps

LEMMA ReceiptStart == SiteInit => ReceiptInv
BY DEF SiteInit, ReceiptInit, ReceiptInv

LEMMA ReceiptStep ==
  LedgerInv /\ FormInv /\ RedirectInv /\ AboutInv /\ ReceiptInv /\ [SiteNext]_siteVars
    => ReceiptInv'
<1> SUFFICES ASSUME LedgerInv, FormInv, RedirectInv, AboutInv, ReceiptInv, [SiteNext]_siteVars
             PROVE  ReceiptInv'
  OBVIOUS
<1>0. [Next]_vars
  BY TabStepIsAllowed
<1>1. ASSUME NEW s, NEW m \in Markets, WasTrue(s, m)
      PROVE  WasTrue(s, m)'
  BY <1>0, <1>1, WasTrueStays
<1>3. stage # "none" => receiptOf \in Markets
  BY DEF AboutInv
<1>4. CASE UNCHANGED clientVars /\ ReadMarket
  <2>1. CASE MarketView(receiptOf) = {}
    BY <1>4, <2>1 DEF ReadMarket, ReceiptInv
  <2>2. CASE MarketView(receiptOf) # {}
    <3>1. /\ marketSummary' \in MarketView(receiptOf) /\ stage' \in {"proof", "kv"}
          /\ stage' = "proof" => marketSummary'.status = "resolved"
          /\ UNCHANGED <<receiptOf, validation, data>>
      BY <1>4, <2>2 DEF ReadMarket
    <3>2. PICK s \in MarketView(receiptOf) : s = marketSummary'
      BY <3>1
    <3>3. WasTrue(s, receiptOf)
      BY <1>3, <1>4, SummaryIsTrue DEF ReadMarket, LedgerInv
    <3>4. WasTrue(s, receiptOf)'
      BY <1>1, <1>3, <1>4, <3>1, <3>3 DEF ReadMarket
    <3> QED BY <1>4, <3>1, <3>2, <3>4 DEF ReadMarket, ReceiptInv
  <2> QED BY <2>1, <2>2
<1>5. CASE UNCHANGED clientVars /\ FetchProof
  <2>1. stage = "proof" /\ UNCHANGED <<receiptOf, stage, marketSummary, data>>
    BY <1>5 DEF FetchProof
  <2>2. WasTrue(marketSummary, receiptOf)'
    BY <1>1, <1>3, <2>1 DEF ReceiptInv
  <2>3. validation' # NoData => AnswerFor(validation, marketSummary)'
    <3>1. CASE validation' \in Answers
      BY <2>1, <3>1 DEF AnswerFor, ReceiptInv
    <3>2. CASE UNCHANGED validation
      BY <2>1, <3>2 DEF AnswerFor, ReceiptInv
    <3> QED BY <1>5, <3>1, <3>2 DEF FetchProof
  <2> QED BY <2>1, <2>2, <2>3 DEF ReceiptInv
<1>6. CASE UNCHANGED clientVars /\ (EndProof \/ ReadKv)
  <2>1. /\ stage \in {"proof", "kv"} /\ stage' \in {"kv", "answer"}
        /\ UNCHANGED <<receiptOf, marketSummary, validation, data>>
    BY <1>6 DEF EndProof, ReadKv
  <2>2. WasTrue(marketSummary, receiptOf)'
    BY <1>1, <1>3, <2>1 DEF ReceiptInv
  <2>3. validation # NoData => AnswerFor(validation, marketSummary)'
    BY <2>1 DEF AnswerFor, ReceiptInv
  <2> QED BY <2>1, <2>2, <2>3 DEF ReceiptInv
<1>7. CASE UNCHANGED clientVars /\ ShowReceipt
  <2>1. stage = "answer" /\ receiptOf' = receiptOf /\ marketSummary' = NoData
        /\ validation' = NoData
    BY <1>7 DEF ShowReceipt
  <2>2. CASE Throws(marketSummary, validation)
    BY <1>7, <2>1, <2>2 DEF ShowReceipt, ReceiptInv
  <2>3. CASE ~Throws(marketSummary, validation)
    <3>1. /\ stage' = "shown"
          /\ data'.market = marketSummary /\ data'.proof = validation
          /\ data'.winningSide = marketSummary.winningSide
          /\ validation # NoData => data'.provenValue = ProvenValue(marketSummary, validation)
      BY <1>7, <2>3 DEF ShowReceipt
    <3>2. PICK d : d = data'
      OBVIOUS
    <3>3. WasTrue(d.market, receiptOf)'
      BY <1>1, <1>3, <2>1, <3>1, <3>2 DEF ReceiptInv
    <3>4. d.proof # NoData => AnswerFor(d.proof, d.market) /\ ~Throws(d.market, d.proof)
      BY <2>1, <2>3, <3>1, <3>2 DEF ReceiptInv
    <3>5. d.proof # NoData => d.provenValue = ProvenValue(d.market, d.proof)
      BY <3>1, <3>2
    <3> QED BY <2>1, <3>1, <3>2, <3>3, <3>4, <3>5 DEF ReceiptInv
  <2> QED BY <2>2, <2>3
<1>8. CASE RequestFails
  BY <1>8 DEF RequestFails, ReceiptInv
<1>9. ASSUME NEW m, MountReceipt(m)
      PROVE  ReceiptInv'
  BY <1>9 DEF MountReceipt, ReceiptInv
<1>10. CASE UNCHANGED receiptVars
  <2>1. UNCHANGED <<receiptOf, stage, marketSummary, validation, data>>
    BY <1>10 DEF receiptVars
  <2>2. stage \in {"proof", "kv", "answer"} => WasTrue(marketSummary, receiptOf)'
    BY <1>1, <1>3, <2>1 DEF ReceiptInv
  <2>3. stage \in {"proof", "kv", "answer"} /\ validation # NoData =>
          AnswerFor(validation, marketSummary)'
    BY <2>1 DEF AnswerFor, ReceiptInv
  <2>4. stage = "shown" => WasTrue(data.market, receiptOf)'
    BY <1>1, <1>3, <2>1 DEF ReceiptInv
  <2>5. stage = "shown" /\ data.proof # NoData =>
          AnswerFor(data.proof, data.market)' /\ ~Throws(data.market, data.proof)'
    BY <2>1 DEF AnswerFor, Throws, ReceiptInv
  <2> QED BY <2>1, <2>2, <2>3, <2>4, <2>5 DEF ReceiptInv
<1> QED BY <1>4, <1>5, <1>6, <1>7, <1>8, <1>9, <1>10, ReceiptSteps DEF ReceiptNext

\* What is shown of an answer are stats, if it has them.
LEMMA ShownAreStats ==
  ASSUME NEW v \in Answers
  PROVE  /\ ShownStats(v)[1] \in StatType /\ ShownStats(v)[2] \in StatType \cup {NoStat}
         /\ v.statToProve.value = ShownStats(v)[1].value
         /\ (v.statToProve2 = NoStat) = (ShownStats(v)[2] = NoStat)
         /\ v.statToProve2 # NoStat => v.statToProve2.value = ShownStats(v)[2].value
<1>1. PICK a \in FeedStats, b \in FeedStats \cup {NoStat} : v = Validation(a, b)
  BY DEF Answers
<1>2. a \in StatType /\ NoStat \notin StatType
  BY FeedAssumption
<1>3. StatOf(v, v.statToProve) \in StatType /\ StatOf(v, v.statToProve).value = v.statToProve.value
  BY <1>1, <1>2 DEF StatType, StatOf, Validation
<1>4. CASE b = NoStat
  <2>1. v.statToProve2 = NoStat
    BY <1>1, <1>4 DEF Validation
  <2> QED BY <1>3, <2>1 DEF ShownStats
<1>5. CASE b # NoStat
  <2>1. b \in FeedStats /\ b \in StatType
    BY <1>5, FeedAssumption
  <2>2. v.statToProve2 = [key |-> b.key, value |-> b.value, period |-> b.period]
    BY <1>1, <1>5 DEF Validation
  <2>3. Validation(b, b).statToProve2 = [key |-> b.key, value |-> b.value, period |-> b.period]
    BY <1>5 DEF Validation
  <2>4. v.statToProve2 # NoStat
    BY <2>1, <2>2, <2>3, FeedAssumption
  <2>5. /\ StatOf(v, v.statToProve2) \in StatType
        /\ StatOf(v, v.statToProve2).value = v.statToProve2.value
    BY <1>1, <1>2, <2>1, <2>2 DEF StatType, StatOf, Validation
  <2> QED BY <1>2, <1>3, <2>4, <2>5 DEF ShownStats
<1> QED BY <1>4, <1>5

\* The page computes the outcome as the program does.
LEMMA SideIsComputed ==
  ASSUME LedgerInv, NEW m \in Markets, NEW s, SameMarket(s, m), OnLedger(m),
         NEW v \in Answers, NEW yes,
         yes = YesHolds(market[m].params, ShownStats(v)[1], ShownStats(v)[2], market[m].params.op)
  PROVE  /\ SideOf(s, v) = IF yes THEN "YES" ELSE "NO"
         /\ Holds(ProvenValue(s, v), market[m].params.comparison, market[m].params.threshold)
              = yes
<1> DEFINE p == market[m].params
           a == ShownStats(v)[1]
           b == ShownStats(v)[2]
           x == a.value
           y == IF b = NoStat THEN 0 ELSE b.value
<1>0. a \in StatType /\ b \in StatType \cup {NoStat}
  BY ShownAreStats
<1> HIDE DEF a, b
<1>1. /\ p.op \in {"Add", "Subtract", NoOp} /\ p.comparison \in {"GreaterThan", "LessThan"}
      /\ p.threshold \in Int /\ x \in Int /\ y \in Int
  <2>1. x \in Int /\ y \in Int
    BY <1>0 DEF StatType
  <2> HIDE DEF x, y
  <2> QED BY <2>1, InputAssumption
          DEF LedgerInv, TypeOK, MarketType, ParamsType, BinaryOps, Comparisons
<1>2. v.statToProve.value = x
  BY ShownAreStats DEF a
<1>3. (IF v.statToProve2 = NoStat THEN 0 ELSE v.statToProve2.value) = y
  BY ShownAreStats DEF b
<1>4. /\ s.op = (IF p.op = NoOp THEN NoOp ELSE Camel[p.op])
      /\ s.comparison = Camel[p.comparison] /\ s.threshold = p.threshold
  BY DEF SameMarket
<1>5. /\ Camel["Add"] = "add" /\ Camel["Subtract"] = "subtract"
      /\ Camel["GreaterThan"] = "greaterThan" /\ Camel["LessThan"] = "lessThan"
  BY DEF Camel
<1>6. NoOp \notin {"Add", "Subtract", "add", "subtract"}
  BY ClientAssumption DEF BinaryOps
<1>7. (IF s.op = NoOp THEN NoOp ELSE Pascal(s.op)) = p.op /\ Pascal(s.comparison) = p.comparison
  BY <1>1, <1>4, <1>5, <1>6, PascalNames
<1>8. yes = YesHolds(p, a, b, p.op)
  BY DEF a, b
<1> HIDE DEF p, x, y
<1>9. yes = Holds(Combine(p.op, x, y), p.comparison, p.threshold)
  BY <1>8 DEF YesHolds, x, y
<1>10. SideOf(s, v) = IF Holds(Combine(p.op, x, y), p.comparison, p.threshold)
                       THEN "YES" ELSE "NO"
  BY <1>2, <1>3, <1>4, <1>7 DEF SideOf, winningSide
<1>11. ProvenValue(s, v) = Combine(p.op, x, y)
  <2>1. ProvenValue(s, v) = IF s.op = "subtract" THEN x - y
                            ELSE IF s.op = "add" THEN x + y ELSE x
    BY <1>2, <1>3 DEF ProvenValue
  <2> QED BY <1>1, <1>4, <1>5, <1>6, <2>1 DEF Combine
<1> QED BY <1>9, <1>10, <1>11 DEF p

\* What is attested for a market leaves no choice.
LEMMA AttestedIsOne ==
  ASSUME NEW p, NEW a, NEW b, NEW a0, NEW b0, posted \subseteq Attestable,
         AttestedFor(p, a, b), AttestedFor(p, a0, b0)
  PROVE  a0 = a /\ b0 = b
<1>1. a0 = a
  BY FeedAssumption DEF AttestedFor
<1>2. CASE p.stat_key2 = NoStat
  BY <1>1, <1>2 DEF AttestedFor
<1>3. CASE p.stat_key2 # NoStat
  BY <1>1, <1>3, FeedAssumption DEF AttestedFor
<1> QED BY <1>2, <1>3

\* Whatever the feed answers, however late, and whatever the ledger does meanwhile,
\* a stamp says how the ledger stands to the values on show, and MISMATCH on attested
\* values that another event's proof settled the market (Receipt.tsx,
\* app/receipt/page.tsx, apps/api/src/index.ts).
THEOREM StampsAlwaysTrue == SiteSpec => []StampIsTrue
<1>1. LedgerInv /\ ProvenInv /\ AboutInv /\ ReceiptInv => StampIsTrue
  <2> SUFFICES ASSUME LedgerInv, ProvenInv, AboutInv, ReceiptInv,
                      data # NoData, data.proof # NoData
               PROVE  StampIsTrue
    BY DEF StampIsTrue
  <2> DEFINE m == receiptOf
             p == market[m].params
             s == data.market
             v == data.proof
             a == ShownStats(v)[1]
             b == ShownStats(v)[2]
             yes == YesHolds(p, a, b, p.op)
  <2>1. m \in Markets /\ WasTrue(s, m) /\ data.winningSide = s.winningSide
    BY DEF ReceiptInv, AboutInv
  <2>2. /\ s.status = "resolved" /\ v \in Answers /\ data.provenValue = ProvenValue(s, v)
    BY DEF ReceiptInv, AnswerFor
  <2>3. SameMarket(s, m) /\ OnLedger(m)
    BY <2>1 DEF WasTrue
  <2>4. market[m].status = "Resolved" /\ s.winningSide = market[m].winning_side
    <3>1. /\ market[m].status \in {"Resolved", "Voided"}
          /\ Camel[market[m].status] = "resolved" /\ s.winningSide = market[m].winning_side
      BY <2>1, <2>2 DEF WasTrue, Final
    <3>2. Camel["Voided"] = "voided"
      BY DEF Camel
    <3> QED BY <3>1, <3>2
  <2>5. market[m].winning_side \in {1, 2}
    BY <2>1, <2>4 DEF LedgerInv, BooksBalance, Books, ResolvedHasWinners, SIDE_YES, SIDE_NO
  <2>6. /\ SideOf(s, v) = IF yes THEN "YES" ELSE "NO"
        /\ Holds(data.provenValue, p.comparison, p.threshold) = yes
    BY <2>1, <2>2, <2>3, SideIsComputed
  <2>7. Stamp(data) = IF SideOf(s, v) = sideLabel(market[m].winning_side)
                        THEN "VERIFIED" ELSE "MISMATCH"
    BY <2>1, <2>4 DEF Stamp
  <2>8. yes \in BOOLEAN
    BY DEF YesHolds, Holds
  <2>9. PICK a0, b0 : DecidedBy(m, a0, b0)
    BY <2>1, <2>4 DEF ProvenInv
  <2>10. market[m].winning_side = IF YesHolds(p, a0, b0, p.op) THEN 1 ELSE 2
    BY <2>9 DEF DecidedBy, SIDE_YES, SIDE_NO
  <2>11. ASSUME AttestedFor(p, a, b), provenBy[m] = p.seq
         PROVE  market[m].winning_side = IF yes THEN 1 ELSE 2
    <3>1. AttestedFor(p, a0, b0)
      BY <2>9, <2>11 DEF DecidedBy, AttestedFor
    <3>2. a0 = a /\ b0 = b
      BY <2>11, <3>1, AttestedIsOne DEF LedgerInv, TypeOK
    <3> QED BY <2>10, <3>2
  <2> HIDE DEF yes, p, s, v, m, a, b
  <2>12. sideLabel(1) = "YES" /\ sideLabel(2) = "NO"
    BY DEF sideLabel
  <2>13. Stamp(data) = IF market[m].winning_side = (IF yes THEN SIDE_YES ELSE SIDE_NO)
                         THEN "VERIFIED" ELSE "MISMATCH"
    BY <2>5, <2>6, <2>7, <2>8, <2>12 DEF SIDE_YES, SIDE_NO
  <2>14. AttestedFor(p, a, b) /\ Stamp(data) = "MISMATCH" => provenBy[m] # p.seq
    BY <2>11, <2>13 DEF SIDE_YES, SIDE_NO
  <2> QED BY <2>4, <2>6, <2>13, <2>14 DEF StampIsTrue, yes, p, s, v, m, a, b
<1> QED BY <1>1, FormInit, FormStep, RedirectInit, RedirectStep, AboutInit, AboutStep,
           ProvenInit, ProvenStep, ReceiptStart, ReceiptStep, LedgerAlwaysInOrder, PTL
    DEF SiteSpec

-----------------------------------------------------------------------------
(* Types.                                                                  *)

\* What the invariants above leave out.
RestInv ==
  /\ wallets \in Nat /\ landed \in Nat /\ decided \in 0..clicks
  /\ feed \in {"none", "asked", "served", "shown", "error"}
  /\ stakedSet \subseteq Keys /\ had \subseteq Keys

LEMMA RestInit == SiteInit => RestInv
BY DEF SiteInit, CreateInit, BoardInit, RestInv

LEMMA DecidedStays ==
  FormInv /\ decided \in 0..clicks /\ [SiteNext]_siteVars => decided' \in 0..clicks'
<1> SUFFICES ASSUME FormInv, decided \in 0..clicks, [SiteNext]_siteVars
             PROVE  decided' \in 0..clicks'
  OBVIOUS
<1>1. clicks \in Nat
  BY CreatePageAssumption DEF FormInv
<1>2. ASSUME NEW form, Create(wallet, form)
      PROVE  decided' \in 0..clicks'
  BY <1>1, <1>2 DEF Create
<1>3. ASSUME UNCHANGED <<decided, clicks>>
      PROVE  decided' \in 0..clicks'
  BY <1>3
<1> QED BY <1>2, <1>3, TabSteps
    DEF Broadcast, RejectCreate, ConfirmCreate, DieCreate, LandCreate, LeaveCreate, createVars

LEMMA StakedStays ==
  MineInv /\ SummariesInv /\ stakedSet \subseteq Keys /\ had \subseteq Keys /\ [SiteNext]_siteVars
    => stakedSet' \subseteq Keys /\ had' \subseteq Keys
<1> SUFFICES ASSUME MineInv, stakedSet \subseteq Keys, had \subseteq Keys, [SiteNext]_siteVars
             PROVE  stakedSet' \subseteq Keys /\ had' \subseteq Keys
  OBVIOUS
<1>1. ASSUME UNCHANGED <<stakedSet, had>> \/ (stakedSet' = {} /\ had' = {})
      PROVE  stakedSet' \subseteq Keys /\ had' \subseteq Keys
  BY <1>1
<1>2. ASSUME NEW r \in reads, ReadChunk(r)
      PROVE  stakedSet' \subseteq Keys /\ had' \subseteq Keys
  <2>1. r.left \subseteq Keys /\ r.staked \subseteq Keys /\ r.had \subseteq Keys
    BY DEF MineInv, ReadType
  <2>2. PICK slice \in SUBSET r.left :
          \/ Settled(r, r.staked \cup {key \in slice : HasStake(key, r.owner)}, r.had)
          \/ UNCHANGED <<stakedSet, had>>
    BY <1>2 DEF ReadChunk
  <2> QED BY <2>1, <2>2 DEF Settled
<1>3. ASSUME NEW r \in reads, ReadFails(r)
      PROVE  stakedSet' \subseteq Keys /\ had' \subseteq Keys
  BY <1>1, <1>3 DEF ReadFails, Settled
<1>4. ASSUME NEW owner, NEW list, StakedEffect(owner, list)
      PROVE  stakedSet' \subseteq Keys /\ had' \subseteq Keys
  BY <1>1, <1>4 DEF StakedEffect
<1>5. CASE ServeMarkets \/ FeedFails \/ UNCHANGED boardVars
  BY <1>1, <1>5 DEF ServeMarkets, FeedFails, boardVars
<1>6. CASE ShowMarkets
  BY <1>4, <1>6 DEF ShowMarkets
<1>7. CASE \E open : MountBoard(open)
  BY <1>1, <1>7 DEF MountBoard
<1>8. CASE \E owner \in Bettors \cup {NoWallet} : ChangeWallet(owner)
  BY <1>1, <1>4, <1>8 DEF ChangeWallet, boardVars
<1> QED BY <1>2, <1>3, <1>5, <1>6, <1>7, <1>8, BoardSteps

LEMMA RestStep ==
  FormInv /\ SummariesInv /\ MineInv /\ RestInv /\ [SiteNext]_siteVars => RestInv'
<1> SUFFICES ASSUME FormInv, SummariesInv, MineInv, RestInv, [SiteNext]_siteVars
             PROVE  RestInv'
  OBVIOUS
<1>1. decided' \in 0..clicks' /\ stakedSet' \subseteq Keys /\ had' \subseteq Keys
  BY DecidedStays, StakedStays DEF RestInv
<1>2. wallets' \in Nat /\ feed' \in {"none", "asked", "served", "shown", "error"}
  <2>1. ASSUME UNCHANGED <<feed, wallets>>
        PROVE  wallets' \in Nat /\ feed' \in {"none", "asked", "served", "shown", "error"}
    BY <2>1 DEF RestInv
  <2>2. CASE UNCHANGED walletVars /\ (ServeMarkets \/ ShowMarkets \/ FeedFails)
    BY <2>2 DEF ServeMarkets, ShowMarkets, FeedFails, walletVars, RestInv
  <2>3. CASE UNCHANGED walletVars /\ \E r \in reads : ReadChunk(r) \/ ReadFails(r)
    BY <2>1, <2>3 DEF ReadChunk, ReadFails, walletVars
  <2>4. CASE UNCHANGED walletVars /\ \E open : MountBoard(open)
    BY <2>4 DEF MountBoard, walletVars, RestInv
  <2>5. CASE \E owner \in Bettors \cup {NoWallet} : ChangeWallet(owner)
    BY <2>5 DEF ChangeWallet, boardVars, RestInv
  <2>6. CASE UNCHANGED <<boardVars, walletVars>>
    BY <2>1, <2>6 DEF boardVars, walletVars
  <2> QED BY <2>2, <2>3, <2>4, <2>5, <2>6, BoardSteps
<1>3. landed' \in Nat
  <2>1. landed' = landed \/ landed' = landed + 1
    BY DEF SiteNext, OthersAct, TimePasses, GoToBoard, GoToCreate, FollowReceipt, FollowCard,
           FollowCreated, Go, Switch, OnBoard, OnForm, OnReceipt, siteVars
  <2> QED BY <2>1 DEF RestInv
<1> QED BY <1>1, <1>2, <1>3 DEF RestInv

\* Every variable of every page keeps its shape.
THEOREM SiteTypeCorrect == SiteSpec => []SiteTypeOK
<1>1. /\ FormInv /\ RedirectInv /\ AboutInv /\ SummariesInv /\ MineInv /\ FetchInv
      /\ ReceiptInv /\ ProvenInv /\ RestInv
      => SiteTypeOK
  <2> SUFFICES ASSUME FormInv, RedirectInv, AboutInv, SummariesInv, MineInv, FetchInv,
                      ReceiptInv, ProvenInv, RestInv
               PROVE  SiteTypeOK
    OBVIOUS
  <2>1. BoardTypeOK
    <3>1. markets # NoList => \A s \in markets : s.address \in Keys
      BY DEF SummariesInv, Listed, WasTrue, SameMarket, Keys
    <3>2. \A r \in reads : /\ r.owner \in Bettors /\ r.live \in BOOLEAN
                           /\ r.left \cup r.staked \subseteq Keys
      BY DEF MineInv, ReadType
    <3>3. stakedSet \cup had \subseteq Keys /\ wallet \in Bettors \cup {NoWallet}
      BY DEF MineInv, RestInv
    <3> QED BY <3>1, <3>2, <3>3 DEF BoardTypeOK, RestInv, Keys
  <2>2. CreateTypeOK
    <3>1. timer \in Markets \cup {NoMarket}
      <4>1. CASE timer # NoMarket
        <5>1. result = "confirmed" /\ timer = <<asked[clicks].by, clicks>>
          BY <4>1 DEF RedirectInv
        <5>2. clicks \in Nonces /\ ctx[clicks] = "landed"
          BY <5>1 DEF FormInv
        <5> QED BY <5>1, <5>2, MarketOfAsk
      <4> QED BY <4>1
    <3> QED BY <3>1 DEF CreateTypeOK, FormInv, RestInv
  <2>3. ReceiptTypeOK
    BY DEF ReceiptTypeOK, AboutInv, ReceiptInv, FetchInv
  <2> QED BY <2>1, <2>2, <2>3 DEF SiteTypeOK, AboutInv, ProvenInv, RestInv
<1> QED BY <1>1, FormInit, FormStep, RedirectInit, RedirectStep, AboutInit, AboutStep,
           SummariesInit, SummariesStep, MineInit, MineStep, FetchStart, FetchStep, ProvenInit,
           ProvenStep, ReceiptStart, ReceiptStep, RestInit, RestStep, LedgerAlwaysInOrder, PTL
    DEF SiteSpec
=============================================================================
