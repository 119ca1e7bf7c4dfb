-------------------------- MODULE PortfolioCapital --------------------------
(***************************************************************************)
(* The capital accounts of one V2 portfolio: the free pool, the grid bands *)
(* it funds, the cash their pending buys reserve, the cost of their open   *)
(* lots, and, for a live portfolio, the SOL set aside for network fees.    *)
(*                                                                         *)
(*   createPaperPortfolio, stageLivePortfolio           the initial state  *)
(*   PrismaPortfolioManagerStore.applyDecision          bands come and go  *)
(*   preparePortfolioContext, settlePortfolioExecution  buys and sells     *)
(*   archivePaperPortfolioBand, resumePortfolioBand     the operator       *)
(*   activateLivePortfolio, topUpLiveFeeEnvelope        the live operator  *)
(*                                                                         *)
(* One database transaction is one action.  All of them lock the rows they *)
(* change.  The protocol between them, crashes included, is the subject of *)
(* DurableExecution; here its outcome is a saved report that one commit    *)
(* consumes.  Amounts are whole units; one unit of SOL is worth one unit   *)
(* of quote currency.                                                      *)
(***************************************************************************)
EXTENDS Integers, FiniteSets, Functions

CONSTANTS
    Bands,            \* grid bands (and their bots) that may ever exist
    Assets,           \* assets of the portfolio: BTC and SOL
    Retaining,        \* assets whose sells keep base instead of taking all profit
    FirstBand,        \* the band each asset starts with
    Zones,            \* price zones of an asset, one entry each
    Execs,            \* execution rows that may be created
    NoAsset,          \* "this band does not exist yet"
    NoBand,           \* "this lot was never opened"
    NoAttempt,        \* "nothing unsettled"
    Live,             \* a live portfolio, or a paper one?
    Funding,          \* USDC the portfolio starts with
    BaseAllocation,   \* of which each first band gets this much
    Requests,         \* capital a further band may ask for
    Quotes,           \* cash a buy may reserve
    MaxGain,          \* bound: proceeds of a sell above the cost of its lot
    InitialFees,      \* SOL the fee envelope starts with
    FeeEstimates,     \* native fees the adapter may estimate
    MaxTopUps,        \* bound: fundings of the fee envelope, one unit each
    MaxBands,         \* policy: open bands of one asset
    MaxExposurePct,   \* policy: share of the portfolio one asset may hold
    Halts             \* the halts the operator asks for: paused, stopped or both

ASSUME AssetsAssumption ==
    /\ IsFiniteSet(Assets) /\ Cardinality(Assets) = 2
    /\ Retaining \subseteq Assets /\ NoAsset \notin Assets
    /\ FirstBand \in [Assets -> Bands]
    /\ \A a, c \in Assets : FirstBand[a] = FirstBand[c] => a = c
\* Tables have finitely many rows, any number of them.
ASSUME RowsAssumption == IsFiniteSet(Bands) /\ IsFiniteSet(Execs)
ASSUME NullAssumption == NoBand \notin Bands
ASSUME InputsAssumption == Zones # {} /\ Halts \subseteq {"paused", "stopped"}
ASSUME ModeAssumption == Live \in BOOLEAN
ASSUME AmountsAssumption ==
    /\ Funding \in Nat /\ BaseAllocation \in Nat \ {0} /\ Requests \subseteq Nat \ {0}
    /\ Quotes \subseteq Nat \ {0} /\ MaxGain \in Nat /\ InitialFees \in Nat
    /\ FeeEstimates \subseteq Nat /\ MaxTopUps \in Nat
    /\ MaxBands \in Nat /\ MaxExposurePct \in 0..100
\* Paper executions cost no SOL; a live portfolio is staged with a fee budget.
ASSUME FeesAssumption == IF Live THEN InitialFees > 0 ELSE InitialFees = 0 /\ FeeEstimates = {0}

BandStatuses == {"none", "ACTIVE", "PARKED_BELOW", "CLOSED"}
\* "active" stands for running, cooldown, out_of_range and error.
BotStatuses == {"active", "paused", "stopped"}
BandRows == [asset : Assets \cup {NoAsset}, status : BandStatuses, allocated : Nat,
             available : Nat, reserved : Nat, deployed : Nat, loss : Nat]
Pending == {"RESERVED", "UNKNOWN"}
ReservationStatuses == {"none", "SETTLED", "RELEASED"} \cup Pending

\* portfolioContext of the attempt, and what its saved report says:
\* moved is the quote paid or received, fee the SOL spent.
Attempts == [exec : Execs, side : {"buy", "sell"}, quote : Nat, zone : Zones, lot : Execs,
             estimate : FeeEstimates, result : {"none", "unknown", "filled", "failed"},
             moved : Nat, fee : Nat]

ASSUME NoAttemptAssumption == NoAttempt \notin Attempts

VARIABLES
    portfolio,    \* portfolios: free quote, native fee reserve, automatic trading
    funded,       \* asset_strategies.allocatedQuoteAmount
    band,         \* grid_bands
    bot,          \* bots.status of the band's bot; archived with the band
    books,        \* availableQuoteAmount of the bot's newest snapshot
    attempt,      \* execution_attempts: at most one per bot
    executions,   \* executions that exist
    reservation,  \* capital_reservations, by execution
    lot,          \* trading lots and their exit commitments, by opening execution
    wallet,       \* USDC the chain, or the paper account, really holds for it
    topUps        \* fundings of the fee envelope so far

accounts == <<portfolio, funded, band>>
vars == <<accounts, bot, books, attempt, executions, reservation, lot, wallet, topUps>>

TypeOK ==
    /\ portfolio \in [free : Nat, fees : Nat, auto : BOOLEAN]
    /\ funded \in [Assets -> Int]
    /\ band \in [Bands -> BandRows]
    /\ bot \in [Bands -> BotStatuses]
    /\ books \in [Bands -> Nat]
    /\ attempt \in [Bands -> Attempts \cup {NoAttempt}]
    /\ executions \subseteq Execs
    /\ reservation \in [Execs -> ReservationStatuses]
    /\ lot \in [Execs -> [band : Bands \cup {NoBand}, zone : Zones, cost : Nat]]
    /\ wallet \in Int
    /\ topUps \in 0..MaxTopUps

-----------------------------------------------------------------------------
(* Reading the accounts.                                                   *)

\* (Faulty form: the difference is not clamped at zero.)
Minus(x, y) == x - y

\* Math.max(0, x - y)
Monus(x, y) == IF x > y THEN x - y ELSE 0
OpenBands == {b \in Bands : band[b].status \in {"ACTIVE", "PARKED_BELOW"}}
BandsOf(a) == {b \in Bands : band[b].asset = a}
OpenLots == {e \in Execs : lot[e].cost > 0}
LotsOf(b) == {e \in OpenLots : lot[e].band = b}
Busy == {b \in Bands : attempt[b] # NoAttempt}
Buying == {b \in Busy : attempt[b].side = "buy"}

\* What assertLiveWalletCapital adds up before it assigns wallet cash.
Claims == portfolio.free + SumFunctionOnSet([b \in Bands |-> band[b].available], OpenBands)

\* assertPortfolioUnblocked
Unblocked == \A e \in Execs : reservation[e] # "UNKNOWN"

\* The gate in front of every automatic action of a live portfolio.
Automated == Live => portfolio.auto /\ portfolio.fees > 0

\* A band of amount q for asset a, as createPaperBand and allocateCapital leave it.
FundedBand(a, q) == [asset |-> a, status |-> "ACTIVE", allocated |-> q, available |-> q,
                     reserved |-> 0, deployed |-> 0, loss |-> 0]
NoRow == [asset |-> NoAsset, status |-> "none", allocated |-> 0, available |-> 0,
          reserved |-> 0, deployed |-> 0, loss |-> 0]
NoLot == [band |-> NoBand, zone |-> CHOOSE z \in Zones : TRUE, cost |-> 0]

Init ==
    /\ Funding >= 2 * BaseAllocation
    /\ portfolio = [free |-> Funding - 2 * BaseAllocation, fees |-> InitialFees, auto |-> FALSE]
    /\ funded = [a \in Assets |-> BaseAllocation]
    /\ band = [b \in Bands |-> IF \E a \in Assets : FirstBand[a] = b
                               THEN FundedBand(CHOOSE a \in Assets : FirstBand[a] = b, BaseAllocation)
                               ELSE NoRow]
    /\ bot = [b \in Bands |-> IF Live /\ band[b] # NoRow THEN "paused" ELSE "active"]
    /\ books = [b \in Bands |-> band[b].available]
    /\ attempt = [b \in Bands |-> NoAttempt]
    /\ executions = {}
    /\ reservation = [e \in Execs |-> "none"]
    /\ lot = [e \in Execs |-> NoLot]
    /\ wallet = Funding
    /\ topUps = 0

-----------------------------------------------------------------------------
(* The portfolio manager.  The decision itself is an input; applyDecision  *)
(* reads band, bot and cash again and refuses one that no longer fits.     *)

Manageable(b) ==
    /\ b \in OpenBands
    /\ bot[b] = "active"
    /\ attempt[b] = NoAttempt
    /\ Automated

SetBand(b, s) ==
    /\ Manageable(b)
    /\ band' = [band EXCEPT ![b].status = s]
    /\ UNCHANGED <<portfolio, funded, bot, books, attempt, executions, reservation, lot, wallet, topUps>>

Park(b) == SetBand(b, "PARKED_BELOW")

\* Also the status a revision leaves behind.
Reactivate(b) == SetBand(b, "ACTIVE")

\* The less-funded asset goes first, and no asset beyond its share.
MayExpand(a, q) ==
    /\ portfolio.free >= q
    /\ \A x \in Assets : funded[x] >= funded[a]
    /\ Cardinality(BandsOf(a) \cap OpenBands) < MaxBands
    /\ (funded[a] + q) * 100 <=
          MaxExposurePct * (portfolio.free + SumFunctionOnSet([c \in Bands |-> band[c].allocated], OpenBands))

\* create_band: a lower band for the asset of band b, which is parked.
CreateBand(b, new, q) ==
    LET a == band[b].asset IN
    /\ Manageable(b)
    /\ band[new].status = "none"
    /\ MayExpand(a, q)
    /\ Unblocked
    /\ portfolio' = [portfolio EXCEPT !.free = @ - q]
    /\ funded' = [funded EXCEPT ![a] = @ + q]
    /\ band' = [band EXCEPT ![new] = FundedBand(a, q), ![b].status = "PARKED_BELOW"]
    /\ bot' = [bot EXCEPT ![new] = "active"]
    /\ books' = [books EXCEPT ![new] = q]
    /\ UNCHANGED <<attempt, executions, reservation, lot, wallet, topUps>>

-----------------------------------------------------------------------------
(* Preparing an execution: prepareExecutionAttempt, preparePortfolioContext.*)

\* (Faulty form: live executions of different bands may overlap.)
MayTradeAlongside(b, f) ==
    /\ b \in OpenBands /\ bot[b] = "active" /\ attempt[b] = NoAttempt
    /\ Automated
    /\ Live => f <= portfolio.fees

\* Only one live execution at a time, and its estimated fee fits the envelope.
MayTrade(b, f) ==
    /\ b \in OpenBands
    /\ bot[b] = "active"
    /\ attempt[b] = NoAttempt
    /\ Automated
    /\ Live => Busy = {} /\ f <= portfolio.fees

\* (Faulty form: only settled entries occupy a zone.)
ZoneFreeOfLots(a, z) == \A e \in OpenLots : ~(band[lot[e].band].asset = a /\ lot[e].zone = z)

\* No open lot and no pending buy of the asset occupies the zone, on any band.
ZoneFree(a, z) ==
    /\ \A e \in OpenLots : ~(band[lot[e].band].asset = a /\ lot[e].zone = z)
    /\ \A b \in Buying : ~(band[b].asset = a /\ attempt[b].zone = z)

PrepareBuy(b, e, q, z, f) ==
    /\ MayTrade(b, f)
    /\ e \notin executions
    /\ band[b].status = "ACTIVE"
    /\ ZoneFree(band[b].asset, z)
    /\ Unblocked
    /\ band[b].available - band[b].reserved >= q
    /\ attempt' = [attempt EXCEPT ![b] = [exec |-> e, side |-> "buy", quote |-> q, zone |-> z, lot |-> e,
                                          estimate |-> f, result |-> "none", moved |-> 0, fee |-> 0]]
    /\ executions' = executions \cup {e}
    /\ reservation' = [reservation EXCEPT ![e] = "RESERVED"]
    /\ band' = [band EXCEPT ![b].reserved = @ + q]
    /\ UNCHANGED <<portfolio, funded, bot, books, lot, wallet, topUps>>

\* Exits stay possible on a parked band and on a blocked portfolio.
PrepareSell(b, e, l, f) ==
    /\ MayTrade(b, f)
    /\ e \notin executions
    /\ l \in LotsOf(b)
    /\ attempt' = [attempt EXCEPT ![b] = [exec |-> e, side |-> "sell", quote |-> 0, zone |-> lot[l].zone, lot |-> l,
                                          estimate |-> f, result |-> "none", moved |-> 0, fee |-> 0]]
    /\ executions' = executions \cup {e}
    /\ UNCHANGED <<accounts, bot, books, reservation, lot, wallet, topUps>>

-----------------------------------------------------------------------------
(* Executing it.  saveExecutionResult marks the outcome unknown before     *)
(* anything is sent; the swap itself and its saved report are one step.    *)

MarkUnknown(b) ==
    /\ b \in Busy /\ attempt[b].result = "none"
    /\ attempt' = [attempt EXCEPT ![b].result = "unknown"]
    /\ reservation' = IF attempt[b].side = "buy"
                      THEN [reservation EXCEPT ![attempt[b].exec] = "UNKNOWN"]
                      ELSE reservation
    /\ UNCHANGED <<accounts, bot, books, executions, lot, wallet, topUps>>

\* A swap costs at most the fee the adapter estimated before signing.
Report(b, r, m, f) ==
    /\ b \in Busy /\ attempt[b].result = "unknown"
    /\ f <= attempt[b].estimate
    /\ attempt' = [attempt EXCEPT ![b].result = r, ![b].moved = m, ![b].fee = f]
    /\ UNCHANGED <<accounts, bot, books, executions, reservation, lot, topUps>>

ReportBuy(b, m, f) ==
    /\ b \in Buying /\ m \in 1..attempt[b].quote
    /\ Report(b, "filled", m, f)
    /\ wallet' = wallet - m

ReportSell(b, m, f) ==
    /\ b \in Busy \ Buying /\ m \in 1..(lot[attempt[b].lot].cost + MaxGain)
    /\ Report(b, "filled", m, f)
    /\ wallet' = wallet + m

\* The paper adapter never fails; a reverted live transaction still costs SOL.
ReportFailure(b, f) ==
    /\ Live
    /\ Report(b, "failed", 0, f)
    /\ UNCHANGED wallet

-----------------------------------------------------------------------------
(* Settling it: commitExecution and settlePortfolioExecution.              *)

\* The portfolio row after paying fee f and taking in profit p.  An exhausted
\* envelope ends automatic trading.
Charged(f, p) ==
    LET remaining == Monus(portfolio.fees, f) IN
    IF Live THEN [free |-> portfolio.free + p, fees |-> remaining,
                  auto |-> portfolio.auto /\ remaining > 0]
    ELSE [portfolio EXCEPT !.free = @ + p]

Settled(b, r) == b \in Busy /\ attempt[b].result = r

\* A lot costs what was paid plus the SOL its purchase took.
LotCost(t) == t.moved + t.fee

\* (Faulty form: the whole reservation is spent, whatever the swap took.)
AfterBuyAtQuote(b, t) == [band[b] EXCEPT !.available = @ - t.quote, !.reserved = @ - t.quote,
                                         !.deployed = @ + LotCost(t)]

\* (Faulty form: only the cash spent is released.)
AfterBuyReservedRest(b, t) == [band[b] EXCEPT !.available = @ - t.moved, !.reserved = @ - t.moved,
                                              !.deployed = @ + LotCost(t)]

\* The band after its pending buy: the cash spent leaves, the reservation goes.
AfterBuy(b, t) == [band[b] EXCEPT !.available = @ - t.moved, !.reserved = @ - t.quote,
                                  !.deployed = @ + LotCost(t)]

CommitBuy(b) ==
    LET t == attempt[b] IN
    /\ Settled(b, "filled") /\ t.side = "buy"
    /\ reservation[t.exec] \in Pending
    /\ t.moved <= t.quote
    /\ band' = [band EXCEPT ![b] = AfterBuy(b, t)]
    /\ reservation' = [reservation EXCEPT ![t.exec] = "SETTLED"]
    /\ lot' = [lot EXCEPT ![t.exec] = [band |-> b, zone |-> t.zone, cost |-> LotCost(t)]]
    /\ books' = [books EXCEPT ![b] = @ - t.moved]
    /\ portfolio' = Charged(t.fee, 0)
    /\ attempt' = [attempt EXCEPT ![b] = NoAttempt]
    /\ UNCHANGED <<funded, bot, executions, wallet, topUps>>

\* The cost a sell may release.  A sell that recovers the whole cost, fees paid,
\* closes the lot and retains the rest of the base; another releases the cost of
\* its share.
Released(b) ==
    LET t == attempt[b]  cost == lot[t.lot].cost IN
    IF band[b].asset \in Retaining /\ t.moved - t.fee >= cost THEN {cost} ELSE 1..cost

\* (Faulty form: the fee is kept in the band and swept with the profit as well.)
SplitGross(net, released, fee) ==
    LET grossExcess == Monus(net, released) IN
    [principal |-> net - grossExcess, feeAllowance |-> grossExcess - Monus(grossExcess, fee),
     profit |-> grossExcess, loss |-> Monus(released, net)]

\* (Faulty form: a sell below cost is not recorded as a loss.)
SplitLossless(net, released, fee) ==
    LET profit == Monus(Monus(net, released), fee) IN
    [principal |-> net - Monus(net, released), feeAllowance |-> Monus(net, released) - profit,
     profit |-> profit, loss |-> 0]

\* Proceeds against released cost: principal returns to the band, and with it
\* the part of the gain that pays for the fee; the rest is profit for the pool.
Split(net, released, fee) ==
    LET grossExcess == Monus(net, released)
        profit == Monus(grossExcess, fee)
    IN [principal |-> net - grossExcess, feeAllowance |-> grossExcess - profit,
        profit |-> profit, loss |-> Monus(released, net)]

\* (Faulty form: only the recovered principal leaves the deployed cost.)
AfterSellAtPrincipal(b, released, s) ==
    [band[b] EXCEPT !.available = @ + s.principal + s.feeAllowance,
                    !.deployed = @ - s.principal, !.loss = @ + s.loss]

AfterSell(b, released, s) == [band[b] EXCEPT !.available = @ + s.principal + s.feeAllowance,
                                             !.deployed = @ - released, !.loss = @ + s.loss]

\* The run books the whole proceeds; the commit takes the swept profit out again.
BooksAfterSell(b, t, s) == books[b] + t.moved - s.profit

CommitSell(b, released) ==
    LET t == attempt[b]
        s == Split(t.moved, released, t.fee)
    IN
    /\ Settled(b, "filled") /\ t.side = "sell"
    /\ t.lot \in LotsOf(b)
    /\ released <= band[b].deployed
    /\ band' = [band EXCEPT ![b] = AfterSell(b, released, s)]
    /\ lot' = [lot EXCEPT ![t.lot].cost = @ - released]
    /\ books' = [books EXCEPT ![b] = BooksAfterSell(b, t, s)]
    /\ portfolio' = Charged(t.fee, s.profit)
    /\ attempt' = [attempt EXCEPT ![b] = NoAttempt]
    /\ UNCHANGED <<funded, bot, executions, reservation, wallet, topUps>>

\* The failure of a buy whose outcome was unknown makes it releasable again.
Release(b, t) ==
    /\ band' = [band EXCEPT ![b].reserved = @ - t.quote]
    /\ reservation' = [reservation EXCEPT ![t.exec] = "RELEASED"]

CommitFailed(b) ==
    LET t == attempt[b] IN
    /\ Settled(b, "failed")
    /\ IF t.side = "buy" THEN Release(b, t) ELSE UNCHANGED <<band, reservation>>
    /\ portfolio' = Charged(t.fee, 0)
    /\ attempt' = [attempt EXCEPT ![b] = NoAttempt]
    /\ UNCHANGED <<funded, bot, books, executions, lot, wallet, topUps>>

-----------------------------------------------------------------------------
(* The operator.                                                           *)

Halt(b, s) ==
    /\ b \in OpenBands
    /\ bot' = [bot EXCEPT ![b] = s]
    /\ UNCHANGED <<accounts, books, attempt, executions, reservation, lot, wallet, topUps>>

Resume(b) ==
    /\ b \in OpenBands
    /\ attempt[b] = NoAttempt
    /\ Automated
    /\ bot' = [bot EXCEPT ![b] = "active"]
    /\ UNCHANGED <<accounts, books, attempt, executions, reservation, lot, wallet, topUps>>

\* Closing needs a stopped paper bot with nothing left to sell or to settle.
MayArchive(b) ==
    /\ ~Live
    /\ b \in OpenBands
    /\ bot[b] = "stopped"
    /\ attempt[b] = NoAttempt
    /\ band[b].reserved = 0
    /\ LotsOf(b) = {}
    /\ band[b].available <= band[b].allocated

\* (Faulty form: the asset keeps the funding of the closed band.)
ReturnCashUnfunded(b) ==
    LET cash == band[b].available IN
    /\ portfolio' = [portfolio EXCEPT !.free = @ + cash]
    /\ funded' = funded
    /\ band' = [band EXCEPT ![b].status = "CLOSED", ![b].available = 0, ![b].allocated = @ - cash]

\* The cash goes back to the pool; what the band lost stays on record.
ReturnCash(b) ==
    LET cash == band[b].available IN
    /\ portfolio' = [portfolio EXCEPT !.free = @ + cash]
    /\ funded' = [funded EXCEPT ![band[b].asset] = @ - cash]
    /\ band' = [band EXCEPT ![b].status = "CLOSED", ![b].available = 0, ![b].allocated = @ - cash]

Archive(b) ==
    /\ MayArchive(b)
    /\ ReturnCash(b)
    /\ books' = [books EXCEPT ![b] = 0]
    /\ UNCHANGED <<bot, attempt, executions, reservation, lot, wallet, topUps>>

\* assertLiveWalletCapital: no unsettled live execution, and the claims fit.
WalletObservable == Busy = {} /\ Claims <= wallet

TopUpFees ==
    /\ Live /\ topUps < MaxTopUps
    /\ WalletObservable
    /\ portfolio' = [portfolio EXCEPT !.fees = @ + 1]
    /\ topUps' = topUps + 1
    /\ UNCHANGED <<funded, band, bot, books, attempt, executions, reservation, lot, wallet>>

\* Only the two bands of the staging, both still paused, are ever started.
Activate ==
    LET rows == {b \in Bands : band[b].status # "none"} IN
    /\ Live /\ ~portfolio.auto /\ portfolio.fees > 0
    /\ Cardinality(rows) = 2
    /\ \A b \in rows : band[b].status = "ACTIVE" /\ bot[b] = "paused"
    /\ WalletObservable
    /\ portfolio' = [portfolio EXCEPT !.auto = TRUE]
    /\ bot' = [b \in Bands |-> IF b \in rows THEN "active" ELSE bot[b]]
    /\ UNCHANGED <<funded, band, books, attempt, executions, reservation, lot, wallet, topUps>>

-----------------------------------------------------------------------------

Manage(b) ==
    \/ Park(b)
    \/ Reactivate(b)
    \/ \E new \in Bands, q \in Requests : CreateBand(b, new, q)

Execute(b) ==
    \/ \E e \in Execs, q \in Quotes, z \in Zones, f \in FeeEstimates : PrepareBuy(b, e, q, z, f)
    \/ \E e, l \in Execs, f \in FeeEstimates : PrepareSell(b, e, l, f)
    \/ MarkUnknown(b)
    \/ /\ b \in Busy
       /\ \E f \in 0..attempt[b].estimate :
             \/ \E m \in 1..attempt[b].quote : ReportBuy(b, m, f)
             \/ \E m \in 1..(lot[attempt[b].lot].cost + MaxGain) : ReportSell(b, m, f)
             \/ ReportFailure(b, f)
    \/ CommitBuy(b)
    \/ b \in Busy /\ \E r \in Released(b) : CommitSell(b, r)
    \/ CommitFailed(b)

Operate(b) ==
    \/ \E s \in Halts : Halt(b, s)
    \/ Resume(b)
    \/ Archive(b)

Next ==
    \/ \E b \in Bands : Manage(b) \/ Execute(b) \/ Operate(b)
    \/ TopUpFees
    \/ Activate

Spec == Init /\ [][Next]_vars

-----------------------------------------------------------------------------
(* What must hold.                                                         *)

\* Of a swap that happened but is not in the books yet: what it paid, or earned.
Paid(b) == IF b \in Buying /\ Settled(b, "filled") THEN attempt[b].moved ELSE 0
Earned(b) == IF b \in Busy \ Buying /\ Settled(b, "filled") THEN attempt[b].moved ELSE 0

\* The free pool and the bands together claim exactly the USDC there is, but
\* for the swaps still to be settled: no cash is counted twice, none is lost
\* between band, pool and profit sweep, and assertLiveWalletCapital never finds
\* claims the wallet cannot cover.
ClaimsMatchWallet ==
    Claims + SumFunction([b \in Bands |-> Earned(b)]) = wallet + SumFunction([b \in Bands |-> Paid(b)])

\* The capital assigned to a band is what it has, holds in lots or has lost;
\* a live band may have kept a little more, the fees its trades paid in SOL.
\* So closing a paper band never finds more cash than was allocated to it.
BandAccounts ==
    \A b \in Bands :
        LET accounted == band[b].available + band[b].deployed + band[b].loss IN
        /\ accounted >= band[b].allocated
        /\ ~Live => accounted = band[b].allocated

\* An asset's funding is that of its bands, closed ones included: the less-funded
\* rule and the exposure cap compare true amounts.
FundingMatchesBands ==
    \A a \in Assets : funded[a] = SumFunctionOnSet([b \in Bands |-> band[b].allocated], BandsOf(a))

\* The deployed cost of a band is the cost of its open lots, so every open lot
\* can be sold: settlement refuses to release more than is deployed.
DeployedIsOpenLots ==
    \A b \in Bands : band[b].deployed = SumFunctionOnSet([e \in Execs |-> lot[e].cost], LotsOf(b))

\* Cash is reserved for exactly the pending buy of the band, and is there; a
\* reservation that blocks the portfolio always has an attempt whose
\* settlement lifts the block.
ReservedForPendingBuy ==
    /\ \A b \in Bands :
          /\ band[b].reserved = IF b \in Buying THEN attempt[b].quote ELSE 0
          /\ band[b].reserved <= band[b].available
    /\ \A e \in Execs : reservation[e] \in Pending <=> \E b \in Buying : attempt[b].exec = e

\* The balance a bot trades with, in its own snapshots, is the cash of its band,
\* after the profit left for the pool and after the band was closed.
BooksMatchBand == \A b \in Bands : books[b] = band[b].available

\* Across the bands of an asset and their revisions at most one lot or pending
\* buy occupies a price zone.
AssetOfLot(e) == band[lot[e].band].asset
OneEntryPerZone ==
    /\ \A d, e \in OpenLots :
          d # e /\ lot[d].zone = lot[e].zone => AssetOfLot(d) # AssetOfLot(e)
    /\ \A b, c \in Buying :
          b # c /\ attempt[b].zone = attempt[c].zone => band[b].asset # band[c].asset
    /\ \A e \in OpenLots, b \in Buying :
          lot[e].zone = attempt[b].zone => AssetOfLot(e) # band[b].asset

\* Whatever is executing on a live portfolio is paid for: automation is on and
\* the envelope holds the fee, so settling it never charges SOL beyond the
\* envelope, SOL that belongs to the inventory.
FeeIsFunded == Live => \A b \in Busy : portfolio.auto /\ attempt[b].estimate <= portfolio.fees

\* A closed band has no cash, no inventory to sell and nothing unsettled.
ClosedIsEmpty ==
    \A b \in Bands : band[b].status = "CLOSED" =>
        band[b].available = 0 /\ LotsOf(b) = {} /\ attempt[b] = NoAttempt

\* What the rows of a band say of each other: its snapshots of its cash, its
\* asset's other bands of the zones it holds, its status of what is left in it.
BandsAreConsistent == BooksMatchBand /\ OneEntryPerZone /\ ClosedIsEmpty
=============================================================================
