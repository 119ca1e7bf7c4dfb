----------------------------- MODULE GridDecision -----------------------------
(***************************************************************************)
(* What one legacy bot decides from the prices it observes: crossings and  *)
(* pending signals (grid-decision-service.ts), orders (grid-strategy-      *)
(* service.ts), the risk rules, the quote guards, what a fill does to the  *)
(* lots (lot-accounting-service.ts) and the flat recenter.                 *)
(*                                                                         *)
(* One run of the engine on one price is one action; how its writes are    *)
(* interleaved with the operator's is the matter of LegacyBot and          *)
(* DurableExecution.  Amounts are whole units, a base amount counts atoms  *)
(* of 1/Atoms, and percentages are whole.  Times are ages, capped where    *)
(* nothing compares them any more.                                         *)
(***************************************************************************)
EXTENDS Integers, Sequences, FiniteSetsExt

CONSTANTS
  Grid,      \* rungs, spacing, low: the first range
  Money,     \* strategy, live, budget, deployable, reserve, minOrder, slip, fee, drawdown
  Timing,    \* window, cooldown, lock, hour, perHour, auto, confirm, interval, perDay
  Prices, Delays, Drifts,   \* inputs: prices, time between two runs, live quotes' drift
  Atoms, Eps,               \* atoms of the base, tolerance of the displayed cent
  MaxBuys, MaxRequests      \* bounds

GridAssumption ==
  /\ Grid \in [rungs : Nat \ {0, 1}, spacing : Nat \ {0}, low : Nat \ {0}]
  /\ Prices \subseteq Nat \ {0} /\ Delays \subseteq Nat \ {0} /\ Drifts \subseteq Nat
  /\ Money.strategy \in {"base", "usdc", "balanced"}
  /\ Money.live => Money.strategy # "base"   \* QuoteSizing

VARIABLES
  bot,       \* the bot's rows: status, range, open lots, retained base, newest state
  last,      \* the engine's lastObservedPriceByBotId
  turn,      \* sells this run has executed so far; 0 between runs
  near,      \* history: how long every observed price has confirmed a buy at the rail
  left       \* what is left of the bounds

vars == <<bot, last, turn, near, left>>

Rungs == 0 .. Grid.rungs - 1
BuyRungs == 0 .. Grid.rungs - 2
NoPending == [side |-> "none", level |-> 0, age |-> 0]
Inside == [side |-> "inside", age |-> 0, advanced |-> FALSE]
MaxCatchUp == 4
NoSignal == [side |-> "none", level |-> 0]

Smaller(a, b) == IF a < b THEN a ELSE b
Larger(a, b) == IF a > b THEN a ELSE b
Nearest(n, d) == (2 * n + d) \div (2 * d)
Upwards(n, d) == (n + d - 1) \div d

TypeOK ==
  /\ bot.status \in {"running", "cooldown", "out_of_range", "paused"}
  /\ bot.low \in Nat /\ bot.cash \in Nat /\ bot.kept \in Nat /\ bot.peak \in Nat /\ bot.external \in Nat
  /\ bot.lots \subseteq [id : Nat, base : Nat \ {0}, cost : Nat \ {0}]
  /\ \A c \in bot.cycles : c.buy \in BuyRungs /\ c.sell \in Rungs \cup {-1} /\ \E lot \in bot.lots : lot.id = c.lot
  /\ bot.pending.side \in {"none", "buy", "sell"} /\ bot.pending.level \in Rungs
  /\ turn \in 0 .. MaxCatchUp - 1 /\ (turn > 0 => bot.status \in {"cooldown", "paused"})

Init ==
  /\ \E p \in Prices :
       /\ bot = [status |-> "running", low |-> Grid.low, cash |-> Money.budget, base |-> 0, kept |-> 0, lots |-> {},
                 cycles |-> {}, real |-> 0, external |-> 0, peak |-> Money.budget, seen |-> p,
                 pending |-> NoPending, outside |-> Inside, locks |-> [i \in Rungs |-> 0],
                 exec |-> Timing.cooldown + 1, recent |-> << >>, moved |-> Timing.interval, moves |-> 0]
       /\ last = p
  /\ turn = 0 /\ near = [i \in BuyRungs |-> -1]
  /\ left = [buys |-> MaxBuys, requests |-> MaxRequests]
-----------------------------------------------------------------------------
\* Rails and crossings

Rail(b, i) == b.low + i * Grid.spacing
Outside(b, p) == p < b.low \/ p > Rail(b, Grid.rungs - 1)
Side(b, p) == IF p < b.low THEN "below" ELSE IF Outside(b, p) THEN "above" ELSE "inside"

\* priceConfirmsTrigger and priceMoveTouchesLevel
Confirms(b, side, i, p) ==
  IF side = "buy" THEN p <= Rail(b, i) + Eps ELSE p >= Rail(b, i) - Eps
Touched(b, i, from, p) ==
  from # p /\ Smaller(from, p) - Eps <= Rail(b, i) /\ Rail(b, i) <= Larger(from, p) + Eps

\* inferGridCycleForLot: the first rail above the lot's cost sells it.
SellRails(b, lot) == {i \in Rungs : Rail(b, i) * lot.base > lot.cost * Atoms}
InferredCycle(b, lot) ==
  LET above == SellRails(b, lot)
      sell == IF above = {} THEN -1 ELSE Larger(1, Min(above))
  IN [buy |-> IF sell = -1 THEN Grid.rungs - 2 ELSE sell - 1, sell |-> sell, lot |-> lot.id]

\* Open lots and what they cost.
Spent(b) == MapThenSumSet(LAMBDA lot : lot.cost, b.lots)
Held(b) == b.kept + MapThenSumSet(LAMBDA lot : lot.base, b.lots)
Equity(b, p) == b.cash + Nearest(b.base * p, Atoms) - b.external
-----------------------------------------------------------------------------
\* buildOrderIntent

Tracked(b) == {c.lot : c \in b.cycles}
\* findCycleMatchedSellLot, else findInferredSellLot: the oldest lot, if any.
SellLots(b, i) ==
  LET matched == {lot \in b.lots : \E c \in b.cycles : c.lot = lot.id /\ c.sell = i}
      inferred == {lot \in b.lots : lot.id \notin Tracked(b) /\ InferredCycle(b, lot).sell = i}
      found == IF matched # {} THEN matched ELSE inferred
  IN {lot \in found : \A other \in found : lot.id <= other.id}

\* buildSellPlanFromLot: what recovers the cost after fees, at most the lot.
NetRatio == IF Money.strategy = "usdc" THEN 10000
            ELSE IF Money.live THEN (100 - Money.slip) * (100 - Money.fee)
            ELSE 10000 - 100 * Money.slip - 100 * Money.fee
SellBase(b, lot, price) ==
  LET now == Nearest(lot.base * price * NetRatio, Atoms * 10000)
      target == CASE Money.strategy = "base" -> lot.cost
                  [] Money.strategy = "usdc" -> now
                  [] OTHER -> lot.cost + Nearest(now - lot.cost, 2)
  IN IF now <= lot.cost THEN 0
     ELSE Smaller(lot.base, Upwards(target * Atoms * 10000, price * NetRatio))

Spendable(b) == b.cash - Money.reserve
BuyQuote(b) ==
  Smaller(Spendable(b), Larger(Nearest(Money.deployable, Grid.rungs - 1), Money.minOrder))
Occupied(b, i) == \E c \in b.cycles : c.buy = i
Buildable(b, side, i, p) ==
  IF side = "buy"
  THEN i \in BuyRungs /\ ~Occupied(b, i) /\ Spendable(b) >= Money.minOrder
  ELSE i > 0 /\ \E lot \in SellLots(b, i) : SellBase(b, lot, Larger(p, Rail(b, i))) > 0
-----------------------------------------------------------------------------
\* GridDecisionService

\* selectActionableCrossedSignal: the crossed rails nearest to where the move began.
Crossed(b, from, p) ==
  LET side == IF p < from THEN "buy" ELSE "sell"
      rails == {i \in Rungs : Touched(b, i, from, p) /\ Buildable(b, side, i, p)}
  IN IF rails = {} THEN NoSignal
     ELSE [side |-> side, level |-> IF side = "buy" THEN Max(rails) ELSE Min(rails)]

\* selectActionableSellAtCurrentPrice.
SellNow(b, p) ==
  LET rails == {i \in Rungs : Confirms(b, "sell", i, p) /\ Buildable(b, "sell", i, p)}
  IN IF rails = {} THEN NoSignal ELSE [side |-> "sell", level |-> Max(rails)]

\* confirmationElapsed
Elapsed(b) == b.pending.age >= Timing.window

\* getConfirmedSignal
FromPending(b, p) ==
  LET s == [side |-> b.pending.side, level |-> b.pending.level] IN
  IF /\ s.side # "none" /\ Confirms(b, s.side, s.level, p)
     /\ (s.side = "buy" => b.status # "out_of_range" /\ Elapsed(b))
     /\ Buildable(b, s.side, s.level, p)
  THEN s ELSE NoSignal
ConfirmedSignal(b, from, p) ==
  LET crossing == Crossed(b, from, p) IN
  IF crossing.side = "sell" \/ (crossing.side = "buy" /\ b.status # "out_of_range" /\ Timing.window = 0)
  THEN crossing
  ELSE IF SellNow(b, p) # NoSignal THEN SellNow(b, p)
  ELSE FromPending(b, p)

\* getOutOfRangeRecoverySellSignal, getOutOfRangeBoundaryBuySignal
RecoverySell(b, from, p) ==
  IF ConfirmedSignal(b, from, p).side = "sell" THEN ConfirmedSignal(b, from, p) ELSE SellNow(b, p)
BoundaryBuy(b, p) ==
  IF /\ Confirms(b, "buy", 0, p) /\ Buildable(b, "buy", 0, p)
     /\ Timing.window > 0 => b.pending.side = "buy" /\ b.pending.level = 0 /\ Elapsed(b)
  THEN [side |-> "buy", level |-> 0] ELSE NoSignal

\* resolvePendingSignal: what the price no longer confirms is dropped.
Renewed(b, s) ==
  [side |-> s.side, level |-> s.level,
   age |-> IF b.pending.side = s.side /\ b.pending.level = s.level THEN b.pending.age ELSE 0]
KeptPending(b, p) ==
  IF Confirms(b, b.pending.side, b.pending.level, p) /\ Buildable(b, b.pending.side, b.pending.level, p)
  THEN b.pending ELSE NoPending
ResolvedPending(b, from, p) ==
  LET crossing == IF Confirms(b, "buy", 0, p) /\ Buildable(b, "buy", 0, p)
                  THEN [side |-> "buy", level |-> 0] ELSE Crossed(b, from, p)
  IN IF crossing # NoSignal THEN Renewed(b, crossing)
     ELSE IF b.pending.side = "none" THEN NoPending ELSE KeptPending(b, p)
-----------------------------------------------------------------------------
\* RiskManagerService (a sell is held back by a pause alone)

Drawdown(b, p) ==
  LET peak == Larger(b.peak, Equity(b, p))
  IN (peak - Equity(b, p)) * 100 >= Money.drawdown * peak
RiskAllows(b, s, p) ==
  /\ b.status # "paused"
  /\ s.side = "buy" =>
       /\ b.status = "out_of_range" /\ ~Timing.auto => s.level = 0 /\ p <= Rail(b, 0)
       /\ b.locks[s.level] = 0 /\ b.exec >= Timing.cooldown
       /\ Len(b.recent) < Timing.perHour
       /\ BuyQuote(b) + Spent(b) <= Money.deployable
       /\ ~Drawdown(b, p)
-----------------------------------------------------------------------------
\* Quotes, guards and fills

\* PaperExecutionAdapter; a live quote may be worse than the price by a drift,
\* and fills between what it expects and the provider's minimum.
SellQuote(base, p) ==
  IF Money.live
  THEN {[price |-> p - x, out |-> Nearest(base * (p - x), Atoms), fee |-> Money.fee,
         min |-> (base * (p - x) * (100 - Money.slip)) \div (Atoms * 100)] : x \in Drifts}
  ELSE LET out == Nearest(base * p * (100 - Money.slip), Atoms * 100)
       IN {[price |-> p, out |-> out, min |-> out, fee |-> Nearest(base * p * Money.fee, Atoms * 100)]}
BaseQuote(quote, p) ==
  IF Money.live
  THEN {[price |-> p + x, out |-> Nearest(quote * Atoms, p + x), fee |-> Money.fee,
         min |-> (quote * Atoms * (100 - Money.slip)) \div ((p + x) * 100)] : x \in Drifts}
  ELSE LET out == Nearest(quote * Atoms * (100 - Money.slip), p * 100)
       IN {[price |-> p, out |-> out, min |-> out, fee |-> Nearest(quote * Money.fee, 100)]}

\* validateExecutionQuote: the drift limit of a live quote.
InDrift(b, s, q) ==
  Money.live => (IF s.side = "buy" THEN q.price - Rail(b, s.level) ELSE Rail(b, s.level) - q.price) * 100
                  <= Money.slip * Rail(b, s.level)

\* calculateNetSellPnl: only "usdc" gives up the cost of the sold part alone.
CostGiven(lot, base) == IF Money.strategy = "usdc" THEN Nearest(lot.cost * base, lot.base) ELSE lot.cost
\* validateNetSellQuote, and two ways to get it wrong.
NetPositiveGross(lot, base, q) == q.min - CostGiven(lot, base) >= 0
NetPositive(lot, base, q) == q.min - q.fee - CostGiven(lot, base) >= 0
FundsCover(b, quote, q) == quote + q.fee <= Spendable(b) /\ Spent(b) + quote + q.fee <= Money.deployable

\* applyLotExecution, computePortfolioState, applyExecutionToGridCycles
Fee(b, fee) == IF Money.live THEN [b EXCEPT !.external = @ + fee] ELSE [b EXCEPT !.cash = @ - fee]
Traded(b, i, p) ==
  [b EXCEPT !.status = IF b.status = "paused" THEN "paused" ELSE "cooldown", !.seen = p, !.pending = NoPending,
            !.locks[i] = Timing.lock, !.exec = 0, !.recent = Append(@, 0), !.peak = Larger(@, Equity(b, p))]
Bought(b, s, p, quote, q, out) ==
  LET id == MaxBuys - left.buys + 1
      spent == Fee([b EXCEPT !.cash = @ - quote, !.base = @ + out], q.fee)
  IN Traded([spent EXCEPT !.lots = @ \cup {[id |-> id, base |-> out, cost |-> quote + q.fee]},
                          !.cycles = @ \cup {[buy |-> s.level, sell |-> s.level + 1, lot |-> id]}],
            s.level, p)
Given(lot, base) ==
  IF Money.strategy = "usdc" /\ lot.base > base
  THEN {[lot EXCEPT !.base = @ - base, !.cost = @ - CostGiven(lot, base)]} ELSE {}
Kept(lot, base) == IF Money.strategy = "usdc" THEN 0 ELSE lot.base - base
CyclesAfterSale(b, lot, rest) == IF rest = {} THEN {c \in b.cycles : c.lot # lot.id} ELSE b.cycles
Sold(b, s, p, lot, base, q, out) ==
  LET paid == Fee([b EXCEPT !.cash = @ + out, !.base = @ - base, !.kept = @ + Kept(lot, base)], q.fee)
      rest == Given(lot, base)
  IN Traded([paid EXCEPT !.lots = (@ \ {lot}) \cup rest,
                         !.cycles = CyclesAfterSale(b, lot, rest),
                         !.real = @ + out - q.fee - CostGiven(lot, base)],
            s.level, p)
-----------------------------------------------------------------------------
\* persistPassiveState

PassiveStatus(b) ==
  IF b.status = "out_of_range" \/ (b.status = "cooldown" /\ b.exec > Timing.cooldown) THEN "running" ELSE b.status
Passive(b, p, status, pending) ==
  [b EXCEPT !.status = status, !.pending = pending, !.seen = p, !.peak = Larger(@, Equity(b, p))]
\* shouldPersistPassiveState: an unchanged state is left out for a while.
Written(b, new) == IF [new EXCEPT !.seen = b.seen] = b THEN {b, new} ELSE {new}

\* executeConfirmedSignal: blocked by risk, held by the quote guard, or a fill.
Blocked(b, p) == Written(b, Passive(b, p, PassiveStatus(b), NoPending))
HeldBack(b, s, p) == Written(b, Passive(b, p, PassiveStatus(b), Renewed(b, s)))
ExecuteSell(b, s, p) ==
  IF ~RiskAllows(b, s, p) THEN bot' \in Blocked(b, p) /\ turn' = 0 /\ UNCHANGED left
  ELSE \E lot \in SellLots(b, s.level) :
         LET base == SellBase(b, lot, Larger(p, Rail(b, s.level))) IN
         \E q \in SellQuote(base, p) :
           IF InDrift(b, s, q) /\ NetPositive(lot, base, q)
           THEN /\ \E out \in {q.out, q.min} : bot' = Sold(b, s, p, lot, base, q, out)
                /\ turn' = (turn + 1) % MaxCatchUp /\ UNCHANGED left
           ELSE bot' \in HeldBack(b, s, p) /\ turn' = 0 /\ UNCHANGED left
ExecuteBuy(b, s, p) ==
  /\ turn' = 0
  /\ IF ~RiskAllows(b, s, p) THEN bot' \in Blocked(b, p) /\ UNCHANGED left
     ELSE \E q \in BaseQuote(BuyQuote(b), p) :
            IF InDrift(b, s, q) /\ FundsCover(b, BuyQuote(b), q)
            THEN /\ left.buys > 0 /\ left' = [left EXCEPT !.buys = @ - 1]
                 /\ \E out \in {q.out, q.min} : bot' = Bought(b, s, p, BuyQuote(b), q, out)
            ELSE bot' \in HeldBack(b, s, p) /\ UNCHANGED left
-----------------------------------------------------------------------------
\* evaluateFlatRecenter

SeenOutside(b, p, advanced) ==
  LET same == b.outside.side = Side(b, p)
  IN [side |-> Side(b, p), age |-> IF same THEN b.outside.age ELSE 0,
      advanced |-> same /\ (b.outside.advanced \/ advanced)]
Confirmation == Larger(Timing.confirm, Timing.window)
MayMove(b, seen) ==
  /\ seen.age >= Confirmation /\ (Money.live => seen.advanced)
  /\ b.lots = {} /\ b.moved >= Timing.interval /\ b.moves < Timing.perDay
\* suggestHybridRange
Suggested(b, p) ==
  LET width == (Grid.rungs - 1) * Grid.spacing
  IN Larger(Nearest(100 * p - width * (IF Side(b, p) = "above" THEN 65 ELSE 35), 100), Nearest(p, 100))

\* handleOutOfRange
StayOutside(b, p, outside) ==
  bot' \in Written(b, [Passive(b, p, "out_of_range", ResolvedPending(b, b.seen, p)) EXCEPT !.outside = outside])
Recentered(b, p) ==
  [Passive(b, p, "running", NoPending) EXCEPT
     !.low = Suggested(b, p), !.outside = Inside, !.locks = [i \in Rungs |-> 0], !.cycles = {},
     !.moved = 0, !.moves = @ + 1]
-----------------------------------------------------------------------------
\* A run of the engine on price p, with b the rows as it reads them

Aged(d, newDay) ==
  LET older(a, cap) == Smaller(a + d, cap)
      ages == [k \in DOMAIN bot.recent |-> bot.recent[k] + d]
      fresh == {k \in DOMAIN ages : ages[k] <= Timing.hour}
  IN [bot EXCEPT
       !.pending.age = IF bot.pending = NoPending THEN 0 ELSE older(@, Timing.window),
       !.outside.age = IF bot.outside = Inside THEN 0 ELSE older(@, Confirmation),
       !.locks = [i \in Rungs |-> Larger(0, @[i] - d)],
       !.exec = older(@, Timing.cooldown + 1),
       !.recent = [k \in 1 .. Cardinality(fresh) |-> ages[k + Len(ages) - Cardinality(fresh)]],
       !.moved = older(@, Timing.interval), !.moves = IF newDay THEN 0 ELSE @]

RunPaused(b, p) ==
  /\ b.status = "paused"
  /\ bot' \in Written(b, Passive(b, p, "paused", ResolvedPending(b, bot.seen, p))) /\ turn' = 0 /\ UNCHANGED left

OutsideSignal(b, p) ==
  CASE Side(b, p) = "below" /\ ~Timing.auto -> BoundaryBuy(b, p)
    [] Side(b, p) = "above" -> RecoverySell(b, last, p)
    [] OTHER -> NoSignal
RunOutside(b, p, advanced, signal) ==
  LET seen == SeenOutside(b, p, advanced) IN
  /\ b.status # "paused" /\ Outside(b, p) /\ signal = NoSignal
  /\ CASE ~Timing.auto -> StayOutside(b, p, b.outside)
       [] Timing.auto /\ MayMove(b, seen) -> bot' = Recentered(b, p)
       [] OTHER -> StayOutside(b, p, seen)
  /\ turn' = 0 /\ UNCHANGED left

\* Back inside: the first run only forgets when the price had left.
Returns(b, p) == ~Outside(b, p) /\ b.outside # Inside
RunReturn(b, p) ==
  /\ b.status # "paused" /\ Returns(b, p)
  /\ bot' \in Written(b, [Passive(b, p, PassiveStatus(b), ResolvedPending(b, bot.seen, p)) EXCEPT !.outside = Inside])
  /\ turn' = 0 /\ UNCHANGED left

Signal(b, p) ==
  IF Outside(b, p) THEN OutsideSignal(b, p)
  ELSE IF Returns(b, p) THEN NoSignal ELSE ConfirmedSignal(b, last, p)
RunSell(b, p, signal) == b.status # "paused" /\ signal.side = "sell" /\ ExecuteSell(b, signal, p)
RunBuy(b, p, signal) == b.status # "paused" /\ signal.side = "buy" /\ ExecuteBuy(b, signal, p)
RunPassive(b, p, signal) ==
  /\ b.status # "paused" /\ ~Outside(b, p) /\ ~Returns(b, p) /\ signal = NoSignal
  /\ bot' \in Written(b, Passive(b, p, PassiveStatus(b), ResolvedPending(b, last, p)))
  /\ turn' = 0 /\ UNCHANGED left

Record(p, d) ==
  /\ last' = p
  /\ near' = [i \in BuyRungs |-> IF ~Confirms(bot, "buy", i, p) THEN -1
                                  ELSE IF near[i] = -1 THEN 0 ELSE Smaller(near[i] + d, Timing.window)]

Run(p, d, newDay, advanced) ==
  LET b == Aged(d, newDay) IN
  /\ turn = 0 /\ Record(p, d)
  /\ \/ RunPaused(b, p)
     \/ RunReturn(b, p)
     \/ \E signal \in {Signal(b, p)} :
          \/ RunOutside(b, p, advanced, signal)
          \/ RunSell(b, p, signal) \/ RunBuy(b, p, signal) \/ RunPassive(b, p, signal)

\* executeSellCatchUp: the rows again, the same price, no crossing.
SellAgain ==
  /\ turn > 0
  /\ \E signal \in {ConfirmedSignal(bot, last, last)} :
       signal.side = "sell" /\ ExecuteSell(bot, signal, last)
  /\ UNCHANGED <<last, near>>
EndRun ==
  /\ turn > 0 /\ ConfirmedSignal(bot, last, last).side # "sell"
  /\ turn' = 0 /\ UNCHANGED <<bot, last, near, left>>
-----------------------------------------------------------------------------
\* The operator, and a restart of the worker

Asks == left.requests > 0 /\ left' = [left EXCEPT !.requests = @ - 1]
Pause == Asks /\ bot.status # "paused" /\ bot' = [bot EXCEPT !.status = "paused"] /\ UNCHANGED <<last, turn, near>>
Resume == Asks /\ bot.status = "paused" /\ turn = 0 /\ bot' = [bot EXCEPT !.status = "running"]
          /\ UNCHANGED <<last, turn, near>>
\* PATCH with a new range: remapOpenLotsToGridCycles, buildMigratedRuntimeMetadata.
Migrated(low) ==
  LET moved == [bot EXCEPT !.low = low]
  IN [moved EXCEPT !.cycles = {InferredCycle(moved, lot) : lot \in bot.lots},
                   !.pending = NoPending, !.locks = [i \in Rungs |-> 0]]
EditRange ==
  /\ Asks /\ bot.status = "paused" /\ turn = 0
  /\ \E low \in {Grid.low, Grid.low + Grid.spacing} \ {bot.low} : bot' = Migrated(low)
  /\ near' = [i \in BuyRungs |-> -1] /\ UNCHANGED <<last, turn>>
Restart ==
  /\ Asks /\ last' = bot.seen /\ turn' = 0 /\ UNCHANGED <<bot, near>>

Runs == \E p \in Prices, d \in Delays, newDay \in {FALSE, Timing.auto}, advanced \in {FALSE, Money.live /\ Timing.auto} :
          Run(p, d, newDay, advanced)
Next == Runs \/ SellAgain \/ EndRun \/ Pause \/ Resume \/ EditRange \/ Restart
Spec == Init /\ [][Next]_vars
-----------------------------------------------------------------------------
\* Properties

\* Through crossings, fees, partial retention, edits and recenters, the balance
\* of base is the open lots and what was retained, and the cash with the cost of
\* what is open is the budget and what was realized.
BooksAgree ==
  /\ bot.base = Held(bot)
  /\ bot.cash + Spent(bot) - bot.external = Money.budget + bot.real

\* Every open lot has its rails, in one cycle, through trades, edits and
\* recenters; and without an edit no rail is bought twice while its lot is open.
EveryLotTracked ==
  /\ Tracked(bot) = {lot.id : lot \in bot.lots}
  /\ left.requests = MaxRequests => \A c, e \in bot.cycles : c.buy = e.buy => c = e

\* No buy, with the fees it turns out to have, spends the reserve or holds more
\* than the budget that may be deployed.
WithinBudget == bot.cash >= Money.reserve /\ Spent(bot) <= Money.deployable

\* No sale realizes a loss, whatever the rail it was built for, the display
\* tolerance, the drift of the quote and the fee.
NoLosingSale == bot'.real >= bot.real

\* "How long a touch must persist before it becomes a signal"
\* (bot-config-fields.tsx:195): every price seen for the whole window before a
\* buy confirmed its rail, across restarts, pauses, edits and out-of-range spells.
Buys == Cardinality(bot'.lots) > Cardinality(bot.lots)
BuysAreConfirmed ==
  Buys => \A c \in bot'.cycles \ bot.cycles : near'[c.buy] >= Timing.window

=============================================================================
