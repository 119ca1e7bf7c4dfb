----------------------------- MODULE LabReplay -----------------------------
(***************************************************************************)
(* The Lab's candle replay (backtest-lab-service.ts): each candle is four  *)
(* observed prices, each price a signal and at most one simulated order,   *)
(* and after the close the adaptive range plan and the recenter policy may *)
(* move the rails or forbid new buys. Which rail is crossed, confirmed,    *)
(* locked or cooling down is a choice; so is the regime the indicators     *)
(* give. Base comes in whole units, the fee is a fixed sum a unit.         *)
(***************************************************************************)
EXTENDS Integers, Sequences, FiniteSets, FiniteSetsExt

CONSTANTS
    Prices,       \* prices a candle can touch
    MaxBars,      \* bound: candles replayed
    DayBars,      \* candles in a UTC day
    FirstBand,    \* the rails of the configuration, [low, high]
    Plans,        \* ranges the planner can recommend
    Budget, Reserve, Deployable, OrderUnits, Fee,
    Auto, Adaptive, Flat,      \* recenter mode, range control, worker_flat model
    AccumulateBase,            \* strategy: sell the cost, keep the rest
    Confirmation, MinInterval, MaxPerDay,
    WarmUp, Replan             \* candles before the first plan and between plans

ReplayAssumption ==
    /\ Prices \subseteq Nat \ {0} /\ \A p \in Prices : p > Fee
    /\ {MaxBars, Budget, Reserve, Deployable, Fee, Confirmation, MinInterval, MaxPerDay} \subseteq Nat
    /\ {DayBars, OrderUnits, WarmUp, Replan} \subseteq Nat \ {0}
    /\ {Auto, Adaptive, Flat, AccumulateBase} \subseteq BOOLEAN
    /\ Flat => Auto /\ ~Adaptive               \* normalizeConfig
    /\ Reserve <= Budget /\ Deployable <= Budget - Reserve

VARIABLES
    bar, candle,    \* candles closed so far; the prices replayed of the next one
    band,           \* the rails
    cash, base,     \* availableQuoteAmount, availableBaseAmount
    lots,           \* trading lots: sequence of [units, cost]
    retained,       \* units kept from recovered lots
    guard,          \* recenterGuard: "none", "sells" or "closed"
    regimeGuard, favourable,        \* regimeBuyGuard, favorableRegimeEvaluations
    sincePlan,      \* adaptiveBarsSinceLastEvaluation
    outsideCloses,  \* consecutiveOutsideCloses
    outside,        \* outsideSide and outsideSince, or Inside
    moves,          \* recenterHistory: when the rails moved; the last is lastRecenterAt
    verdicts        \* history: good plans since the last bad one, 2 for two or none bad

money == <<cash, base, lots, retained>>
defence == <<regimeGuard, favourable, sincePlan, outsideCloses, verdicts>>
vars == <<bar, candle, band, money, guard, defence, outside, moves>>

Inside == [side |-> "inside", since |-> 0]
Width(b) == b.high - b.low
IsOut(b, p) == p < b.low \/ p > b.high
Side(b, p) == IF p > b.high THEN "above" ELSE IF p < b.low THEN "below" ELSE "inside"
Now == bar * 3 + Len(candle)                \* four prices over an interval of three ticks
CloseTime == bar * 3 + 3

\* Bullish candles are walked open, low, high, close; bearish ones open, high, low, close.
PathOf(o, l, h, c) == IF c >= o THEN <<o, l, h, c>> ELSE <<o, h, l, c>>
Paths == {PathOf(o, l, h, c) : <<o, l, h, c>> \in
            {q \in Prices \X Prices \X Prices \X Prices :
                q[2] <= Min({q[1], q[4]}) /\ q[3] >= Max({q[1], q[4]})}}

Init ==
    /\ bar = 0 /\ candle = <<>>
    /\ band = FirstBand
    /\ cash = Budget /\ base = 0 /\ lots = <<>> /\ retained = 0
    /\ guard = "none" /\ regimeGuard = FALSE /\ favourable = 0
    /\ sincePlan = 0 /\ outsideCloses = 0
    /\ outside = Inside /\ moves = {} /\ verdicts = 2

-----------------------------------------------------------------------------
(* Orders. *)

CostOf(ls) == FoldSet(LAMBDA i, sum : sum + ls[i].cost, 0, DOMAIN ls)
UnitsOf(ls) == FoldSet(LAMBDA i, sum : sum + ls[i].units, 0, DOMAIN ls)

Capacity == Max({0, Min({cash - Reserve, Deployable - CostOf(lots)})})
\* The fee is reserved before the order is sized.
Affordable(p) == Min({OrderUnits, Capacity \div (p + Fee)})

\* Fault: the regime's defence is forgotten.
MayBuyUndefended(g) == g = "none"
MayBuy(g) == g = "none" /\ ~regimeGuard
MaySell(g) == g # "closed"

Buy(p) ==
    LET units == Affordable(p) IN
    /\ units > 0
    /\ cash' = cash - units * (p + Fee)
    /\ base' = base + units
    /\ lots' = Append(lots, [units |-> units, cost |-> units * (p + Fee)])
    /\ UNCHANGED retained

\* What a sale of lot i hands over: all of it, or the units that recover its cost.
Handed(i, p) ==
    LET lot == lots[i] IN
    IF ~AccumulateBase THEN lot.units
    ELSE Min({lot.units, (lot.cost + p - Fee - 1) \div (p - Fee)})
Recovers(i, p) == Handed(i, p) * (p - Fee) >= lots[i].cost

Sell(i, p) ==
    /\ Recovers(i, p)
    /\ cash' = cash + Handed(i, p) * (p - Fee)
    /\ base' = base - Handed(i, p)
    /\ lots' = [k \in 1..(Len(lots) - 1) |-> IF k < i THEN lots[k] ELSE lots[k + 1]]
    /\ retained' = retained + lots[i].units - Handed(i, p)

-----------------------------------------------------------------------------
(* Range changes. *)

Suggested(p, side) ==
    LET low == Max({1, p - (Width(band) * (IF side = "above" THEN 65 ELSE 35)) \div 100})
    IN  [low |-> low, high |-> low + Width(band)]

Today(at) == {t \in moves : t \div (3 * DayBars) = at \div (3 * DayBars)}
CanChangeRange(at) ==
    /\ Len(lots) = 0
    /\ MaxPerDay > 0
    /\ moves # {} => at - Max(moves) >= MinInterval
    /\ Cardinality(Today(at)) < MaxPerDay

\* evaluateFlatRecenter and applyWorkerFlatRecenterStep, outside the rails without a signal.
FlatStep(p) ==
    LET side == Side(band, p)
        since == IF outside.side = side THEN outside.since ELSE Now
    IN  IF Now - since >= Confirmation /\ CanChangeRange(Now)
        THEN /\ band' = Suggested(p, side) /\ moves' = moves \cup {Now}
             /\ outside' = Inside /\ guard' = "none"
        ELSE /\ outside' = [side |-> side, since |-> since] /\ guard' = "sells"
             /\ UNCHANGED <<band, moves>>

-----------------------------------------------------------------------------
(* One observed price. *)

Signals(p) ==
    CASE p < band.low -> IF Flat THEN {} ELSE {"buy"}     \* the single lower-boundary buy
      [] p > band.high -> {"sell"}
      [] OTHER -> {"buy", "sell"}

\* A tick inside the rails lifts the recenter guard before anything is decided.
GuardAt(p) == IF IsOut(band, p) THEN guard ELSE "none"

ReEnters(p) == Flat /\ ~IsOut(band, p) /\ outside # Inside

Trade(p) ==
    /\ ~ReEnters(p)
    /\ \/ "buy" \in Signals(p) /\ MayBuy(GuardAt(p)) /\ Buy(p)
       \/ "sell" \in Signals(p) /\ MaySell(GuardAt(p)) /\ \E i \in DOMAIN lots : Sell(i, p)
    /\ guard' = GuardAt(p)
    /\ UNCHANGED <<band, outside, moves>>

NoTrade(p) ==
    /\ UNCHANGED money
    /\ IF ReEnters(p) THEN outside' = Inside /\ guard' = "none" /\ UNCHANGED <<band, moves>>
       ELSE IF Flat /\ IsOut(band, p) THEN FlatStep(p)
       ELSE guard' = GuardAt(p) /\ UNCHANGED <<band, outside, moves>>

Starts(prices) == \E path \in Paths : SubSeq(path, 1, Len(prices)) = prices

Tick(p) ==
    /\ bar < MaxBars /\ Len(candle) < 4
    /\ Starts(Append(candle, p))
    /\ Trade(p) \/ NoTrade(p)
    /\ candle' = Append(candle, p)
    /\ UNCHANGED <<bar, defence>>

-----------------------------------------------------------------------------
(* The close of a candle. A regime is what the indicators say of the candles *)
(* observed so far; a plan is a range and whether its risk is high.          *)

Regimes == {"range", "up", "down", "chaotic", "unsure"}
Plannings == [band : Plans, risky : BOOLEAN]

PlanDue == Adaptive /\ bar + 1 >= WarmUp /\ sincePlan + 1 >= Replan
Good(regime, plan) == regime = "range" /\ ~plan.risky
Lifts(n) == ~regimeGuard \/ n >= 2

\* maybeApplyAdaptiveRangePlan: what it leaves of the rails, the guards and the moves.
Planned(regime, plan) ==
    LET unchanged == [band |-> band, guard |-> guard, moves |-> moves, since |-> sincePlan + 1,
                      regimeGuard |-> regimeGuard, favourable |-> favourable, verdicts |-> verdicts]
        judged == [unchanged EXCEPT !.since = 0, !.favourable = Min({2, favourable + 1}), !.verdicts = Min({2, verdicts + 1})]
        lifted == [judged EXCEPT !.regimeGuard = FALSE]
    IN  CASE ~PlanDue -> unchanged
          [] PlanDue /\ ~Good(regime, plan) ->
                [judged EXCEPT !.regimeGuard = TRUE, !.favourable = 0, !.verdicts = 0]
          [] PlanDue /\ Good(regime, plan) /\ ~Lifts(favourable + 1) -> judged
          [] OTHER -> IF plan.band = band \/ ~CanChangeRange(CloseTime) THEN lifted
                      ELSE [lifted EXCEPT !.band = plan.band, !.guard = "none", !.moves = moves \cup {CloseTime}]

\* RecenterPolicyService.evaluate outside the rails.
Policy(side, closes, regime) ==
    CASE regime = "chaotic" -> "soft"
      [] regime # "chaotic" /\ closes < 2 -> "soft"
      [] regime # "chaotic" /\ closes >= 2 /\ 100 * CostOf(lots) >= 95 * Budget -> "soft"
      [] OTHER -> IF Len(lots) = 0 /\ closes >= 3 /\ regime = (IF side = "above" THEN "up" ELSE "down")
                  THEN "hard" ELSE "hybrid"

\* maybeApplySimulatedRecenter, after the plan.
Defended(after, p, regime) ==
    LET closes == outsideCloses + 1
        mode == Policy(Side(after.band, p), closes, regime)
        guarded == [after EXCEPT !.guard = IF mode = "hard" THEN "closed" ELSE "sells"]
        free == /\ Len(lots) = 0 /\ MaxPerDay > 0
                /\ after.moves # {} => CloseTime - Max(after.moves) >= MinInterval
                /\ Cardinality({t \in after.moves : t \div (3 * DayBars) = CloseTime \div (3 * DayBars)}) < MaxPerDay
    IN  CASE Flat \/ ~Auto -> [after |-> after, closes |-> outsideCloses]
          [] Auto /\ ~Flat /\ ~IsOut(after.band, p) -> [after |-> [after EXCEPT !.guard = "none"], closes |-> 0]
          [] Auto /\ ~Flat /\ IsOut(after.band, p) /\ (mode = "soft" \/ ~free) -> [after |-> guarded, closes |-> closes]
          [] OTHER -> [after |-> [guarded EXCEPT !.band = Suggested(p, Side(after.band, p)),
                                                 !.moves = after.moves \cup {CloseTime}],
                       closes |-> 0]

Close(regime, plan) ==
    LET result == Defended(Planned(regime, plan), candle[4], regime)
        after == result.after
    IN  /\ Len(candle) = 4
        /\ bar' = bar + 1 /\ candle' = <<>>
        /\ band' = after.band /\ guard' = after.guard /\ moves' = after.moves
        /\ sincePlan' = after.since /\ regimeGuard' = after.regimeGuard
        /\ favourable' = after.favourable /\ verdicts' = after.verdicts
        /\ outsideCloses' = result.closes
        /\ UNCHANGED <<money, outside>>

Next ==
    \/ \E p \in Prices : Tick(p)
    \/ \E regime \in Regimes, plan \in Plannings : Close(regime, plan)

Spec == Init /\ [][Next]_vars

-----------------------------------------------------------------------------
\* Every variable has its type.
TypeOK ==
    /\ bar \in 0..MaxBars /\ Len(candle) \in 0..4
    /\ band.low >= 1 /\ band.high > band.low
    /\ {cash, base, retained, sincePlan, outsideCloses} \subseteq Nat
    /\ \A i \in DOMAIN lots : lots[i].units > 0 /\ lots[i].cost > 0
    /\ guard \in {"none", "sells", "closed"} /\ regimeGuard \in BOOLEAN
    /\ outside.side \in {"inside", "above", "below"}
    /\ moves \subseteq 0..(3 * MaxBars)
    /\ favourable \in 0..2 /\ verdicts \in 0..2

(* What the replay reports as equity is backed by its lots: the base balance *)
(* is the units of open lots and of retained ones, the cash never falls into *)
(* the reserve, fees included, and no more than the deployable sum is tied   *)
(* up in lots ("reserves fees before spending the final available quote").   *)
BooksAgree ==
    /\ base = UnitsOf(lots) + retained
    /\ cash >= Reserve
    /\ CostOf(lots) <= Deployable

(* With every order paid for, the replay never ends below where it started   *)
(* but for open lots: a simulated sale recovers its cost after fees.         *)
NeverSellsAtLoss == cash + CostOf(lots) >= Budget

(* The rails never move under open trading lots, however the adaptive plan,  *)
(* the candle defence and the flat recenter take turns.                      *)
RailsWaitForLots == Len(lots) > 0 => band' = band

(* Moves keep the shared interval and the daily limit, whoever makes them:   *)
(* also a plan and a recenter at one close.                                  *)
MovesAreSpaced ==
    /\ \A s, t \in moves : s < t => t - s >= MinInterval
    /\ \A t \in moves : Cardinality(Today(t)) <= MaxPerDay
    /\ band # FirstBand => moves # {}

(* After a bad regime nothing is bought before two plans in a row found it   *)
(* good again; a price back inside the rails does not lift the defence.      *)
DefenceHolds == base' > base => verdicts = 2

=============================================================================
