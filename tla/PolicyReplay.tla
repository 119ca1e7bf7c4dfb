---------------------------- MODULE PolicyReplay ----------------------------
(***************************************************************************)
(* The offline replay of the portfolio policy                              *)
(* (PortfolioPolicyReplayService.replay): every asset's candles become one *)
(* ordered list of events - the four points of a synthetic path through    *)
(* each candle and the candle's close - and the replay walks it once with  *)
(* its own cash, bands and lots.  A point sells the lots whose target it   *)
(* reaches and buys at the rails it falls through; a close lets the policy *)
(* decide for every band of the asset.  A recorded intervention (new exit  *)
(* targets, a grid decision) becomes available while a candle is under way *)
(* and may only act from the next candle on.                               *)
(*                                                                         *)
(* The decision of the policy, or of the selector that may replace it, is  *)
(* any decision validateDecision lets through.  Money and base amounts are *)
(* whole units and the only cost is the fee per swap.                      *)
(***************************************************************************)
EXTENDS Integers, Sequences, FiniteSets, SequencesExt, FiniteSetsExt

CONSTANTS
  AssetOrder,     \* the assets in the order localeCompare gives their names
  Objective,      \* [asset -> "accumulate_base" | "accumulate_usdc"]
  CandlesOf,      \* [asset -> set of candles [open, high, low, close]]
  Hours,          \* candles per asset
  Allocations,    \* sequence of [asset, geometry, status, budget, idle]
  SeededLots,     \* sequence of lots open at t0
  StartingCash,   \* freeCashUsd
  Geometries,     \* [low, spacing, levels] a decision may name
  Asked,          \* requestedCapitalUsd of a new band
  MaxBands, MaxExposurePct,
  NativeFee, MinOrder,
  Flows,          \* sequence of [at, amount], by time
  Interventions,  \* the recorded interventions a replay may be given
  Adaptive        \* FALSE: the fixed branch of compare()

VARIABLES
  intervention,   \* the one of this replay
  position,       \* events processed
  candle,         \* per asset, the candle under way or last walked
  prices,         \* per asset, the last price
  closed,         \* per asset, candles the policy has seen close
  book,           \* [bands, lots, free, realized]
  paid,           \* cashflows applied
  applied,        \* interventionApplied
  queue,          \* bands still to decide for at the close being processed
  marks,          \* [count, last]: points recorded, and the newest
  failed          \* the replay threw

vars == <<intervention, position, candle, prices, closed, book, paid, applied,
          queue, marks, failed>>

Assets == ToSet(AssetOrder)
Rank(a) == CHOOSE i \in DOMAIN AssetOrder : AssetOrder[i] = a
Larger(x, y) == IF x > y THEN x ELSE y
Ceiling(x, y) == (x + y - 1) \div y

-----------------------------------------------------------------------------
(* Events.  Three instants to an hour: a candle's path is its open, its    *)
(* two extremes and its close, which falls on the next candle's open.      *)

Path(c) == IF c.close >= c.open THEN <<c.open, c.low, c.high, c.close>>
                                ELSE <<c.open, c.high, c.low, c.close>>

PathEvents ==
  {[time |-> 3 * h + i - 1, phase |-> IF i = 1 THEN 2 ELSE 0, asset |-> a,
    point |-> i] : h \in 0..(Hours - 1), i \in 1..4, a \in Assets}
CloseEvents ==
  {[time |-> 3 * h, phase |-> 1, asset |-> a, point |-> 0] :
     h \in 1..Hours, a \in Assets}

Before(e, f) ==
  \/ e.time < f.time
  \/ e.time = f.time /\ e.phase < f.phase
  \/ e.time = f.time /\ e.phase = f.phase /\ Rank(e.asset) < Rank(f.asset)

AllEvents == PathEvents \cup CloseEvents

\* The sorted events: hour by hour, in five rounds of all assets.
EventCount == 5 * Hours * Len(AssetOrder)
EventAt(n) ==
  LET round == (n - 1) \div Len(AssetOrder)
      hour == round \div 5
      step == round % 5
  IN  [time |-> 3 * hour + (IF step = 4 THEN 3 ELSE step),
       phase |-> CASE step = 0 -> 2 [] step = 4 -> 1 [] OTHER -> 0,
       asset |-> AssetOrder[1 + ((n - 1) % Len(AssetOrder))],
       point |-> IF step = 4 THEN 0 ELSE step + 1]
EventsAreSorted ==
  /\ {EventAt(n) : n \in 1..EventCount} = AllEvents
  /\ \A n \in 1..(EventCount - 1) : Before(EventAt(n), EventAt(n + 1))
Event == EventAt(position + 1)

-----------------------------------------------------------------------------
(* Books.                                                                  *)

Sum(f(_), S) == MapThenSumSet(f, S)
Attributed(bk, a) ==
  Sum(LAMBDA i : bk.bands[i].allocated, {i \in DOMAIN bk.bands : bk.bands[i].asset = a})
Allocated(bk) == Sum(LAMBDA i : bk.bands[i].allocated, DOMAIN bk.bands)
TotalCash(bk) == bk.free + Sum(LAMBDA i : bk.bands[i].idle, DOMAIN bk.bands)
TradingCost(bk) == Sum(LAMBDA i : bk.lots[i].cost, DOMAIN bk.lots)
Equity(bk, px) ==
  TotalCash(bk) + Sum(LAMBDA i : bk.lots[i].base * px[bk.lots[i].asset], DOMAIN bk.lots)
BandsOf(bk, a) ==
  SelectSeq([i \in DOMAIN bk.bands |-> i], LAMBDA i : bk.bands[i].asset = a)
Open(lot) == lot.kind = "trading" /\ lot.base > 0

StartingCapital ==
  StartingCash + Sum(LAMBDA i : Allocations[i].budget, DOMAIN Allocations)

Throw == failed' = TRUE
         /\ UNCHANGED <<intervention, position, candle, prices, closed, book, paid,
                        applied, queue, marks>>

-----------------------------------------------------------------------------
(* Cashflows.                                                              *)

Due == Cardinality({i \in (paid + 1)..Len(Flows) : Flows[i].at <= Event.time})
AfterFlows ==
  FoldLeft(LAMBDA acc, f : [cash |-> acc.cash + f.amount,
                            ok |-> acc.ok /\ acc.cash + f.amount >= 0],
           [cash |-> book.free, ok |-> TRUE], SubSeq(Flows, paid + 1, paid + Due))
External == Sum(LAMBDA i : Flows[i].amount, 1..paid)

-----------------------------------------------------------------------------
(* Decisions.                                                              *)

Decisions ==
  [action : {"wait", "park", "reactivate"}] \cup
  [action : {"revise", "create_band"}, geometry : Geometries]

Least(bk) ==
  CHOOSE a \in Assets : \A o \in Assets \ {a} :
    \/ Attributed(bk, a) < Attributed(bk, o)
    \/ Attributed(bk, a) = Attributed(bk, o) /\ Rank(a) < Rank(o)

ExposureBase(bk) ==
  IF Flows # <<>> THEN bk.free + Allocated(bk) ELSE StartingCapital

Admits(bk, a) ==
  /\ Least(bk) = a
  /\ Asked <= bk.free
  /\ Len(BandsOf(bk, a)) < MaxBands
  /\ (Attributed(bk, a) + Asked) * 100 <= MaxExposurePct * ExposureBase(bk)

\* applyDecision on band i: [book, ok]; not ok leaves the books alone.
Decided(bk, i, d) ==
  LET band == bk.bands[i] IN
  CASE d.action = "wait" -> [book |-> bk, ok |-> TRUE]
    [] d.action = "park" ->
         [book |-> [bk EXCEPT !.bands[i].status = "parked"], ok |-> TRUE]
    [] d.action = "reactivate" ->
         [book |-> [bk EXCEPT !.bands[i].status = "active", !.bands[i].previous = 0],
          ok |-> TRUE]
    [] d.action = "revise" ->
         [book |-> [bk EXCEPT !.bands[i].geometry = d.geometry,
                              !.bands[i].status = "active", !.bands[i].previous = 0],
          ok |-> TRUE]
    [] d.action = "create_band" ->
         IF ~ Admits(bk, band.asset) THEN [book |-> bk, ok |-> FALSE]
         ELSE [book |-> [bk EXCEPT
                 !.free = @ - Asked,
                 !.bands = Append([@ EXCEPT ![i].status = "parked"],
                   [band EXCEPT !.geometry = d.geometry, !.status = "active",
                      !.allocated = Asked, !.idle = Asked, !.previous = 0])],
               ok |-> TRUE]

-----------------------------------------------------------------------------
(* The recorded intervention.                                              *)

\* What is sold of a lot at a price, and what it brings.
Sold(lot, price) ==
  IF lot.rule = "accumulate_base" THEN Ceiling(lot.cost + NativeFee, price) ELSE lot.base
Net(lot, price) == Sold(lot, price) * price - NativeFee

Same(lot, u) == lot.exit = u.old /\ lot.cost = u.cost /\ lot.base = u.base

MeetsFloor(lot, u) ==
  /\ Sold(lot, u.target) <= lot.base
  /\ Net(lot, u.target) >= lot.cost + u.gain
  /\ lot.base - Sold(lot, u.target) >= u.retain

ExitUpdated(acc, u) ==
  LET lot == acc.book.lots[u.lot] IN
  IF ~ Open(lot) THEN acc
  ELSE [book |-> [acc.book EXCEPT !.lots[u.lot] =
                    [@ EXCEPT !.exit = u.target, !.gain = u.gain, !.retain = u.retain]],
        ok |-> acc.ok /\ Same(lot, u) /\ MeetsFloor(lot, u)]

\* Take effect: exit updates first, then the grid decision; strict.
Intervened(bk) ==
  LET exits == FoldLeft(ExitUpdated, [book |-> bk, ok |-> TRUE], intervention.updates)
      grid  == IF intervention.grid = <<>> THEN [book |-> exits.book, ok |-> TRUE]
               ELSE Decided(exits.book, intervention.grid[1].band,
                            intervention.grid[1].decision)
  IN  [book |-> grid.book, ok |-> exits.ok /\ grid.ok]

InterventionDue ==
  /\ ~ applied
  /\ intervention.available >= 0
  /\ Event.phase = 2
  /\ Event.time >= intervention.available

-----------------------------------------------------------------------------
(* One point of a path: sells, then buys.                                  *)

Sells(lot, a, price) ==
  /\ lot.asset = a /\ Open(lot)
  /\ price >= lot.exit
  /\ Sold(lot, price) <= lot.base
  /\ lot.rule = "accumulate_base" => lot.base - Sold(lot, price) >= lot.retain
  /\ Net(lot, price) >= lot.cost + lot.gain

AfterSales(bk, a, price) ==
  LET gone == {i \in DOMAIN bk.lots : Sells(bk.lots[i], a, price)}
      profit == Sum(LAMBDA i : Net(bk.lots[i], price) - bk.lots[i].cost, gone)
  IN  [bk EXCEPT
        !.bands = [b \in DOMAIN @ |-> [@[b] EXCEPT !.idle =
                     @ + Sum(LAMBDA i : bk.lots[i].cost,
                             {i \in gone : bk.lots[i].band = b})]],
        !.lots = [i \in DOMAIN @ |-> IF i \notin gone THEN @[i]
                    ELSE [@[i] EXCEPT !.base = @ - Sold(bk.lots[i], price),
                                      !.cost = 0, !.kind = "retained"]],
        !.free = @ + profit,
        !.realized = @ + profit]

\* blocksDuplicateEntry
Blocks(lot, rail, spacing) ==
  Open(lot) /\ 2 * (IF rail > lot.entry THEN rail - lot.entry ELSE lot.entry - rail)
                 <= Larger(spacing, lot.spacing)

\* The rails the price fell through, from the top.
RailsCrossed(band, price) ==
  LET g == band.geometry
      rails == [i \in 1..(g.levels - 1) |-> g.low + (g.levels - 1 - i) * g.spacing]
  IN  SelectSeq(rails, LAMBDA p : p < band.previous /\ p >= price)

\* One entry at a rail, unless something stands in its way.
Entered(bk, b, rail, price) ==
  LET band == bk.bands[b]
      spacing == band.geometry.spacing
      spend == Larger(MinOrder, band.allocated \div (band.geometry.levels - 1))
      base == (spend - NativeFee) \div price
  IN  IF \/ \E i \in DOMAIN bk.lots :
              bk.lots[i].asset = band.asset /\ Blocks(bk.lots[i], rail, spacing)
         \/ spend > band.idle
         \/ spend <= NativeFee
         \/ base <= 0
      THEN bk
      ELSE [bk EXCEPT
             !.bands[b].idle = @ - spend,
             !.lots = Append(@, [band |-> b, asset |-> band.asset, kind |-> "trading",
               entry |-> rail, base |-> base, cost |-> spend,
               exit |-> rail + spacing, spacing |-> spacing,
               rule |-> Objective[band.asset], gain |-> 0, retain |-> 1])]

BandBuys(bk, b, price) ==
  LET band == bk.bands[b]
      seen == [bk EXCEPT !.bands[b].previous = price]
  IN  IF band.status # "active" \/ band.previous = 0 \/ price >= band.previous THEN seen
      ELSE FoldLeft(LAMBDA acc, rail : Entered(acc, b, rail, price), seen,
                    RailsCrossed(band, price))

AfterBuys(bk, a, price) ==
  FoldLeft(LAMBDA acc, b : BandBuys(acc, b, price), bk, BandsOf(bk, a))

-----------------------------------------------------------------------------
Init ==
  /\ intervention \in Interventions
  /\ position = 0
  /\ candle \in {[a \in Assets |-> CHOOSE c \in CandlesOf[a] : TRUE]}
  /\ prices = [a \in Assets |-> 0]
  /\ closed = [a \in Assets |-> 0]
  /\ book = [bands |-> [i \in DOMAIN Allocations |->
                          [asset |-> Allocations[i].asset,
                           geometry |-> Allocations[i].geometry,
                           status |-> Allocations[i].status,
                           allocated |-> Allocations[i].budget,
                           idle |-> Allocations[i].idle, previous |-> 0]],
             lots |-> SeededLots, free |-> StartingCash, realized |-> 0]
  /\ paid = 0
  /\ applied = FALSE
  /\ queue = <<>>
  /\ marks = [count |-> 0, last |-> <<>>]
  /\ failed = FALSE

More == ~ failed /\ queue = <<>> /\ position < EventCount

\* A point of a path.  The candle is learnt at its open.
Point ==
  /\ More
  /\ Event.phase # 1
  /\ IF Event.point = 1
     THEN \E c \in CandlesOf[Event.asset] : candle' = [candle EXCEPT ![Event.asset] = c]
     ELSE UNCHANGED candle
  /\ LET a == Event.asset
         price == Path(candle'[a])[Event.point]
         funded == [book EXCEPT !.free = AfterFlows.cash]
         begun == IF InterventionDue THEN Intervened(funded)
                  ELSE [book |-> funded, ok |-> TRUE]
     IN  IF AfterFlows.ok /\ begun.ok
         THEN /\ paid' = paid + Due
              /\ applied' = (applied \/ InterventionDue)
              /\ prices' = [prices EXCEPT ![a] = price]
              /\ book' = AfterBuys(AfterSales(begun.book, a, price), a, price)
              /\ position' = position + 1
              /\ UNCHANGED failed
         ELSE failed' = TRUE /\ UNCHANGED <<paid, applied, prices, book, position>>
  /\ UNCHANGED <<intervention, closed, queue, marks>>

\* Every asset has closed at this time once no further close is due at it.
Complete(n) ==
  n = EventCount \/ ~ (EventAt(n + 1).phase = 1 /\ EventAt(n + 1).time = EventAt(n).time)

Snapshot(bk, px, n) ==
  [time |-> EventAt(n).time, prices |-> px, cash |-> TotalCash(bk),
   cost |-> TradingCost(bk), equity |-> Equity(bk, px)]

Recorded(bk, px, n) ==
  IF Complete(n) THEN [count |-> marks.count + 1, last |-> <<Snapshot(bk, px, n)>>]
  ELSE marks

\* A candle closes: the bands of its asset are to be decided for.
Close ==
  /\ More
  /\ Event.phase = 1
  /\ IF ~ AfterFlows.ok THEN Throw
     ELSE LET a == Event.asset
              bk == [book EXCEPT !.free = AfterFlows.cash]
              px == [prices EXCEPT ![a] = candle[a].close]
          IN /\ paid' = paid + Due
             /\ book' = bk
             /\ prices' = px
             /\ closed' = [closed EXCEPT ![a] = @ + 1]
             /\ queue' = IF Adaptive THEN BandsOf(bk, a) ELSE <<>>
             /\ marks' = IF Adaptive THEN marks ELSE Recorded(bk, px, position + 1)
             /\ position' = position + 1
             /\ UNCHANGED <<intervention, candle, applied, failed>>

\* The policy, or the selector, decides for the next band of that list.
Decide ==
  /\ ~ failed
  /\ queue # <<>>
  /\ \E d \in Decisions :
       LET after == Decided(book, Head(queue), d).book IN
       /\ book' = after
       /\ marks' = IF Len(queue) = 1 THEN Recorded(after, prices, position) ELSE marks
  /\ queue' = Tail(queue)
  /\ UNCHANGED <<intervention, position, candle, prices, closed, paid, applied, failed>>

Finished ==
  /\ failed \/ (position = EventCount /\ queue = <<>>)
  /\ UNCHANGED vars

Next == Point \/ Close \/ Decide \/ Finished
Spec == Init /\ [][Next]_vars

-----------------------------------------------------------------------------
(* Properties.                                                             *)

BandRecords ==
  [asset : Assets, geometry : Geometries, status : {"active", "parked"},
   allocated : Nat, idle : Nat, previous : Nat]
LotRecords ==
  [band : 1..Len(book.bands), asset : Assets, kind : {"trading", "retained"},
   entry : Nat, base : Nat, cost : Nat, exit : Nat, spacing : Nat,
   rule : {"accumulate_base", "accumulate_usdc"}, gain : Nat, retain : Nat]

\* The replay's state is well typed: no cash, idle amount or lot is ever
\* negative (the code clamps with Math.max only against rounding).
TypeOK ==
  /\ intervention \in Interventions
  /\ position \in 0..EventCount
  /\ candle \in [Assets -> UNION {CandlesOf[a] : a \in Assets}]
  /\ prices \in [Assets -> Nat]
  /\ closed \in [Assets -> 0..Hours]
  /\ book.bands \in Seq(BandRecords)
  /\ book.lots \in Seq(LotRecords)
  /\ book.free \in Nat /\ book.realized \in Nat
  /\ paid \in 0..Len(Flows)
  /\ applied \in BOOLEAN /\ failed \in BOOLEAN
  /\ queue \in Seq(1..Len(book.bands))
  /\ marks.count \in 0..Hours

\* What validateRequest demands of the seeded books (idle cash and lot cost
\* make up each band's capital, and the whole makes up the starting capital)
\* stays true through every sale, entry, decision and cashflow: what a band was
\* given is always in its cash or its lots, and profit leaves it for the free
\* cash at once.
BooksBalance ==
  /\ \A b \in DOMAIN book.bands :
       book.bands[b].idle
         + Sum(LAMBDA i : book.lots[i].cost, {i \in DOMAIN book.lots : book.lots[i].band = b})
       = book.bands[b].allocated
  /\ book.free + Allocated(book) = StartingCapital + External + book.realized

\* No two open lots of an asset stand within half the wider of their spacings,
\* whichever of its bands bought them and however the grids were revised.
NoDuplicateExposure ==
  \A i, j \in DOMAIN book.lots :
    i < j /\ Open(book.lots[i]) /\ book.lots[i].asset = book.lots[j].asset /\ Open(book.lots[j])
      => ~ Blocks(book.lots[i], book.lots[j].entry, book.lots[j].spacing)

\* An asset that was given a new band stays within its share of the capital
\* and its number of bands: the bands of both assets compete for the same
\* free cash and each decision sees what the previous one took.
BandsStayAdmitted ==
  \A a \in Assets :
    /\ Len(BandsOf(book, a)) <= MaxBands
    /\ Attributed(book, a)
         > Sum(LAMBDA i : Allocations[i].budget,
               {i \in DOMAIN Allocations : Allocations[i].asset = a})
       => Attributed(book, a) * 100 <= MaxExposurePct * StartingCapital

\* "Lot ownership and target never depend on the current entry-grid revision":
\* a lot stays with its band and keeps its target, until the intervention names
\* a new one, and what a sale retained is never traded again.
LotsKeepTheirTerms ==
  \A i \in DOMAIN book.lots :
    LET was == book.lots[i]
        is  == book'.lots[i] IN
    /\ is.band = was.band /\ is.entry = was.entry /\ is.rule = was.rule
    /\ is.exit # was.exit => applied' # applied /\ Open(was)
    /\ ~ Open(was) => is = was

\* "Apply once at the first candle open at or after availability, never to an
\* earlier OHLC path": when it takes effect no asset is inside a candle (all
\* that opened have closed), and no candle that opened since it was available
\* has been walked without it.
InterventionStartsACandle ==
  applied' # applied =>
    /\ applied'
    /\ \A a \in Assets : 3 * closed[a] = Event.time
    /\ Event.time >= intervention.available
    /\ Event.time < intervention.available + 3

\* A recorded point is one complete mark of the portfolio: every asset has
\* closed at its time, the equity is that of those closing prices, and no close
\* is left out.
MarksAreComplete ==
  marks' # marks =>
    LET m == marks'.last[1] IN
    /\ \A a \in Assets : 3 * closed'[a] = m.time /\ m.prices[a] = candle[a].close
    /\ marks'.count * 3 = m.time
    /\ m.equity = Equity(book', prices')
=============================================================================
