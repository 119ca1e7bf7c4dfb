------------------------------- MODULE LotRepair -------------------------------
(***************************************************************************)
(* The maintenance scripts of packages/db/prisma beside the engine: one    *)
(* bot, its fills, its open lots and the books of its newest snapshot.     *)
(*                                                                         *)
(* repair-open-position-lots fits the lots to the books, reconstruct-open- *)
(* position-lots fits lots and books to the fills, fix-jupiter-rent-fees   *)
(* takes the rent out of recorded fees.  Each reads first and writes later *)
(* in one transaction.  The engine reads its lots through the same         *)
(* reconciliation as the first of them (mappers.ts).                       *)
(*                                                                         *)
(* Amounts are whole units; a fill always buys Base and sells a whole lot. *)
(***************************************************************************)
EXTENDS Integers, Sequences, FiniteSets, SequencesExt, FiniteSetsExt

CONSTANTS Rails,      \* grid levels
          Step,       \* quote paid for Base at the lowest, and between two of them
          Base,       \* base amount of a buy
          Budget,     \* totalBudgetUsd
          SolPrices,  \* prices of the native fee
          Rents,      \* what old fees include besides the fee, in native units
          Slack,      \* tolerance of the reconciliation
          MaxFills, MaxTorn, MaxScripts, MaxMoves,   \* bounds
          Scripts,    \* the scripts that are run
          Rule        \* what the operator does first: "stop" the worker or "pause" the bot

LotRepairAssumption ==
  /\ Rails \in Nat /\ Rails >= 2
  /\ {Step, Base, Budget} \subseteq Nat \ {0} /\ SolPrices \subseteq Nat \ {0} /\ Rents \subseteq Nat
  /\ {Slack, MaxFills, MaxTorn, MaxScripts, MaxMoves} \subseteq Nat
  /\ Scripts \subseteq {"repair", "reconstruct", "rent"}
  /\ Rule \in {"stop", "pause"}

VARIABLES fills,   \* successful executions, in their order
          lots,    \* position_lots of the bot
          books,   \* amounts of the newest snapshot
          cycles,  \* its metadata.gridCycles
          row,     \* which snapshot is the newest
          sol,     \* price of SOL
          worker,  \* "up" or "down"
          status,  \* bots.status
          run,     \* an order under way and what its run read; nothing when
                   \* the worker went down and left a prepared attempt
          script,  \* a script that has read and not written
          left     \* what is left of the bounds

data == <<fills, lots, books, cycles, row>>
vars == <<data, sol, worker, status, run, script, left>>

Levels == 1..Rails
Price == [i \in Levels |-> i * Step]

NoRun == [side |-> "none", level |-> 1, lot |-> 0, read |-> <<>>]

NoScript == [kind |-> "none"]

-----------------------------------------------------------------------------
(* The reconciliation of open lots with the books (position-lots.ts).      *)

CostOf(L) == MapThenSumSet(LAMBDA l : l.cost, L)
BaseOf(L) == MapThenSumSet(LAMBDA l : l.base, L)
Ids(L)    == {l.id : l \in L}

Distance(a, b) == IF a > b THEN a - b ELSE b - a

Rounded(n, d) == (2 * n + d) \div (2 * d)

(* What is kept is scaled down to the base and to the cost of the books.   *)

Normalize(L, b) ==
  LET base == BaseOf(L)
      cost == CostOf(L)
      toBase(n) == IF base > b.base THEN Rounded(n * b.base, base) ELSE n
      toCost(n) == IF Distance(cost, b.deployed) > Slack THEN Rounded(n * b.deployed, cost) ELSE n
  IN  {[l EXCEPT !.base = toBase(@), !.cost = toCost(@)] : l \in L}

(* Nearest to the average entry of the books first, then the newest.       *)
Candidates(L, b) ==
  LET off(l) == Distance(l.cost * b.base, b.deployed * l.base)
  IN  SetToSortSeq(L, LAMBDA l, m : \/ off(l) * m.base < off(m) * l.base
                                    \/ off(l) * m.base = off(m) * l.base /\ l.id > m.id)

Selected(L, b) ==
  FoldLeft(LAMBDA kept, l : IF CostOf(kept) + l.cost <= b.deployed + Slack THEN kept \cup {l} ELSE kept,
           {}, Candidates(L, b))

Reconcile(L, b) ==
  IF b.deployed <= Slack \/ b.base = 0 THEN {}
  ELSE IF CostOf(L) <= b.deployed + Slack /\ BaseOf(L) = b.base THEN Normalize(L, b)
  ELSE Normalize(Selected(L, b), b)

(* The cycle of a lot is told from its cost: it is sold at the first level *)
(* above it (0: there is none).                                            *)
Cycle(l) ==
  LET above == {i \in Levels : Price[i] * l.base > l.cost * Base}
      sell  == IF above = {} THEN 0 ELSE Max({2, Min(above)})
  IN  [lot |-> l.id, sell |-> sell, buy |-> IF sell = 0 THEN Rails - 1 ELSE sell - 1]

CyclesOf(L) == {Cycle(l) : l \in L}

-----------------------------------------------------------------------------
Init ==
  /\ fills = <<>>
  /\ lots = {}
  /\ books = [quote |-> Budget, base |-> 0, deployed |-> 0, realized |-> 0]
  /\ cycles = {}
  /\ row = 1
  /\ sol \in SolPrices
  /\ worker = "up" /\ status = "running"
  /\ run = NoRun
  /\ script = NoScript
  /\ left = [torn |-> MaxTorn, scripts |-> MaxScripts, moves |-> MaxMoves]

-----------------------------------------------------------------------------
(* The engine. *)

(* What a run reads: lots fitted to the books, cycles of those lots.       *)
Aggregate ==
  LET held == Reconcile(lots, books)
  IN  [lots |-> held, books |-> books, cycles |-> {c \in cycles : c.lot \in Ids(held)}]

Order(order) ==
  /\ worker = "up" /\ status = "running"
  /\ run = NoRun
  /\ Len(fills) < MaxFills
  /\ run' = [order EXCEPT !.read = <<Aggregate>>]
  /\ UNCHANGED <<data, sol, worker, status, script, left>>

OrderBuy(i) ==
  /\ i < Rails
  /\ ~\E c \in Aggregate.cycles : c.buy = i
  /\ Price[i] <= books.quote
  /\ Order([NoRun EXCEPT !.side = "buy", !.level = i])

OrderSell(c) ==
  /\ c.sell # 0
  /\ Order([NoRun EXCEPT !.side = "sell", !.level = c.sell, !.lot = c.lot])

(* The cycle of a lot that has none in the snapshot is told from its cost. *)
SellPlans ==
  LET tracked == {c.lot : c \in Aggregate.cycles}
  IN  Aggregate.cycles \cup CyclesOf({l \in Aggregate.lots : l.id \notin tracked})

(* The recovery poller takes up an attempt its run left, of a paused bot   *)
(* too, and reads the bot again.                                           *)
TakeUp ==
  /\ worker = "up" /\ run # NoRun /\ run.read = <<>>
  /\ run' = [run EXCEPT !.read = <<Aggregate>>]
  /\ UNCHANGED <<data, sol, worker, status, script, left>>

(* A fill: what it moved, the fee recorded for it and the rent in that.    *)
Fill(rent) ==
  LET sold == BaseOf({l \in run.read[1].lots : l.id = run.lot})
      base == IF run.side = "buy" THEN Base ELSE sold
  IN  [side |-> run.side, level |-> run.level, lot |-> run.lot, rent |-> rent, fee |-> (1 + rent) * sol,
       base |-> base, quote |-> (Price[run.level] * base) \div Base]

LotsAfter(f) ==
  IF f.side = "buy"
  THEN run.read[1].lots \cup {[id |-> Len(fills) + 1, base |-> f.base, cost |-> f.quote + f.fee]}
  ELSE {l \in run.read[1].lots : l.id # f.lot}

BooksAfter(f) ==
  LET b    == run.read[1].books
      sold == CostOf({l \in run.read[1].lots : l.id = f.lot})
  IN  [quote    |-> IF f.side = "buy" THEN b.quote - f.quote - f.fee ELSE b.quote + f.quote - f.fee,
       base     |-> IF f.side = "buy" THEN b.base + f.base ELSE b.base - f.base,
       deployed |-> CostOf(LotsAfter(f)),
       realized |-> IF f.side = "buy" THEN b.realized ELSE b.realized + f.quote - f.fee - sold]

CyclesAfter(f) ==
  IF f.side = "buy"
  THEN run.read[1].cycles \cup {[lot |-> Len(fills) + 1, buy |-> f.level, sell |-> f.level + 1]}
  ELSE {c \in run.read[1].cycles : c.lot # f.lot}

(* The matched lot must still be there.                                    *)
MayFill ==
  /\ worker = "up" /\ run.read # <<>>
  /\ run.side = "sell" => run.lot \in Ids(run.read[1].lots)

Book ==
  /\ MayFill
  /\ \E rent \in Rents :
       /\ fills' = Append(fills, Fill(rent))
       /\ lots' = LotsAfter(Fill(rent))
       /\ books' = BooksAfter(Fill(rent))
       /\ cycles' = CyclesAfter(Fill(rent))
  /\ row' = row + 1
  /\ run' = NoRun
  /\ UNCHANGED <<sol, worker, status, script, left>>

(* The worker goes down between the writes of the legacy path: the fill is *)
(* written, its lots perhaps, its books not.                               *)
Tear(late) ==
  /\ MayFill
  /\ left.torn > 0
  /\ left' = [left EXCEPT !.torn = @ - 1]
  /\ \E rent \in Rents :
       /\ fills' = Append(fills, Fill(rent))
       /\ lots' = IF late THEN LotsAfter(Fill(rent)) ELSE lots
  /\ worker' = "down"
  /\ run' = NoRun
  /\ UNCHANGED <<books, cycles, row, sol, status, script>>

-----------------------------------------------------------------------------
(* The operator. *)

SwitchWorker ==
  /\ Rule = "stop" => script = NoScript
  /\ left.moves > 0
  /\ left' = [left EXCEPT !.moves = @ - 1]
  /\ worker' = IF worker = "up" THEN "down" ELSE "up"
  /\ run' = [run EXCEPT !.read = <<>>]
  /\ UNCHANGED <<data, sol, status, script>>

SwitchBot ==
  /\ Rule = "pause" /\ script = NoScript
  /\ left.moves > 0
  /\ left' = [left EXCEPT !.moves = @ - 1]
  /\ status' = IF status = "running" THEN "paused" ELSE "running"
  /\ UNCHANGED <<data, sol, worker, run, script>>

MoveSol ==
  /\ left.moves > 0
  /\ left' = [left EXCEPT !.moves = @ - 1]
  /\ sol' \in SolPrices \ {sol}
  /\ UNCHANGED <<data, worker, status, run, script>>

Ready == IF Rule = "stop" THEN worker = "down" ELSE status = "paused"

Read(kind) ==
  /\ script = NoScript
  /\ Ready
  /\ left.scripts > 0
  /\ left' = [left EXCEPT !.scripts = @ - 1]
  /\ script' = [kind |-> kind, fills |-> fills, lots |-> lots, books |-> books, cycles |-> cycles,
                row |-> row, sol |-> sol]
  /\ UNCHANGED <<data, sol, worker, status, run>>

Done == script' = NoScript /\ UNCHANGED <<fills, row, sol, worker, status, run, left>>

-----------------------------------------------------------------------------
(* repair-open-position-lots: the lots are rewritten when they differ, the *)
(* cycles of the snapshot that was read when they or the lots do.          *)

RepairedLots == Reconcile(script.lots, script.books)

RepairedCycles == CyclesOf(RepairedLots)

ApplyRepair ==
  /\ script.kind = "repair"
  /\ lots' = IF RepairedLots # script.lots THEN RepairedLots ELSE lots
  /\ cycles' = IF row = script.row THEN RepairedCycles ELSE cycles
  /\ UNCHANGED books
  /\ Done

-----------------------------------------------------------------------------
(* reconstruct-open-position-lots: the fills again, a sale closing the     *)
(* oldest of the lots bought one level lower and of those sold at a gain.  *)

Replayed(r, f, id) ==
  IF f.side = "buy"
  THEN [r EXCEPT !.lots = @ \cup {[id |-> id, base |-> f.base, cost |-> f.quote + f.fee, level |-> f.level]}]
  ELSE LET fits(l) == l.level = f.level - 1 \/ l.cost * f.base < f.quote * l.base
           oldest  == CHOOSE l \in r.lots : fits(l) /\ \A m \in r.lots : fits(m) => l.id <= m.id
       IN  IF \E l \in r.lots : fits(l)
           THEN [lots |-> r.lots \ {oldest}, realized |-> r.realized + f.quote - f.fee - oldest.cost]
           ELSE r

ReplayExecutions(fs) ==
  FoldLeftDomain(LAMBDA r, i : Replayed(r, fs[i], i), [lots |-> {}, realized |-> 0], fs)

ReplayedLots == {[id |-> l.id, base |-> l.base, cost |-> l.cost] : l \in ReplayExecutions(script.fills).lots}

ReplayedBooks ==
  LET r == ReplayExecutions(script.fills)
  IN  [quote |-> Max({0, Budget + r.realized - CostOf(r.lots)}), base |-> BaseOf(r.lots),
       deployed |-> CostOf(r.lots), realized |-> r.realized]

LotsDiffer == Ids(script.lots) # Ids(ReplayedLots)

ApplyReconstruct ==
  /\ script.kind = "reconstruct"
  /\ lots' = IF LotsDiffer THEN ReplayedLots ELSE lots
  /\ books' = IF LotsDiffer /\ row = script.row THEN ReplayedBooks ELSE books
  /\ cycles' = IF LotsDiffer /\ row = script.row THEN CyclesOf(ReplayedLots) ELSE cycles
  /\ Done

-----------------------------------------------------------------------------
(* fix-jupiter-rent-fees: fees above the native fee at today's price of    *)
(* SOL are lowered to it, in the fills, the open lots and the books.       *)

Excess(i) == Max({0, script.fills[i].fee - script.sol})

(* A buy whose lot is open carries its fee in the cost of the lot.         *)
Carried(i) == script.fills[i].side = "buy" /\ i \in Ids(script.lots)

(* The others were paid out of what the bot realized.                      *)
Realized == {i \in DOMAIN script.fills : ~Carried(i)}

SumOver(S) == MapThenSumSet(Excess, S)

ApplyRent ==
  LET all    == DOMAIN script.fills
      toLots == {i \in all : Carried(i) /\ Excess(i) > 0}
      cost(l) == IF l.id \in toLots THEN (CHOOSE k \in script.lots : k.id = l.id).cost - Excess(l.id) ELSE l.cost
      fixed  == {[l EXCEPT !.cost = cost(l)] : l \in lots}
  IN  /\ script.kind = "rent"
      /\ toLots \subseteq Ids(lots)
      /\ fills' = [i \in DOMAIN fills |-> IF i \in all THEN [fills[i] EXCEPT !.fee = @ - Excess(i)] ELSE fills[i]]
      /\ lots' = fixed
      /\ books' = IF SumOver(all) = 0 THEN books
                  ELSE [books EXCEPT !.quote = @ + SumOver(all), !.deployed = CostOf(fixed),
                                     !.realized = @ + SumOver(Realized)]
      /\ script' = NoScript
      /\ UNCHANGED <<cycles, row, sol, worker, status, run, left>>

(* A lot to be updated is gone: the transaction fails.                     *)
RentFails ==
  /\ script.kind = "rent"
  /\ ~({i \in DOMAIN script.fills : Carried(i) /\ Excess(i) > 0} \subseteq Ids(lots))
  /\ UNCHANGED <<lots, books, cycles>>
  /\ Done

Apply == ApplyRepair \/ ApplyReconstruct \/ ApplyRent \/ RentFails

Next ==
  \/ \E i \in Levels : OrderBuy(i)
  \/ \E c \in SellPlans : OrderSell(c)
  \/ TakeUp
  \/ Book
  \/ \E late \in BOOLEAN : Tear(late)
  \/ SwitchWorker \/ SwitchBot \/ MoveSol
  \/ \E k \in Scripts : Read(k)
  \/ Apply

Spec == Init /\ [][Next]_vars

-----------------------------------------------------------------------------
Lots == [id : 1..MaxFills, base : Nat, cost : Nat]

TypeOK ==
  /\ Len(fills) <= MaxFills
  /\ lots \in SUBSET Lots /\ Cardinality(Ids(lots)) = Cardinality(lots)
  /\ \A c \in cycles : c.sell \in {0} \cup Levels /\ c.buy \in Levels
  /\ books.quote \in Int /\ books.base \in Nat /\ books.deployed \in Nat /\ books.realized \in Int
  /\ run.lot \in 0..MaxFills
  /\ script # NoScript => script.row <= row /\ script.kind \in Scripts

(* The money of a bot is its budget and what it realized, in cash or in    *)
(* lots, whatever fees are corrected afterwards.                           *)
BooksBalance == books.quote + books.deployed = Budget + books.realized

(* What was bought while a script ran is still there when it has written.  *)
(* It holds by the rule that stops the worker; "Pause the target bot, or   *)
(* stop the worker briefly" (repair-open-position-lots) says that a pause  *)
(* does as well.                                                           *)
NewLotsStay ==
  [][script # NoScript /\ script' = NoScript =>
       {l.id : l \in {m \in lots : m.id > Len(script.fills)}} \subseteq Ids(lots')]_vars

Repairs == script # NoScript /\ script.kind = "repair" /\ script' = NoScript

(* After a repair the lots are as dear as the books say and not more base, *)
(* unless none could be kept.                                              *)
RepairFits ==
  Repairs => \/ lots' = {}
             \/ /\ Distance(CostOf(lots'), books'.deployed) <= Slack
                /\ BaseOf(lots') <= books'.base

(* Repairing again would change nothing: the reconciliation of what it     *)
(* left is what it left, and so are the cycles (sameLotState and           *)
(* sameGridCycles of the next call).                                       *)
SecondRepairRests ==
  Repairs => /\ Reconcile(lots', books') = lots'
             /\ CyclesOf(lots') = cycles'

Reconstructs == script # NoScript /\ script.kind = "reconstruct" /\ script' = NoScript

(* A reconstruction that changes the lots leaves the base and the cash all *)
(* the fills make, none lost and none counted twice, and cash is never     *)
(* taken below nothing; a lot that two sales were recorded for cannot be   *)
(* accounted for.                                                          *)
Cash(f) == IF f.side = "buy" THEN -(f.quote + f.fee) ELSE f.quote - f.fee
Bought(f) == IF f.side = "buy" THEN f.base ELSE -f.base

SoldOnce ==
  \A i, j \in DOMAIN fills : fills[i].side = "sell" /\ fills[i].lot = fills[j].lot => i = j

EveryFillCounts ==
  Reconstructs /\ LotsDiffer /\ SoldOnce =>
    /\ BaseOf(lots') = MapThenSumSet(LAMBDA i : Bought(fills[i]), DOMAIN fills)
    /\ books'.base = BaseOf(lots')
    /\ books'.quote = Max({0, Budget + MapThenSumSet(LAMBDA i : Cash(fills[i]), DOMAIN fills)})

================================================================================
