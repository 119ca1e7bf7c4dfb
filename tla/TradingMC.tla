------------------------------ MODULE TradingMC ------------------------------
(*****************************************************************************)
(* Trading on one bot for TLC: the legacy engine, the grid's decisions, the  *)
(* sale through Jupiter, the repairs of lots, simulated runs and the chart of *)
(* the profit.  They share no state: a behaviour is one of the component that *)
(* "part" names.                                                             *)
(*****************************************************************************)
EXTENDS TradingParts, TLC

CONSTANTS
  Absent,         \* the value of a variable the component at work does not have
  r1, r2

VARIABLES
  x10, x11, x12, x13, x14   \* more variables of the component at work

\* Profits that are near one another and far away.
FewProfits == {0, 200, 10000}

\* Four rails from 30 to 60; paper and live money, of three strategies.
FourRails == [rungs |-> 4, spacing |-> 10, low |-> 30]
PaperBase ==
  [strategy |-> "base", live |-> FALSE, budget |-> 100, deployable |-> 100, reserve |-> 5,
   minOrder |-> 10, slip |-> 1, fee |-> 4, drawdown |-> 25]
PaperBalanced == [PaperBase EXCEPT !.strategy = "balanced"]
LiveUsdc == [PaperBase EXCEPT !.strategy = "usdc", !.live = TRUE, !.deployable = 92]

\* A touch must last; it acts at once; and the range may follow the price.
Slow ==
  [window |-> 2, cooldown |-> 1, lock |-> 2, hour |-> 3, perHour |-> 2, auto |-> FALSE,
   confirm |-> 2, interval |-> 1, perDay |-> 1]
Instant == [Slow EXCEPT !.window = 0]
Moving == [Slow EXCEPT !.auto = TRUE, !.window = 1, !.interval = 3, !.perDay = 2]

\* Lots and answers of a sale at the rail of five.
SomeLots == [base : {30, 60}, cost : {120, 140, 200, 280}]
SomeAnswers ==
  {answer \in [rate : {4, 5, 6, 8}, slip : {0, 4, 20}, fee : {2}, priority : {0, 2},
               sponsored : BOOLEAN, honest : {TRUE}] :
     answer.sponsored => answer.priority = 0}
  \cup {[rate |-> 6, slip |-> 0, fee |-> 0, priority |-> 0, sponsored |-> FALSE, honest |-> FALSE],
        [rate |-> 6, slip |-> 0, fee |-> 0, priority |-> 3, sponsored |-> FALSE, honest |-> TRUE],
        [rate |-> 6, slip |-> 0, fee |-> 5, priority |-> 0, sponsored |-> FALSE, honest |-> TRUE]}

\* Requests have no names.
RequestNames == Permutations({r1, r2})

\* Two trades with two requests around them,
Legacy == INSTANCE LegacyBot WITH
  Levels <- {1, 2}, FirstBudget <- 2, MaxTrades <- 2, MaxEdits <- 1, MaxOrders <- 1,
  MaxCrashes <- 0, Requests <- {"pause", "edit", "range"},
  bot <- x1, config <- x2, lots <- x3, position <- x4, snap <- x5, unresolved <- x6, lock <- x7,
  run <- x8, edit <- x9, call <- x10, current <- x11, left <- x12, raced <- x13,
  granted <- x14

\* a resume beside an edit of a bot that is out of range or in error,
LegacyResumed == INSTANCE LegacyBot WITH
  Levels <- {1}, FirstBudget <- 2, MaxTrades <- 1, MaxEdits <- 2, MaxOrders <- 1,
  MaxCrashes <- 0, Requests <- {"resume", "edit"},
  bot <- x1, config <- x2, lots <- x3, position <- x4, snap <- x5, unresolved <- x6, lock <- x7,
  run <- x8, edit <- x9, call <- x10, current <- x11, left <- x12, raced <- x13,
  granted <- x14

\* and with a crash between two of their writes.
LegacyCrash == INSTANCE LegacyBot WITH
  Levels <- {1}, FirstBudget <- 2, MaxTrades <- 2, MaxEdits <- 1, MaxOrders <- 1, MaxCrashes <- 1,
  Requests <- {"stop", "resume", "entry", "reset", "reset all"},
  bot <- x1, config <- x2, lots <- x3, position <- x4, snap <- x5, unresolved <- x6, lock <- x7,
  run <- x8, edit <- x9, call <- x10, current <- x11, left <- x12, raced <- x13,
  granted <- x14

\* A touch that has to last,
Paper == INSTANCE GridDecision WITH
  Grid <- FourRails, Money <- PaperBase, Timing <- Slow, Prices <- {25, 31, 41, 65}, Delays <- {1},
  Drifts <- {0}, Atoms <- 100, Eps <- 1, MaxBuys <- 3, MaxRequests <- 1,
  bot <- x1, last <- x2, turn <- x3, near <- x4, left <- x5

\* a balanced strategy that acts at once,
Balanced == INSTANCE GridDecision WITH
  Grid <- FourRails, Money <- PaperBalanced, Timing <- Instant, Prices <- {25, 31, 41, 65},
  Delays <- {1}, Drifts <- {0}, Atoms <- 100, Eps <- 1, MaxBuys <- 2, MaxRequests <- 1,
  bot <- x1, last <- x2, turn <- x3, near <- x4, left <- x5

\* live money, quotes that drift,
Live == INSTANCE GridDecision WITH
  Grid <- FourRails, Money <- LiveUsdc, Timing <- Instant, Prices <- {31, 41, 49, 65},
  Delays <- {1}, Drifts <- {0, 1}, Atoms <- 100, Eps <- 1, MaxBuys <- 2, MaxRequests <- 0,
  bot <- x1, last <- x2, turn <- x3, near <- x4, left <- x5

\* and a range that follows the price.
Follow == INSTANCE GridDecision WITH
  Grid <- FourRails, Money <- PaperBase, Timing <- Moving, Prices <- {25, 41, 65}, Delays <- {1},
  Drifts <- {0}, Atoms <- 100, Eps <- 1, MaxBuys <- 3, MaxRequests <- 0,
  bot <- x1, last <- x2, turn <- x3, near <- x4, left <- x5

\* Repairs of lots that a crash left torn, on levels so far apart that a fee never
\* moves a lot to another one,
Torn == INSTANCE LotRepair WITH
  Rails <- 4, Step <- 60, Base <- 60, Budget <- 400, SolPrices <- {5}, Rents <- {0}, Slack <- 2,
  MaxFills <- 4, MaxTorn <- 2, MaxScripts <- 2, MaxMoves <- 3, Scripts <- {"repair"},
  Rule <- "stop",
  fills <- x1, lots <- x2, books <- x3, cycles <- x4, row <- x5, sol <- x6, worker <- x7,
  status <- x8, run <- x9, script <- x10, left <- x11

\* of fees that held a rent,
Rent == INSTANCE LotRepair WITH
  Rails <- 3, Step <- 60, Base <- 60, Budget <- 1000, SolPrices <- {5, 6}, Rents <- {0, 1},
  Slack <- 2, MaxFills <- 3, MaxTorn <- 0, MaxScripts <- 2, MaxMoves <- 3,
  Scripts <- {"rent", "repair", "reconstruct"}, Rule <- "stop",
  fills <- x1, lots <- x2, books <- x3, cycles <- x4, row <- x5, sol <- x6, worker <- x7,
  status <- x8, run <- x9, script <- x10, left <- x11

\* from the fills,
Rebuild == INSTANCE LotRepair WITH
  Rails <- 2, Step <- 60, Base <- 60, Budget <- 400, SolPrices <- {5}, Rents <- {0}, Slack <- 2,
  MaxFills <- 5, MaxTorn <- 3, MaxScripts <- 2, MaxMoves <- 4, Scripts <- {"reconstruct"},
  Rule <- "stop",
  fills <- x1, lots <- x2, books <- x3, cycles <- x4, row <- x5, sol <- x6, worker <- x7,
  status <- x8, run <- x9, script <- x10, left <- x11

\* and of fees beside a paused bot whose last order may yet be filled.
Paused == INSTANCE LotRepair WITH
  Rails <- 3, Step <- 60, Base <- 60, Budget <- 1000, SolPrices <- {5}, Rents <- {0, 1}, Slack <- 2,
  MaxFills <- 3, MaxTorn <- 0, MaxScripts <- 2, MaxMoves <- 4, Scripts <- {"repair", "rent"},
  Rule <- "pause",
  fills <- x1, lots <- x2, books <- x3, cycles <- x4, row <- x5, sol <- x6, worker <- x7,
  status <- x8, run <- x9, script <- x10, left <- x11

\* Two requests for a simulated run beside two real ones.
Simulate == INSTANCE PaperSimulate WITH
  Requests <- {r1, r2}, MaxLevel <- 2, Budget <- 2, MaxTries <- 2, MaxRuns <- 2, MaxHalts <- 1,
  bot <- x1, lots <- x2, snap <- x3, trades <- x4, lock <- x5, run <- x6, req <- x7, left <- x8,
  stale <- x9

ASSUME
  /\ Legacy!LegacyAssumption
  /\ LegacyResumed!LegacyAssumption
  /\ LegacyCrash!LegacyAssumption
  /\ Paper!GridAssumption
  /\ Balanced!GridAssumption
  /\ Live!GridAssumption
  /\ Follow!GridAssumption
  /\ Torn!LotRepairAssumption
  /\ Rent!LotRepairAssumption
  /\ Rebuild!LotRepairAssumption
  /\ Paused!LotRepairAssumption
  /\ Simulate!SimulateAssumption
-----------------------------------------------------------------------------
Parts == {"spikes", "legacy", "legacyresumed", "legacycrash", "paper", "balanced", "live", "follow", "sale", "torn", "rent", "rebuild", "paused", "simulate"}

\* The variables from one on that the component at work does not need.
From12Absent == x12 = Absent /\ x13 = Absent /\ x14 = Absent
from12 == <<x12, x13, x14>>
From10Absent == x10 = Absent /\ x11 = Absent /\ From12Absent
from10 == <<x10, x11, from12>>
From6Absent == x6 = Absent /\ x7 = Absent /\ x8 = Absent /\ x9 = Absent /\ From10Absent
from6 == <<x6, x7, x8, x9, from10>>
From1Absent == x1 = Absent /\ x2 = Absent /\ x3 = Absent /\ x4 = Absent /\ x5 = Absent /\ From6Absent
from1 == <<x1, x2, x3, x4, x5, from6>>

TradingInit ==
  /\ part \in Parts /\ Init
  /\ \/ part = "spikes" /\ From1Absent
     \/ part = "legacy" /\ Legacy!Init
     \/ part = "legacyresumed" /\ LegacyResumed!Init
     \/ part = "legacycrash" /\ LegacyCrash!Init
     \/ part = "paper" /\ Paper!Init /\ From6Absent
     \/ part = "balanced" /\ Balanced!Init /\ From6Absent
     \/ part = "live" /\ Live!Init /\ From6Absent
     \/ part = "follow" /\ Follow!Init /\ From6Absent
     \/ part = "sale" /\ Sale!Init /\ From10Absent
     \/ part = "torn" /\ Torn!Init /\ From12Absent
     \/ part = "rent" /\ Rent!Init /\ From12Absent
     \/ part = "rebuild" /\ Rebuild!Init /\ From12Absent
     \/ part = "paused" /\ Paused!Init /\ From12Absent
     \/ part = "simulate" /\ Simulate!Init /\ From10Absent

TradingNext ==
  /\ \/ part = "spikes" /\ Next /\ UNCHANGED from1
     \/ part = "legacy" /\ Legacy!Next /\ UNCHANGED vars
     \/ part = "legacyresumed" /\ LegacyResumed!Next /\ UNCHANGED vars
     \/ part = "legacycrash" /\ LegacyCrash!Next /\ UNCHANGED vars
     \/ part = "paper" /\ Paper!Next /\ UNCHANGED <<vars, from6>>
     \/ part = "balanced" /\ Balanced!Next /\ UNCHANGED <<vars, from6>>
     \/ part = "live" /\ Live!Next /\ UNCHANGED <<vars, from6>>
     \/ part = "follow" /\ Follow!Next /\ UNCHANGED <<vars, from6>>
     \/ part = "sale" /\ Sale!Next /\ UNCHANGED <<vars, from10>>
     \/ part = "torn" /\ Torn!Next /\ UNCHANGED <<vars, from12>>
     \/ part = "rent" /\ Rent!Next /\ UNCHANGED <<vars, from12>>
     \/ part = "rebuild" /\ Rebuild!Next /\ UNCHANGED <<vars, from12>>
     \/ part = "paused" /\ Paused!Next /\ UNCHANGED <<vars, from12>>
     \/ part = "simulate" /\ Simulate!Next /\ UNCHANGED <<vars, from10>>
  /\ UNCHANGED part

tradingVars ==
  <<part, vars, x1, x2, x3, x4, x5, x6, x7, x8, x9, x10, x11, x12, x13, x14>>

TradingSpec == TradingInit /\ [][TradingNext]_tradingVars
-----------------------------------------------------------------------------
\* The books of a bot agree with its lots between two runs: of the legacy engine
\* through requests and up to one trade through a crash, of a grid's decisions
\* through retained base, fees and recenters, of repaired fees, and of a
\* simulated run, which counts every trade and never runs beside the engine.
BooksHold ==
  /\ part = "legacy" => Legacy!TypeOK /\ Legacy!BooksAgree /\ Legacy!OneLotPerLevel /\ Legacy!CyclesMatchRange
  /\ part = "legacyresumed" => LegacyResumed!BooksAgree /\ LegacyResumed!CyclesMatchRange
  /\ part = "legacycrash" => LegacyCrash!CrashCostsOneTrade
  /\ part = "paper" => Paper!TypeOK /\ Paper!BooksAgree /\ Paper!WithinBudget
  /\ part = "balanced" => Balanced!BooksAgree /\ Balanced!EveryLotTracked
  /\ part = "live" => Live!BooksAgree /\ Live!WithinBudget
  /\ part = "follow" => Follow!BooksAgree /\ Follow!EveryLotTracked
  /\ part = "rent" => Rent!TypeOK /\ Rent!BooksBalance
  /\ part = "paused" => Paused!BooksBalance
  /\ part = "simulate" => Simulate!TypeOK /\ Simulate!StateCountsEveryTrade /\ Simulate!OneEngineRun

\* What no step may do: move a range under an open lot, take a bot out of its
\* pause without a request, buy on a touch that did not last, sell at a loss;
\* and a repair neither loses lots or fills nor needs a second one.
TradesHold ==
  [][/\ part = "legacy" => Legacy!RecentersFlat /\ Legacy!OperatorStarts
     /\ part = "legacyresumed" => LegacyResumed!OperatorStarts
     /\ part = "paper" => Paper!BuysAreConfirmed
     /\ part = "live" => Live!NoLosingSale
     /\ part = "torn" => Torn!RepairFits /\ Torn!SecondRepairRests
     /\ part = "rebuild" => Rebuild!EveryFillCounts]_tradingVars
=============================================================================
