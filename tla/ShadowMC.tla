------------------------------ MODULE ShadowMC -------------------------------
(*****************************************************************************)
(* What is only watched or replayed, for TLC: the outbox of observations, the *)
(* choices a shadow compares, the evidence it freezes, the quotes it takes, and *)
(* the replays of a policy and of the lab.  They share no state: a behaviour is *)
(* one of the component that "part" names.                                   *)
(*****************************************************************************)
EXTENDS ShadowParts, Sequences, TLC

CONSTANTS w1, w2, acting, watched

VARIABLES
  x11, x12, x13, x14, x15   \* further variables of the component at work

\* Choices: a band of 6% around 100, and proposals that move or resize it.
Geometry(low, high, count) == [low |-> low, high |-> high, count |-> count]
SomeGeometries ==
  {Geometry(97, 103, 2), Geometry(97, 103, 3), Geometry(94, 102, 3), Geometry(98, 110, 4),
   Geometry(80, 90, 3)}
ReserveGeometry == [n \in 2 .. 4 |-> Geometry(97, 103, n)]
CostProfiles ==
  {[slip |-> 0, fee |-> 1, native |-> 0], [slip |-> 1, fee |-> 1, native |-> 0],
   [slip |-> 1, fee |-> 1, native |-> 4]}
Decision(action, g) == [action |-> action, grid |-> g]
SomeDecisions ==
  {Decision(action, Geometry(97, 103, 2)) : action \in {"wait", "park", "reactivate"}}
  \cup {Decision(action, g) : action \in {"revise", "create_band"},
                              g \in {Geometry(94, 102, 3), Geometry(97, 103, 3), Geometry(98, 110, 4)}}
SomePolicies ==
  [band : {Geometry(97, 103, 3), Geometry(80, 90, 3)}, price : {100}, idle : {0, 400},
   allocated : {600}, cash : {300, 600}, attributed : {600}, bands : {1, 2}, entries : {{}, {100}},
   captured : {TRUE}, unknown : {FALSE}, leastFunded : BOOLEAN, decision : SomeDecisions]
  \cup [band : {Geometry(97, 103, 3)}, price : {100}, idle : {400}, allocated : {600}, cash : {600},
        attributed : {600}, bands : {1}, entries : {{}}, captured : BOOLEAN, unknown : {TRUE},
        leastFunded : {TRUE}, decision : SomeDecisions]
WaitingPolicies ==
  [band : {Geometry(97, 103, 3)}, price : {100}, idle : {400}, allocated : {600}, cash : {600},
   attributed : {600}, bands : {1}, entries : {{}}, captured : {TRUE}, unknown : {FALSE},
   leastFunded : {TRUE}, decision : {Decision("wait", Geometry(97, 103, 2))}]
OpenLots(i) ==
  [id : {i}, status : {"KNOWN", "UNKNOWN"}, rule : {"accumulate_usdc", "accumulate_base"}, qty : {2, 10},
   cost : {960, 1000}, target : {102, 105, 128}]
SomeLotSets ==
  {{}} \cup {{l} : l \in OpenLots(1)}
  \cup {{l, m} : l \in {o \in OpenLots(1) : o.cost = 1000}, m \in {o \in OpenLots(2) : o.target = 105}}

\* Evidence: reports that prove everything, and all but their fee.
FullReport == {"pair", "totals", "fee", "quote", "native"}
SomeReports == {FullReport, FullReport \ {"fee"}}

\* Quotes: three bots, of which two of one asset, and one with a mint of its own.
Targets == <<"btc1", "btc2", "fork", "sol1">>
TargetSymbols == [b \in {"btc1", "btc2", "fork", "sol1"} |-> IF b = "sol1" THEN "SOL" ELSE "BTC"]
TargetSizes == [b \in {"btc1", "btc2", "fork", "sol1"} |-> IF b = "btc1" THEN 2 ELSE 1]

\* Replays of three hours: bitcoin that falls beside solana that swings, with
\* free bands; and a lot of each with a recorded intervention.
Objectives == [btc |-> "accumulate_base", sol |-> "accumulate_usdc"]
Candle(o, h, l, c) == [open |-> o, high |-> h, low |-> l, close |-> c]
HighGrid == [low |-> 4, spacing |-> 2, levels |-> 3]
LowGrid == [low |-> 2, spacing |-> 3, levels |-> 3]
Allocation(asset, idle) ==
  [asset |-> asset, geometry |-> HighGrid, status |-> "active", budget |-> 120, idle |-> idle]
FreeCandles ==
  [btc |-> {Candle(7, 8, 3, 4)}, sol |-> {Candle(7, 8, 3, 6)}]
FreeAllocations == <<Allocation("btc", 120), Allocation("sol", 120)>>
SeededLot(band, asset) ==
  [band |-> band, asset |-> asset, kind |-> "trading", entry |-> 6, base |-> 10, cost |-> 60, exit |-> 9,
   spacing |-> 2, rule |-> Objectives[asset], gain |-> 0, retain |-> 1]
SeededAllocations == <<Allocation("btc", 60), Allocation("sol", 60)>>
NoIntervention == [available |-> -1, updates |-> <<>>, grid |-> <<>>]
NewTarget(lot, target) ==
  [lot |-> lot, old |-> 9, cost |-> 60, base |-> 10, target |-> target, gain |-> 5,
   retain |-> IF lot = 1 THEN 1 ELSE 0]
NewBand == [band |-> 1, decision |-> [action |-> "create_band", geometry |-> LowGrid]]
Recorded ==
  {[available |-> t, updates |-> <<NewTarget(lot, target)>>, grid |-> g] :
     t \in {0, 1, 3, 4}, lot \in {1, 2}, target \in {6, 8}, g \in {<<>>, <<NewBand>>}}
SeededCandles ==
  [btc |-> {Candle(7, 8, 3, 4), Candle(5, 9, 4, 7)}, sol |-> {Candle(7, 8, 3, 4), Candle(5, 9, 4, 7), Candle(6, 7, 5, 5)}]
CashFlows == <<[at |-> 1, amount |-> 30], [at |-> 3, amount |-> -150], [at |-> 5, amount |-> 40]>>

\* Grids to compare, for a band without lots,
Grids == INSTANCE ShadowDecisions WITH
  Geometries <- SomeGeometries, Reserve <- ReserveGeometry, MaxLevels <- 4, MinWidth <- 6,
  MaxWidth <- 20, MinUseful <- 200, MaxBands <- 2, Total <- 2000, MaxExposure <- 55,
  Bucket <- [min |-> 200, max |-> 500], Policies <- SomePolicies,
  Assumed <- [slip |-> 0, fee |-> 1], Profiles <- CostProfiles, LotSets <- {{}}, Clamps <- {0},
  MinGain <- 2, MinRetained <- 2, NoProfile <- Absent, None <- NoValue,
  policy <- x1, profile <- x2, lots <- x3, stage <- x4, candidates <- x5, named <- x6, exits <- x7

\* and exits to compare, for up to two open lots.
Exits == INSTANCE ShadowDecisions WITH
  Geometries <- SomeGeometries, Reserve <- ReserveGeometry, MaxLevels <- 4, MinWidth <- 6,
  MaxWidth <- 20, MinUseful <- 1000, MaxBands <- 2, Total <- 2000, MaxExposure <- 55,
  Bucket <- [min |-> 900, max |-> 1101], Policies <- WaitingPolicies,
  Assumed <- [slip |-> 0, fee |-> 1], Profiles <- CostProfiles, LotSets <- SomeLotSets,
  Clamps <- {0, 2, 5}, MinGain <- 2, MinRetained <- 2, NoProfile <- Absent, None <- NoValue,
  policy <- x1, profile <- x2, lots <- x3, stage <- x4, candidates <- x5, named <- x6, exits <- x7

\* A replay whose policy revises, parks, wakes and multiplies bands,
Deciding == INSTANCE PolicyReplay WITH
  AssetOrder <- <<"btc", "sol">>, Objective <- Objectives, CandlesOf <- FreeCandles, Hours <- 3,
  Allocations <- FreeAllocations, SeededLots <- <<>>, StartingCash <- 130,
  Geometries <- {HighGrid, LowGrid}, Asked <- 60, MaxBands <- 3, MaxExposurePct <- 60,
  NativeFee <- 1, MinOrder <- 10, Flows <- <<>>, Interventions <- {NoIntervention},
  Adaptive <- TRUE,
  intervention <- x1, position <- x2, candle <- x3, prices <- x4, closed <- x5, book <- x6,
  paid <- x7, applied <- x8, queue <- x9, marks <- x10, failed <- x11

\* and one with lots, cash flows and an intervention.
Seeded == INSTANCE PolicyReplay WITH
  AssetOrder <- <<"btc", "sol">>, Objective <- Objectives, CandlesOf <- SeededCandles, Hours <- 3,
  Allocations <- SeededAllocations, SeededLots <- <<SeededLot(1, "btc"), SeededLot(2, "sol")>>,
  StartingCash <- 130, Geometries <- {HighGrid, LowGrid}, Asked <- 60, MaxBands <- 3,
  MaxExposurePct <- 60, NativeFee <- 1, MinOrder <- 10, Flows <- CashFlows,
  Interventions <- Recorded, Adaptive <- FALSE,
  intervention <- x1, position <- x2, candle <- x3, prices <- x4, closed <- x5, book <- x6,
  paid <- x7, applied <- x8, queue <- x9, marks <- x10, failed <- x11

\* The lab with the flat recenter of the worker,
FlatLab == INSTANCE LabReplay WITH
  Prices <- {2, 3, 7}, MaxBars <- 3, DayBars <- 3, FirstBand <- [low |-> 3, high |-> 5],
  Plans <- {[low |-> 3, high |-> 5], [low |-> 2, high |-> 6]}, Budget <- 16, Reserve <- 2,
  Deployable <- 14, OrderUnits <- 2, Fee <- 1, Auto <- TRUE, Adaptive <- FALSE, Flat <- TRUE,
  AccumulateBase <- TRUE, Confirmation <- 2, MinInterval <- 3, MaxPerDay <- 2, WarmUp <- 1,
  Replan <- 1,
  bar <- x1, candle <- x2, band <- x3, cash <- x4, base <- x5, lots <- x6, retained <- x7,
  guard <- x8, regimeGuard <- x9, favourable <- x10, sincePlan <- x11, outsideCloses <- x12,
  outside <- x13, moves <- x14, verdicts <- x15

\* and with plans that are adapted.
AdaptiveLab == INSTANCE LabReplay WITH
  Prices <- {2, 3, 7}, MaxBars <- 3, DayBars <- 2, FirstBand <- [low |-> 3, high |-> 5],
  Plans <- {[low |-> 3, high |-> 5], [low |-> 2, high |-> 6]}, Budget <- 12, Reserve <- 2,
  Deployable <- 9, OrderUnits <- 1, Fee <- 1, Auto <- TRUE, Adaptive <- TRUE, Flat <- FALSE,
  AccumulateBase <- FALSE, Confirmation <- 2, MinInterval <- 4, MaxPerDay <- 1, WarmUp <- 1,
  Replan <- 1,
  bar <- x1, candle <- x2, band <- x3, cash <- x4, base <- x5, lots <- x6, retained <- x7,
  guard <- x8, regimeGuard <- x9, favourable <- x10, sincePlan <- x11, outsideCloses <- x12,
  outside <- x13, moves <- x14, verdicts <- x15

ASSUME
  /\ Grids!ShadowAssumption
  /\ Exits!ShadowAssumption
  /\ Deciding!EventsAreSorted
  /\ Seeded!EventsAreSorted
  /\ FlatLab!ReplayAssumption
  /\ AdaptiveLab!ReplayAssumption
-----------------------------------------------------------------------------
Parts == {"outbox", "grids", "exits", "quotes", "deciding", "seeded", "flatlab", "adaptivelab"} \cup EvidenceParts

\* The variables from one on that the component at work does not need.
From12Absent == x12 = Absent /\ x13 = Absent /\ x14 = Absent /\ x15 = Absent
from12 == <<x12, x13, x14, x15>>
From11Absent == x11 = Absent /\ From12Absent
from11 == <<x11, from12>>
From10Absent == x10 = Absent /\ From11Absent
from10 == <<x10, from11>>
From8Absent == x8 = Absent /\ x9 = Absent /\ From10Absent
from8 == <<x8, x9, from10>>
From1Absent ==
  /\ x1 = Absent /\ x2 = Absent /\ x3 = Absent /\ x4 = Absent /\ x5 = Absent /\ x6 = Absent
  /\ x7 = Absent /\ From8Absent
from1 == <<x1, x2, x3, x4, x5, x6, x7, from8>>

\* Evidence with fills and one capture, and with captures alone.
OneCapture == Len(x7') <= 1
NoFills == x2' = x2

ShadowInit ==
  /\ part \in Parts /\ Init
  /\ \/ part = "outbox" /\ From1Absent
     \/ part = "grids" /\ Grids!Init /\ From8Absent
     \/ part = "exits" /\ Exits!Init /\ From8Absent
     \/ part \in EvidenceParts /\ Evidence!Init /\ From11Absent
     \/ part = "quotes" /\ Quotes!Init /\ From10Absent
     \/ part = "deciding" /\ Deciding!Init /\ From12Absent
     \/ part = "seeded" /\ Seeded!Init /\ From12Absent
     \/ part = "flatlab" /\ FlatLab!Init
     \/ part = "adaptivelab" /\ AdaptiveLab!Init

ShadowNext ==
  /\ \/ part = "outbox" /\ Next /\ UNCHANGED from1
     \/ part = "grids" /\ Grids!Next /\ UNCHANGED <<vars, from8>>
     \/ part = "exits" /\ Exits!Next /\ UNCHANGED <<vars, from8>>
     \/ part = "evidence" /\ Evidence!Next /\ UNCHANGED <<vars, from11>> /\ OneCapture
     \/ part = "outcomes" /\ Evidence!Next /\ UNCHANGED <<vars, from11>> /\ NoFills
     \/ part = "quotes" /\ Quotes!Next /\ UNCHANGED <<vars, from10>>
     \/ part = "deciding" /\ Deciding!Next /\ UNCHANGED <<vars, from12>>
     \/ part = "seeded" /\ Seeded!Next /\ UNCHANGED <<vars, from12>>
     \/ part = "flatlab" /\ FlatLab!Next /\ UNCHANGED vars
     \/ part = "adaptivelab" /\ AdaptiveLab!Next /\ UNCHANGED vars
  /\ UNCHANGED part

shadowVars ==
  <<part, vars, x1, x2, x3, x4, x5, x6, x7, x8, x9, x10, x11, x12, x13, x14, x15>>

ShadowSpec == ShadowInit /\ [][ShadowNext]_shadowVars
-----------------------------------------------------------------------------
\* What is chosen can be acted on.  Of what a shadow compares: the proposal itself is
\* among the choices, experiments cover the observed costs, bands can be funded, and
\* exits are moved whole and only where they still pay.  Of what is replayed: the
\* books balance, within their budget and their limits.
ChoicesHold ==
  /\ part = "grids" =>
       Grids!TypeOK /\ Grids!ProposalIsCompared /\ Grids!ExperimentsCoverCosts /\ Grids!BandsAreFundable
  /\ part = "exits" => Exits!TypeOK /\ Exits!ExitsStayPaid /\ Exits!ExitsAreJudgedWhole
  /\ part = "deciding" =>
       Deciding!TypeOK /\ Deciding!BooksBalance /\ Deciding!NoDuplicateExposure /\ Deciding!BandsStayAdmitted
  /\ part = "seeded" => Seeded!BooksBalance
  /\ part = "flatlab" => FlatLab!TypeOK /\ FlatLab!BooksAgree /\ FlatLab!NeverSellsAtLoss /\ FlatLab!MovesAreSpaced
  /\ part = "adaptivelab" => AdaptiveLab!TypeOK /\ AdaptiveLab!BooksAgree /\ AdaptiveLab!MovesAreSpaced

\* What no step of a replay may do: move rails under lots or a lot's terms, buy in a
\* defence, mark an incomplete hour or intervene inside a candle.
ReplaysStand ==
  [][/\ part = "deciding" => Deciding!MarksAreComplete /\ Deciding!LotsKeepTheirTerms
     /\ part = "seeded" => Seeded!LotsKeepTheirTerms /\ Seeded!InterventionStartsACandle
     /\ part = "flatlab" => FlatLab!RailsWaitForLots
     /\ part = "adaptivelab" => AdaptiveLab!RailsWaitForLots /\ AdaptiveLab!DefenceHolds]_shadowVars
=============================================================================
