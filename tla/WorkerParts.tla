---------------------------- MODULE WorkerParts -----------------------------
(*****************************************************************************)
(* The state that the parts of the worker suite share, and the parts that    *)
(* are proved about beside the worker's loops: the prices and candles it     *)
(* reads, the history it keeps, and the bands between its engine and manager,   *)
(* which are instances of their proofs so that WorkerProofs can cite them.   *)
(* WorkerMC adds the suite's specification.                                  *)
(*****************************************************************************)
EXTENDS WorkerRuntime

CONSTANTS
  Bases, Quote, MaxBlock, FeedTime, StaleAfter, MaxRestarts,   \* of the prices
  Width, CandleTime, Lookbacks, Ttl, PageLimit,                \* of the candles
  Bucket, Every, StateKeep, RowKeep, MaxTime, MaxFaults,       \* of the history
  BandPrices, Grids, FirstGrid, LastHour, Day, Cooldown,       \* of the bands
  MaxDaily, MaxLosses, MaxCrashes, MaxOrders

VARIABLES
  part,   \* the component at work
  x1, x2, x3, x4, x5, x6, x7, x8, x9, x10, x11, x12, x13, x14, x15, x16   \* its variables, in the order of its module

\* A price service, with a store or, as the worker's, without.
Feed == INSTANCE PriceFeed WITH
  MaxNow <- FeedTime, Lasting <- FALSE,
  now <- x1, seen <- x2, stored <- x3, loaded <- x4, cached <- x5, batch <- x6, restarts <- x7,
  firstUse <- x8, durable <- x9

Candles == INSTANCE CandleHistory WITH
  MaxNow <- CandleTime,
  now <- x1, table <- x2, writes <- x3, request <- x4, served <- x5

History == INSTANCE SnapshotHistory WITH
  now <- x1, log <- x2, states <- x3, archived <- x4, rows <- x5, worker <- x6, nextSnap <- x7,
  snap <- x8, started <- x9, kept <- x10, faults <- x11

\* A band between its engine and its manager: an instance of what is proved of it.
Bands == INSTANCE BandRevisionProofs WITH
  Prices <- BandPrices,
  hour <- x1, status <- x2, band <- x3, revised <- x4, snapshot <- x5, newest <- x6,
  lots <- x7, attempt <- x8, lock <- x9, memory <- x10, run <- x11, manager <- x12,
  observed <- x13, log <- x14, fresh <- x15, faults <- x16

BandParts == {"hourly", "crashing", "losing", "operated"}

workerVars ==
  <<part, vars, x1, x2, x3, x4, x5, x6, x7, x8, x9, x10, x11, x12, x13, x14, x15, x16>>

ASSUME StoresAssumption ==
  /\ Feed!FeedAssumption
  /\ Candles!HistoryAssumption
  /\ History!HistoryAssumption
  /\ Bands!RevisionAssumption
-----------------------------------------------------------------------------
\* What the worker passes on is true of the world: the engine's prices are the
\* newest and young ones of what its process or its store has seen, the candles are complete, and no bot's newest state
\* and no bucket of the profit's history is lost or doubled.
StoredDataHolds ==
  /\ part = "feed" => Feed!TypeOK /\ Feed!NoRenewal /\ Feed!NewestBlock
  /\ part = "candles" => Candles!TypeOK /\ Candles!ServedIsFinal
  /\ part = "history" => History!TypeOK /\ History!NewestStateIsKept /\ History!OneRebuiltRowPerBucket

\* The two writers of a band, the engine and the manager, keep what each relies
\* on: buys answer falls observed under the band's revision, the snapshot is of
\* that revision, and revisions keep their interval and their daily number,
\* through crashes, a lost lock and the operator's pauses.
RevisionsHold ==
  /\ part \in {"hourly", "crashing", "operated"} => Bands!RevisionsHold
  /\ part = "losing" => Bands!SnapshotNamesRevision /\ Bands!RevisionsSpaced

\* A decision of the manager meets the lots it was made for, and every row of
\* the history tells the profit of its time, as far back as there are states.
ChangesHold ==
  [][/\ part \in BandParts => Bands!AppliedToLotsSeen
     /\ part = "history" => History!RowsTellTheProfit /\ History!BackfillReachesBack]_workerVars
=============================================================================
