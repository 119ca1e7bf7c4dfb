------------------------------ MODULE WorkerMC -------------------------------
(*****************************************************************************)
(* The worker process for TLC: its scheduling, the prices and candles it     *)
(* reads, the history it keeps and the revisions its portfolio manager       *)
(* makes.  These components share no state, so that a behaviour is one of one *)
(* component, the one that "part" names: what the others do is checked in    *)
(* behaviours of their own, not in every interleaving with it.               *)
(*****************************************************************************)
EXTENDS WorkerParts, TLC

CONSTANTS
  Absent,         \* the value of a variable the component at work does not have
  sol, btc, b1, b2, d1, d2

\* The promises of the scheduler's drains have no names.
DrainNames == Permutations({d1, d2})

\* Two symbols with a bot each.
OneEach == (b1 :> sol) @@ (b2 :> btc)

\* Grids that share a rail and differ in range.
HighGrid == <<2, 3>>
SmallGrids == {<<1, 2>>, HighGrid}
-----------------------------------------------------------------------------
Parts == {"runtime", "feed", "candles", "history"} \cup BandParts

\* The variables from one on that the component at work does not need.
From12Absent ==
  /\ x12 = Absent /\ x13 = Absent /\ x14 = Absent /\ x15 = Absent /\ x16 = Absent
from12 == <<x12, x13, x14, x15, x16>>
From10Absent == x10 = Absent /\ x11 = Absent /\ From12Absent
from10 == <<x10, x11, from12>>
From6Absent == x6 = Absent /\ x7 = Absent /\ x8 = Absent /\ x9 = Absent /\ From10Absent
from6 == <<x6, x7, x8, x9, from10>>
From1Absent == x1 = Absent /\ x2 = Absent /\ x3 = Absent /\ x4 = Absent /\ x5 = Absent /\ From6Absent
from1 == <<x1, x2, x3, x4, x5, from6>>

\* A band with one kind of fault at most, and one that begins where it may be revised.
Faultless(except) == \A fault \in DOMAIN x16 \ except : x16'[fault] = x16[fault]
SecondHour == x1 < LastHour => x1' # x1

WorkerInit ==
  /\ part \in Parts /\ Init /\ (part # "runtime" => attempts = {})
  /\ \/ part = "runtime" /\ From1Absent
     \/ part = "feed" /\ Feed!Init /\ From10Absent
     \/ part = "candles" /\ Candles!Init /\ From6Absent
     \/ part = "history" /\ History!Init /\ From12Absent
     \/ part \in BandParts /\ Bands!Init

WorkerNext ==
  /\ \/ part = "runtime" /\ Next /\ UNCHANGED from1
     \/ part = "feed" /\ Feed!Next /\ UNCHANGED <<vars, from10>>
     \/ part = "candles" /\ Candles!Next /\ UNCHANGED <<vars, from6>>
     \/ part = "history" /\ History!Next /\ UNCHANGED <<vars, from12>>
     \/ part = "hourly" /\ Bands!Next /\ UNCHANGED vars /\ Faultless({})
     \/ part = "crashing" /\ Bands!Next /\ UNCHANGED vars /\ Faultless({"crashes"}) /\ SecondHour
     \/ part = "losing" /\ Bands!Next /\ UNCHANGED vars /\ Faultless({"losses"}) /\ SecondHour
     \/ part = "operated" /\ Bands!Next /\ UNCHANGED vars /\ Faultless({"orders"}) /\ x1' = x1
  /\ UNCHANGED part

WorkerSpec == WorkerInit /\ [][WorkerNext]_workerVars
=============================================================================
