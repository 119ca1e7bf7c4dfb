---------------------------- MODULE ContentionMC -----------------------------
(*****************************************************************************)
(* Who gets in each other's way in DurableExecution, for TLC: two live bands *)
(* that spend the one wallet, or two processes that work on one legacy bot   *)
(* after its lock session died.  The bots that start paused stay out of it.   *)
(*****************************************************************************)
EXTENDS DurableExecution, FiniteSets, TLC

CONSTANTS b1, b2, legacy, w1, w2, e1, e2

\* The bots that trade in this behaviour; the others stay paused.
AtWork == IF \A b \in BandBots : status[b] = "paused" THEN Bots \ BandBots ELSE BandBots

ContentionInit == Init /\ \A b \in Bots \ AtWork : status[b] = "paused"

ContentionSpec == ContentionInit /\ [][Next]_vars

Resting(b) ==
  /\ status'[b] = "paused" /\ resuming'[b] = {}
  /\ \A w \in Workers : pc'[w][b] = "idle"

\* One process runs the bands, keeps its locks, and nobody halts them.
Wallet ==
  /\ \E w \in Workers : \A v \in Workers \ {w}, b \in Bots : pc'[v][b] = "idle"
  /\ \A b \in Bots :
       /\ status'[b] = "paused" => status[b] = "paused"
       /\ lock'[b] # lock[b] => pc' # pc

\* Both processes run the one bot, over one execution.
LockLoss ==
  /\ Cardinality({e \in Execs : owner'[e] # NoBot}) <= 1
  /\ \A b \in Bots : resuming'[b] # {} => \E w \in Workers : pc'[w][b] = "idle"

OneContention ==
  /\ \A b \in Bots \ AtWork : Resting(b)
  /\ IF AtWork = BandBots THEN Wallet ELSE LockLoss

\* Execution rows may change places, and so may processes that run the same code.
RowsAndWorkers == Permutations({e1, e2}) \cup Permutations({w1, w2})
=============================================================================
