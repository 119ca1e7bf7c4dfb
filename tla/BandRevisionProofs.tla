------------------------- MODULE BandRevisionProofs -------------------------
(***************************************************************************)
(* Theorems about BandRevision, for all prices, grids and cooldowns, every *)
(* number of crashes and of pauses, and histories of any length.           *)
(*                                                                         *)
(* Inv holds also when the session that holds the advisory lock is lost:   *)
(* it gives the snapshot its revision, the revisions their distance and    *)
(* the decision its lots.  What the run observed, and how many revisions a *)
(* day has had, are known only while the lock lives: a run that lost it    *)
(* between its reads writes an old history under the new revision, and TLC *)
(* finds it.  LockInv is therefore one of behaviours without LoseLock.     *)
(***************************************************************************)
EXTENDS BandRevision, FiniteSetTheorems, WellFoundedInduction, TLAPS

-----------------------------------------------------------------------------
(* The inductive invariants                                                *)

\* The columns of the two writers.
Signals == [side : {"buy", "sell"}, entry : Prices, target : Prices \cup {None}]
BandStatuses == {"ACTIVE", "PARKED_BELOW"}
Runs ==
  [at : {"off", "bot", "state", "band", "attempt", "decide", "write", "prepare", "resume", "end"},
   status : {"running", "paused"}, grid : Grids, lots : SUBSET Lots, state : Snapshots,
   band : BandStatuses, rev : Nat, prev : Prices \cup {None}, price : Prices \cup {None},
   signal : Signals \cup {NoAttempt}]
Cycles ==
  [at : {"asleep", "bot", "peers", "apply", "record"}, rev : Nat, band : BandStatuses, grid : Grids,
   since : 0 .. LastHour, history : Seq(0 .. LastHour), lots : SUBSET Lots, hour : 0 .. LastHour,
   action : {"wait", "reactivate", "revise", "park", "create_band"}]

Typed ==
  /\ hour \in 0 .. LastHour
  /\ status \in {"running", "paused"}
  /\ band \in [status : BandStatuses, rev : Nat \ {0}, grid : Grids]
  /\ revised \in Seq(0 .. LastHour) /\ Len(revised) = band.rev
  /\ snapshot \in Snapshots
  /\ newest \subseteq {"run", "manager"} /\ lots \subseteq Lots
  /\ attempt \in Signals \cup {NoAttempt} /\ lock \in {"free", "run"}
  /\ memory \in [price : Prices \cup {None}, rev : Nat] /\ memory.rev <= band.rev
  /\ run \in Runs /\ run.rev <= band.rev
  /\ manager \in Cycles
  /\ observed \in -1 .. LastHour /\ log \in -1 .. LastHour
  /\ fresh \in [{"manager", "operator"} -> SUBSET Recorded]
  /\ faults \in [losses : 0 .. MaxLosses, crashes : 0 .. MaxCrashes, orders : 0 .. MaxOrders]

\* What a run may rely on, with or without its lock: the attempt it resumes was
\* there before it read the snapshot, and what it prepares is decided on the
\* newest one.
RunReads ==
  /\ run.at = "resume" => attempt # NoAttempt
  /\ run.at \in {"decide", "write", "prepare"} => attempt = NoAttempt
  /\ run.at = "prepare" => run.signal # NoAttempt
  /\ attempt # NoAttempt /\ run.at \in {"band", "attempt", "resume"} => run.state.rev = band.rev
  /\ "run" \in newest /\ run.at \in {"band", "attempt", "decide", "prepare"} => run.state = snapshot

\* What a cycle of the manager may rely on.
CycleReads ==
  /\ manager.at # "asleep" => manager.rev \in 1 .. band.rev /\ manager.since = revised[manager.rev]
  /\ manager.at = "apply" /\ manager.action = "revise" => Cooled(manager)
  /\ manager.at = "apply" /\ "manager" \in newest => manager.lots = lots

Inv == Typed /\ SnapshotNamesRevision /\ RunReads /\ CycleReads /\ RevisionsSpaced

\* Under the lock: nobody else moves the grid while the run is on.
Levels(g) == 0 .. Len(g) - 1
History(h) == Len(h) = band.rev - 1 /\ \A i \in 1 .. Len(h) : h[i] = revised[i + 1]

LockIsRun == lock = "run" <=> run.at # "off"
RunFollows ==
  /\ run.at \notin {"off", "bot"} => run.grid = band.grid
  /\ run.at \notin {"off", "bot", "state"} =>
       run.state.rev = band.rev /\ run.state.history = snapshot.history /\ run.state.pending \in Levels(band.grid)
  /\ run.at \notin {"off", "bot", "state", "band"} => run.rev = band.rev
HistoryTold ==
  /\ History(snapshot.history)
  /\ manager.at \in {"peers", "apply"} /\ "manager" \in newest => manager.history = snapshot.history
LevelsFit == snapshot.pending \in Levels(band.grid)

Seen(t) == t \in fresh["manager"]
Observing(state, row, pending) ==
  ~state.baseline =>
    /\ state.price # None => Seen(row)
    /\ state.pending # None => Seen(pending)
    /\ memory.price # None => Seen("memory")
SnapshotObserved == Observing(snapshot, "row", "pending")
RunObserved ==
  /\ run.at \notin {"off", "bot", "state"} => Observing(run.state, "run row", "run pending")
  /\ run.at \in {"decide", "write", "prepare"} => Seen("memory")
  /\ run.at \in {"decide", "prepare"} => Seen("price")
  /\ run.at = "decide" /\ ~run.state.baseline /\ run.prev # None => Seen("prev")
  /\ run.at \in {"off", "bot", "state", "band", "attempt", "decide", "write"} => run.signal = NoAttempt
LockInv ==
  Inv /\ LockIsRun /\ RunFollows /\ HistoryTold /\ LevelsFit /\ DailyLimit
    /\ SnapshotObserved /\ RunObserved /\ EntriesFollowObservation
-----------------------------------------------------------------------------
(* Numbers, grids and exits                                                *)

LEMMA LeastNatural == ASSUME NEW S, S \subseteq Nat, S # {} PROVE \E x \in S : \A y \in S : x <= y
<1>1. PICK x \in S : \A y \in S : ~ (<<y, x>> \in OpToRel(<, Nat))
  BY NatLessThanWellFounded, WFMin
<1>2. \A y \in S : <<y, x>> \in OpToRel(<, Nat) <=> y < x
  BY DEF OpToRel
<1>3. \A y \in S : y \in Nat /\ ~ (y < x)
  BY <1>1, <1>2
<1>4. \A y \in S : x <= y
  BY <1>3
<1> QED BY <1>4

LEMMA GreatestNatural ==
  ASSUME NEW n \in Nat, NEW S, S \subseteq 1 .. n, S # {}
  PROVE  \E x \in S : \A y \in S : y <= x
<1> DEFINE T == {n - y : y \in S}
<1>1. \A y \in S : y \in 1 .. n /\ n - y \in Nat
  OBVIOUS
<1> HIDE DEF T
<1>2. T \subseteq Nat /\ T # {}
  BY <1>1 DEF T
<1>3. PICK t \in T : \A u \in T : t <= u
  BY <1>2, LeastNatural
<1>4. PICK x \in S : t = n - x
  BY <1>3 DEF T
<1>5. \A y \in S : n - x <= n - y
  BY <1>3, <1>4 DEF T
<1>6. \A y \in S : x \in 1 .. n /\ y \in 1 .. n
  BY <1>4
<1>7. \A y \in S : y <= x
  BY <1>5, <1>6
<1> QED BY <1>4, <1>7

LEMMA GridTypes ==
  ASSUME RevisionAssumption, NEW g \in Grids
  PROVE  /\ Len(g) \in Nat /\ Len(g) > 1
         /\ \A i \in BuyLevels(g) : i \in Nat \ {0} /\ i <= Len(g) - 1 /\ g[i] \in Prices /\ g[i + 1] \in Prices
BY DEF RevisionAssumption, BuyLevels

LEMMA TopInSet ==
  ASSUME RevisionAssumption, NEW r \in Runs, NEW S, S \subseteq BuyLevels(r.grid), S # {}
  PROVE  Top(S) \in S
<1>1. r.grid \in Grids
  BY DEF Runs
<1>2. Len(r.grid) - 1 \in Nat
  BY <1>1, GridTypes
<1>3. \E x \in S : \A y \in S : y <= x
  BY <1>2, GreatestNatural DEF BuyLevels
<1> QED BY <1>3 DEF Top

LEMMA FirstExitExits ==
  ASSUME RevisionAssumption, NEW r \in Runs, Exits(r) # {}
  PROVE  FirstExit(r) \in Exits(r)
<1> DEFINE T == {x.target : x \in Exits(r)}
<1>1. \A x \in Exits(r) : x.target \in Nat
  BY DEF Exits, Runs, Lots, RevisionAssumption, None
<1>2. T \subseteq Nat /\ T # {}
  BY <1>1
<1>3. PICK t \in T : \A u \in T : t <= u
  BY <1>2, LeastNatural
<1>4. \E x \in Exits(r) : \A y \in Exits(r) : x.target <= y.target
  BY <1>3
<1> QED BY <1>4 DEF FirstExit

LEMMA CopyTells ==
  ASSUME Typed, NEW to, DOMAIN to \subseteq Recorded, Copy("", to)
  PROVE  /\ fresh' \in [{"manager", "operator"} -> SUBSET Recorded]
         /\ \A t : t \in fresh'["manager"] <=>
                IF t \in DOMAIN to THEN to[t] \in fresh["manager"] \cup {"now"} ELSE t \in fresh["manager"]
<1>1. fresh \in [{"manager", "operator"} -> SUBSET Recorded]
  BY DEF Typed
<1>2. fresh' = [k \in {"manager", "operator"} |->
         (fresh[k] \ DOMAIN to) \cup {t \in DOMAIN to : to[t] \in fresh[k] \cup {"now"}}]
  BY <1>1 DEF Copy
<1>3. \A k \in {"manager", "operator"} :
        (fresh[k] \ DOMAIN to) \cup {t \in DOMAIN to : to[t] \in fresh[k] \cup {"now"}} \in SUBSET Recorded
  BY <1>1
<1>4. fresh'["manager"] =
        (fresh["manager"] \ DOMAIN to) \cup {t \in DOMAIN to : to[t] \in fresh["manager"] \cup {"now"}}
  BY <1>2
<1> QED BY <1>2, <1>3, <1>4

LEMMA RestartTells ==
  ASSUME Typed, NEW who \in {"manager", "operator"}, Restart(who)
  PROVE  /\ fresh' \in [{"manager", "operator"} -> SUBSET Recorded]
         /\ who = "operator" => fresh'["manager"] = fresh["manager"]
BY DEF Typed, Restart

-----------------------------------------------------------------------------
(* The columns keep their types                                            *)

USE DEF world, rows

LEMMA SignalTypes ==
  ASSUME RevisionAssumption, NEW r \in Runs
  PROVE  /\ Exits(r) # {} =>
              [side |-> "sell", entry |-> FirstExit(r).entry, target |-> FirstExit(r).target] \in Signals
         /\ \A i \in BuyLevels(r.grid) :
              [side |-> "buy", entry |-> r.grid[i], target |-> r.grid[i + 1]] \in Signals
<1>1. ASSUME Exits(r) # {} PROVE FirstExit(r).entry \in Prices /\ FirstExit(r).target \in Prices
  BY <1>1, FirstExitExits DEF Exits, Runs, Lots
<1>2. r.grid \in Grids
  BY DEF Runs
<1> QED BY <1>1, <1>2, GridTypes DEF Signals

LEMMA PendingTypes ==
  ASSUME RevisionAssumption, NEW r \in Runs
  PROVE  /\ Crossed(r) # {} => Top(Crossed(r)) \in Crossed(r)
         /\ Pending(r) # {} => Top(Pending(r)) \in Pending(r)
         /\ \A i \in Crossed(r) \cup Pending(r) : i \in BuyLevels(r.grid) /\ i \in Nat
         /\ StillPending(r) \in Nat
<1>1. Crossed(r) \subseteq BuyLevels(r.grid) /\ Pending(r) \subseteq BuyLevels(r.grid)
  BY DEF Crossed, Pending
<1>2. BuyLevels(r.grid) \subseteq Nat
  BY DEF BuyLevels
<1>3. r.state.pending \in Nat /\ None \in Nat
  BY DEF Runs, Snapshots, None
<1> QED BY <1>1, <1>2, <1>3, TopInSet DEF StillPending

LEMMA NullTypes ==
  ASSUME RevisionAssumption
  PROVE  /\ NoRun \in Runs /\ NoRun.rev = 1 /\ NoRun.at = "off" /\ NoRun.signal = NoAttempt
         /\ Asleep \in Cycles /\ Asleep.at = "asleep"
<1>1. <<>> \in Seq(0 .. LastHour) /\ FirstGrid \in Grids /\ 0 \in 0 .. LastHour
  BY DEF RevisionAssumption
<1> QED BY <1>1 DEF NoRun, Asleep, Runs, Cycles, Snapshots, BandStatuses, None

LEMMA RunObserves ==
  ASSUME NEW r \in Runs, NEW p \in Prices, NEW q \in Prices \cup {None}
  PROVE  LET new == [r EXCEPT !.at = "decide", !.price = p, !.prev = q] IN
         new \in Runs /\ new.rev = r.rev
BY DEF Runs

LEMMA RunTyped ==
  ASSUME RevisionAssumption, Inv, StartRun \/ ReadBot \/ ReadState \/ ReadBand \/ Observe
  PROVE  Typed'
<1> USE DEF Inv
<1>1. CASE StartRun
  <2>1. run' \in Runs /\ run'.rev = 1
    BY <1>1, NullTypes DEF StartRun, Runs
  <2> QED BY <1>1, <2>1 DEF StartRun, Typed
<1>2. CASE ReadBot
  BY <1>2 DEF ReadBot, Typed, Runs
<1>3. CASE ReadState
  <2>1. run' \in Runs /\ run'.rev = run.rev
    BY <1>3 DEF ReadState, Typed, Runs
  <2>2. fresh' \in [{"manager", "operator"} -> SUBSET Recorded]
    BY <1>3, CopyTells DEF ReadState, Recorded
  <2> QED BY <1>3, <2>1, <2>2 DEF ReadState, Typed
<1>4. CASE ReadBand
  <2>1. run' \in Runs /\ run'.rev = band.rev
    BY <1>4 DEF ReadBand, Typed, Runs
  <2> QED BY <1>4, <2>1 DEF ReadBand, Typed
<1>5. CASE Observe
  <2>1. CASE attempt # NoAttempt
    BY <1>5, <2>1 DEF Observe, Typed, Runs
  <2>2. CASE attempt = NoAttempt
    <3>1. run' \in Runs /\ run'.rev = run.rev
      <4>1. run.state.price \in Prices \cup {None} /\ memory.price \in Prices \cup {None}
        BY DEF Typed, Runs, Snapshots
      <4>2. run \in Runs
        BY DEF Typed
      <4> DEFINE q == IF memory.price # None THEN memory.price ELSE run.state.price
      <4>3. PICK price \in Prices : run' = [run EXCEPT !.at = "decide", !.price = price, !.prev = q]
        BY <1>5, <2>2 DEF Observe
      <4>4. q \in Prices \cup {None}
        BY <4>1
      <4> HIDE DEF q
      <4> QED BY <4>1, <4>2, <4>3, <4>4, RunObserves
    <3>2. fresh' \in [{"manager", "operator"} -> SUBSET Recorded]
      BY <1>5, <2>2, CopyTells DEF Observe, Recorded
    <3> QED BY <1>5, <2>2, <3>1, <3>2 DEF Observe, Typed
  <2> QED BY <2>1, <2>2
<1> QED BY <1>1, <1>2, <1>3, <1>4, <1>5

\* A passive write changes the state the run will store, and nothing stored.
LEMMA PassiveTyped ==
  ASSUME RevisionAssumption, Typed, NEW state \in Snapshots, NEW from, WritePassive(state, from)
  PROVE  run' \in Runs /\ run'.rev = run.rev /\ run'.state = state
         /\ fresh' \in [{"manager", "operator"} -> SUBSET Recorded]
<1>1. run' \in Runs /\ run'.rev = run.rev /\ run'.state = state
  BY DEF WritePassive, ToWrite, Typed, Runs
<1>2. fresh' \in [{"manager", "operator"} -> SUBSET Recorded]
  <2> DEFINE to == [t \in {"run pending", "run row"} |-> IF t = "run row" THEN "price" ELSE from]
  <2>1. DOMAIN to \subseteq Recorded
    BY DEF Recorded
  <2>2. Copy("", to)
    BY DEF WritePassive
  <2> HIDE DEF to
  <2> QED BY <2>1, <2>2, CopyTells
<1> QED BY <1>1, <1>2

LEMMA PassiveStates ==
  ASSUME RevisionAssumption, Typed
  PROVE  /\ Passive(run) \in Snapshots
         /\ \A i \in Nat : [run.state EXCEPT !.price = run.price, !.pending = i] \in Snapshots
         /\ [run.state EXCEPT !.price = run.price, !.pending = None, !.baseline = FALSE, !.rev = run.rev] \in Snapshots
         /\ None \in Nat
<1>1. run \in Runs /\ run.state \in Snapshots /\ run.rev \in Nat /\ run.price \in Prices \cup {None}
  BY DEF Typed, Runs
<1>2. StillPending(run) \in Nat /\ None \in Nat
  BY <1>1, PendingTypes DEF None
<1> QED BY <1>1, <1>2 DEF Passive, Snapshots

LEMMA SignalTyped ==
  ASSUME RevisionAssumption, Typed, NEW entry, NEW target, NEW side,
         [side |-> side, entry |-> entry, target |-> target] \in Signals,
         run' = Signal(run, entry, target, side)
  PROVE  run' \in Runs /\ run'.rev = run.rev /\ run'.state = run.state
BY DEF Signal, Typed, Runs

LEMMA DecideTyped == ASSUME RevisionAssumption, Inv, Decide PROVE Typed'
<1> USE DEF Inv
<1>0. run \in Runs
  BY DEF Typed
<1>1. CASE DecidePaused
  BY <1>1, PassiveTyped, PassiveStates DEF DecidePaused, WritePassive, Typed
<1>2. CASE DecideExit
  <2>1. CASE run' = Signal(run, FirstExit(run).entry, FirstExit(run).target, "sell")
             /\ UNCHANGED <<world, rows, lock, manager, observed, log, fresh>>
    <3>1. run' \in Runs /\ run'.rev = run.rev
      BY <1>0, <1>2, <2>1, SignalTypes, SignalTyped DEF DecideExit
    <3> QED BY <1>2, <2>1, <3>1 DEF DecideExit, Typed
  <2>2. CASE QuoteBlocks(None, "price")
    BY <1>2, <2>2, PassiveTyped, PassiveStates DEF DecideExit, QuoteBlocks, WritePassive, Typed
  <2> QED BY <1>2, <2>1, <2>2 DEF DecideExit
<1>3. CASE DecideBaseline
  <2>1. run' \in Runs /\ run'.rev = run.rev /\ fresh' \in [{"manager", "operator"} -> SUBSET Recorded]
    BY <1>3, PassiveTyped, PassiveStates DEF DecideBaseline
  <2>2. memory' \in [price : Prices \cup {None}, rev : Nat] /\ memory'.rev = run.rev
    BY <1>0, <1>3 DEF DecideBaseline, Typed, Runs
  <2> QED BY <1>3, <2>1, <2>2 DEF DecideBaseline, WritePassive, Typed
<1>4. CASE DecideInactive
  BY <1>4, PassiveTyped, PassiveStates DEF DecideInactive, WritePassive, Typed
<1>5. CASE DecideEntry
  <2> DEFINE S == IF Crossed(run) # {} THEN Crossed(run) ELSE Pending(run)
             i == Top(S)
  <2>1. CASE S = {}
    BY <1>5, <2>1, PassiveTyped, PassiveStates DEF DecideEntry, WritePassive, Typed
  <2>2. CASE S # {}
    <3>1. i \in BuyLevels(run.grid) /\ i \in Nat
      BY <1>0, <2>2, PendingTypes
    <3> HIDE DEF i
    <3>2. CASE run' = Signal(run, run.grid[i], run.grid[i + 1], "buy")
               /\ Copy("", [t \in {"price"} |-> KeptPending(run)])
               /\ UNCHANGED <<world, rows, lock, manager, observed, log>>
      <4>1. run' \in Runs /\ run'.rev = run.rev
        BY <1>0, <3>1, <3>2, SignalTypes, SignalTyped
      <4>2. fresh' \in [{"manager", "operator"} -> SUBSET Recorded]
        BY <3>2, CopyTells DEF Recorded
      <4> QED BY <1>5, <3>2, <4>1, <4>2 DEF DecideEntry, Typed
    <3>3. CASE QuoteBlocks(i, KeptPending(run))
      BY <1>5, <3>1, <3>3, PassiveTyped, PassiveStates DEF DecideEntry, QuoteBlocks, WritePassive, Typed
    <3> QED BY <1>5, <2>2, <3>2, <3>3 DEF DecideEntry, i
  <2> QED BY <2>1, <2>2
<1> QED BY <1>1, <1>2, <1>3, <1>4, <1>5 DEF Decide

LEMMA CommitTyped ==
  ASSUME RevisionAssumption, Inv, Write \/ WriteThrottled \/ Prepare \/ Settle \/ Unresolved \/ EndRun
  PROVE  Typed'
<1> USE DEF Inv
<1>0. run \in Runs /\ run.state \in Snapshots /\ NoRun \in Runs /\ NoRun.rev = 1
  BY NullTypes DEF Typed, Runs
<1>1. ASSUME run' = [run EXCEPT !.at = "end"] \/ run' = [run EXCEPT !.at = "resume"]
      PROVE  run' \in Runs /\ run'.rev = run.rev
  BY <1>0, <1>1 DEF Runs
<1>2. CASE Write
  <2>1. run' \in Runs /\ run'.rev = run.rev
    BY <1>1, <1>2 DEF Write
  <2>2. CASE TakesSnapshot(run.state)
    <3>1. fresh' \in [{"manager", "operator"} -> SUBSET Recorded]
      BY <1>2, <2>2, CopyTells DEF Write, Recorded
    <3>2. status' \in {"running", "paused"}
      BY <1>0, <1>2, <2>2 DEF Write, StatusAfter, Typed, Runs
    <3> QED BY <1>0, <1>2, <2>1, <2>2, <3>1, <3>2 DEF Write, Typed
  <2>3. CASE ~TakesSnapshot(run.state)
    BY <1>2, <2>1, <2>3 DEF Write, Typed
  <2> QED BY <2>2, <2>3
<1>3. CASE WriteThrottled
  BY <1>1, <1>3 DEF WriteThrottled, Typed
<1>4. CASE Prepare
  <2>1. run' \in Runs /\ run'.rev = run.rev
    BY <1>1, <1>4 DEF Prepare
  <2>2. attempt' \in Signals \cup {NoAttempt}
    BY <1>0, <1>4 DEF Prepare, Typed, Runs
  <2> QED BY <1>4, <2>1, <2>2 DEF Prepare, Typed
<1>5. CASE Settle
  <2>1. run' \in Runs /\ run'.rev = run.rev
    BY <1>1, <1>5 DEF Settle
  <2>2. attempt \in Signals
    BY <1>5 DEF Settle, Fill, Fails, RunReads, Typed
  <2>3. lots' \subseteq Lots
    <3>1. [entry |-> attempt.entry, target |-> attempt.target] \in Lots
      BY <2>2 DEF Signals, Lots
    <3>2. lots \subseteq Lots
      BY DEF Typed
    <3> QED BY <1>5, <3>1, <3>2 DEF Settle, Fill, Fails
  <2>4. snapshot' \in Snapshots
    BY <1>0, <1>5, <2>2 DEF Settle, Snapshots, Signals, Runs, None
  <2>5. fresh' \in [{"manager", "operator"} -> SUBSET Recorded]
    BY <1>5, CopyTells DEF Settle, Recorded
  <2> QED BY <1>5, <2>1, <2>3, <2>4, <2>5 DEF Settle, Typed
<1>6. CASE Unresolved
  BY <1>1, <1>6 DEF Unresolved, Typed
<1>7. CASE EndRun
  BY <1>0, <1>7 DEF EndRun, Typed
<1> QED BY <1>2, <1>3, <1>4, <1>5, <1>6, <1>7

LEMMA HoursOf ==
  ASSUME NEW S, NEW seq \in Seq(S)
  PROVE  \A i \in 1 .. Len(seq) : seq[i] \in S
OBVIOUS

LEMMA CycleTyped ==
  ASSUME RevisionAssumption, Inv, ManagerStep
  PROVE  Typed'
<1> USE DEF Inv
<1>0. manager \in Cycles /\ Asleep \in Cycles
  BY NullTypes DEF Typed
<1>1. CASE WakeUp
  <2>1. revised[band.rev] \in 0 .. LastHour
    <3>1. band.rev \in 1 .. Len(revised) /\ revised \in Seq(0 .. LastHour)
      BY DEF Typed
    <3> QED BY <3>1, HoursOf
  <2>2. manager' \in Cycles
    BY <1>0, <1>1, <2>1 DEF WakeUp, Cycles, Typed
  <2> QED BY <1>1, <2>2 DEF WakeUp, SleepsOn, Typed
<1>2. CASE ReadForPolicy
  <2>1. snapshot.history \in Seq(0 .. LastHour)
    BY DEF Typed, Snapshots
  <2>2. manager' \in Cycles
    BY <1>0, <1>2, <2>1 DEF ReadForPolicy, Manage, Cycles
  <2> QED BY <1>2, <2>2 DEF ReadForPolicy, Manage, Typed
<1>3. CASE Evaluate
  <2>1. PICK price \in Prices : \E a \in Actions(manager, price, lots) :
          manager' = [manager EXCEPT !.at = "apply", !.lots = lots, !.action = a]
    BY <1>3 DEF Evaluate, Manage
  <2>2. PICK a \in Actions(manager, price, lots) :
          manager' = [manager EXCEPT !.at = "apply", !.lots = lots, !.action = a]
    BY <2>1
  <2>3. a \in {"wait", "reactivate", "revise", "park", "create_band"}
    BY DEF Actions
  <2>4. manager' \in Cycles
    BY <1>0, <2>2, <2>3 DEF Cycles, Typed
  <2> QED BY <1>3, <2>4 DEF Evaluate, Manage, Typed
<1>4. ASSUME Applied PROVE manager' \in Cycles
  BY <1>0, <1>4 DEF Applied, Cycles
<1>5. CASE Revise
  <2>1. PICK g \in Grids : band' = [status |-> "ACTIVE", rev |-> Len(revised) + 1, grid |-> g]
    BY <1>5 DEF Revise
  <2>2. manager.hour \in 0 .. LastHour
    BY <1>0 DEF Cycles
  <2>3. revised' \in Seq(0 .. LastHour) /\ Len(revised') = Len(revised) + 1 /\ Len(revised) \in Nat
    BY <1>5, <2>2 DEF Revise, Typed
  <2>4. snapshot' \in Snapshots
    <3>1. snapshot.history \in Seq(0 .. LastHour) /\ snapshot \in Snapshots
      BY DEF Typed, Snapshots
    <3>2. Append(snapshot.history, manager.hour) \in Seq(0 .. LastHour)
      BY <2>2, <3>1
    <3>3. Len(revised) + 1 \in Nat /\ None \in Nat
      BY <2>3 DEF None
    <3> QED BY <1>5, <3>1, <3>2, <3>3 DEF Revise, Snapshots
  <2>5. fresh' \in [{"manager", "operator"} -> SUBSET Recorded]
    BY <1>5, RestartTells DEF Revise
  <2>6. band' \in [status : BandStatuses, rev : Nat \ {0}, grid : Grids] /\ band'.rev = Len(revised') /\ band'.rev > band.rev
    BY <2>1, <2>3 DEF Typed, BandStatuses
  <2>7. memory.rev <= band'.rev /\ run.rev <= band'.rev
    BY <2>6 DEF Typed, Runs
  <2> QED BY <1>4, <1>5, <2>3, <2>4, <2>5, <2>6, <2>7 DEF Revise, Applied, Typed
<1>6. CASE ParkOrReactivate
  <2>1. snapshot' \in Snapshots
    BY <1>6 DEF ParkOrReactivate, ParkedSnapshot, Typed, Snapshots, None
  <2>2. fresh' \in [{"manager", "operator"} -> SUBSET Recorded]
    BY <1>6, RestartTells DEF ParkOrReactivate
  <2>3. band' \in [status : BandStatuses, rev : Nat \ {0}, grid : Grids] /\ band'.rev = band.rev
    BY <1>6 DEF ParkOrReactivate, Typed, BandStatuses
  <2> QED BY <1>4, <1>6, <2>1, <2>2, <2>3 DEF ParkOrReactivate, Applied, Typed
<1>7. CASE CreateBand
  <2>1. band' \in [status : BandStatuses, rev : Nat \ {0}, grid : Grids] /\ band'.rev = band.rev
    BY <1>7 DEF CreateBand, Typed, BandStatuses
  <2> QED BY <1>4, <1>7, <2>1 DEF CreateBand, Applied, Typed
<1>8. CASE Nothing
  <2>1. manager' \in Cycles
    BY <1>0, <1>8 DEF Nothing, Manage, Cycles
  <2> QED BY <1>8, <2>1 DEF Nothing, Manage, Typed
<1>9. CASE Refused
  BY <1>0, <1>9 DEF Refused, Manage, Typed
<1>10. CASE Record
  <2>1. manager.hour \in -1 .. LastHour
    BY <1>0 DEF Cycles
  <2> QED BY <1>0, <1>10, <2>1 DEF Record, Typed
<1> QED BY <1>1, <1>2, <1>3, <1>5, <1>6, <1>7, <1>8, <1>9, <1>10 DEF ManagerStep

LEMMA WorldTyped ==
  ASSUME RevisionAssumption, Inv, Pause \/ Resume \/ NextHour \/ LoseLock \/ Crash
  PROVE  Typed'
<1> USE DEF Inv
<1>0. {MaxLosses, MaxCrashes, MaxOrders} \subseteq Nat
  BY DEF RevisionAssumption
<1> DEFINE Faults == [losses : 0 .. MaxLosses, crashes : 0 .. MaxCrashes, orders : 0 .. MaxOrders]
<1>1. ASSUME Order PROVE faults' \in Faults
  <2>1. faults \in Faults /\ faults.orders > 0
    BY <1>1 DEF Order, Typed
  <2>2. faults.orders - 1 \in 0 .. MaxOrders
    BY <1>0, <2>1
  <2> QED BY <1>1, <2>1, <2>2 DEF Order
<1>2. CASE Pause
  <2>1. faults' \in Faults
    BY <1>2, <1>1 DEF Pause
  <2> QED BY <1>2, <2>1 DEF Pause, Typed
<1>3. CASE Resume
  <2>1. snapshot' \in Snapshots
    BY <1>3 DEF Resume, Typed, Snapshots, None
  <2>2. fresh' \in [{"manager", "operator"} -> SUBSET Recorded]
    BY <1>3, RestartTells DEF Resume
  <2>3. faults' \in Faults
    BY <1>3, <1>1 DEF Resume
  <2> QED BY <1>3, <2>1, <2>2, <2>3 DEF Resume, Typed
<1>5. CASE NextHour
  BY <1>5 DEF NextHour, Typed, RevisionAssumption
<1>6. CASE LoseLock
  <2>1. faults \in Faults /\ faults.losses > 0
    BY <1>6 DEF LoseLock, Typed
  <2>2. faults.losses - 1 \in 0 .. MaxLosses
    BY <1>0, <2>1
  <2>3. faults' \in Faults
    BY <1>6, <2>1, <2>2 DEF LoseLock
  <2> QED BY <1>6, <2>3 DEF LoseLock, Typed
<1>7. CASE Crash
  <2>1. NoRun \in Runs /\ NoRun.rev = 1 /\ Asleep \in Cycles
    BY NullTypes
  <2>2. -1 \in -1 .. LastHour
    BY DEF RevisionAssumption
  <2>3. memory' \in [price : Prices \cup {None}, rev : Nat] /\ memory'.rev = None
    BY <1>7 DEF Crash, None
  <2>4. faults \in Faults /\ faults.crashes > 0
    BY <1>7 DEF Crash, Typed
  <2>5. faults.crashes - 1 \in 0 .. MaxCrashes
    BY <1>0, <2>4
  <2>6. faults' \in Faults
    BY <1>7, <2>4, <2>5 DEF Crash
  <2> QED BY <1>7, <2>1, <2>2, <2>3, <2>6 DEF Crash, Typed, None
<1> QED BY <1>2, <1>3, <1>5, <1>6, <1>7

LEMMA TypesHold == ASSUME RevisionAssumption, Inv, [Next]_vars PROVE Typed'
<1>1. CASE UNCHANGED vars
  BY <1>1 DEF vars, Inv, Typed
<1> QED BY <1>1, RunTyped, DecideTyped, CommitTyped, CycleTyped, WorldTyped DEF Next, RunStep

-----------------------------------------------------------------------------
(* What the run and the cycle rely on, with or without the lock            *)

\* A run moves no grid and tells the manager of every lot it adds or ends.
LEMMA RunMoves ==
  ASSUME RunStep
  PROVE  /\ UNCHANGED <<band, revised, manager, hour, observed, log, faults>>
         /\ newest' \ {"run"} \subseteq newest
         /\ newest' = {} \/ UNCHANGED lots
<1>1. ASSUME Decide PROVE UNCHANGED <<rows, world, manager, observed, log>>
  BY <1>1 DEF Decide, DecidePaused, DecideExit, DecideBaseline, DecideInactive, DecideEntry, QuoteBlocks, WritePassive
<1>2. CASE StartRun \/ ReadBot \/ ReadState \/ ReadBand \/ Observe \/ Decide
  BY <1>1, <1>2 DEF StartRun, ReadBot, ReadState, ReadBand, Observe
<1>3. CASE Write \/ WriteThrottled \/ Prepare \/ Settle \/ Unresolved \/ EndRun
  BY <1>3 DEF Write, WriteThrottled, Prepare, Settle, Unresolved, EndRun
<1> QED BY <1>2, <1>3 DEF RunStep

\* The manager leaves the run alone, and moves the grid only while no attempt
\* is pending; whoever has read the snapshot then starts again.
LEMMA CycleMoves ==
  ASSUME Typed, ManagerStep
  PROVE  /\ UNCHANGED <<hour, faults, status, lots, attempt, lock, memory, run>>
         /\ newest' \ {"manager"} \subseteq newest
         /\ newest' = {} \/ UNCHANGED snapshot
         /\ UNCHANGED <<band, revised, snapshot, fresh>> \/ MayApply
         /\ (UNCHANGED revised /\ band'.rev = band.rev /\ band'.grid = band.grid) \/ Revise
<1>1. CASE WakeUp \/ ReadForPolicy \/ Evaluate \/ Nothing \/ Refused \/ Record
  BY <1>1 DEF WakeUp, SleepsOn, ReadForPolicy, Evaluate, Nothing, Refused, Record, Manage
<1>2. CASE Revise
  BY <1>2 DEF Revise, Applies, Applied
<1>3. CASE ParkOrReactivate \/ CreateBand
  BY <1>3 DEF ParkOrReactivate, CreateBand, Applies, Applied, Typed
<1> QED BY <1>1, <1>2, <1>3 DEF ManagerStep

LEMMA OperatorMoves ==
  ASSUME Pause \/ Resume \/ NextHour \/ LoseLock \/ Crash
  PROVE  /\ UNCHANGED <<band, revised, lots, attempt>>
         /\ newest' = {} \/ UNCHANGED <<snapshot, newest>>
         /\ UNCHANGED run \/ (run' = NoRun /\ UNCHANGED snapshot)
         /\ UNCHANGED manager \/ manager' = Asleep
         /\ UNCHANGED snapshot \/ Resume
<1>1. CASE Pause \/ NextHour \/ LoseLock
  BY <1>1 DEF Pause, NextHour, LoseLock
<1>2. CASE Resume
  <2>1. newest' = {} /\ UNCHANGED <<band, revised, lots, attempt, run, manager>>
    BY <1>2 DEF Resume
  <2> QED BY <1>2, <2>1
<1>3. CASE Crash
  BY <1>3 DEF Crash
<1> QED BY <1>1, <1>2, <1>3

LEMMA NamesStep == ASSUME RevisionAssumption, Inv, [Next]_vars PROVE SnapshotNamesRevision'
<1> USE DEF Inv, SnapshotNamesRevision
<1>0. run.state \in Snapshots /\ snapshot \in Snapshots
  BY DEF Typed, Runs
<1>1. CASE UNCHANGED vars
  BY <1>1 DEF vars
<1>2. CASE RunStep
  <2>1. CASE Write
    BY <2>1 DEF Write, TakesSnapshot
  <2>2. CASE Settle
    <3>1. run.state.rev = band.rev
      BY <2>2 DEF Settle, Fill, Fails, RunReads
    <3> QED BY <1>0, <2>2, <3>1 DEF Settle, Snapshots
  <2>3. ASSUME Decide PROVE UNCHANGED snapshot
    BY <2>3 DEF Decide, DecidePaused, DecideExit, DecideBaseline, DecideInactive, DecideEntry, QuoteBlocks, WritePassive
  <2>4. CASE ~Write /\ ~Settle
    BY <1>2, <2>3, <2>4, RunMoves DEF RunStep, StartRun, ReadBot, ReadState, ReadBand, Observe, WriteThrottled,
                                      Prepare, Unresolved, EndRun
  <2> QED BY <2>1, <2>2, <2>4
<1>3. CASE ManagerStep
  <2>1. CASE Revise
    BY <1>0, <2>1 DEF Revise, Snapshots
  <2>2. CASE ParkOrReactivate
    BY <1>0, <2>2 DEF ParkOrReactivate, ParkedSnapshot, Snapshots, Typed
  <2>3. CASE CreateBand
    BY <2>3 DEF CreateBand, Typed
  <2>4. CASE WakeUp \/ ReadForPolicy \/ Evaluate \/ Nothing \/ Refused \/ Record
    BY <2>4 DEF WakeUp, SleepsOn, ReadForPolicy, Evaluate, Nothing, Refused, Record, Manage
  <2> QED BY <1>3, <2>1, <2>2, <2>3, <2>4 DEF ManagerStep
<1>4. CASE Pause \/ Resume \/ NextHour \/ LoseLock \/ Crash
  <2>1. CASE Resume
    BY <1>0, <2>1 DEF Resume, Snapshots
  <2> QED BY <1>4, <2>1, OperatorMoves
<1> QED BY <1>1, <1>2, <1>3, <1>4 DEF Next

\* Steps that leave the run and what it read alone.
LEMMA ReadsStay ==
  ASSUME Inv, UNCHANGED <<run, attempt>>, newest' \ {"manager"} \subseteq newest,
         newest' = {} \/ UNCHANGED snapshot, attempt = NoAttempt \/ band'.rev = band.rev
  PROVE  RunReads'
BY DEF Inv, RunReads

LEMMA RunReadsStep == ASSUME RevisionAssumption, Inv, [Next]_vars PROVE RunReads'
<1> USE DEF Inv
<1>0. run \in Runs /\ NoRun.at = "off" /\ SnapshotNamesRevision
  BY NullTypes DEF Typed
<1>1. CASE UNCHANGED vars
  BY <1>1, ReadsStay DEF vars
<1>2. CASE RunStep
  <2>1. CASE StartRun
    BY <1>0, <2>1, NullTypes DEF StartRun, RunReads, Runs
  <2>2. CASE ReadBot
    BY <1>0, <2>2 DEF ReadBot, RunReads, Runs
  <2>3. CASE ReadState
    BY <1>0, <2>3 DEF ReadState, RunReads, Runs, SnapshotNamesRevision
  <2>4. CASE ReadBand
    BY <1>0, <2>4 DEF ReadBand, RunReads, Runs
  <2>5. CASE Observe
    BY <1>0, <2>5 DEF Observe, RunReads, Runs
  <2>6. CASE Decide
    <3>1. attempt = NoAttempt /\ UNCHANGED rows /\ run.at = "decide"
      BY <2>6 DEF Decide, DecidePaused, DecideExit, DecideBaseline, DecideInactive, DecideEntry, Trading,
                  QuoteBlocks, WritePassive, RunReads
    <3>2. \/ run'.at = "write"
          \/ /\ run'.at = "prepare" /\ run'.signal.side \in {"buy", "sell"} /\ run'.state = run.state
      <4>1. ASSUME NEW state, run' = ToWrite(run, state) PROVE run'.at = "write"
        BY <1>0, <4>1 DEF ToWrite, Runs
      <4>2. ASSUME NEW entry, NEW target, NEW side, run' = Signal(run, entry, target, side)
            PROVE  run'.at = "prepare" /\ run'.signal.side = side /\ run'.state = run.state
        BY <1>0, <4>2 DEF Signal, Runs
      <4>3. CASE DecidePaused \/ DecideBaseline \/ DecideInactive
        BY <4>1, <4>3 DEF DecidePaused, DecideBaseline, DecideInactive, WritePassive
      <4>4. CASE DecideExit \/ DecideEntry
        BY <4>1, <4>2, <4>4 DEF DecideExit, DecideEntry, QuoteBlocks, WritePassive
      <4> QED BY <2>6, <4>3, <4>4 DEF Decide
    <3>3. NoAttempt.side = "none"
      BY DEF NoAttempt
    <3> QED BY <3>1, <3>2, <3>3 DEF RunReads
  <2>7. CASE Write \/ WriteThrottled \/ Unresolved
    BY <1>0, <2>7 DEF Write, WriteThrottled, Unresolved, RunReads, Runs
  <2>8. CASE Prepare
    BY <1>0, <2>8 DEF Prepare, MayPrepare, RunReads, Runs, SnapshotNamesRevision
  <2>9. CASE Settle
    BY <1>0, <2>9 DEF Settle, RunReads, Runs
  <2>10. CASE EndRun
    BY <1>0, <2>10 DEF EndRun, RunReads
  <2> QED BY <1>2, <2>1, <2>2, <2>3, <2>4, <2>5, <2>6, <2>7, <2>8, <2>9, <2>10 DEF RunStep
<1>3. CASE ManagerStep
  <2>1. attempt = NoAttempt \/ band'.rev = band.rev
    BY <1>3, CycleMoves DEF MayApply
  <2> QED BY <1>3, <2>1, CycleMoves, ReadsStay
<1>4. CASE Pause \/ Resume \/ NextHour \/ LoseLock \/ Crash
  <2>1. CASE UNCHANGED run
    BY <1>4, <2>1, OperatorMoves, ReadsStay
  <2>2. CASE run' = NoRun
    BY <1>0, <2>2 DEF RunReads
  <2> QED BY <1>4, <2>1, <2>2, OperatorMoves
<1> QED BY <1>1, <1>2, <1>3, <1>4 DEF Next

\* Steps that leave the cycle and what it read alone.
LEMMA CycleStays ==
  ASSUME Inv, UNCHANGED <<band, revised, manager>>, newest' \ {"run"} \subseteq newest,
         newest' = {} \/ UNCHANGED lots
  PROVE  CycleReads'
BY DEF Inv, CycleReads, Cooled, RevisionsToday

LEMMA CycleReadsStep == ASSUME RevisionAssumption, Inv, [Next]_vars PROVE CycleReads'
<1> USE DEF Inv
<1>0. manager \in Cycles /\ band.rev \in Nat \ {0} /\ Len(revised) = band.rev /\ revised \in Seq(0 .. LastHour)
  BY DEF Typed
<1>1. CASE UNCHANGED vars
  BY <1>1, CycleStays DEF vars
<1>2. CASE RunStep
  BY <1>2, RunMoves, CycleStays
<1>3. ASSUME manager' = Asleep PROVE CycleReads'
  BY <1>3, NullTypes DEF CycleReads
<1>4. CASE Pause \/ Resume \/ NextHour \/ LoseLock \/ Crash
  BY <1>3, <1>4, OperatorMoves, CycleStays
<1>5. CASE ManagerStep
  <2>1. CASE WakeUp
    <3>1. manager'.at = "bot" /\ manager'.rev = band.rev /\ manager'.since = revised[band.rev]
      BY <2>1 DEF WakeUp, Asleep
    <3> QED BY <1>0, <2>1, <3>1 DEF WakeUp, SleepsOn, CycleReads
  <2>2. CASE ReadForPolicy
    <3>1. \/ manager' = Asleep
          \/ manager'.at = "peers" /\ manager'.rev = manager.rev /\ manager'.since = manager.since
      <4>1. ASSUME NEW h, manager' = [manager EXCEPT !.at = "peers", !.history = h]
            PROVE  manager'.at = "peers" /\ manager'.rev = manager.rev /\ manager'.since = manager.since
        BY <1>0, <4>1 DEF Cycles
      <4>2. CASE status = "paused"
        BY <2>2, <4>2 DEF ReadForPolicy, Manage
      <4>3. CASE status # "paused"
        <5>1. manager' = [manager EXCEPT !.at = "peers", !.history = snapshot.history]
          BY <2>2, <4>3 DEF ReadForPolicy, Manage
        <5> QED BY <4>1, <5>1
      <4> QED BY <4>2, <4>3
    <3> QED BY <1>3, <2>2, <3>1 DEF ReadForPolicy, Manage, CycleReads
  <2>3. CASE Evaluate
    <3>1. PICK price \in Prices : \E a \in Actions(manager, price, lots) :
            manager' = [manager EXCEPT !.at = "apply", !.lots = lots, !.action = a]
      BY <2>3 DEF Evaluate, Manage
    <3>2. PICK a \in Actions(manager, price, lots) :
            manager' = [manager EXCEPT !.at = "apply", !.lots = lots, !.action = a]
      BY <3>1
    <3>3. a = "revise" => Cooled(manager)
      BY DEF Actions
    <3>4. /\ manager'.at = "apply" /\ manager'.action = a /\ manager'.lots = lots
          /\ manager'.rev = manager.rev /\ manager'.since = manager.since
          /\ manager'.hour = manager.hour /\ manager'.history = manager.history
      BY <1>0, <3>2 DEF Cycles
    <3>5. Cooled(manager) => Cooled(manager')
      BY <3>4 DEF Cooled, RevisionsToday
    <3>6. manager.at = "peers" /\ UNCHANGED <<band, revised, lots>>
      BY <2>3 DEF Evaluate, Manage
    <3>7. Cooled(manager)' <=> Cooled(manager')
      BY DEF Cooled, RevisionsToday
    <3> QED BY <3>3, <3>4, <3>5, <3>6, <3>7 DEF CycleReads
  <2>4. CASE Revise \/ ParkOrReactivate \/ CreateBand \/ Nothing
    <3>1. manager.at = "apply" /\ manager'.at = "record" /\ manager'.rev = manager.rev /\ manager'.since = manager.since
      BY <1>0, <2>4 DEF Revise, ParkOrReactivate, CreateBand, Nothing, Applies, Applied, Manage, Cycles
    <3>2. CASE Revise
      <4>1. revised' = Append(revised, manager.hour) /\ band'.rev = Len(revised) + 1
        BY <3>2 DEF Revise
      <4>2. manager.rev \in 1 .. band.rev /\ manager.since = revised[manager.rev]
        BY <3>1 DEF CycleReads
      <4>3. revised'[manager.rev] = revised[manager.rev] /\ manager.rev \in 1 .. band'.rev
        BY <1>0, <4>1, <4>2
      <4> QED BY <3>1, <4>2, <4>3 DEF CycleReads
    <3>3. CASE ParkOrReactivate \/ CreateBand \/ Nothing
      <4>1. UNCHANGED revised /\ band'.rev = band.rev
        BY <3>3 DEF ParkOrReactivate, CreateBand, Nothing, Manage, Typed
      <4> QED BY <3>1, <4>1 DEF CycleReads
    <3> QED BY <2>4, <3>2, <3>3
  <2>5. CASE Refused \/ Record
    BY <1>3, <2>5 DEF Refused, Record, Manage
  <2> QED BY <1>5, <2>1, <2>2, <2>3, <2>4, <2>5 DEF ManagerStep
<1> QED BY <1>1, <1>2, <1>4, <1>5 DEF Next

\* A revision follows the one it was computed from, at least a cooldown later.
LEMMA SpacedStep == ASSUME RevisionAssumption, Inv, [Next]_vars PROVE RevisionsSpaced'
<1> USE DEF Inv
<1>1. CASE UNCHANGED revised
  BY <1>1 DEF RevisionsSpaced
<1>2. CASE Revise
  <2>1. revised' = Append(revised, manager.hour) /\ revised \in Seq(0 .. LastHour) /\ Len(revised) = band.rev
    BY <1>2 DEF Revise, Typed
  <2>2. manager.at = "apply" /\ manager.action = "revise" /\ band.rev = manager.rev
    BY <1>2 DEF Revise, Applies, MayApply, SeenStill
  <2>3. manager.hour - revised[Len(revised)] >= Cooldown
    BY <2>1, <2>2 DEF CycleReads, Cooled
  <2>4. Len(revised) \in Nat /\ Len(revised') = Len(revised) + 1 /\ revised'[Len(revised) + 1] = manager.hour
    BY <2>1
  <2>5. \A i \in 1 .. Len(revised) : revised'[i] = revised[i]
    BY <2>1
  <2>6. ASSUME NEW i \in 1 .. Len(revised') - 1 PROVE revised'[i + 1] - revised'[i] >= Cooldown
    <3>1. CASE i = Len(revised)
      BY <2>3, <2>4, <2>5, <3>1
    <3>2. CASE i # Len(revised)
      <4>1. i \in 1 .. Len(revised) - 1 /\ i + 1 \in 1 .. Len(revised)
        BY <2>4, <2>6, <3>2
      <4> QED BY <2>5, <4>1 DEF RevisionsSpaced
    <3> QED BY <3>1, <3>2
  <2> QED BY <2>6 DEF RevisionsSpaced
<1>3. UNCHANGED revised \/ Revise
  BY RunMoves, CycleMoves, OperatorMoves DEF Next, vars
<1> QED BY <1>1, <1>2, <1>3

LEMMA InvInit == ASSUME RevisionAssumption, Init PROVE Inv
<1>1. 0 \in 0 .. LastHour /\ FirstGrid \in Grids /\ <<>> \in Seq(0 .. LastHour) /\ <<0>> \in Seq(0 .. LastHour)
  BY DEF RevisionAssumption
<1>2. snapshot \in Snapshots
  BY <1>1 DEF Init, Snapshots, None
<1>3. NoRun \in Runs /\ NoRun.rev = 1 /\ NoRun.at = "off" /\ Asleep \in Cycles /\ Asleep.at = "asleep"
  BY NullTypes
<1>4. Typed
  <2>1. memory \in [price : Prices \cup {None}, rev : Nat] /\ memory.rev <= band.rev
    BY DEF Init, None
  <2>2. band \in [status : BandStatuses, rev : Nat \ {0}, grid : Grids]
    BY <1>1 DEF Init, BandStatuses
  <2>3. fresh \in [{"manager", "operator"} -> SUBSET Recorded]
    BY DEF Init
  <2>4. faults \in [losses : 0 .. MaxLosses, crashes : 0 .. MaxCrashes, orders : 0 .. MaxOrders]
    BY DEF Init, RevisionAssumption
  <2>5. observed \in -1 .. LastHour /\ log \in -1 .. LastHour
    BY DEF Init, RevisionAssumption
  <2> QED BY <1>1, <1>2, <1>3, <2>1, <2>2, <2>3, <2>4, <2>5 DEF Init, Typed
<1>5. SnapshotNamesRevision /\ RunReads /\ CycleReads
  BY <1>3 DEF Init, SnapshotNamesRevision, RunReads, CycleReads
<1>6. RevisionsSpaced
  BY DEF Init, RevisionsSpaced
<1> QED BY <1>4, <1>5, <1>6 DEF Inv

THEOREM InvHolds == ASSUME RevisionAssumption PROVE Spec => []Inv
<1>1. Init => Inv
  BY InvInit
<1>2. Inv /\ [Next]_vars => Inv'
  BY TypesHold, NamesStep, RunReadsStep, CycleReadsStep, SpacedStep DEF Inv
<1> QED BY <1>1, <1>2, PTL DEF Spec

\* The newest snapshot belongs to the newest revision and revisions keep their
\* distance, whoever lost the lock, died or decided twice.
THEOREM SnapshotAlwaysNamesRevision == ASSUME RevisionAssumption PROVE Spec => []SnapshotNamesRevision
<1>1. Inv => SnapshotNamesRevision
  BY DEF Inv
<1> QED BY <1>1, InvHolds, PTL

THEOREM RevisionsStaySpaced == ASSUME RevisionAssumption PROVE Spec => []RevisionsSpaced
<1>1. Inv => RevisionsSpaced
  BY DEF Inv
<1> QED BY <1>1, InvHolds, PTL

\* No decision is applied to a band whose lots changed since it was computed.
THEOREM AlwaysAppliedToLotsSeen == ASSUME RevisionAssumption PROVE Spec => [][AppliedToLotsSeen]_vars
<1>1. ASSUME Inv, Next PROVE AppliedToLotsSeen
  <2> USE <1>1 DEF Inv
  <2> SUFFICES ASSUME manager.at = "apply", manager'.at = "record", manager.action # "wait"
               PROVE  lots = manager.lots
    BY DEF AppliedToLotsSeen
  <2>1. manager' # manager /\ manager'.at # "asleep"
    OBVIOUS
  <2>2. ManagerStep
    BY <2>1, RunMoves, OperatorMoves, NullTypes DEF Next
  <2>3. MayApply
    <3>1. ~ (WakeUp \/ ReadForPolicy \/ Evaluate \/ Nothing \/ Record)
      BY DEF WakeUp, ReadForPolicy, Evaluate, Nothing, Record
    <3>2. ~ Refused
      BY <2>1, NullTypes DEF Refused, Manage
    <3>3. Revise \/ ParkOrReactivate \/ CreateBand => MayApply
      BY DEF Revise, ParkOrReactivate, CreateBand, Applies
    <3> QED BY <2>2, <3>1, <3>2, <3>3 DEF ManagerStep
  <2> QED BY <2>3 DEF MayApply, SeenStill, CycleReads
<1> QED BY <1>1, InvHolds, PTL DEF Spec

-----------------------------------------------------------------------------
(* Under the lock: the grid, the pending signal and the history            *)

\* A signal's level belongs to the grid it was computed on.
LEMMA LevelTypes ==
  ASSUME RevisionAssumption, NEW g \in Grids
  PROVE  None \in Levels(g) /\ BuyLevels(g) \subseteq Levels(g)
BY GridTypes DEF Levels, BuyLevels, None

LEMMA PendingLevels ==
  ASSUME RevisionAssumption, NEW r \in Runs, r.state.pending \in Levels(r.grid)
  PROVE  StillPending(r) \in Levels(r.grid)
<1>1. r.grid \in Grids
  BY DEF Runs
<1> QED BY <1>1, PendingTypes, LevelTypes DEF StillPending

\* What a decision leaves in the state that the run will write.
LEMMA DecisionState ==
  ASSUME RevisionAssumption, LockInv, Decide
  PROVE  /\ run'.at \in {"write", "prepare"} /\ run'.grid = run.grid /\ run'.rev = run.rev
         /\ run'.state.rev = run.state.rev \/ run'.state.rev = run.rev
         /\ run'.state.history = run.state.history
         /\ run'.state.pending \in Levels(run.grid)
<1>0. run \in Runs /\ run.state \in Snapshots /\ run.grid \in Grids /\ run.state.pending \in Levels(run.grid)
  BY DEF LockInv, Inv, Typed, Runs, RunFollows, Decide, DecidePaused, DecideExit, DecideBaseline, DecideInactive,
         DecideEntry, Trading
<1>1. None \in Levels(run.grid) /\ BuyLevels(run.grid) \subseteq Levels(run.grid) /\ StillPending(run) \in Levels(run.grid)
  BY <1>0, LevelTypes, PendingLevels
<1>2. ASSUME NEW state, NEW from, WritePassive(state, from)
      PROVE  run'.at = "write" /\ run'.grid = run.grid /\ run'.rev = run.rev /\ run'.state = state
  BY <1>0, <1>2 DEF WritePassive, ToWrite, Runs
<1>3. ASSUME NEW entry, NEW target, NEW side, run' = Signal(run, entry, target, side)
      PROVE  run'.at = "prepare" /\ run'.grid = run.grid /\ run'.rev = run.rev /\ run'.state = run.state
  BY <1>0, <1>3 DEF Signal, Runs
<1>4. ASSUME NEW i \in Levels(run.grid), NEW from, QuoteBlocks(i, from)
      PROVE  /\ run'.at = "write" /\ run'.grid = run.grid /\ run'.rev = run.rev
             /\ run'.state.rev = run.state.rev /\ run'.state.history = run.state.history
             /\ run'.state.pending \in Levels(run.grid)
  <2> DEFINE state == [run.state EXCEPT !.price = run.price, !.pending = i]
  <2>1. state.rev = run.state.rev /\ state.history = run.state.history /\ state.pending = i
    BY <1>0 DEF Snapshots
  <2>2. WritePassive(state, from)
    BY <1>4 DEF QuoteBlocks
  <2> HIDE DEF state
  <2> QED BY <1>2, <1>4, <2>1, <2>2
<1>5. Passive(run).rev = run.state.rev /\ Passive(run).history = run.state.history
      /\ Passive(run).pending \in Levels(run.grid)
  BY <1>0, <1>1 DEF Passive, Snapshots
<1>6. CASE DecidePaused
  BY <1>2, <1>5, <1>6 DEF DecidePaused
<1>7. CASE DecideExit
  BY <1>0, <1>1, <1>3, <1>4, <1>7 DEF DecideExit
<1>8. CASE DecideBaseline
  <2> DEFINE state == [run.state EXCEPT !.price = run.price, !.pending = None, !.baseline = FALSE, !.rev = run.rev]
  <2>1. state.rev = run.rev /\ state.history = run.state.history /\ state.pending = None
    BY <1>0 DEF Snapshots
  <2>2. WritePassive(state, "price")
    BY <1>8 DEF DecideBaseline
  <2> HIDE DEF state
  <2> QED BY <1>1, <1>2, <2>1, <2>2
<1>9. CASE DecideInactive
  BY <1>1, <1>4, <1>9 DEF DecideInactive, QuoteBlocks
<1>10. CASE DecideEntry
  <2> DEFINE S == IF Crossed(run) # {} THEN Crossed(run) ELSE Pending(run)
             i == Top(S)
  <2>1. CASE S = {}
    BY <1>2, <1>5, <1>10, <2>1 DEF DecideEntry
  <2>2. CASE S # {}
    <3>1. i \in Levels(run.grid)
      BY <1>0, <1>1, <2>2, PendingTypes
    <3> HIDE DEF i
    <3>2. \/ run' = Signal(run, run.grid[i], run.grid[i + 1], "buy")
          \/ QuoteBlocks(i, KeptPending(run))
      BY <1>10, <2>2 DEF DecideEntry, i
    <3> QED BY <1>0, <1>3, <1>4, <3>1, <3>2
  <2> QED BY <2>1, <2>2
<1> QED BY <1>6, <1>7, <1>8, <1>9, <1>10 DEF Decide

LEMMA LockStep ==
  ASSUME RevisionAssumption, LockInv, [Next]_vars, ~LoseLock
  PROVE  LockIsRun'
<1> USE DEF LockInv, Inv, LockIsRun
<1>0. run \in Runs
  BY DEF Typed
<1>1. CASE UNCHANGED vars
  BY <1>1 DEF vars
<1>2. CASE RunStep
  <2>1. CASE StartRun
    BY <2>1, NullTypes DEF StartRun, Runs
  <2>2. CASE EndRun
    BY <2>2, NullTypes DEF EndRun
  <2>3. CASE Decide
    <3>1. UNCHANGED lock /\ run.at = "decide"
      BY <2>3 DEF Decide, DecidePaused, DecideExit, DecideBaseline, DecideInactive, DecideEntry, Trading, QuoteBlocks, WritePassive
    <3> QED BY <2>3, <3>1, DecisionState
  <2>4. CASE ReadBot \/ ReadState \/ ReadBand \/ Observe
    BY <1>0, <2>4 DEF ReadBot, ReadState, ReadBand, Observe, Runs
  <2>5. CASE Write \/ WriteThrottled \/ Prepare \/ Settle \/ Unresolved
    BY <1>0, <2>5 DEF Write, WriteThrottled, Prepare, Settle, Fill, Fails, Unresolved, Runs
  <2> QED BY <1>2, <2>1, <2>2, <2>3, <2>4, <2>5 DEF RunStep
<1>3. CASE ManagerStep
  BY <1>3, CycleMoves
<1>4. CASE Pause \/ Resume \/ NextHour
  BY <1>4 DEF Pause, Resume, NextHour
<1>5. CASE Crash
  BY <1>5, NullTypes DEF Crash
<1> QED BY <1>1, <1>2, <1>3, <1>4, <1>5 DEF Next

\* Who holds the lock is alone with the grid.
LEMMA CycleWaits ==
  ASSUME LockInv, ManagerStep
  PROVE  run.at = "off" \/ UNCHANGED <<band, revised, snapshot, fresh>>
BY CycleMoves DEF LockInv, Inv, LockIsRun, MayApply

LEMMA FollowStep ==
  ASSUME RevisionAssumption, LockInv, [Next]_vars, ~LoseLock
  PROVE  RunFollows'
<1> USE DEF LockInv, Inv
<1>0. run \in Runs /\ run.state \in Snapshots /\ snapshot \in Snapshots
  BY DEF Typed, Runs
<1>1. CASE UNCHANGED vars
  BY <1>1 DEF vars, RunFollows, Levels
<1>2. CASE RunStep
  <2>0. UNCHANGED band
    BY <1>2, RunMoves
  <2>1. CASE StartRun
    <3>1. run'.at = "bot"
      BY <2>1, NullTypes DEF StartRun, Runs
    <3> QED BY <3>1 DEF RunFollows
  <2>2. CASE ReadBot
    <3>1. run'.at = "state" /\ run'.grid = band.grid
      BY <1>0, <2>2 DEF ReadBot, Runs
    <3> QED BY <2>0, <3>1 DEF RunFollows
  <2>3. CASE ReadState
    <3>1. run'.at = "band" /\ run'.grid = run.grid /\ run'.state = snapshot /\ run.at = "state" /\ UNCHANGED snapshot
      BY <1>0, <2>3 DEF ReadState, Runs
    <3> QED BY <2>0, <3>1 DEF RunFollows, SnapshotNamesRevision, LevelsFit, Levels
  <2>4. CASE ReadBand
    <3>1. run'.at = "attempt" /\ run'.grid = run.grid /\ run'.state = run.state /\ run'.rev = band.rev /\ run.at = "band"
          /\ UNCHANGED snapshot
      BY <1>0, <2>4 DEF ReadBand, Runs
    <3> QED BY <2>0, <3>1 DEF RunFollows, Levels
  <2>5. CASE Observe
    <3>1. run.at = "attempt" /\ run'.grid = run.grid /\ run'.state = run.state /\ run'.rev = run.rev /\ UNCHANGED snapshot
      BY <1>0, <2>5 DEF Observe, Runs
    <3> QED BY <2>0, <3>1 DEF RunFollows, Levels
  <2>6. CASE Decide
    <3>1. run.at = "decide" /\ UNCHANGED snapshot
      BY <2>6 DEF Decide, DecidePaused, DecideExit, DecideBaseline, DecideInactive, DecideEntry, Trading, QuoteBlocks, WritePassive
    <3> QED BY <2>0, <2>6, <3>1, DecisionState DEF RunFollows, Levels
  <2>7. CASE Write \/ WriteThrottled \/ Prepare \/ Settle \/ Unresolved
    <3>1. run.at \notin {"off", "bot", "state", "band"} /\ run'.grid = run.grid /\ run'.state = run.state /\ run'.rev = run.rev
      BY <1>0, <2>7 DEF Write, WriteThrottled, Prepare, Settle, Fill, Fails, Unresolved, Runs
    <3>2. run.state.history = snapshot.history
      BY <3>1 DEF RunFollows
    <3>3. snapshot'.history = snapshot.history
      BY <1>0, <2>7, <3>2 DEF Write, WriteThrottled, Prepare, Settle, Unresolved, Snapshots
    <3> QED BY <2>0, <3>1, <3>3 DEF RunFollows, Levels
  <2>8. CASE EndRun
    BY <2>8, NullTypes DEF EndRun, RunFollows
  <2> QED BY <1>2, <2>1, <2>2, <2>3, <2>4, <2>5, <2>6, <2>7, <2>8 DEF RunStep
<1>3. CASE ManagerStep
  <2>1. UNCHANGED run
    BY <1>3, CycleMoves
  <2>2. run.at = "off" \/ UNCHANGED <<band, snapshot>>
    BY <1>3, CycleWaits
  <2> QED BY <2>1, <2>2 DEF RunFollows, Levels
<1>4. CASE Pause \/ Resume \/ NextHour \/ LoseLock \/ Crash
  <2>1. snapshot'.history = snapshot.history
    BY <1>0, <1>4, OperatorMoves DEF Resume, Snapshots
  <2>2. UNCHANGED band
    BY <1>4, OperatorMoves
  <2>3. CASE UNCHANGED run
    BY <2>1, <2>2, <2>3 DEF RunFollows, Levels
  <2>4. CASE run' = NoRun
    BY <2>4, NullTypes DEF RunFollows
  <2> QED BY <1>4, <2>3, <2>4, OperatorMoves
<1> QED BY <1>1, <1>2, <1>3, <1>4 DEF Next

\* What the manager counts: the snapshots carry the hour of every revision.
LEMMA HistoryStep ==
  ASSUME RevisionAssumption, LockInv, [Next]_vars, ~LoseLock
  PROVE  HistoryTold'
<1> USE DEF LockInv, Inv
<1>0. run \in Runs /\ run.state \in Snapshots /\ snapshot \in Snapshots /\ manager \in Cycles
  BY DEF Typed, Runs
<1>1. CASE UNCHANGED <<band, revised, manager>> /\ snapshot'.history = snapshot.history /\ newest' \ {"run"} \subseteq newest
  BY <1>1 DEF HistoryTold, History
<1>2. CASE UNCHANGED vars
  BY <1>1, <1>2 DEF vars
<1>3. CASE RunStep
  <2>1. CASE Write \/ Settle
    <3>1. run.state.history = snapshot.history
      BY <2>1 DEF Write, Settle, Fill, Fails, RunFollows
    <3>2. snapshot'.history = snapshot.history
      BY <1>0, <2>1, <3>1 DEF Write, Settle, Snapshots
    <3> QED BY <1>1, <1>3, <3>2, RunMoves
  <2>2. ASSUME Decide PROVE UNCHANGED snapshot
    BY <2>2 DEF Decide, DecidePaused, DecideExit, DecideBaseline, DecideInactive, DecideEntry, QuoteBlocks, WritePassive
  <2>3. CASE ~Write /\ ~Settle
    BY <1>1, <1>3, <2>2, <2>3, RunMoves DEF RunStep, StartRun, ReadBot, ReadState, ReadBand, Observe, WriteThrottled,
                                      Prepare, Unresolved, EndRun
  <2> QED BY <2>1, <2>3
<1>4. CASE Pause \/ Resume \/ NextHour \/ LoseLock \/ Crash
  <2>1. snapshot'.history = snapshot.history
    BY <1>0, <1>4, OperatorMoves DEF Resume, Snapshots
  <2>2. CASE manager' = Asleep
    BY <1>4, <2>1, <2>2, OperatorMoves, NullTypes DEF HistoryTold, History
  <2> QED BY <1>1, <1>4, <2>1, <2>2, OperatorMoves
<1>5. CASE ManagerStep
  <2>1. CASE Revise
    <3>1. manager'.at = "record"
      BY <1>0, <2>1 DEF Revise, Applied, Cycles
    <3>2. snapshot'.history = Append(snapshot.history, manager.hour) /\ revised' = Append(revised, manager.hour)
          /\ band'.rev = Len(revised) + 1
      BY <1>0, <2>1 DEF Revise, Snapshots
    <3>3. /\ revised \in Seq(0 .. LastHour) /\ Len(revised) = band.rev /\ manager.hour \in 0 .. LastHour
          /\ snapshot.history \in Seq(0 .. LastHour)
      BY <1>0 DEF Typed, Snapshots, Cycles
    <3>4. Len(snapshot.history) = Len(revised) - 1 /\ \A i \in 1 .. Len(snapshot.history) : snapshot.history[i] = revised[i + 1]
      BY <3>3 DEF HistoryTold, History
    <3>5. Len(snapshot'.history) = band'.rev - 1 /\ Len(snapshot'.history) = Len(revised)
      BY <3>2, <3>3, <3>4
    <3>6. ASSUME NEW i \in 1 .. Len(revised) PROVE snapshot'.history[i] = revised'[i + 1]
      <4>1. CASE i = Len(revised)
        BY <3>2, <3>3, <3>4, <4>1
      <4>2. CASE i # Len(revised)
        <5>1. i \in 1 .. Len(snapshot.history) /\ i + 1 \in 1 .. Len(revised)
          BY <3>3, <3>4, <4>2
        <5> QED BY <3>2, <3>3, <3>4, <5>1
      <4> QED BY <4>1, <4>2
    <3> QED BY <3>1, <3>5, <3>6 DEF HistoryTold, History
  <2>2. CASE ParkOrReactivate \/ CreateBand
    <3>1. manager'.at = "record" /\ snapshot'.history = snapshot.history
      BY <1>0, <2>2 DEF ParkOrReactivate, ParkedSnapshot, CreateBand, Applied, Cycles, Snapshots
    <3>2. UNCHANGED revised /\ band'.rev = band.rev
      BY <2>2 DEF ParkOrReactivate, CreateBand, Typed
    <3> QED BY <3>1, <3>2 DEF HistoryTold, History
  <2>3. CASE WakeUp \/ Nothing \/ Refused \/ Record
    <3>1. manager'.at \in {"asleep", "bot", "record"} /\ UNCHANGED <<snapshot, revised, band>>
      BY <1>0, <2>3, NullTypes DEF WakeUp, SleepsOn, Asleep, Nothing, Refused, Record, Manage, Cycles
    <3> QED BY <3>1 DEF HistoryTold, History
  <2>4. CASE ReadForPolicy
    <3>1. UNCHANGED <<snapshot, revised, band>>
      BY <2>4 DEF ReadForPolicy, Manage
    <3>2. CASE status = "paused"
      BY <2>4, <3>1, <3>2, NullTypes DEF ReadForPolicy, Manage, HistoryTold, History
    <3>3. CASE status # "paused"
      <4>1. manager'.history = snapshot.history
        BY <1>0, <2>4, <3>3 DEF ReadForPolicy, Manage, Cycles
      <4> QED BY <3>1, <4>1 DEF HistoryTold, History
    <3> QED BY <3>2, <3>3
  <2>5. CASE Evaluate
    <3>1. UNCHANGED <<snapshot, revised, band, newest>> /\ manager.at = "peers"
      BY <2>5 DEF Evaluate, Manage
    <3>2. ASSUME NEW a, manager' = [manager EXCEPT !.at = "apply", !.lots = lots, !.action = a]
          PROVE  manager'.history = manager.history
      BY <1>0, <3>2 DEF Cycles
    <3>3. manager'.history = manager.history
      BY <2>5, <3>2 DEF Evaluate, Manage
    <3> QED BY <3>1, <3>3 DEF HistoryTold, History
  <2> QED BY <1>5, <2>1, <2>2, <2>3, <2>4, <2>5 DEF ManagerStep
<1> QED BY <1>2, <1>3, <1>4, <1>5 DEF Next

LEMMA LevelsStep ==
  ASSUME RevisionAssumption, LockInv, [Next]_vars, ~LoseLock
  PROVE  LevelsFit'
<1> USE DEF LockInv, Inv
<1>0. run \in Runs /\ run.state \in Snapshots /\ snapshot \in Snapshots
  BY DEF Typed, Runs
<1>1. CASE UNCHANGED snapshot /\ band'.grid = band.grid
  BY <1>1 DEF LevelsFit, Levels
<1>2. CASE UNCHANGED vars
  BY <1>1, <1>2 DEF vars
<1>3. CASE snapshot'.pending = None
  <2>1. band'.grid \in Grids
    BY TypesHold DEF Typed
  <2> QED BY <1>3, <2>1, LevelTypes DEF LevelsFit, Levels
<1>4. CASE RunStep
  <2>1. CASE Write
    <3>1. run.state.pending \in Levels(band.grid)
      BY <2>1 DEF Write, RunFollows
    <3> QED BY <1>1, <1>4, <2>1, <3>1, RunMoves DEF Write, LevelsFit, Levels
  <2>2. CASE Settle
    BY <1>0, <1>3, <2>2 DEF Settle, Snapshots
  <2>3. ASSUME Decide PROVE UNCHANGED snapshot
    BY <2>3 DEF Decide, DecidePaused, DecideExit, DecideBaseline, DecideInactive, DecideEntry, QuoteBlocks, WritePassive
  <2>4. CASE ~Write /\ ~Settle
    BY <1>1, <1>4, <2>3, <2>4, RunMoves DEF RunStep, StartRun, ReadBot, ReadState, ReadBand, Observe, WriteThrottled,
                                      Prepare, Unresolved, EndRun
  <2> QED BY <2>1, <2>2, <2>4
<1>5. CASE ManagerStep
  <2>1. CASE Revise \/ ParkOrReactivate
    BY <1>0, <1>3, <2>1 DEF Revise, ParkOrReactivate, ParkedSnapshot, Snapshots
  <2>2. CASE WakeUp \/ ReadForPolicy \/ Evaluate \/ Nothing \/ Refused \/ Record
    BY <1>1, <2>2 DEF WakeUp, SleepsOn, ReadForPolicy, Evaluate, Nothing, Refused, Record, Manage
  <2>3. CASE CreateBand
    BY <1>1, <2>3 DEF CreateBand, Typed
  <2> QED BY <1>5, <2>1, <2>2, <2>3 DEF ManagerStep
<1>6. CASE Pause \/ Resume \/ NextHour \/ LoseLock \/ Crash
  <2>1. CASE Resume
    BY <1>0, <1>3, <2>1 DEF Resume, Snapshots
  <2> QED BY <1>1, <1>6, <2>1, OperatorMoves
<1> QED BY <1>2, <1>4, <1>5, <1>6 DEF Next

\* The revisions of a day, counted in the list of all and in a snapshot.
LEMMA CountsAgree ==
  ASSUME Typed, NEW h \in Seq(0 .. LastHour), History(h), NEW d
  PROVE  /\ IsFiniteSet({i \in 2 .. Len(revised) : revised[i] \div Day = d})
         /\ Cardinality({i \in 2 .. Len(revised) : revised[i] \div Day = d})
              = Cardinality({i \in DOMAIN h : h[i] \div Day = d})
<1> DEFINE S == {i \in DOMAIN h : h[i] \div Day = d}
           T == {i \in 2 .. Len(revised) : revised[i] \div Day = d}
           f == [i \in S |-> i + 1]
<1>1. Len(h) \in Nat /\ DOMAIN h = 1 .. Len(h) /\ Len(revised) = Len(h) + 1
  BY DEF Typed, History
<1>2. IsFiniteSet(S)
  <2>1. S \in SUBSET (1 .. Len(h)) /\ IsFiniteSet(1 .. Len(h))
    BY <1>1, FS_Interval
  <2> QED BY <2>1, FS_Subset
<1>3. \A i \in 1 .. Len(h) : h[i] = revised[i + 1]
  BY DEF History
<1>4. \A i \in S : i \in 1 .. Len(h) /\ i + 1 \in T
  BY <1>1, <1>3
<1>5. \A j \in T : j - 1 \in S /\ f[j - 1] = j
  <2> SUFFICES ASSUME NEW j \in T PROVE j - 1 \in S /\ f[j - 1] = j
    OBVIOUS
  <2>1. j \in 2 .. Len(revised) /\ j - 1 \in 1 .. Len(h) /\ (j - 1) + 1 = j
    BY <1>1
  <2>2. j - 1 \in S
    BY <1>1, <1>3, <2>1
  <2> QED BY <2>1, <2>2
<1>6. f \in Bijection(S, T)
  <2>1. f \in [S -> T]
    BY <1>4
  <2>2. \A a, b \in S : f[a] = f[b] => a = b
    BY <1>4
  <2>3. \A j \in T : \E i \in S : f[i] = j
    BY <1>5
  <2> HIDE DEF S, T, f
  <2> QED BY <2>1, <2>2, <2>3 DEF Bijection, Injection, IsInjective, Surjection
<1>7. ExistsBijection(S, T)
  BY <1>6 DEF ExistsBijection
<1> HIDE DEF S, T, f
<1>8. IsFiniteSet(T) /\ Cardinality(T) = Cardinality(S)
  BY <1>2, <1>7, FS_Bijection
<1> QED BY <1>8 DEF S, T

LEMMA DailyStep ==
  ASSUME RevisionAssumption, LockInv, [Next]_vars, ~LoseLock
  PROVE  DailyLimit'
<1> USE DEF LockInv, Inv
<1>1. CASE UNCHANGED revised
  BY <1>1 DEF DailyLimit
<1>2. CASE Revise
  <2> SUFFICES ASSUME NEW d \in 0 .. LastHour \div Day
               PROVE  Cardinality({i \in 2 .. Len(revised') : revised'[i] \div Day = d}) <= MaxDaily
    BY DEF DailyLimit
  <2> DEFINE T == {i \in 2 .. Len(revised) : revised[i] \div Day = d}
             new == {i \in 2 .. Len(revised') : revised'[i] \div Day = d}
             n == Len(revised) + 1
  <2>1. revised' = Append(revised, manager.hour) /\ revised \in Seq(0 .. LastHour) /\ Len(revised) \in Nat \ {0}
    BY <1>2 DEF Revise, Typed
  <2>2. Len(revised') = n /\ revised'[n] = manager.hour /\ \A i \in 1 .. Len(revised) : revised'[i] = revised[i]
    BY <2>1
  <2>3. manager.at = "apply" /\ manager.action = "revise" /\ "manager" \in newest
    BY <1>2 DEF Revise, Applies, MayApply, SeenStill
  <2>4. RevisionsToday(manager) < MaxDaily /\ manager.history = snapshot.history
    BY <2>3 DEF CycleReads, Cooled, HistoryTold
  <2>5. manager.history \in Seq(0 .. LastHour) /\ History(manager.history)
    BY <2>4 DEF HistoryTold, Typed, Snapshots
  <2>6. IsFiniteSet(T) /\ Cardinality(T) = Cardinality({i \in DOMAIN manager.history : manager.history[i] \div Day = d})
    BY <2>5, CountsAgree
  <2>7. Cardinality(T) \in Nat /\ Cardinality(T) <= MaxDaily /\ MaxDaily \in Nat
    BY <2>6, FS_CardinalityType DEF DailyLimit, RevisionAssumption
  <2>8. CASE manager.hour \div Day = d
    <3>1. Cardinality(T) < MaxDaily
      BY <2>4, <2>6, <2>8 DEF RevisionsToday
    <3>2. new = T \cup {n}
      BY <2>1, <2>2, <2>8
    <3>3. n \notin T
      BY <2>1
    <3> HIDE DEF T, new, n
    <3>4. Cardinality(new) = Cardinality(T) + 1
      BY <2>6, <3>2, <3>3, FS_AddElement
    <3>5. Cardinality(new) <= MaxDaily
      BY <2>7, <3>1, <3>4
    <3> QED BY <3>5 DEF new
  <2>9. CASE manager.hour \div Day # d
    <3>1. new = T
      BY <2>1, <2>2, <2>9
    <3> HIDE DEF T, new
    <3>2. Cardinality(new) <= MaxDaily
      BY <2>7, <3>1
    <3> QED BY <3>2 DEF new
  <2> QED BY <2>8, <2>9
<1>3. UNCHANGED revised \/ Revise
  BY RunMoves, CycleMoves, OperatorMoves DEF Next, vars
<1> QED BY <1>1, <1>2, <1>3

-----------------------------------------------------------------------------
(* Under the lock: what was observed since the manager's last change       *)

Observed == SnapshotObserved /\ RunObserved /\ EntriesFollowObservation
SeenNow(t) == t \in fresh'["manager"]

\* Steps that leave every recorded price, and the run's part in it, alone.
LEMMA ObservedStays ==
  ASSUME LockInv, UNCHANGED <<run, memory, attempt>>,
         UNCHANGED snapshot \/ snapshot'.baseline = TRUE, fresh'["manager"] = fresh["manager"]
  PROVE  Observed'
BY DEF LockInv, Observed, SnapshotObserved, RunObserved, EntriesFollowObservation, Entering, Observing, Seen

\* A run that ended, or has not read the snapshot yet, relies on nothing.
LEMMA ObservedOff ==
  ASSUME run'.at \in {"off", "bot", "state"}, run'.signal = NoAttempt, SnapshotObserved'
  PROVE  Observed'
BY DEF Observed, RunObserved, EntriesFollowObservation, Entering

LEMMA ReadsObserved ==
  ASSUME RevisionAssumption, LockInv, StartRun \/ ReadBot \/ ReadState \/ ReadBand
  PROVE  Observed'
<1> USE DEF LockInv, Inv
<1>0. run \in Runs /\ run.state \in Snapshots /\ snapshot \in Snapshots
  BY DEF Typed, Runs
<1>1. CASE StartRun
  <2>1. run'.at = "bot" /\ run'.signal = NoAttempt
    BY <1>1, NullTypes DEF StartRun, Runs
  <2>2. SnapshotObserved'
    BY <1>1 DEF StartRun, SnapshotObserved, Observing, Seen
  <2> QED BY <2>1, <2>2, ObservedOff
<1>2. CASE ReadBot
  <2>1. run'.at = "state" /\ run'.signal = NoAttempt
    BY <1>0, <1>2 DEF ReadBot, Runs, RunObserved
  <2>2. SnapshotObserved'
    BY <1>2 DEF ReadBot, SnapshotObserved, Observing, Seen
  <2> QED BY <2>1, <2>2, ObservedOff
<1>3. CASE ReadState
  <2>1. run'.at = "band" /\ run'.signal = NoAttempt /\ run'.state = snapshot
    BY <1>0, <1>3 DEF ReadState, Runs, RunObserved
  <2>2. \A t : SeenNow(t) <=> IF t = "run row" THEN Seen("row") ELSE IF t = "run pending" THEN Seen("pending") ELSE Seen(t)
    <3> DEFINE to == [t \in {"run pending", "run row"} |-> IF t = "run row" THEN "row" ELSE "pending"]
    <3>1. DOMAIN to \subseteq Recorded /\ Copy("", to)
      BY <1>3 DEF ReadState, Recorded
    <3>2. DOMAIN to = {"run pending", "run row"} /\ to["run row"] = "row" /\ to["run pending"] = "pending"
      OBVIOUS
    <3> HIDE DEF to
    <3> QED BY <3>1, <3>2, CopyTells DEF SeenNow, Seen
  <2>3. UNCHANGED <<snapshot, memory>>
    BY <1>3 DEF ReadState
  <2>4. Observing(snapshot, "row", "pending")
    BY DEF SnapshotObserved
  <2> QED BY <2>1, <2>2, <2>3, <2>4 DEF Observed, SnapshotObserved, RunObserved, EntriesFollowObservation, Entering,
                                       Observing, Seen, SeenNow
<1>4. CASE ReadBand
  <2>1. run.at = "band" /\ run'.at = "attempt" /\ run'.signal = run.signal /\ run'.state = run.state
    BY <1>0, <1>4 DEF ReadBand, Runs
  <2>2. UNCHANGED <<snapshot, memory, fresh>>
    BY <1>4 DEF ReadBand
  <2> QED BY <2>1, <2>2 DEF Observed, SnapshotObserved, RunObserved, EntriesFollowObservation, Entering, Observing, Seen
<1> QED BY <1>1, <1>2, <1>3, <1>4

LEMMA ObserveObserved == ASSUME RevisionAssumption, LockInv, Observe PROVE Observed'
<1> USE DEF LockInv, Inv
<1>0. run \in Runs /\ run.state \in Snapshots /\ run.at = "attempt" /\ run.signal = NoAttempt /\ UNCHANGED snapshot
  BY DEF Typed, Runs, Observe, RunObserved
<1>1. Observing(run.state, "run row", "run pending") /\ Observing(snapshot, "row", "pending")
  BY <1>0 DEF RunObserved, SnapshotObserved
<1>2. CASE attempt # NoAttempt
  <2>1. run'.at = "resume" /\ run'.signal = NoAttempt /\ run'.state = run.state /\ UNCHANGED <<memory, fresh>>
    BY <1>0, <1>2 DEF Observe, Runs
  <2>2. run'.signal.side # "buy"
    BY <2>1 DEF NoAttempt
  <2> QED BY <1>0, <1>1, <2>1, <2>2 DEF Observed, SnapshotObserved, RunObserved, EntriesFollowObservation, Entering, Observing,
                                        Seen
<1>3. CASE attempt = NoAttempt
  <2> DEFINE q == IF memory.price # None THEN memory.price ELSE run.state.price
             from == IF memory.price # None THEN "memory" ELSE "run row"
             to == [t \in {"prev", "price", "memory"} |->
                      IF t # "prev" THEN "now" ELSE IF memory.price # None THEN "memory" ELSE "run row"]
  <2>1. PICK price \in Prices : run' = [run EXCEPT !.at = "decide", !.price = price, !.prev = q]
    BY <1>0, <1>3 DEF Observe
  <2>2. run'.at = "decide" /\ run'.prev = q /\ run'.state = run.state /\ run'.signal = NoAttempt
    <3> HIDE DEF q
    <3> QED BY <1>0, <2>1 DEF Runs
  <2>3. DOMAIN to = {"prev", "price", "memory"} /\ DOMAIN to \subseteq Recorded /\ Copy("", to)
        /\ to["price"] = "now" /\ to["memory"] = "now" /\ to["prev"] = from
    BY <1>0, <1>3 DEF Observe, Recorded
  <2>4. \A t : SeenNow(t) <=> IF t \in {"price", "memory"} THEN TRUE ELSE IF t = "prev" THEN Seen(from) ELSE Seen(t)
    <3>1. from \in {"memory", "run row"}
      OBVIOUS
    <3>2. from # "now"
      BY <3>1
    <3> HIDE DEF to, from
    <3> QED BY <2>3, <3>2, CopyTells DEF SeenNow, Seen
  <2>5. ~run.state.baseline /\ q # None => Seen(from)
    BY <1>1 DEF Observing
  <2> HIDE DEF q, from, to
  <2> QED BY <1>0, <1>1, <2>2, <2>4, <2>5 DEF Observed, SnapshotObserved, RunObserved, EntriesFollowObservation, Entering,
                                                 Observing, Seen, SeenNow
<1> QED BY <1>2, <1>3

\* What a run writes instead of trading is as fresh as what it was computed from.
LEMMA PassiveObserved ==
  ASSUME RevisionAssumption, LockInv, run.at = "decide", NEW state \in Snapshots,
         NEW from \in {"price", "prev", "run pending"}, WritePassive(state, from),
         ~state.baseline /\ state.pending # None => Seen(from)
  PROVE  Observed'
<1> USE DEF LockInv, Inv
<1>0. run \in Runs
  BY DEF Typed
<1>1. run'.at = "write" /\ run'.state = state /\ run'.signal = NoAttempt
  BY <1>0 DEF WritePassive, ToWrite, Runs, RunObserved
<1>2. UNCHANGED snapshot
  BY DEF WritePassive
<1>3. \A t : SeenNow(t) <=> IF t = "run row" THEN Seen("price") ELSE IF t = "run pending" THEN Seen(from) ELSE Seen(t)
  <2> DEFINE to == [t \in {"run pending", "run row"} |-> IF t = "run row" THEN "price" ELSE from]
  <2>1. DOMAIN to = {"run pending", "run row"} /\ DOMAIN to \subseteq Recorded /\ Copy("", to)
        /\ to["run row"] = "price" /\ to["run pending"] = from
    BY DEF WritePassive, Recorded
  <2>2. from # "now"
    OBVIOUS
  <2> HIDE DEF to
  <2>3. \A t : SeenNow(t) <=> IF t \in DOMAIN to THEN Seen(to[t]) \/ to[t] = "now" ELSE Seen(t)
    BY <2>1, CopyTells DEF SeenNow, Seen
  <2>4. SeenNow("run row") <=> Seen("price")
    BY <2>1, <2>3
  <2>5. SeenNow("run pending") <=> Seen(from)
    BY <2>1, <2>2, <2>3
  <2>6. \A t : t \notin {"run row", "run pending"} => (SeenNow(t) <=> Seen(t))
    BY <2>1, <2>3
  <2> QED BY <2>4, <2>5, <2>6
<1>4. Seen("price") /\ Seen("memory") /\ Observing(snapshot, "row", "pending")
  BY DEF RunObserved, SnapshotObserved
<1> QED BY <1>1, <1>2, <1>3, <1>4 DEF Observed, SnapshotObserved, RunObserved, EntriesFollowObservation, Entering,
                                     Observing, Seen, SeenNow

LEMMA DecideObserved == ASSUME RevisionAssumption, LockInv, Decide PROVE Observed'
<1> USE DEF LockInv, Inv
<1>0. run \in Runs /\ run.state \in Snapshots /\ run.at = "decide"
  BY DEF Typed, Runs, Decide, DecidePaused, DecideExit, DecideBaseline, DecideInactive, DecideEntry, Trading
<1>1. Seen("price") /\ Seen("memory") /\ Observing(run.state, "run row", "run pending")
      /\ Observing(snapshot, "row", "pending") /\ (~run.state.baseline /\ run.prev # None => Seen("prev"))
  BY <1>0 DEF RunObserved, SnapshotObserved
<1>2. Crossed(run) # {} => run.prev # None
  BY DEF Crossed
<1>3. Pending(run) # {} => run.state.pending # None
  BY DEF Pending, BuyLevels, None
<1>4. ~run.state.baseline /\ Crossed(run) \cup Pending(run) # {} => Seen(KeptPending(run))
  BY <1>1, <1>2, <1>3 DEF KeptPending, Observing
<1>5. KeptPending(run) \in {"prev", "run pending"}
  BY DEF KeptPending
<1>6. Passive(run) \in Snapshots /\ Passive(run).baseline = run.state.baseline /\ Passive(run).pending = StillPending(run)
  BY <1>0, PassiveStates DEF Passive, Snapshots
<1>7. ASSUME WritePassive(Passive(run), KeptPending(run)) PROVE Observed'
  <2>1. StillPending(run) # None => Crossed(run) \cup Pending(run) # {}
    BY DEF StillPending
  <2> QED BY <1>0, <1>4, <1>5, <1>6, <1>7, <2>1, PassiveObserved
<1>8. ASSUME NEW i \in Nat, NEW from \in {"price", "prev", "run pending"}, QuoteBlocks(i, from),
             ~run.state.baseline => Seen(from)
      PROVE  Observed'
  <2> DEFINE state == [run.state EXCEPT !.price = run.price, !.pending = i]
  <2>1. state \in Snapshots /\ state.baseline = run.state.baseline
    BY <1>0, PassiveStates DEF Snapshots
  <2>2. WritePassive(state, from)
    BY <1>8 DEF QuoteBlocks
  <2> HIDE DEF state
  <2> QED BY <1>0, <1>8, <2>1, <2>2, PassiveObserved
<1>9. None \in Nat
  BY DEF None
<1>10. CASE DecidePaused
  BY <1>7, <1>10 DEF DecidePaused
<1>11. CASE DecideExit
  <2>1. CASE run' = Signal(run, FirstExit(run).entry, FirstExit(run).target, "sell")
             /\ UNCHANGED <<world, rows, lock, manager, observed, log, fresh>>
    <3>1. run'.at = "prepare" /\ run'.state = run.state
      BY <1>0, <2>1 DEF Signal, Runs
    <3>2. UNCHANGED <<memory, snapshot, fresh>>
      BY <1>11, <2>1 DEF DecideExit
    <3> QED BY <1>1, <3>1, <3>2 DEF Observed, SnapshotObserved, RunObserved, EntriesFollowObservation, Entering, Observing, Seen
  <2> QED BY <1>1, <1>8, <1>9, <1>11, <2>1 DEF DecideExit
<1>12. CASE DecideBaseline
  <2> DEFINE state == [run.state EXCEPT !.price = run.price, !.pending = None, !.baseline = FALSE, !.rev = run.rev]
  <2>1. state \in Snapshots /\ state.pending = None
    BY <1>0, PassiveStates DEF Snapshots
  <2>2. WritePassive(state, "price")
    BY <1>12 DEF DecideBaseline
  <2> HIDE DEF state
  <2> QED BY <1>0, <2>1, <2>2, PassiveObserved
<1>13. CASE DecideInactive
  BY <1>1, <1>8, <1>9, <1>13 DEF DecideInactive, QuoteBlocks
<1>14. CASE DecideEntry
  <2> DEFINE S == IF Crossed(run) # {} THEN Crossed(run) ELSE Pending(run)
             i == Top(S)
  <2>0. ~run.state.baseline
    BY <1>14 DEF DecideEntry, Trading, Baseline
  <2>1. CASE S = {}
    <3>1. KeptPending(run) = "run pending"
      BY <2>1 DEF KeptPending
    <3>2. WritePassive(Passive(run), KeptPending(run))
      BY <1>14, <2>1, <3>1 DEF DecideEntry
    <3> QED BY <1>7, <3>2
  <2>2. CASE S # {}
    <3>1. i \in Nat
      BY <1>0, <2>2, PendingTypes
    <3>2. Seen(KeptPending(run))
      BY <1>4, <2>0, <2>2
    <3> HIDE DEF i
    <3>3. CASE run' = Signal(run, run.grid[i], run.grid[i + 1], "buy")
               /\ Copy("", [t \in {"price"} |-> KeptPending(run)])
               /\ UNCHANGED <<world, rows, lock, manager, observed, log>>
      <4>1. run'.at = "prepare" /\ run'.state = run.state
        BY <1>0, <3>3 DEF Signal, Runs
      <4>2. UNCHANGED <<memory, snapshot>>
        BY <1>14, <3>3 DEF DecideEntry
      <4>3. \A t : SeenNow(t) <=> IF t = "price" THEN TRUE ELSE Seen(t)
        <5> DEFINE to == [t \in {"price"} |-> KeptPending(run)]
        <5>1. DOMAIN to = {"price"} /\ DOMAIN to \subseteq Recorded /\ Copy("", to) /\ to["price"] = KeptPending(run)
          BY <3>3 DEF Recorded
        <5> HIDE DEF to
        <5> QED BY <3>2, <5>1, CopyTells DEF SeenNow, Seen
      <4> QED BY <1>1, <4>1, <4>2, <4>3 DEF Observed, SnapshotObserved, RunObserved, EntriesFollowObservation, Entering,
                                           Observing, Seen, SeenNow
    <3>4. CASE QuoteBlocks(i, KeptPending(run))
      BY <1>5, <1>8, <3>1, <3>2, <3>4
    <3> QED BY <1>14, <2>2, <3>3, <3>4 DEF DecideEntry, i
  <2> QED BY <2>1, <2>2
<1> QED BY <1>10, <1>11, <1>12, <1>13, <1>14 DEF Decide

LEMMA CommitObserved ==
  ASSUME RevisionAssumption, LockInv, Write \/ WriteThrottled \/ Prepare \/ Settle \/ Unresolved \/ EndRun
  PROVE  Observed'
<1> USE DEF LockInv, Inv
<1>0. run \in Runs /\ run.state \in Snapshots
  BY DEF Typed, Runs
<1>1. SnapshotObserved /\ Observing(snapshot, "row", "pending")
      /\ (run.at \in {"write", "prepare", "resume"} => Observing(run.state, "run row", "run pending"))
  BY DEF SnapshotObserved, RunObserved
<1>2. CASE Write
  <2>1. run.at = "write" /\ run'.at = "end" /\ run'.state = run.state /\ UNCHANGED memory
    BY <1>0, <1>2 DEF Write, Runs
  <2>2. CASE TakesSnapshot(run.state)
    <3>1. snapshot' = run.state
      BY <1>2, <2>2 DEF Write
    <3> DEFINE to == [t \in {"pending", "row"} |-> IF t = "row" THEN "run row" ELSE "run pending"]
    <3>2. DOMAIN to = {"pending", "row"} /\ DOMAIN to \subseteq Recorded /\ Copy("", to)
          /\ to["row"] = "run row" /\ to["pending"] = "run pending"
      BY <1>2, <2>2 DEF Write, Recorded
    <3> HIDE DEF to
    <3>3. \A t : SeenNow(t) <=> IF t \in DOMAIN to THEN Seen(to[t]) \/ to[t] = "now" ELSE Seen(t)
      BY <3>2, CopyTells DEF SeenNow, Seen
    <3>4. (SeenNow("row") <=> Seen("run row")) /\ (SeenNow("pending") <=> Seen("run pending"))
      BY <3>2, <3>3
    <3>5. \A t : t \notin {"row", "pending"} => (SeenNow(t) <=> Seen(t))
      BY <3>2, <3>3
    <3> QED BY <1>1, <2>1, <3>1, <3>4, <3>5 DEF Observed, SnapshotObserved, RunObserved, EntriesFollowObservation,
                                                     Entering, Observing, Seen, SeenNow
  <2>3. CASE ~TakesSnapshot(run.state)
    <3>1. UNCHANGED <<snapshot, fresh>>
      BY <1>2, <2>3 DEF Write
    <3> QED BY <1>1, <2>1, <3>1 DEF Observed, SnapshotObserved, RunObserved, EntriesFollowObservation, Entering, Observing, Seen
  <2> QED BY <2>2, <2>3
<1>3. CASE WriteThrottled \/ Unresolved
  <2>1. run.at \in {"write", "resume"} /\ run'.at = "end" /\ run'.state = run.state /\ UNCHANGED <<memory, snapshot, fresh>>
    BY <1>0, <1>3 DEF WriteThrottled, Unresolved, Runs
  <2> QED BY <1>1, <2>1 DEF Observed, SnapshotObserved, RunObserved, EntriesFollowObservation, Entering, Observing, Seen
<1>4. CASE Prepare
  <2>1. run.at = "prepare" /\ run'.at \in {"resume", "end"} /\ run'.state = run.state /\ UNCHANGED <<memory, snapshot, fresh>>
    BY <1>0, <1>4 DEF Prepare, Runs
  <2>2. Seen("price")
    BY <2>1 DEF RunObserved
  <2> QED BY <1>1, <2>1, <2>2 DEF Observed, SnapshotObserved, RunObserved, EntriesFollowObservation, Entering, Observing, Seen
<1>5. CASE Settle
  <2> DEFINE price == IF run.price # None THEN run.price ELSE run.state.price
             stale == run.price = None /\ run.state.price # None
             to == [t \in {"pending", "row"} |->
                      IF t = "row" /\ run.price = None /\ run.state.price # None THEN "run row" ELSE "now"]
  <2>1. run.at = "resume" /\ run'.at = "end" /\ run'.state = run.state /\ UNCHANGED memory
    BY <1>0, <1>5 DEF Settle, Fill, Fails, Runs
  <2>2. snapshot'.baseline = run.state.baseline /\ snapshot'.pending = None
    BY <1>0, <1>5 DEF Settle, Snapshots
  <2>3. DOMAIN to = {"pending", "row"} /\ DOMAIN to \subseteq Recorded /\ Copy("", to)
        /\ to["pending"] = "now" /\ to["row"] = (IF stale THEN "run row" ELSE "now")
    BY <1>5 DEF Settle, Recorded
  <2>4. run.state.baseline \/ SeenNow("row")
    <3>1. stale /\ ~run.state.baseline => Seen("run row")
      BY <1>1, <2>1 DEF Observing
    <3> HIDE DEF to, stale
    <3>2. SeenNow("row") <=> to["row"] \in fresh["manager"] \cup {"now"}
      BY <2>3, CopyTells DEF SeenNow
    <3> QED BY <2>3, <3>1, <3>2 DEF Seen
  <2>5. \A t : t \notin {"row", "pending"} => (SeenNow(t) <=> Seen(t))
    <3> HIDE DEF to
    <3> QED BY <2>3, CopyTells DEF SeenNow, Seen
  <2> HIDE DEF price, stale, to
  <2> QED BY <1>1, <2>1, <2>2, <2>4, <2>5 DEF Observed, SnapshotObserved, RunObserved, EntriesFollowObservation, Entering,
                                             Observing, Seen, SeenNow
<1>6. CASE EndRun
  <2>1. run'.at = "off" /\ run'.signal = NoAttempt /\ UNCHANGED <<memory, snapshot, fresh>>
    BY <1>6, NullTypes DEF EndRun
  <2>2. SnapshotObserved'
    BY <1>1, <2>1 DEF SnapshotObserved, Observing, Seen
  <2> QED BY <2>1, <2>2, ObservedOff
<1> QED BY <1>2, <1>3, <1>4, <1>5, <1>6

\* The manager starts the observation anew only while no run is on.
LEMMA CycleObserved == ASSUME RevisionAssumption, LockInv, ManagerStep PROVE Observed'
<1> USE DEF LockInv, Inv
<1>0. snapshot \in Snapshots /\ UNCHANGED <<run, memory, attempt>>
  BY CycleMoves DEF Typed
<1>1. CASE UNCHANGED <<snapshot, fresh>>
  BY <1>0, <1>1, ObservedStays
<1>2. CASE Revise \/ ParkOrReactivate
  <2>1. snapshot'.baseline = TRUE
    BY <1>0, <1>2 DEF Revise, ParkOrReactivate, ParkedSnapshot, Snapshots
  <2>2. run'.at = "off" /\ run'.signal = NoAttempt
    BY <1>0, <1>2 DEF Revise, ParkOrReactivate, Applies, MayApply, LockIsRun, RunObserved
  <2>3. SnapshotObserved'
    BY <2>1 DEF SnapshotObserved, Observing
  <2> QED BY <2>2, <2>3, ObservedOff
<1>3. CASE CreateBand
  BY <1>1, <1>3 DEF CreateBand
<1>4. CASE WakeUp \/ ReadForPolicy \/ Evaluate \/ Nothing \/ Refused \/ Record
  BY <1>1, <1>4 DEF WakeUp, SleepsOn, ReadForPolicy, Evaluate, Nothing, Refused, Record, Manage
<1> QED BY <1>2, <1>3, <1>4 DEF ManagerStep

LEMMA ObservedStep ==
  ASSUME RevisionAssumption, LockInv, [Next]_vars, ~LoseLock
  PROVE  Observed'
<1> USE DEF LockInv, Inv
<1>0. snapshot \in Snapshots
  BY DEF Typed
<1>1. CASE UNCHANGED vars
  BY <1>1, ObservedStays DEF vars
<1>2. CASE RunStep
  BY <1>2, ReadsObserved, ObserveObserved, DecideObserved, CommitObserved DEF RunStep
<1>3. CASE Pause \/ NextHour
  BY <1>3, ObservedStays DEF Pause, NextHour
<1>4. CASE Resume
  <2>1. snapshot'.baseline = TRUE /\ UNCHANGED <<run, memory, attempt>>
    BY <1>0, <1>4 DEF Resume, Snapshots
  <2>2. fresh'["manager"] = fresh["manager"]
    BY <1>4, RestartTells DEF Resume
  <2> QED BY <2>1, <2>2, ObservedStays
<1>5. CASE Crash
  <2>1. run'.at = "off" /\ run'.signal = NoAttempt /\ memory'.price = None /\ UNCHANGED <<snapshot, fresh>>
    BY <1>5, NullTypes DEF Crash
  <2>2. SnapshotObserved'
    BY <2>1 DEF SnapshotObserved, Observing, Seen
  <2> QED BY <2>1, <2>2, ObservedOff
<1> QED BY <1>1, <1>2, <1>3, <1>4, <1>5, CycleObserved DEF Next

LEMMA LockInvInit == ASSUME RevisionAssumption, Init PROVE LockInv
<1>1. run = NoRun /\ manager = Asleep /\ memory.price = None /\ snapshot.baseline = TRUE /\ snapshot.pending = None
      /\ snapshot.history = <<>> /\ revised = <<0>> /\ band.rev = 1 /\ band.grid = FirstGrid /\ lock = "free"
  BY DEF Init
<1>2. Inv /\ LockIsRun /\ RunFollows /\ SnapshotObserved /\ RunObserved /\ EntriesFollowObservation
  BY <1>1, InvInit, NullTypes DEF LockIsRun, RunFollows, SnapshotObserved, Observing, RunObserved,
                                  EntriesFollowObservation, Entering
<1>3. LevelsFit
  BY <1>1, LevelTypes DEF LevelsFit, RevisionAssumption
<1>4. HistoryTold
  BY <1>1, NullTypes DEF HistoryTold, History
<1>5. DailyLimit
  <2> SUFFICES ASSUME NEW d
               PROVE  Cardinality({i \in 2 .. Len(revised) : revised[i] \div Day = d}) <= MaxDaily
    BY DEF DailyLimit
  <2>1. {i \in 2 .. Len(revised) : revised[i] \div Day = d} = {}
    BY <1>1
  <2>2. MaxDaily \in Nat
    BY DEF RevisionAssumption
  <2> QED BY <2>1, <2>2, FS_EmptySet
<1> QED BY <1>2, <1>3, <1>4, <1>5 DEF LockInv

THEOREM LockInvHolds == ASSUME RevisionAssumption PROVE Spec /\ [][~LoseLock]_vars => []LockInv
<1>1. Init => LockInv
  BY LockInvInit
<1>2. LockInv /\ [Next]_vars /\ [~LoseLock]_vars => LockInv'
  <2> SUFFICES ASSUME LockInv, [Next]_vars, [~LoseLock]_vars PROVE LockInv'
    OBVIOUS
  <2>0. ~LoseLock
    BY DEF LoseLock, vars
  <2>1. Inv'
    BY TypesHold, NamesStep, RunReadsStep, CycleReadsStep, SpacedStep DEF LockInv, Inv
  <2> QED BY <2>0, <2>1, LockStep, FollowStep, HistoryStep, LevelsStep, DailyStep, ObservedStep DEF LockInv, Observed
<1> QED BY <1>1, <1>2, PTL DEF Spec

\* As long as the lock lives, the stored state has its types: a pending signal
\* names a level of the band's grid, also after the grid got shorter.
THEOREM RevisionTypes == ASSUME RevisionAssumption PROVE Spec /\ [][~LoseLock]_vars => []TypeOK
<1>1. LockInv => TypeOK
  <2> SUFFICES ASSUME LockInv PROVE TypeOK
    OBVIOUS
  <2> USE DEF LockInv, Inv
  <2>1. band \in [status : {"ACTIVE", "PARKED_BELOW"}, rev : 1 .. Len(revised), grid : Grids]
    BY DEF Typed, BandStatuses
  <2>2. Len(band.grid) - 1 \in Nat
    BY <2>1, GridTypes
  <2>3. snapshot.pending \in {None} \cup (1 .. Len(band.grid) - 1)
    BY <2>2 DEF LevelsFit, Levels, None
  <2>4. memory \in [price : Prices \cup {None}, rev : 0 .. Len(revised)]
    BY DEF Typed
  <2>5. attempt.side \in {"none", "buy", "sell"}
    BY DEF Typed, Signals, NoAttempt
  <2>6. run.at \in {"off", "bot", "state", "band", "attempt", "decide", "write", "prepare", "resume", "end"}
        /\ run.state \in Snapshots /\ manager.at \in {"asleep", "bot", "peers", "apply", "record"}
    BY DEF Typed, Runs, Cycles
  <2> QED BY <2>1, <2>3, <2>4, <2>5, <2>6 DEF Typed, TypeOK
<1> QED BY <1>1, LockInvHolds, PTL

\* As long as the lock lives, a buy answers a fall of the price that was
\* observed as a whole after the manager's last change.
THEOREM EntriesAlwaysFollowObservation ==
  ASSUME RevisionAssumption PROVE Spec /\ [][~LoseLock]_vars => []EntriesFollowObservation
<1>1. LockInv => EntriesFollowObservation
  BY DEF LockInv
<1> QED BY <1>1, LockInvHolds, PTL

\* and no day has more revisions than the policy allows, counted from the
\* history that the runs carry along in what they write.
THEOREM DailyLimitHolds == ASSUME RevisionAssumption PROVE Spec /\ [][~LoseLock]_vars => []DailyLimit
<1>1. LockInv => DailyLimit
  BY DEF LockInv
<1> QED BY <1>1, LockInvHolds, PTL
\* All of it together, as the runs check it on small instances.
THEOREM RevisionsAlwaysHold == ASSUME RevisionAssumption PROVE Spec /\ [][~LoseLock]_vars => []RevisionsHold
<1>1. TypeOK /\ LockInv => RevisionsHold
  BY DEF LockInv, Inv, RevisionsHold
<1> QED BY <1>1, LockInvHolds, RevisionTypes, PTL
=============================================================================
