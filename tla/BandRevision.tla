---------------------------- MODULE BandRevision ----------------------------
(***************************************************************************)
(* One band of a portfolio between its two writers: the engine, which      *)
(* observes prices and trades the grid (bot-engine-service.ts), and the    *)
(* portfolio manager, which once an hour may move the grid, park the band  *)
(* or take it up again (portfolio-manager-service.ts and -repository.ts).  *)
(* The operator pauses and resumes it.                                     *)
(*                                                                         *)
(* Between two awaits nothing else runs; every database call is a step.    *)
(* A grid is the sequence of its level prices.  Orders, cash and peers are *)
(* the matter of DurableExecution and PortfolioCapital: here a buy makes a *)
(* lot and a sell ends it.  The candles and the envelope arithmetic of the *)
(* policy are left open: any price and any other grid.                     *)
(***************************************************************************)
EXTENDS Integers, Sequences, FiniteSets

CONSTANTS
  Prices,
  Grids,          \* envelopes the policy may propose, as level prices
  FirstGrid,
  LastHour,       \* bound of the clock
  Day,            \* hours in a day
  Cooldown,       \* cooldownMs, in hours
  MaxDaily,       \* maxDailyRevisions
  MaxLosses,      \* lock connections that break
  MaxCrashes,
  MaxOrders       \* pauses and resumes by the operator

RevisionAssumption ==
  /\ Prices \subseteq Nat \ {0} /\ FirstGrid \in Grids
  /\ \A g \in Grids : g \in Seq(Prices) /\ Len(g) > 1
       /\ \A i \in 1 .. Len(g) - 1 : g[i] < g[i + 1]
  /\ {LastHour, Day, Cooldown, MaxDaily, MaxLosses, MaxCrashes, MaxOrders} \subseteq Nat

VARIABLES
  hour,           \* the world
  status,         \* bots.status
  band,           \* grid_bands.status, the newest revision, the bot's config
  revised,        \* hour of every revision
  snapshot,       \* the newest row of bot_state_snapshots
  newest,         \* who read the row that is still the newest one
  lots, attempt,
  lock,           \* the bot's advisory lock
  memory,         \* lastObservedPriceByBotId, lastObservedRevisionByBotId
  run,            \* the run of the bot
  manager,        \* the cycle of the portfolio manager
  observed, log,  \* last complete observation: in memory, in system_logs
  fresh,          \* history: which recorded prices were observed since the last
                  \* change by the manager or by a resume
  faults          \* what is left of the bounds

rows == <<status, band, revised, snapshot, newest, lots, attempt>>
world == <<hour, faults>>
vars == <<world, rows, lock, memory, run, manager, observed, log, fresh>>

None == 0
NoAttempt == [side |-> "none", entry |-> None, target |-> None]
NoRun == [at |-> "off", status |-> "running", grid |-> FirstGrid, lots |-> {},
          state |-> [rev |-> 1, baseline |-> TRUE, pending |-> None, price |-> None, history |-> <<>>],
          band |-> "ACTIVE", rev |-> 1, prev |-> None, price |-> None, signal |-> NoAttempt]
Asleep == [at |-> "asleep", rev |-> 1, band |-> "ACTIVE", grid |-> FirstGrid,
           since |-> 0, history |-> <<>>, lots |-> {}, hour |-> 0, action |-> "wait"]

Recorded == {"memory", "prev", "price", "pending", "run pending", "row", "run row"}
Lots == [entry : Prices, target : Prices \cup {None}]
Snapshots == [rev : Nat, baseline : BOOLEAN, pending : Nat, price : Prices \cup {None},
              history : Seq(0 .. LastHour)]

TypeOK ==
  /\ hour \in 0 .. LastHour
  /\ status \in {"running", "paused"}
  /\ band \in [status : {"ACTIVE", "PARKED_BELOW"}, rev : 1 .. Len(revised), grid : Grids]
  /\ revised \in Seq(0 .. LastHour)
  /\ snapshot \in Snapshots /\ snapshot.pending \in {None} \cup (1 .. Len(band.grid) - 1)
  /\ newest \subseteq {"run", "manager"} /\ lots \subseteq Lots
  /\ attempt.side \in {"none", "buy", "sell"} /\ lock \in {"free", "run"}
  /\ memory \in [price : Prices \cup {None}, rev : 0 .. Len(revised)]
  /\ run.at \in {"off", "bot", "state", "band", "attempt", "decide", "write", "prepare", "resume", "end"}
  /\ run.state \in Snapshots
  /\ manager.at \in {"asleep", "bot", "peers", "apply", "record"}
  /\ observed \in -1 .. LastHour /\ log \in -1 .. LastHour
  /\ DOMAIN fresh = {"manager", "operator"} /\ \A k \in DOMAIN fresh : fresh[k] \subseteq Recorded
  /\ faults \in [losses : 0 .. MaxLosses, crashes : 0 .. MaxCrashes, orders : 0 .. MaxOrders]

\* createPaperBand: the band, its first revision and the first snapshot.
Init ==
  /\ hour = 0 /\ status = "running"
  /\ band = [status |-> "ACTIVE", rev |-> 1, grid |-> FirstGrid] /\ revised = <<0>>
  /\ snapshot = [rev |-> 1, baseline |-> TRUE, pending |-> None, price |-> None, history |-> <<>>]
  /\ newest = {} /\ lots = {} /\ attempt = NoAttempt /\ lock = "free"
  /\ memory = [price |-> None, rev |-> None] /\ run = NoRun /\ manager = Asleep
  /\ observed = -1 /\ log = -1
  /\ fresh = [k \in {"manager", "operator"} |-> Recorded]
  /\ faults = [losses |-> MaxLosses, crashes |-> MaxCrashes, orders |-> MaxOrders]

\* A copy of a recorded price is as fresh as the original.
Copy(from, to) ==
  fresh' = [k \in DOMAIN fresh |->
    (fresh[k] \ DOMAIN to) \cup {t \in DOMAIN to : to[t] \in fresh[k] \cup {"now"}}]
\* The manager or a resume starts the observation anew.
Restart(who) == fresh' = [fresh EXCEPT ![who] = {}]
-----------------------------------------------------------------------------
\* The engine: one run of the bot

BuyLevels(g) == 1 .. Len(g) - 1
OutOfRange(g, p) == p < g[1] \/ p > g[Len(g)]

\* buildOrderIntent for a buy at level i of the run's copies.
MayBuy(r, i) ==
  /\ i \in BuyLevels(r.grid) /\ r.band = "ACTIVE"
  /\ \A lot \in r.lots : lot.entry # r.grid[i]

\* detectCrossedLevels and selectActionableCrossedSignal: the highest rail that
\* the fall of the price touched and that may be bought.
Crossed(r) ==
  {i \in BuyLevels(r.grid) : r.prev # None /\ r.price < r.prev
     /\ r.price <= r.grid[i] /\ r.grid[i] <= r.prev /\ MayBuy(r, i)}
Pending(r) ==
  {i \in BuyLevels(r.grid) : i = r.state.pending /\ r.price <= r.grid[i] /\ MayBuy(r, i)}
Top(S) == CHOOSE i \in S : \A j \in S : j <= i

\* resolvePendingSignal: what a passive snapshot keeps as pending.
StillPending(r) ==
  IF Crossed(r) # {} THEN Top(Crossed(r)) ELSE IF Pending(r) # {} THEN r.state.pending ELSE None

\* eligibleCommittedExits: the lowest target the price has reached.
Exits(r) == {lot \in r.lots : lot.target # None /\ r.price >= lot.target}
FirstExit(r) == CHOOSE x \in Exits(r) : \A y \in Exits(r) : x.target <= y.target

\* The first pass under a revision only observes.
Baseline(r, rev) == memory.rev # rev \/ r.state.baseline

StartRun ==
  /\ run.at = "off" /\ lock = "free"
  /\ lock' = "run" /\ run' = [NoRun EXCEPT !.at = "bot"]
  /\ UNCHANGED <<world, rows, memory, manager, observed, log, fresh>>

\* getBotAggregate: bot, config and lots; then the newest snapshot; then the band.
ReadBot ==
  /\ run.at = "bot"
  /\ run' = [run EXCEPT !.at = "state", !.status = status, !.grid = band.grid, !.lots = lots]
  /\ UNCHANGED <<world, rows, lock, memory, manager, observed, log, fresh>>
ReadState ==
  /\ run.at = "state"
  /\ run' = [run EXCEPT !.at = "band", !.state = snapshot]
  /\ newest' = newest \cup {"run"}
  /\ Copy("", [t \in {"run pending", "run row"} |-> IF t = "run row" THEN "row" ELSE "pending"])
  /\ UNCHANGED <<world, status, band, revised, snapshot, lots, attempt, lock, memory, manager, observed, log>>
ReadBand ==
  /\ run.at = "band"
  /\ run' = [run EXCEPT !.at = "attempt", !.band = band.status, !.rev = band.rev]
  /\ UNCHANGED <<world, rows, lock, memory, manager, observed, log, fresh>>

\* A pending attempt is taken up before anything else; otherwise the price is
\* observed and remembered.
Observe ==
  /\ run.at = "attempt"
  /\ IF attempt # NoAttempt
     THEN /\ run' = [run EXCEPT !.at = "resume"] /\ UNCHANGED <<memory, fresh>>
     ELSE /\ \E price \in Prices :
               /\ run' = [run EXCEPT !.at = "decide", !.price = price,
                            !.prev = IF memory.price # None THEN memory.price ELSE run.state.price]
               /\ memory' = [memory EXCEPT !.price = price]
          /\ Copy("", [t \in {"prev", "price", "memory"} |->
               IF t # "prev" THEN "now" ELSE IF memory.price # None THEN "memory" ELSE "run row"])
  /\ UNCHANGED <<world, rows, lock, manager, observed, log>>

\* A passive write of the run's state with what it changes.
ToWrite(r, state) == [r EXCEPT !.at = "write", !.state = state]
Passive(r) == [r.state EXCEPT !.price = r.price, !.pending = StillPending(r)]
KeptPending(r) == IF Crossed(r) # {} THEN "prev" ELSE "run pending"

WritePassive(state, pendingFrom) ==
  /\ run' = ToWrite(run, state)
  /\ Copy("", [t \in {"run pending", "run row"} |-> IF t = "run row" THEN "price" ELSE pendingFrom])
  /\ UNCHANGED <<world, rows, lock, manager, observed, log>>

DecidePaused ==
  /\ run.at = "decide" /\ run.status = "paused"
  /\ WritePassive(Passive(run), KeptPending(run)) /\ UNCHANGED memory

\* A signal goes to preparation, or the quote guard holds it back and it stays
\* pending; a sell that stays pending is never taken up from there.
Signal(r, entry, target, side) == [r EXCEPT !.signal = [side |-> side, entry |-> entry, target |-> target], !.at = "prepare"]
QuoteBlocks(i, from) == WritePassive([run.state EXCEPT !.price = run.price, !.pending = i], from)

DecideExit ==
  /\ run.at = "decide" /\ run.status # "paused" /\ Exits(run) # {}
  /\ \/ /\ run' = Signal(run, FirstExit(run).entry, FirstExit(run).target, "sell")
        /\ UNCHANGED <<world, rows, lock, manager, observed, log, fresh>>
     \/ QuoteBlocks(None, "price")
  /\ UNCHANGED memory

DecideBaseline ==
  /\ run.at = "decide" /\ run.status # "paused" /\ Exits(run) = {}
  /\ Baseline(run, run.rev)
  /\ memory' = [memory EXCEPT !.rev = run.rev]
  /\ WritePassive([run.state EXCEPT !.price = run.price, !.pending = None,
                     !.baseline = FALSE, !.rev = run.rev], "price")

Trading == run.at = "decide" /\ run.status # "paused" /\ Exits(run) = {} /\ ~Baseline(run, run.rev)

DecideInactive ==
  /\ Trading
  /\ run.band # "ACTIVE" \/ OutOfRange(run.grid, run.price)
  /\ WritePassive([run.state EXCEPT !.price = run.price, !.pending = None], "price")
  /\ UNCHANGED memory

DecideEntry ==
  /\ Trading /\ run.band = "ACTIVE" /\ ~OutOfRange(run.grid, run.price)
  /\ LET S == IF Crossed(run) # {} THEN Crossed(run) ELSE Pending(run)
         i == Top(S) IN
     IF S = {} THEN WritePassive(Passive(run), "run pending")
     ELSE \/ /\ run' = Signal(run, run.grid[i], run.grid[i + 1], "buy")
             /\ Copy("", [t \in {"price"} |-> KeptPending(run)])
             /\ UNCHANGED <<world, rows, lock, manager, observed, log>>
          \/ QuoteBlocks(i, KeptPending(run))
  /\ UNCHANGED memory

Decide == DecidePaused \/ DecideExit \/ DecideBaseline \/ DecideInactive \/ DecideEntry

\* createStateSnapshot drops what was computed under an older revision; the
\* operator's pause stays.
TakesSnapshot(state) == state.rev = band.rev
StatusAfter(proposed) == IF status = "paused" THEN status ELSE proposed

Write ==
  /\ run.at = "write"
  /\ run' = [run EXCEPT !.at = "end"]
  /\ IF TakesSnapshot(run.state)
     THEN /\ snapshot' = run.state /\ newest' = {} /\ status' = StatusAfter(run.status)
          /\ Copy("", [t \in {"pending", "row"} |-> IF t = "row" THEN "run row" ELSE "run pending"])
     ELSE UNCHANGED <<snapshot, newest, status, fresh>>
  /\ UNCHANGED <<world, band, revised, lots, attempt, lock, memory, manager, observed, log>>

\* shouldPersistPassiveState: within thirty seconds a write that changes neither
\* the status nor the pending signal is left out.  The baseline flag and the
\* revision are not compared.
WriteThrottled ==
  /\ run.at = "write" /\ "run" \in newest /\ run.state.pending = snapshot.pending
  /\ run' = [run EXCEPT !.at = "end"]
  /\ UNCHANGED <<world, rows, lock, memory, manager, observed, log, fresh>>

\* prepareExecutionAttempt
PreparesBuy ==
  /\ band.status = "ACTIVE" /\ run.rev = band.rev
  /\ \A lot \in lots : lot.entry # run.signal.entry
MayPrepare ==
  /\ attempt = NoAttempt /\ "run" \in newest /\ status # "paused"
  /\ run.signal.side = "buy" => PreparesBuy
Prepare ==
  /\ run.at = "prepare"
  /\ IF MayPrepare
     THEN /\ attempt' = run.signal /\ run' = [run EXCEPT !.at = "resume"]
     ELSE /\ run' = [run EXCEPT !.at = "end"] /\ UNCHANGED attempt
  /\ UNCHANGED <<world, status, band, revised, snapshot, newest, lots, lock, memory, manager, observed, log, fresh>>

\* resumeExecutionAttempt: filled, failed, or kept for the next run.
Fill ==
  /\ run.at = "resume" /\ attempt # NoAttempt
  /\ lots' = IF attempt.side = "buy"
             THEN lots \cup {[entry |-> attempt.entry, target |-> attempt.target]}
             ELSE {lot \in lots : lot.entry # attempt.entry}
Fails == run.at = "resume" /\ UNCHANGED lots
Settle ==
  /\ Fill \/ Fails
  /\ attempt' = NoAttempt /\ newest' = {}
  /\ LET price == IF run.price # None THEN run.price ELSE run.state.price IN
     snapshot' = [run.state EXCEPT !.pending = None,
                    !.price = IF price # None THEN price ELSE attempt.entry]
  /\ Copy("", [t \in {"pending", "row"} |->
       IF t = "row" /\ run.price = None /\ run.state.price # None THEN "run row" ELSE "now"])
  /\ run' = [run EXCEPT !.at = "end"]
  /\ UNCHANGED <<world, status, band, revised, lock, memory, manager, observed, log>>
Unresolved ==
  /\ run.at = "resume"
  /\ run' = [run EXCEPT !.at = "end"]
  /\ UNCHANGED <<world, rows, lock, memory, manager, observed, log, fresh>>

EndRun ==
  /\ run.at = "end"
  /\ run' = NoRun /\ lock' = "free" /\ newest' = newest \ {"run"}
  /\ UNCHANGED <<world, status, band, revised, snapshot, lots, attempt, memory, manager, observed, log, fresh>>

RunStep ==
  StartRun \/ ReadBot \/ ReadState \/ ReadBand \/ Observe \/ Decide \/ Write \/ WriteThrottled
    \/ Prepare \/ Settle \/ Unresolved \/ EndRun
-----------------------------------------------------------------------------
\* The portfolio manager: one cycle for the band

Highest(a, b) == IF a > b THEN a ELSE b
SleepsOn == UNCHANGED <<world, rows, lock, memory, run, fresh>>

\* getContext, and the reasons to leave the band alone this minute.
WakeUp ==
  /\ manager.at = "asleep" /\ attempt = NoAttempt
  /\ Highest(observed, log) < hour
  /\ manager' = [Asleep EXCEPT !.at = "bot", !.hour = hour, !.rev = band.rev, !.band = band.status,
                   !.grid = band.grid, !.since = revised[band.rev]]
  /\ SleepsOn /\ UNCHANGED <<observed, log>>

Manage(m) == manager' = m /\ UNCHANGED <<world, status, band, revised, snapshot, lots, attempt, lock, memory, run, fresh, observed, log>>

\* getBot, then the peers (with this bot's lots once more).
ReadForPolicy ==
  /\ manager.at = "bot"
  /\ IF status = "paused"
     THEN Manage(Asleep) /\ newest' = newest \ {"manager"}
     ELSE Manage([manager EXCEPT !.at = "peers", !.history = snapshot.history])
          /\ newest' = newest \cup {"manager"}

\* evaluatePortfolioPolicy
RevisionsToday(m) == Cardinality({i \in DOMAIN m.history : m.history[i] \div Day = m.hour \div Day})
Cooled(m) == m.hour - m.since >= Cooldown /\ RevisionsToday(m) < MaxDaily

Actions(m, price, held) ==
  LET g == m.grid
      below == price < g[1]
      inside == ~OutOfRange(g, price) IN
  {"wait"} \cup (IF m.band # "ACTIVE" /\ inside THEN {"reactivate"} ELSE {})
    \cup (IF Cooled(m) THEN {"revise"} ELSE {})
    \cup (IF Cooled(m) /\ below /\ held # {} THEN {"park", "create_band"} ELSE {})

Evaluate ==
  /\ manager.at = "peers"
  /\ \E price \in Prices : \E a \in Actions(manager, price, lots) :
       Manage([manager EXCEPT !.at = "apply", !.lots = lots, !.action = a])
  /\ UNCHANGED newest

\* applyDecision, reviseBand: what the decision was computed from must still hold.
SeenForgotten == band.rev = manager.rev
SeenStill == "manager" \in newest /\ band.rev = manager.rev
MayApply ==
  /\ lock = "free" /\ attempt = NoAttempt /\ status # "paused" /\ SeenStill
  /\ manager.action # "revise" => band.status = manager.band

Applies(action) == manager.at = "apply" /\ manager.action = action /\ MayApply
Applied == manager' = [manager EXCEPT !.at = "record"] /\ UNCHANGED <<world, status, lots, attempt, lock, memory, run, observed, log>>

\* reviseBand
Revise ==
  /\ Applies("revise") /\ Len(revised) <= LastHour + 1
  /\ \E g \in Grids \ {band.grid} :
       band' = [status |-> "ACTIVE", rev |-> Len(revised) + 1, grid |-> g]
  /\ revised' = Append(revised, manager.hour)
  /\ snapshot' = [snapshot EXCEPT !.rev = Len(revised) + 1, !.pending = None, !.baseline = TRUE,
                    !.history = Append(@, manager.hour)]
  /\ newest' = {} /\ Restart("manager") /\ Applied

\* park and reactivate keep the revision and start the observation anew.
ParkedSnapshotUnmarked(s) == [s EXCEPT !.pending = None]
ParkedSnapshot(s) == [s EXCEPT !.pending = None, !.baseline = TRUE]
ParkOrReactivate ==
  /\ \/ Applies("park") /\ band' = [band EXCEPT !.status = "PARKED_BELOW"]
     \/ Applies("reactivate") /\ band' = [band EXCEPT !.status = "ACTIVE"]
  /\ snapshot' = ParkedSnapshot(snapshot)
  /\ newest' = {} /\ Restart("manager") /\ Applied /\ UNCHANGED revised

\* create_band: the new band is another bot; this one is parked.
CreateBand ==
  /\ Applies("create_band") /\ band' = [band EXCEPT !.status = "PARKED_BELOW"]
  /\ Applied /\ UNCHANGED <<revised, snapshot, newest, fresh>>

Nothing ==
  /\ manager.at = "apply" /\ manager.action = "wait"
  /\ Manage([manager EXCEPT !.at = "record"]) /\ UNCHANGED newest

\* A refused decision is logged as an incomplete observation: the hour is
\* evaluated again by a later cycle.
Refused ==
  /\ manager.at = "apply" /\ manager.action # "wait" /\ ~MayApply
  /\ Manage(Asleep) /\ newest' = newest \ {"manager"}

\* recordDecision, then the map in memory; the write may fail.
Record ==
  /\ manager.at = "record"
  /\ \/ log' = manager.hour /\ observed' = manager.hour
     \/ UNCHANGED <<log, observed>>
  /\ manager' = Asleep /\ newest' = newest \ {"manager"}
  /\ UNCHANGED <<world, status, band, revised, snapshot, lots, attempt, lock, memory, run, fresh>>

ManagerStep ==
  WakeUp \/ ReadForPolicy \/ Evaluate \/ Revise \/ ParkOrReactivate \/ CreateBand \/ Nothing
    \/ Refused \/ Record
-----------------------------------------------------------------------------
\* The operator and the world

Order == faults.orders > 0 /\ faults' = [faults EXCEPT !.orders = @ - 1]

Pause ==
  /\ Order /\ status # "paused" /\ status' = "paused" /\ newest' = {}
  /\ UNCHANGED <<hour, band, revised, snapshot, lots, attempt, lock, memory, run, manager, observed, log, fresh>>

\* resumePortfolioBand takes the bot's row but not the advisory lock.
Resume ==
  /\ Order /\ status = "paused" /\ attempt = NoAttempt
  /\ status' = "running" /\ newest' = {}
  /\ snapshot' = [snapshot EXCEPT !.pending = None, !.baseline = TRUE]
  /\ Restart("operator")
  /\ UNCHANGED <<hour, band, revised, lots, attempt, lock, memory, run, manager, observed, log>>

NextHour ==
  /\ hour < LastHour /\ hour' = hour + 1
  /\ UNCHANGED <<faults, rows, lock, memory, run, manager, observed, log, fresh>>

\* The connection that holds the lock breaks; the run goes on.
LoseLock ==
  /\ faults.losses > 0 /\ lock = "run" /\ run.at \notin {"off", "end"}
  /\ lock' = "free" /\ faults' = [faults EXCEPT !.losses = @ - 1]
  /\ UNCHANGED <<hour, rows, memory, run, manager, observed, log, fresh>>

\* The worker dies with the run, the cycle and all it remembered.
Crash ==
  /\ faults.crashes > 0 /\ faults' = [faults EXCEPT !.crashes = @ - 1]
  /\ lock' = "free" /\ run' = NoRun /\ manager' = Asleep /\ newest' = {}
  /\ memory' = [price |-> None, rev |-> None] /\ observed' = -1
  /\ UNCHANGED <<hour, status, band, revised, snapshot, lots, attempt, log, fresh>>

Next ==
  RunStep \/ ManagerStep \/ Pause \/ Resume \/ NextHour \/ LoseLock \/ Crash

Spec == Init /\ [][Next]_vars
-----------------------------------------------------------------------------
\* Properties

\* The fall of the price that a buy answers was observed as a whole after the
\* manager's last change: no rail is bought for a move that happened under
\* another grid, or while the band was parked (lot-exit-commitment-service.ts:55
\* and the baseline pass of bot-engine-service.ts:147).
Entering == run.at = "resume" /\ run.signal.side = "buy" /\ attempt = run.signal
EntriesFollowObservation == Entering => "price" \in fresh["manager"]

\* The newest snapshot belongs to the newest revision, also when a run that lost
\* its lock writes what it computed before the manager moved the grid.
SnapshotNamesRevision == snapshot.rev = band.rev

\* Revisions keep the interval of the policy, whatever crashes or is
\* evaluated twice between applying and recording a decision.
RevisionsSpaced ==
  \A i \in 1 .. Len(revised) - 1 : revised[i + 1] - revised[i] >= Cooldown

\* and their number in a day, which is counted from what the runs carry along
\* in the snapshots they write.
DailyLimit ==
  \A d \in 0 .. LastHour \div Day :
    Cardinality({i \in 2 .. Len(revised) : revised[i] \div Day = d}) <= MaxDaily

\* What the two writers of a band keep between them while the lock lives.
RevisionsHold ==
  TypeOK /\ EntriesFollowObservation /\ SnapshotNamesRevision /\ RevisionsSpaced /\ DailyLimit

\* A decision takes effect only on the lots it was computed from.
AppliedToLotsSeen ==
  manager.at = "apply" /\ manager'.at = "record" /\ manager.action # "wait" => lots = manager.lots
=============================================================================
