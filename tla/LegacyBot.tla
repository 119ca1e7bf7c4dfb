------------------------------ MODULE LegacyBot ------------------------------
(***************************************************************************)
(* One legacy paper bot, outside any portfolio, between the engine and the *)
(* operator's routes.  Unlike the bands (DurableExecution), its trade is   *)
(* written in separate transactions (bot-engine-service.ts:456-585), and   *)
(* the routes that edit, resume or reset it read before they open theirs   *)
(* (apps/web/src/app/api/bots/[id]/...).                                   *)
(*                                                                         *)
(* Amounts are counted in lots: a buy costs one unit, its sale returns two.*)
(* Which signal the price gives is the matter of GridDecision.             *)
(***************************************************************************)
EXTENDS Integers, FiniteSets

CONSTANTS
  Levels,       \* grid levels that can be bought
  FirstBudget,
  MaxTrades, MaxEdits, MaxOrders, MaxCrashes,   \* bounds
  Requests      \* what the operator may ask: subset of RequestKinds

RequestKinds == {"pause", "stop", "resume", "edit", "range", "entry", "reset", "reset all"}
LegacyAssumption ==
  /\ Levels \subseteq Nat \ {0} /\ IsFiniteSet(Levels) /\ Requests \subseteq RequestKinds
  /\ {FirstBudget, MaxTrades, MaxEdits, MaxOrders, MaxCrashes} \subseteq Nat

VARIABLES
  bot,        \* bots.status
  config,     \* totalBudgetUsd, entryMode, which range
  lots,       \* open lots: id and level
  position,   \* positions.realizedPnlUsd
  snap,       \* newest row of bot_state_snapshots
  unresolved, \* executions of the bot without completedAt
  lock,       \* the bot's advisory lock
  run,        \* a run of the engine
  edit,       \* a PATCH in flight
  call,       \* a resume or reset in flight
  current,    \* who read the newest snapshot, and whether the PATCH read the
              \* bot's row as it still is ("row")
  left,       \* what is left of the bounds
  raced,      \* history: a request was written across a run, or from a stale read
  granted     \* history: the cash the books were given, by a reset and by edits

rows == <<bot, config, lots, position, snap, unresolved>>
vars == <<rows, lock, run, edit, call, current, left, raced, granted>>

Statuses == {"running", "cooldown", "out_of_range", "error", "paused", "stopped"}
Halted == {"paused", "stopped"}
Snapshots == [cash : Int, base : Int, cost : Nat, real : Nat, range : {1, 2},
              cycles : SUBSET (1 .. MaxTrades)]
FreshState(budget, range) == [cash |-> budget, base |-> 0, cost |-> 0, real |-> 0, range |-> range, cycles |-> {}]
NoRun == [at |-> "off", status |-> "running", sellOnly |-> FALSE, range |-> 1, budget |-> 0, lots |-> {},
          state |-> FreshState(0, 1), next |-> {}, write |-> "running"]
NoEdit == [at |-> "off", budget |-> 0, delta |-> 0, moves |-> FALSE, sellOnly |-> FALSE,
           lots |-> {}, state |-> FreshState(0, 1)]
NoCall == [at |-> "off", state |-> FreshState(0, 1), budget |-> 0]

TypeOK ==
  /\ bot \in Statuses
  /\ config.budget \in Nat /\ config.sellOnly \in BOOLEAN /\ config.range \in {1, 2}
  /\ lots \subseteq [id : 1 .. MaxTrades, level : Levels] /\ position \in Nat /\ snap \in Snapshots
  /\ unresolved \in BOOLEAN /\ lock \in {"free", "run"}
  /\ run.at \in {"off", "bot", "state", "decide", "order", "execute", "finalize", "lots", "position",
                 "cooldown", "snapshot", "again", "passive", "recenter", "throws", "end"}
  /\ edit.at \in {"off", "state", "lots", "commit"}
  /\ call.at \in {"off", "resume", "resume write", "reset", "reset all"}
  /\ current \subseteq {"run", "edit", "call", "row"} /\ raced \in BOOLEAN /\ granted \in Nat
  /\ left \in [trades : 0 .. MaxTrades, edits : 0 .. MaxEdits, orders : 0 .. MaxOrders, crashes : 0 .. MaxCrashes]

\* A created bot after its first resume.
Init ==
  /\ bot = "running" /\ config = [budget |-> FirstBudget, sellOnly |-> FALSE, range |-> 1]
  /\ lots = {} /\ position = 0 /\ snap = FreshState(FirstBudget, 1)
  /\ unresolved = FALSE /\ lock = "free"
  /\ run = NoRun /\ edit = NoEdit /\ call = NoCall
  /\ current = {} /\ raced = FALSE /\ granted = FirstBudget
  /\ left = [trades |-> MaxTrades, edits |-> MaxEdits, orders |-> MaxOrders, crashes |-> MaxCrashes]
-----------------------------------------------------------------------------
\* The engine

\* A step of the run; status writes to the bot's row change updatedAt.
Step(r) == run' = r /\ UNCHANGED <<edit, call, left, raced, granted>>
Goto(at) == Step([run EXCEPT !.at = at])

\* updateBotStatus and createStateSnapshot leave the operator's pause alone.
PreservedStatus(now, proposed) == IF now \in Halted THEN now ELSE proposed

\* createStateSnapshot: a new newest row, no matter which one the run had read.
NewSnapshot(s) == snap' = s /\ current' = {}

StartRun ==
  /\ run.at = "off" /\ lock = "free" /\ bot \notin Halted
  /\ lock' = "run" /\ Goto("bot") /\ UNCHANGED <<rows, current>>

\* getBotAggregate in two queries; also what executeSellCatchUp reads again.
ReadBot ==
  /\ run.at = "bot"
  /\ Step([run EXCEPT !.at = "state", !.status = bot, !.sellOnly = config.sellOnly,
             !.range = config.range, !.budget = config.budget, !.lots = lots])
  /\ UNCHANGED <<rows, lock, current>>
ReadState ==
  /\ run.at = "state"
  /\ Step([run EXCEPT !.at = "decide", !.state = snap])
  /\ current' = current \cup {"run"} /\ UNCHANGED <<rows, lock>>

\* The heartbeat (not on every run) and the recovery from Error touch the bot's
\* row; a bot that was read as paused or stopped only writes its passive state.
Heartbeat ==
  /\ run.at = "decide" /\ "row" \in current
  /\ current' = current \ {"row"} /\ Goto("decide") /\ UNCHANGED <<rows, lock>>

ToPassive(status) == Step([run EXCEPT !.at = "passive", !.write = status])
Recovered == bot' = IF run.status = "error" THEN PreservedStatus(bot, "running") ELSE bot
TouchRow == current' = IF bot' # bot THEN current \ {"row"} ELSE current

\* getPassiveStatus
PassiveStatus(r) == IF r.status \in {"error", "out_of_range"} THEN {"running"}
                    ELSE IF r.status = "cooldown" THEN {"cooldown", "running"} ELSE {r.status}

DecidePassive ==
  /\ run.at = "decide"
  /\ IF run.status \in Halted THEN bot' = bot ELSE Recovered
  /\ TouchRow
  /\ \E s \in PassiveStatus(run) \cup (IF run.status \in Halted THEN {} ELSE {"out_of_range"}) : ToPassive(s)
  /\ UNCHANGED <<config, lots, position, snap, unresolved, lock>>

\* buildOrderIntent and the risk rules, on the run's copies: a level is occupied
\* when the stored cycles name an open lot at it, and no more is deployed than the
\* budget (maxDeployableUsd, with nothing in reserve).
Occupied(r, level) == \E lot \in r.lots : lot.level = level /\ lot.id \in r.state.cycles
MayBuy(r, level) ==
  ~Occupied(r, level) /\ ~r.sellOnly /\ r.state.cash > 0 /\ r.state.cost < r.budget
DecideTrade ==
  /\ run.at = "decide" /\ run.status \notin Halted /\ left.trades > 0
  /\ Recovered /\ TouchRow
  /\ \/ \E level \in Levels :
          /\ MayBuy(run, level)
          /\ run' = [run EXCEPT !.at = "order", !.next = run.lots \cup {[id |-> left.trades, level |-> level]}]
     \/ \E lot \in run.lots : run' = [run EXCEPT !.at = "order", !.next = run.lots \ {lot}]
  /\ left' = [left EXCEPT !.trades = @ - 1]
  /\ UNCHANGED <<config, lots, position, snap, unresolved, lock, edit, call, raced, granted>>

\* evaluateFlatRecenter on the run's copies.
DecideRecenter ==
  /\ run.at = "decide" /\ run.status \notin Halted /\ run.lots = {}
  /\ Recovered /\ TouchRow /\ Goto("recenter")
  /\ UNCHANGED <<config, lots, position, snap, unresolved, lock>>

WritePassive ==
  /\ run.at = "passive"
  /\ bot' = PreservedStatus(bot, run.write)
  /\ NewSnapshot([run.state EXCEPT !.cost = Cardinality(run.lots)])
  /\ Goto("end") /\ UNCHANGED <<config, lots, position, unresolved, lock>>

\* shouldPersistPassiveState leaves an unchanged state out for a while.
WriteThrottled ==
  /\ run.at = "passive" /\ run.write = run.status /\ Goto("end") /\ UNCHANGED <<rows, lock, current>>

\* updateRange: range, snapshot and status in one transaction, or an error.
MayRecenter == lots = {} /\ bot \notin Halted
Recenter ==
  /\ run.at = "recenter"
  /\ IF MayRecenter
     THEN /\ config' = [config EXCEPT !.range = 3 - run.range] /\ bot' = "running"
          /\ NewSnapshot([run.state EXCEPT !.cost = 0, !.range = 3 - run.range, !.cycles = {}])
     ELSE bot' = PreservedStatus(bot, "error") /\ TouchRow /\ UNCHANGED <<config, snap>>
  /\ Goto("end") /\ UNCHANGED <<lots, position, unresolved, lock>>

\* createOrder; createExecution; the adapter, which may answer Failed;
\* finalizeExecution and markOrderStatus; replaceLots; upsertPosition with the
\* inventory and pnl rows; updateBotStatus; createStateSnapshot.
CreateOrder == run.at = "order" /\ Goto("execute") /\ UNCHANGED <<rows, lock, current>>
CreateExecution ==
  /\ run.at = "execute" /\ unresolved' = TRUE /\ Goto("finalize")
  /\ UNCHANGED <<bot, config, lots, position, snap, lock, current>>
Finalize ==
  /\ run.at = "finalize" /\ unresolved' = FALSE
  /\ \/ Goto("lots") /\ UNCHANGED <<bot, current>>
     \/ bot' = PreservedStatus(bot, "error") /\ TouchRow /\ ToPassive("error")
  /\ UNCHANGED <<config, lots, position, snap, lock>>

Bought(r) == r.lots \subseteq r.next
\* computePortfolioState: the cost is that of the lots, the rest continues the
\* newest state the run has read.
Ids(held) == {lot.id : lot \in held}
After(r) ==
  [r.state EXCEPT !.cash = IF Bought(r) THEN @ - 1 ELSE @ + 2, !.base = IF Bought(r) THEN @ + 1 ELSE @ - 1,
                  !.cost = Cardinality(r.next), !.real = IF Bought(r) THEN @ ELSE @ + 1,
                  !.cycles = (@ \cup (Ids(r.next) \ Ids(r.lots))) \cap Ids(r.next)]
ReplaceLots ==
  /\ run.at = "lots" /\ lots' = run.next /\ Goto("position")
  /\ UNCHANGED <<bot, config, position, snap, unresolved, lock, current>>
UpsertPosition ==
  /\ run.at = "position" /\ position' = After(run).real /\ Goto("cooldown")
  /\ UNCHANGED <<bot, config, lots, snap, unresolved, lock, current>>
EnterCooldown ==
  /\ run.at = "cooldown" /\ bot' = PreservedStatus(bot, "cooldown") /\ TouchRow /\ Goto("snapshot")
  /\ UNCHANGED <<config, lots, position, snap, unresolved, lock>>
WriteSnapshot ==
  /\ run.at = "snapshot"
  /\ bot' = PreservedStatus(bot, "cooldown") /\ NewSnapshot(After(run))
  /\ Goto(IF Bought(run) THEN "end" ELSE "again")
  /\ UNCHANGED <<config, lots, position, unresolved, lock>>

\* executeSellCatchUp: another sell on the state as it now is, or the end; the
\* risk rules hold a halted bot's sell back.
CatchUp ==
  /\ run.at = "again" /\ left.trades > 0
  /\ \E lot \in lots :
       run' = [run EXCEPT !.at = IF bot \in Halted THEN "passive" ELSE "order", !.status = bot, !.write = bot,
                 !.lots = lots, !.state = snap, !.next = lots \ {lot}]
  /\ left' = [left EXCEPT !.trades = @ - 1]
  /\ current' = current \cup {"run"}
  /\ UNCHANGED <<rows, lock, edit, call, raced, granted>>
CaughtUp == run.at = "again" /\ Goto("end") /\ UNCHANGED <<rows, lock, current>>

\* What the run was about to write is gone: a reset deleted its order.
Throws ==
  /\ run.at = "throws" /\ bot' = PreservedStatus(bot, "error") /\ TouchRow /\ Goto("end")
  /\ UNCHANGED <<config, lots, position, snap, unresolved, lock>>
EndRun ==
  /\ run.at = "end" /\ Step(NoRun) /\ lock' = "free" /\ current' = current \ {"run"} /\ UNCHANGED rows

TradeStep ==
  CreateOrder \/ CreateExecution \/ Finalize \/ ReplaceLots \/ UpsertPosition \/ EnterCooldown
    \/ WriteSnapshot \/ CatchUp \/ CaughtUp
RunStep ==
  \/ StartRun \/ ReadBot \/ ReadState \/ Heartbeat \/ DecidePassive \/ DecideTrade \/ DecideRecenter
  \/ WritePassive \/ WriteThrottled \/ Recenter \/ TradeStep \/ Throws \/ EndRun

\* The worker dies; nothing takes the trade up again.
Crash ==
  /\ left.crashes > 0 /\ run.at # "off" /\ left' = [left EXCEPT !.crashes = @ - 1]
  /\ run' = NoRun /\ lock' = "free" /\ current' = current \ {"run"}
  /\ UNCHANGED <<rows, edit, call, raced, granted>>
-----------------------------------------------------------------------------
\* The operator's routes

Asks(kind) == kind \in Requests /\ left.orders > 0 /\ left' = [left EXCEPT !.orders = @ - 1]

\* pause and stop: one transaction over the newest state under the row's lock.
Halt ==
  /\ \/ Asks("pause") /\ bot # "paused" /\ bot' = "paused"
     \/ Asks("stop") /\ bot # "stopped" /\ bot' = "stopped"
  /\ NewSnapshot(snap)
  /\ UNCHANGED <<config, lots, position, unresolved, lock, run, edit, call, raced, granted>>

\* sell-only and resume-buys touch the config alone.
SetEntryMode ==
  /\ Asks("entry") /\ config' = [config EXCEPT !.sellOnly = ~@]
  /\ UNCHANGED <<bot, lots, position, snap, unresolved, lock, run, edit, call, current, raced, granted>>

\* createStateSnapshotFromOpenLots, when the stored row shows no exposure.
FromOpenLots(budget, range, held) ==
  LET n == Cardinality(held) IN
  [cash |-> IF budget + position > n THEN budget + position - n ELSE 0,
   base |-> n, cost |-> n, real |-> position, range |-> range, cycles |-> Ids(held)]
Rebuilds(s, held) == held # {} /\ s.cost <= 0 /\ s.base <= 0
StateFor(budget, held) ==
  IF Rebuilds(snap, held) THEN FromOpenLots(budget, config.range, held) ELSE snap

\* resume: what it clones was read before its transaction.
ResumeRead ==
  /\ Asks("resume") /\ call.at = "off" /\ bot # "running"
  /\ call' = [NoCall EXCEPT !.at = "resume write", !.state = StateFor(config.budget, lots)]
  /\ current' = current \cup {"call"} /\ UNCHANGED <<rows, lock, run, edit, raced, granted>>
ResumeWrite ==
  /\ call.at = "resume write"
  /\ bot' = "running" /\ NewSnapshot(call.state) /\ call' = NoCall
  /\ raced' = (raced \/ run.at # "off" \/ "call" \notin current)
  /\ UNCHANGED <<config, lots, position, unresolved, lock, run, edit, left, granted>>

\* paper-reset; paper-reset-all waits for the bot's lock and pauses the bot.
ResetRead ==
  /\ call.at = "off"
  /\ \/ Asks("reset") /\ bot \notin {"running", "cooldown"} /\ call' = [NoCall EXCEPT !.at = "reset", !.budget = config.budget]
     \/ Asks("reset all") /\ call' = [NoCall EXCEPT !.at = "reset all", !.budget = config.budget]
  /\ UNCHANGED <<rows, lock, run, edit, current, raced, granted>>
ResetWaits == call.at = "reset all" => lock = "free"
ResetWrite ==
  /\ call.at \in {"reset", "reset all"} /\ ResetWaits
  /\ bot' = IF call.at = "reset all" THEN "paused" ELSE bot
  /\ lots' = {} /\ position' = 0 /\ unresolved' = FALSE
  /\ NewSnapshot(FreshState(call.budget, config.range)) /\ granted' = call.budget /\ call' = NoCall
  /\ run' = IF run.at \in {"execute", "finalize"} THEN [run EXCEPT !.at = "throws"] ELSE run
  /\ raced' = (raced \/ run.at # "off" \/ call.budget # config.budget)
  /\ UNCHANGED <<config, lock, edit, left>>

\* PATCH: reads, then the newest state, then (for a new range) the lots again.  The
\* budget of a paper bot may also be lowered; that alone needs no state.
EditRead ==
  /\ edit.at = "off" /\ left.edits > 0 /\ bot \notin {"running", "cooldown"}
  /\ \E delta \in -1 .. 1, moves, only \in BOOLEAN :
       /\ config.budget + delta > 0
       /\ delta # 0 => "edit" \in Requests
       /\ moves => "range" \in Requests
       /\ edit' = [at |-> IF delta = 1 \/ moves THEN "state" ELSE "commit", budget |-> config.budget,
                   delta |-> delta, moves |-> moves, sellOnly |-> only, lots |-> lots, state |-> NoEdit.state]
  /\ left' = [left EXCEPT !.edits = @ - 1]
  /\ current' = current \cup {"row"}
  /\ UNCHANGED <<rows, lock, run, call, raced, granted>>
EditState ==
  /\ edit.at = "state"
  /\ edit' = [edit EXCEPT !.at = IF edit.moves THEN "lots" ELSE "commit",
                !.state = StateFor(edit.budget, edit.lots)]
  /\ current' = current \cup {"edit"}
  /\ UNCHANGED <<rows, lock, run, call, left, raced, granted>>

\* reconcileOpenPositionLots: no more lots than the stored state accounts for.
Reconciled(held, s) ==
  IF s.cost <= 0 \/ s.base <= 0 THEN {{}}
  ELSE IF Cardinality(held) <= s.cost THEN {held}
  ELSE {h \in SUBSET held : Cardinality(h) = s.cost}
EditLots ==
  /\ edit.at = "lots"
  /\ \E held \in Reconciled(lots, edit.state) : edit' = [edit EXCEPT !.at = "commit", !.lots = held]
  /\ UNCHANGED <<rows, lock, run, call, current, left, raced, granted>>

\* The checks inside the transaction.  Only what a budget is raised by reaches
\* the cash: a lowered one leaves the books as they are.
Rewrites == edit.delta = 1 \/ edit.moves
StatusStillFits == ~unresolved /\ bot \notin {"running", "cooldown"}
EditStillFits ==
  StatusStillFits /\ "row" \in current /\ (Rewrites => "edit" \in current)
Raised(e) == IF e.delta = 1 THEN 1 ELSE 0
Edited(e, range) == [e.state EXCEPT !.cash = @ + Raised(e), !.range = IF e.moves THEN range ELSE @,
                    !.cycles = IF e.moves THEN Ids(e.lots) ELSE @]
EditCommit ==
  /\ edit.at = "commit" /\ EditStillFits
  /\ config' = [config EXCEPT !.budget = edit.budget + edit.delta, !.sellOnly = edit.sellOnly,
                  !.range = IF edit.moves THEN 3 - @ ELSE @]
  /\ lots' = IF edit.moves THEN edit.lots ELSE lots
  /\ IF Rewrites
     THEN NewSnapshot(Edited(edit, config'.range))
     ELSE current' = current \ {"row"} /\ UNCHANGED snap
  /\ granted' = granted + Raised(edit) /\ edit' = NoEdit
  /\ raced' = (raced \/ run.at # "off")
  /\ UNCHANGED <<bot, position, unresolved, lock, run, call, left>>
EditRefused ==
  /\ edit.at = "commit" /\ ~EditStillFits /\ edit' = NoEdit
  /\ UNCHANGED <<rows, lock, run, call, current, left, raced, granted>>

OperatorStep ==
  \/ Halt \/ SetEntryMode \/ ResumeRead \/ ResumeWrite \/ ResetRead \/ ResetWrite
  \/ EditRead \/ EditState \/ EditLots \/ EditCommit \/ EditRefused

Next == RunStep \/ Crash \/ OperatorStep
Spec == Init /\ [][Next]_vars
-----------------------------------------------------------------------------
\* Properties

\* Between runs the newest state accounts for exactly the open lots, and its
\* cash and their cost for what was granted and the realized result: a request
\* that is not written across a run or another request leaves the books whole,
\* and the checks of PATCH keep two edits, a pause or a stop from undoing each
\* other.  What was granted covers the budget; it is more once one was lowered.
BooksAgree ==
  run.at = "off" /\ ~raced =>
    /\ snap.base = Cardinality(lots) /\ snap.cost = snap.base
    /\ snap.cash + snap.cost = granted + snap.real /\ granted >= config.budget

\* No level is bought twice while its lot is open: the stored cycles keep up with
\* the lots through trades, sales, recenters and edits.
OneLotPerLevel ==
  ~raced => \A a, b \in lots : a.level = b.level => a = b

\* A crash anywhere in the separate writes of a trade leaves the stored amount
\* and the lots apart by that one trade at most, however the bot trades on and
\* whatever is edited, reset or rebuilt afterwards.
Distance(m, n) == IF m > n THEN m - n ELSE n - m
CrashCostsOneTrade ==
  run.at = "off" /\ ~raced =>
    Distance(snap.base, Cardinality(lots)) <= MaxCrashes - left.crashes

\* The rails the stored cycles refer to are those of the bot's range.
CyclesMatchRange == ~raced /\ run.at = "off" => snap.range = config.range

\* The engine never moves the range under an open lot, though it decided on
\* copies and an operator's edit may have brought lots or a pause.
RecentersFlat ==
  run.at = "recenter" /\ run'.at = "end" /\ config'.range # config.range => lots = {} /\ bot \notin Halted

\* Nothing but a request takes the bot out of paused or stopped.
OperatorStarts == bot' \notin Halted => bot \notin Halted \/ call.at = "resume write"

=============================================================================
