--------------------------- MODULE WorkerRuntime ---------------------------
(***************************************************************************)
(* The loops of the worker process (apps/worker/src/main.ts) and how they  *)
(* are stopped: the price poller, the scheduler that turns arrived prices  *)
(* into runs of a symbol's bots, the recovery poller that resumes durable  *)
(* attempts without a price, the portfolio policy timer, and the shutdown  *)
(* handler.  JavaScript runs one callback at a time: an action is the code *)
(* between two awaits.                                                     *)
(*                                                                         *)
(* Time is kept as what is left of each timer.  A timer never fires early  *)
(* and may fire late, so Tick may pass an expired timer by.                *)
(***************************************************************************)
EXTENDS Integers, FiniteSets

CONSTANTS
  Symbols,
  Bots,
  SymbolOf,          \* baseSymbol of a bot
  Drains,            \* identities of the promises in SymbolRunScheduler.drains
  MinInterval,       \* SYMBOL_RUN_MIN_INTERVAL_MS
  PollInterval,      \* BOT_TICK_INTERVAL_MS
  MaxBackoff,        \* MAX_BACKOFF_MS
  RecoveryInterval   \* intervalMs of the recovery poller

ASSUME RuntimeAssumption ==
  /\ Symbols # {}
  /\ SymbolOf \in [Bots -> Symbols]
  /\ {MinInterval, PollInterval, MaxBackoff, RecoveryInterval} \subseteq Nat
  /\ PollInterval <= MaxBackoff

VARIABLES
  queued,      \* queuedSymbols
  running,     \* runningSymbols
  age,         \* time since lastRunStartedAt, up to MinInterval ("long ago")
  drain,       \* drain loops by promise
  stopped,     \* the scheduler's stopped flag
  awaited,     \* the drains stop() waits for
  price,       \* JupiterPricePoller
  recovery,    \* ExecutionRecoveryPoller
  busy,        \* runningBotIds of the engine: who runs the bot
  attempts,    \* bots with a row in execution_attempts
  policy,      \* PortfolioManagerService.running and the policyRun of main
  shutdown     \* how far the signal handler has come

schedulerVars == <<queued, running, age, drain, stopped, awaited>>
vars == <<schedulerVars, price, recovery, busy, attempts, policy, shutdown>>

Nobody == "nobody"
ASSUME NobodyIsNoBot == Nobody \notin Bots

Idle == [at |-> "ended", symbol |-> CHOOSE s \in Symbols : TRUE, wait |-> 0,
         todo |-> {}, bot |-> Nobody]

Live == {d \in Drains : drain[d].at # "ended"}
Unused == {d \in Drains : drain[d].at = "ended"}

TypeOK ==
  /\ queued \subseteq Symbols /\ running \subseteq Symbols
  /\ age \in [Symbols -> 0 .. MinInterval]
  /\ drain \in [Drains -> [at : {"ended", "sleeping", "listing", "running"},
       symbol : Symbols, wait : 0 .. MinInterval, todo : SUBSET Bots,
       bot : Bots \cup {Nobody}]]
  /\ stopped \in BOOLEAN /\ awaited \subseteq Drains
  /\ price \in [at : {"fetching", "timer", "off"}, delay : 0 .. MaxBackoff,
                next : 0 .. MaxBackoff]
  /\ recovery \in [at : {"listing", "running", "timer", "off"}, todo : SUBSET Bots,
       bot : Bots \cup {Nobody}, delay : 0 .. RecoveryInterval, stopped : BOOLEAN]
  /\ busy \subseteq Bots /\ attempts \subseteq Bots
  /\ policy \in [running : BOOLEAN, held : BOOLEAN]
  /\ shutdown \in {"no", "draining", "policy", "closed"}

Lesser(a, b) == IF a < b THEN a ELSE b

Init ==
  /\ queued = {} /\ running = {} /\ awaited = {} /\ stopped = FALSE
  /\ age = [s \in Symbols |-> MinInterval]
  /\ drain = [d \in Drains |-> Idle]
  /\ price = [at |-> "fetching", delay |-> 0, next |-> Lesser(2 * PollInterval, MaxBackoff)]
  /\ recovery = [at |-> "listing", todo |-> {}, bot |-> Nobody, delay |-> 0, stopped |-> FALSE]
  /\ busy = {} /\ attempts \in SUBSET Bots
  /\ policy = [running |-> FALSE, held |-> FALSE]
  /\ shutdown = "no"
-----------------------------------------------------------------------------
\* SymbolRunScheduler

\* What one pass through the head of the drain loop leaves in the promise: a
\* sleep for what is missing of the interval, or the run at once.
WaitOfNothing(s) == 0
WaitOf(s) == MinInterval - age[s]
Entered(s) ==
  IF WaitOf(s) > 0
  THEN [Idle EXCEPT !.at = "sleeping", !.symbol = s, !.wait = WaitOf(s)]
  ELSE [Idle EXCEPT !.at = "listing", !.symbol = s]
StartedAtOnce(S) == {s \in S : WaitOf(s) = 0}

\* Symbols that schedule() starts a drain for.
LaunchedAlways(S) == S
Launched(S) == S \ running

\* schedule(symbol) for each symbol of one batch of prices.
Schedule(S) ==
  IF stopped THEN UNCHANGED schedulerVars
  ELSE LET new == Launched(S) IN
    \E promise \in {f \in [new -> Unused] : \A s, t \in new : f[s] = f[t] => s = t} :
      /\ queued' = (queued \cup S) \ StartedAtOnce(new)
      /\ running' = running \cup new
      /\ age' = [s \in Symbols |-> IF s \in StartedAtOnce(new) THEN 0 ELSE age[s]]
      /\ drain' = [d \in Drains |->
           IF \E s \in new : promise[s] = d
           THEN Entered(CHOOSE s \in new : promise[s] = d) ELSE drain[d]]
      /\ UNCHANGED <<stopped, awaited>>

\* The finally block launches another drain when a price came meanwhile.
Relaunches(s) == ~stopped /\ s \in queued
\* Does the woken drain run? (symbol-run-scheduler.ts:46)
GoesOn(s) == ~stopped

\* runBot takes the bot out of runningBotIds however the run ended.
Cleared(b) == busy \ {b}

\* The end of drain d by exit of the loop or by an error: finally.
Leave(d) ==
  LET s == drain[d].symbol IN
  IF Relaunches(s)
  THEN \E e \in Unused :
    /\ drain' = [drain EXCEPT ![d] = Idle, ![e] = Entered(s)]
    /\ queued' = queued \ StartedAtOnce({s})
    /\ age' = IF WaitOf(s) = 0 THEN [age EXCEPT ![s] = 0] ELSE age
    /\ UNCHANGED <<running, stopped, awaited>>
  ELSE /\ drain' = [drain EXCEPT ![d] = Idle]
       /\ running' = running \ {s}
       /\ UNCHANGED <<queued, age, stopped, awaited>>

\* The sleep is over.
Wake(d) ==
  /\ drain[d].at = "sleeping" /\ drain[d].wait = 0
  /\ LET s == drain[d].symbol IN
     IF GoesOn(s)
     THEN /\ drain' = [drain EXCEPT ![d].at = "listing"]
          /\ queued' = queued \ {s}
          /\ age' = [age EXCEPT ![s] = 0]
          /\ UNCHANGED <<running, stopped, awaited>>
     ELSE Leave(d)
  /\ UNCHANGED <<price, recovery, busy, attempts, policy, shutdown>>

\* runBotsForSymbol: the runnable bots of the symbol, then one run after
\* another; a bot that runs already is passed over (runBot).
ListBots(d) ==
  /\ drain[d].at = "listing"
  /\ \E B \in SUBSET {b \in Bots : SymbolOf[b] = drain[d].symbol} :
       drain' = [drain EXCEPT ![d].at = "running", ![d].todo = B]
  /\ UNCHANGED <<queued, running, age, stopped, awaited, price, recovery, busy,
                 attempts, policy, shutdown>>

StartRun(d, b) ==
  /\ drain[d].at = "running" /\ drain[d].bot = Nobody /\ b \in drain[d].todo
  /\ drain' = [drain EXCEPT ![d].todo = @ \ {b}, ![d].bot = IF b \in busy THEN Nobody ELSE b]
  /\ busy' = busy \cup {b}
  /\ UNCHANGED <<queued, running, age, stopped, awaited, price, recovery,
                 attempts, policy, shutdown>>

\* A run ends; it may have left an attempt behind or settled the one there was.
EndRun(d) ==
  LET b == drain[d].bot IN
  /\ drain[d].at = "running" /\ b # Nobody
  /\ drain' = [drain EXCEPT ![d].bot = Nobody]
  /\ busy' = busy \ {b}
  /\ attempts' \in {attempts, attempts \cup {b}, attempts \ {b}}
  /\ UNCHANGED <<queued, running, age, stopped, awaited, price, recovery, policy, shutdown>>

\* All bots were run: back to the head of the loop.
LoopAgain(d) ==
  LET s == drain[d].symbol IN
  /\ drain[d].at = "running" /\ drain[d].bot = Nobody /\ drain[d].todo = {}
  /\ IF s \notin queued THEN Leave(d)
     ELSE /\ drain' = [drain EXCEPT ![d] = Entered(s)]
          /\ queued' = queued \ StartedAtOnce({s})
          /\ age' = IF WaitOf(s) = 0 THEN [age EXCEPT ![s] = 0] ELSE age
          /\ UNCHANGED <<running, stopped, awaited>>
  /\ UNCHANGED <<price, recovery, busy, attempts, policy, shutdown>>

\* listRunnableBots or the bot lock throws: the other bots of the symbol are
\* dropped for this run and the error is logged.
RunThrows(d) ==
  /\ drain[d].at = "listing" \/ (drain[d].at = "running" /\ drain[d].bot # Nobody)
  /\ Leave(d)
  /\ busy' = Cleared(drain[d].bot)
  /\ UNCHANGED <<price, recovery, attempts, policy, shutdown>>
-----------------------------------------------------------------------------
\* JupiterPricePoller

\* The timer is armed again unless the poller was stopped during the poll.
Rearmed(delay, next) ==
  IF shutdown = "no" THEN [at |-> "timer", delay |-> delay, next |-> next]
  ELSE [at |-> "off", delay |-> 0, next |-> next]

\* A batch arrives; unreliable symbols are left out of it.
PricesArrive(S) ==
  /\ price.at = "fetching"
  /\ Schedule(S)
  /\ price' = Rearmed(PollInterval, Lesser(2 * PollInterval, MaxBackoff))
  /\ UNCHANGED <<recovery, busy, attempts, policy, shutdown>>

\* The next delay doubles with every failure in a row, up to MaxBackoff.
PollFails ==
  /\ price.at = "fetching"
  /\ price' = Rearmed(price.next, Lesser(2 * price.next, MaxBackoff))
  /\ UNCHANGED <<schedulerVars, recovery, busy, attempts, policy, shutdown>>

Poll ==
  /\ price.at = "timer" /\ price.delay = 0
  /\ price' = [price EXCEPT !.at = "fetching"]
  /\ UNCHANGED <<schedulerVars, recovery, busy, attempts, policy, shutdown>>
-----------------------------------------------------------------------------
\* ExecutionRecoveryPoller

RecoveryOff == [recovery EXCEPT !.at = "off", !.todo = {}, !.bot = Nobody, !.delay = 0]
RecoveryArmed ==
  [recovery EXCEPT !.at = "timer", !.todo = {}, !.bot = Nobody, !.delay = RecoveryInterval]
RecoveryEndsUnarmed == RecoveryOff
\* The end of a poll, whether it failed or not: the timer, unless stopped.
RecoveryEnds == IF recovery.stopped THEN RecoveryOff ELSE RecoveryArmed

ListPending ==
  /\ recovery.at = "listing"
  /\ recovery' = [recovery EXCEPT !.at = "running", !.todo = attempts]
  /\ UNCHANGED <<schedulerVars, price, busy, attempts, policy, shutdown>>

ListFails ==
  /\ recovery.at = "listing"
  /\ recovery' = RecoveryEnds
  /\ UNCHANGED <<schedulerVars, price, busy, attempts, policy, shutdown>>

\* Does the loop take another bot? (execution-recovery-poller.ts:39)
TakesAnother == ~recovery.stopped

Recover(b) ==
  /\ recovery.at = "running" /\ recovery.bot = Nobody /\ b \in recovery.todo
  /\ TakesAnother
  /\ recovery' = [recovery EXCEPT !.todo = @ \ {b}, !.bot = IF b \in busy THEN Nobody ELSE b]
  /\ busy' = busy \cup {b}
  /\ UNCHANGED <<schedulerVars, price, attempts, policy, shutdown>>

\* A recovery run settles the attempt, leaves it, or throws (and is logged).
RecoverReturns ==
  /\ recovery.at = "running" /\ recovery.bot # Nobody
  /\ recovery' = [recovery EXCEPT !.bot = Nobody]
  /\ busy' = busy \ {recovery.bot}
  /\ attempts' \in {attempts, attempts \ {recovery.bot}}
  /\ UNCHANGED <<schedulerVars, price, policy, shutdown>>

RecoveryLoopEnds ==
  /\ recovery.at = "running" /\ recovery.bot = Nobody
  /\ recovery.todo = {} \/ ~TakesAnother
  /\ recovery' = RecoveryEnds
  /\ UNCHANGED <<schedulerVars, price, busy, attempts, policy, shutdown>>

RecoveryTimer ==
  /\ recovery.at = "timer" /\ recovery.delay = 0
  /\ recovery' = [recovery EXCEPT !.at = "listing"]
  /\ UNCHANGED <<schedulerVars, price, busy, attempts, policy, shutdown>>
-----------------------------------------------------------------------------
\* The policy timer of main and the shutdown handler

\* Every minute policyRun is overwritten by the promise of a new cycle; while
\* the previous cycle runs the new one returns at once.
PolicyTimer ==
  /\ shutdown = "no"
  /\ policy' = [running |-> TRUE, held |-> ~policy.running]
  /\ UNCHANGED <<schedulerVars, price, recovery, busy, attempts, shutdown>>

PolicyEnds ==
  /\ policy.running /\ shutdown # "closed"
  /\ policy' = [running |-> FALSE, held |-> FALSE]
  /\ UNCHANGED <<schedulerVars, price, recovery, busy, attempts, shutdown>>

\* SIGINT or SIGTERM: intervals cleared, pollers and scheduler stopped.
Signal ==
  /\ shutdown = "no"
  /\ shutdown' = "draining"
  /\ price' = IF price.at = "timer" THEN [price EXCEPT !.at = "off", !.delay = 0] ELSE price
  /\ stopped' = TRUE /\ queued' = {} /\ awaited' = Live
  /\ recovery' = IF recovery.at = "timer"
                 THEN [recovery EXCEPT !.stopped = TRUE, !.at = "off", !.delay = 0]
                 ELSE [recovery EXCEPT !.stopped = TRUE]
  /\ UNCHANGED <<running, age, drain, busy, attempts, policy>>

\* Both stop() promises are settled.
Quiesced == awaited \cap Live = {} /\ recovery.at = "off"

Drained ==
  /\ shutdown = "draining" /\ Quiesced
  /\ shutdown' = "policy"
  /\ UNCHANGED <<schedulerVars, price, recovery, busy, attempts, policy>>

\* The latest policy promise is settled: the database is disconnected.
Close ==
  /\ shutdown = "policy" /\ ~policy.held
  /\ shutdown' = "closed"
  /\ UNCHANGED <<schedulerVars, price, recovery, busy, attempts, policy>>
-----------------------------------------------------------------------------
Less(n) == IF n = 0 THEN 0 ELSE n - 1

Tick ==
  /\ age' = [s \in Symbols |-> Lesser(age[s] + 1, MinInterval)]
  /\ drain' = [d \in Drains |-> [drain[d] EXCEPT !.wait = Less(@)]]
  /\ price' = [price EXCEPT !.delay = Less(@)]
  /\ recovery' = [recovery EXCEPT !.delay = Less(@)]
  /\ UNCHANGED <<queued, running, stopped, awaited, busy, attempts, policy, shutdown>>

SchedulerStep(d) == Wake(d) \/ ListBots(d) \/ EndRun(d) \/ LoopAgain(d) \/ (\E b \in Bots : StartRun(d, b))
PricePoll == Poll \/ PollFails \/ (\E S \in SUBSET Symbols : PricesArrive(S))
RecoveryStep ==
  ListPending \/ RecoverReturns \/ RecoveryLoopEnds \/ RecoveryTimer \/ (\E b \in Bots : Recover(b))

Next ==
  \/ \E d \in Drains : SchedulerStep(d) \/ RunThrows(d)
  \/ PricePoll
  \/ RecoveryStep \/ ListFails
  \/ PolicyTimer \/ PolicyEnds
  \/ Signal \/ Drained \/ Close
  \/ Tick

\* The event loop runs every callback that is ready, every run ends (network
\* calls time out), time goes on, and the database answers the recovery
\* listing again and again.  Nothing is assumed of the price feed, of errors
\* or of signals.
Fairness ==
  /\ \A d \in Drains : WF_vars(SchedulerStep(d))
  /\ WF_vars(RecoveryStep) /\ SF_vars(ListPending)
  /\ WF_vars(PolicyEnds) /\ WF_vars(Drained) /\ WF_vars(Close)
  /\ WF_vars(Tick) /\ WF_vars(Poll \/ PollFails)

Spec == Init /\ [][Next]_vars /\ Fairness
-----------------------------------------------------------------------------
\* A symbol never has two drains, whatever prices arrive while a run, a wait
\* or an error is under way: its bots are never run by two loops at once.
OneDrainPerSymbol ==
  /\ \A d, e \in Live : drain[d].symbol = drain[e].symbol => d = e
  /\ running = {drain[d].symbol : d \in Live}

\* A price that was queued is never forgotten: a drain of its symbol is alive
\* and will find it, also when the run it came during throws.
QueuedHasDrain == queued \subseteq {drain[d].symbol : d \in Live}

\* runningBotIds holds exactly the bots somebody runs, each run by one of the
\* drains and the recovery poller: a bot is neither run twice at a time nor
\* left marked by a run that threw.
OneRunnerPerBot ==
  /\ busy = ({drain[d].bot : d \in Drains} \cup {recovery.bot}) \ {Nobody}
  /\ \A d \in Drains : drain[d].bot # Nobody =>
       /\ drain[d].bot # recovery.bot
       /\ \A e \in Drains \ {d} : drain[e].bot # drain[d].bot

\* The database is disconnected only when no bot run and no recovery is under
\* way any more.
ClosedIsQuiet == shutdown \in {"policy", "closed"} => Live = {} /\ recovery.at = "off" /\ busy = {}

Enters(d) == drain'[d].at = "listing" /\ drain[d] # drain'[d]

\* Two runs of a symbol start at least MinInterval apart, also across drains,
\* errors and prices that arrive during the wait.
RunsAreSpaced == [][\A d \in Drains : Enters(d) => age[drain'[d].symbol] = MinInterval]_vars

\* After the signal nothing starts: a drain that was asleep ends without a
\* run, and the recovery loop takes no further bot.
NothingStartsAfterStop ==
  [][shutdown # "no" =>
       /\ \A d \in Drains : ~Enters(d)
       /\ recovery'.bot \in {recovery.bot, Nobody}]_vars

\* The invariants of the worker together.
RuntimeHolds == TypeOK /\ OneDrainPerSymbol /\ QueuedHasDrain /\ OneRunnerPerBot /\ ClosedIsQuiet

\* How runs start, while the worker works and when it is stopped.
StartsAreOrderly == RunsAreSpaced /\ NothingStartsAfterStop

=============================================================================
