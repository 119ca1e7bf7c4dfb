---------------------------- MODULE WorkerProofs ----------------------------
(*****************************************************************************)
(* What is proved of the worker suite: the worker's loops, the prices and    *)
(* candles it reads, and the history it keeps; of the bands, whose proofs    *)
(* are in BandRevisionProofs, only the suite's bundles are stated here.       *)
(*                                                                           *)
(* The loops, for any number of symbols, bots and timings: the inductive     *)
(* invariant adds to the properties what a loop holds at each of its points  *)
(* (a closed worker is quiet because a loop that has ended runs no bot),     *)
(* that a sleep is at least what is missing of the interval, and that the    *)
(* stop is known to everybody and waits for all the loops there are.  Most   *)
(* steps renew loops (let them end, or enter afresh): Renewed says so once,  *)
(* and one lemma per step shows it.                                          *)
(*                                                                           *)
(* The prices: what was observed of a block, in the process and in the       *)
(* store, is never younger than the first price that rested on it.  The      *)
(* candles: a candle is whole wherever it is held, because none is built     *)
(* before its end.  The history: the newest state of a bot is always stored, *)
(* because a maintenance keeps it or it is newer than what is deleted; a new *)
(* row sums the newest states of its time.                                   *)
(*****************************************************************************)
EXTENDS WorkerParts, SumProofs, WellFoundedInduction, TLAPS

-----------------------------------------------------------------------------
\* The loops

DrainRows == [at : {"ended", "sleeping", "listing", "running"},
       symbol : Symbols, wait : 0 .. MinInterval, todo : SUBSET Bots,
       bot : Bots \cup {Nobody}]

\* Only a running loop runs a bot, and only a sleeping one has a timer.
HeldWhereRun ==
  /\ \A d \in Drains : drain[d].bot # Nobody => drain[d].at = "running"
  /\ \A d \in Drains : drain[d].at # "sleeping" => drain[d].wait = 0
  /\ recovery.bot # Nobody => recovery.at = "running"

\* A sleep is not shorter than what is missing of the interval.
SleepIsLong ==
  \A d \in Drains : drain[d].at = "sleeping" => drain[d].wait + age[drain[d].symbol] >= MinInterval

\* Once the signal came nothing is queued and all drains are waited for.
StopIsKnown ==
  /\ stopped <=> shutdown # "no"
  /\ stopped => recovery.stopped /\ queued = {} /\ Live \subseteq awaited

\* A symbol has one drain, and a queued one has it.
Loops == OneDrainPerSymbol /\ QueuedHasDrain

Inv == TypeOK /\ HeldWhereRun /\ SleepIsLong /\ StopIsKnown /\ Loops /\ OneRunnerPerBot /\ ClosedIsQuiet

LEMMA Constants ==
  /\ MinInterval \in Nat /\ PollInterval \in Nat /\ MaxBackoff \in Nat /\ RecoveryInterval \in Nat
  /\ PollInterval <= MaxBackoff /\ Symbols # {} /\ Nobody \notin Bots
  BY RuntimeAssumption, NobodyIsNoBot DEF RuntimeAssumption, NobodyIsNoBot

USE Constants

LEMMA IdleIsARow == Idle \in DrainRows /\ Idle.at = "ended" /\ Idle.bot = Nobody /\ Idle.wait = 0
  <1>1. (CHOOSE s \in Symbols : TRUE) \in Symbols
    OBVIOUS
  <1> QED
    BY <1>1 DEF Idle, DrainRows

\* What a fresh promise holds.
LEMMA EnteredIsFresh ==
  ASSUME TypeOK, NEW s \in Symbols
  PROVE  /\ Entered(s) \in DrainRows
         /\ Entered(s).symbol = s /\ Entered(s).bot = Nobody /\ Entered(s).todo = {}
         /\ WaitOf(s) > 0 => Entered(s).at = "sleeping" /\ Entered(s).wait = WaitOf(s)
         /\ ~(WaitOf(s) > 0) => Entered(s).at = "listing" /\ Entered(s).wait = 0 /\ WaitOf(s) = 0
  <1>1. age[s] \in 0..MinInterval
    BY DEF TypeOK
  <1>2. WaitOf(s) \in 0..MinInterval
    BY <1>1 DEF WaitOf
  <1>3. /\ Idle.todo = {} /\ Idle.wait = 0 /\ Idle.bot = Nobody /\ Idle.symbol \in Symbols /\ Idle.at = "ended"
        /\ Idle = [at |-> Idle.at, symbol |-> Idle.symbol, wait |-> Idle.wait, todo |-> Idle.todo, bot |-> Idle.bot]
    BY IdleIsARow DEF Idle, DrainRows
  <1>4. CASE WaitOf(s) > 0
    BY <1>2, <1>3, <1>4 DEF Entered, DrainRows
  <1>5. CASE ~(WaitOf(s) > 0)
    <2>1. WaitOf(s) = 0
      BY <1>2, <1>5
    <2>2. Entered(s) = [Idle EXCEPT !.at = "listing", !.symbol = s]
      BY <1>5 DEF Entered
    <2>3. Entered(s) = [at |-> "listing", symbol |-> s, wait |-> 0, todo |-> {}, bot |-> Nobody]
      BY <1>3, <2>2
    <2> QED
      BY <2>1, <2>3 DEF DrainRows
  <1> QED
    BY <1>4, <1>5

\* A loop that is alive is replaced by nothing, by a fresh loop of its symbol in
\* another promise, or enters again.
Ends(d) ==
  /\ drain' = [drain EXCEPT ![d] = Idle]
  /\ running' = running \ {drain[d].symbol}
  /\ ~stopped => drain[d].symbol \notin queued
  /\ UNCHANGED <<queued, age, stopped, awaited>>
EntersAs(d, e) ==
  LET s == drain[d].symbol IN
  /\ s \in queued
  /\ drain' = [[drain EXCEPT ![d] = Idle] EXCEPT ![e] = Entered(s)]
  /\ queued' = queued \ StartedAtOnce({s})
  /\ age' = IF WaitOf(s) = 0 THEN [age EXCEPT ![s] = 0] ELSE age
  /\ UNCHANGED <<running, stopped, awaited>>

LEMMA LeaveCases ==
  ASSUME TypeOK, NEW d \in Live, Leave(d)
  PROVE  Ends(d) \/ (~stopped /\ \E e \in Unused : EntersAs(d, e))
  BY DEF Leave, Ends, EntersAs, Relaunches, Live, Unused, TypeOK

LEMMA EndsKeeps ==
  ASSUME Inv, NEW d \in Live, Ends(d), stopped => queued = {}
  PROVE  /\ drain' \in [Drains -> DrainRows]
         /\ Loops' /\ Live' = Live \ {d}
         /\ \A x \in Drains \ {d} : drain'[x] = drain[x]
         /\ drain'[d].bot = Nobody /\ drain'[d].at = "ended" /\ drain'[d].wait = 0
  <1>1. d \in Drains /\ drain \in [Drains -> DrainRows]
    BY DEF Inv, TypeOK, DrainRows, Live
  <1>2. /\ \A x \in Drains : drain'[x] = IF x = d THEN Idle ELSE drain[x]
        /\ drain' \in [Drains -> DrainRows]
    BY <1>1, IdleIsARow DEF Ends
  <1>3. Live' = Live \ {d}
    BY <1>1, <1>2, IdleIsARow DEF Live
  <1>4. OneDrainPerSymbol'
    <2>1. \A x, y \in Live' : drain'[x].symbol = drain'[y].symbol => x = y
      BY <1>1, <1>2, <1>3 DEF Inv, Loops, OneDrainPerSymbol, Live
    <2>2. running' = {drain'[x].symbol : x \in Live'}
      BY <1>1, <1>2, <1>3 DEF Inv, Loops, OneDrainPerSymbol, Live, Ends
    <2> QED
      BY <2>1, <2>2 DEF OneDrainPerSymbol
  <1>5. QueuedHasDrain'
    BY <1>1, <1>2, <1>3 DEF Inv, Loops, QueuedHasDrain, Live, Ends
  <1> QED
    BY <1>1, <1>2, <1>3, <1>4, <1>5, IdleIsARow DEF Loops

LEMMA EntersKeeps ==
  ASSUME Inv, NEW d \in Live, NEW e \in Unused \cup {d}, EntersAs(d, e)
  PROVE  /\ drain' \in [Drains -> DrainRows] /\ queued' \subseteq Symbols
         /\ age' \in [Symbols -> 0..MinInterval]
         /\ Loops' /\ Live' = (Live \ {d}) \cup {e}
         /\ \A x \in Drains \ {d, e} : drain'[x] = drain[x]
         /\ drain'[e] = Entered(drain[d].symbol)
         /\ d # e => drain'[d] = Idle
  <1> DEFINE s == drain[d].symbol
  <1>1. d \in Drains /\ e \in Drains /\ drain \in [Drains -> DrainRows] /\ s \in Symbols
    BY DEF Inv, TypeOK, DrainRows, Live, Unused
  <1>2. Entered(s) \in DrainRows /\ Entered(s).symbol = s /\ Entered(s).at # "ended"
    BY <1>1, EnteredIsFresh DEF Inv
  <1>3. /\ \A x \in Drains : drain'[x] = IF x = e THEN Entered(s) ELSE IF x = d THEN Idle ELSE drain[x]
        /\ drain' \in [Drains -> DrainRows]
    BY <1>1, <1>2, IdleIsARow DEF EntersAs
  <1>4. Live' = (Live \ {d}) \cup {e}
    BY <1>1, <1>2, <1>3, IdleIsARow DEF Live
  <1>5. \A x \in Live : drain[x].symbol = s => x = d
    BY DEF Inv, Loops, OneDrainPerSymbol
  <1>6. e # d => e \notin Live
    BY DEF Unused, Live
  <1>7. \A x, y \in Live' : drain'[x].symbol = drain'[y].symbol => x = y
    BY <1>1, <1>2, <1>3, <1>4, <1>5 DEF Inv, Loops, OneDrainPerSymbol, Live
  <1>8. {drain'[x].symbol : x \in Live'} = {drain[x].symbol : x \in Live}
    BY <1>1, <1>2, <1>3, <1>4, <1>6 DEF Live
  <1>9. OneDrainPerSymbol' /\ QueuedHasDrain'
    BY <1>7, <1>8 DEF Inv, Loops, OneDrainPerSymbol, QueuedHasDrain, EntersAs
  <1>10. queued' \subseteq Symbols /\ age' \in [Symbols -> 0..MinInterval]
    BY <1>1 DEF Inv, TypeOK, EntersAs
  <1> QED
    BY <1>1, <1>3, <1>4, <1>9, <1>10 DEF Loops

\* What loops may do in a step: stay, end, or enter afresh.  The bots of the
\* loops in D are given up, the others' are kept.
Renewed(D) ==
  /\ drain' \in [Drains -> DrainRows]
  /\ queued' \subseteq Symbols /\ running' \subseteq Symbols
  /\ age' \in [Symbols -> 0..MinInterval]
  /\ Loops'
  /\ \A x \in Drains :
       \/ drain'[x] = drain[x] /\ (x \in Live => age'[drain[x].symbol] = age[drain[x].symbol])
       \/ drain'[x] = Idle
       \/ ~stopped /\ \E s \in Symbols :
            drain'[x] = Entered(s) /\ (WaitOf(s) > 0 => age'[s] = age[s])
  /\ \A x \in Drains \ D : drain'[x].bot = drain[x].bot
  /\ \A x \in D : drain'[x].bot = Nobody
  /\ stopped => Live' \subseteq Live /\ queued' = queued
  /\ UNCHANGED <<stopped, awaited>>

LEMMA EntersRenews ==
  ASSUME Inv, ~stopped, NEW d \in Live, NEW e \in Unused \cup {d}, EntersAs(d, e)
  PROVE  Renewed({d})
  <1> DEFINE s == drain[d].symbol
  <1>1. d \in Drains /\ e \in Drains /\ drain \in [Drains -> DrainRows] /\ s \in Symbols
    BY DEF Inv, TypeOK, DrainRows, Live, Unused
  <1>2. /\ drain' \in [Drains -> DrainRows] /\ queued' \subseteq Symbols
        /\ age' \in [Symbols -> 0..MinInterval]
        /\ Loops'
        /\ \A x \in Drains \ {d, e} : drain'[x] = drain[x]
        /\ drain'[e] = Entered(s)
        /\ d # e => drain'[d] = Idle
    BY EntersKeeps
  <1>3. running' \subseteq Symbols /\ UNCHANGED <<stopped, awaited>>
    BY DEF EntersAs, Inv, TypeOK
  <1>4. \A x \in Live \ {d} : age'[drain[x].symbol] = age[drain[x].symbol]
    <2>1. \A x \in Live \ {d} : drain[x].symbol # s /\ drain[x].symbol \in Symbols
      BY <1>1 DEF Inv, Loops, OneDrainPerSymbol, Live, DrainRows
    <2> QED
      BY <1>1, <2>1 DEF EntersAs, Inv, TypeOK
  <1>5. WaitOf(s) > 0 => age'[s] = age[s]
    BY DEF EntersAs
  <1>6. e # d => e \notin Live /\ drain[e].bot = Nobody
    BY <1>1 DEF Unused, Live, Inv, HeldWhereRun
  <1>7. Entered(s).bot = Nobody /\ Idle.bot = Nobody
    BY <1>1, EnteredIsFresh, IdleIsARow DEF Inv
  <1> QED
    BY <1>1, <1>2, <1>3, <1>4, <1>5, <1>6, <1>7 DEF Renewed

LEMMA EndsRenews ==
  ASSUME Inv, NEW d \in Live, Ends(d), stopped => queued = {}
  PROVE  Renewed({d})
  <1>1. d \in Drains
    BY DEF Live
  <1>2. drain' = [drain EXCEPT ![d] = Idle] /\ d \in DOMAIN drain
    BY <1>1 DEF Ends, Inv, TypeOK
  <1>3. /\ drain' \in [Drains -> DrainRows]
        /\ Loops' /\ Live' = Live \ {d}
        /\ \A x \in Drains \ {d} : drain'[x] = drain[x]
        /\ drain'[d].bot = Nobody
    BY EndsKeeps
  <1>4. /\ UNCHANGED <<queued, age, stopped, awaited>> /\ running' \subseteq running
    BY DEF Ends
  <1> QED
    BY <1>1, <1>2, <1>3, <1>4 DEF Renewed, Inv, TypeOK

LEMMA LeaveRenews ==
  ASSUME Inv, NEW d \in Live, Leave(d)
  PROVE  Renewed({d})
  <1>1. stopped => queued = {}
    BY DEF Inv, StopIsKnown
  <1> QED
    BY <1>1, LeaveCases, EntersRenews, EndsRenews DEF Inv

LEMMA ScheduleRenews ==
  ASSUME Inv, NEW S \in SUBSET Symbols, Schedule(S)
  PROVE  Renewed({}) \/ UNCHANGED schedulerVars
  <1>1. CASE stopped
    BY <1>1 DEF Schedule
  <1>2. CASE ~stopped
    <2> DEFINE new == Launched(S)
    <2>1. PICK promise \in [new -> Unused] :
            /\ \A s, t \in new : promise[s] = promise[t] => s = t
            /\ queued' = (queued \cup S) \ StartedAtOnce(new)
            /\ running' = running \cup new
            /\ age' = [s \in Symbols |-> IF s \in StartedAtOnce(new) THEN 0 ELSE age[s]]
            /\ drain' = [d \in Drains |->
                 IF \E s \in new : promise[s] = d
                 THEN Entered(CHOOSE s \in new : promise[s] = d) ELSE drain[d]]
            /\ UNCHANGED <<stopped, awaited>>
      BY <1>2 DEF Schedule
    <2>2. drain \in [Drains -> DrainRows] /\ age \in [Symbols -> 0..MinInterval]
      BY DEF Inv, TypeOK, DrainRows
    <2>3. new \subseteq Symbols /\ new \cap running = {} /\ S \subseteq running \cup new
      BY DEF Launched
    <2>4. \A s \in new : promise[s] \in Drains /\ promise[s] \notin Live /\ drain[promise[s]].bot = Nobody
      BY <2>1, <2>2 DEF Unused, Live, Inv, HeldWhereRun
    <2>5. \A s \in new : drain'[promise[s]] = Entered(s)
      <3>1. TAKE s \in new
      <3>2. (CHOOSE t \in new : promise[t] = promise[s]) = s
        BY <2>1
      <3> QED
        BY <2>1, <2>4, <3>2
    <2>6. \A d \in Drains : (\A s \in new : promise[s] # d) => drain'[d] = drain[d]
      BY <2>1
    <2>7. \A s \in new : /\ Entered(s) \in DrainRows /\ Entered(s).symbol = s
                         /\ Entered(s).bot = Nobody /\ Entered(s).at # "ended"
      BY <2>3, EnteredIsFresh DEF Inv
    <2>8. drain' \in [Drains -> DrainRows]
      <3>1. \A d \in Drains : drain'[d] \in DrainRows
        BY <2>2, <2>5, <2>6, <2>7
      <3> QED
        BY <2>1, <3>1
    <2>9. Live' = Live \cup {promise[s] : s \in new}
      BY <2>4, <2>5, <2>6, <2>7 DEF Live
    <2>10. \A x \in Live : drain'[x] = drain[x] /\ drain[x].symbol \notin new
      BY <2>3, <2>4, <2>6 DEF Live, Inv, Loops, OneDrainPerSymbol
    <2>11. \A x, y \in Live' : drain'[x].symbol = drain'[y].symbol => x = y
      BY <2>5, <2>7, <2>9, <2>10 DEF Inv, Loops, OneDrainPerSymbol
    <2>12. {drain'[x].symbol : x \in Live'} = {drain[x].symbol : x \in Live} \cup new
      BY <2>5, <2>7, <2>9, <2>10
    <2>13. Loops'
      BY <2>1, <2>3, <2>11, <2>12 DEF Inv, Loops, OneDrainPerSymbol, QueuedHasDrain
    <2>14. queued' \subseteq Symbols /\ running' \subseteq Symbols /\ age' \in [Symbols -> 0..MinInterval]
      BY <2>1, <2>2, <2>3 DEF Inv, TypeOK
    <2>15. \A x \in Live : age'[drain[x].symbol] = age[drain[x].symbol]
      BY <2>1, <2>2, <2>10 DEF StartedAtOnce, DrainRows, Live
    <2>16. \A s \in new : WaitOf(s) > 0 => age'[s] = age[s]
      BY <2>1, <2>3 DEF StartedAtOnce
    <2>17. \A x \in Drains :
             \/ drain'[x] = drain[x] /\ (x \in Live => age'[drain[x].symbol] = age[drain[x].symbol])
             \/ \E s \in Symbols : drain'[x] = Entered(s) /\ (WaitOf(s) > 0 => age'[s] = age[s])
      BY <2>3, <2>5, <2>6, <2>15, <2>16
    <2>18. \A x \in Drains : drain'[x].bot = drain[x].bot
      BY <2>4, <2>5, <2>6, <2>7
    <2>19. UNCHANGED <<stopped, awaited>>
      BY <2>1
    <2> QED
      BY <1>2, <2>8, <2>13, <2>14, <2>17, <2>18, <2>19 DEF Renewed
  <1> QED
    BY <1>1, <1>2

\* What renewing leaves true, whoever does it.
LEMMA RenewedKeeps ==
  ASSUME Inv, NEW D \in SUBSET Drains, Renewed(D),
         recovery' = recovery \/ (recovery'.bot # Nobody => recovery'.at = "running"),
         recovery'.stopped = recovery.stopped, shutdown' = shutdown
  PROVE  HeldWhereRun' /\ SleepIsLong' /\ StopIsKnown'
  <1>1. drain \in [Drains -> DrainRows] /\ drain' \in [Drains -> DrainRows]
    BY DEF Inv, TypeOK, DrainRows, Renewed
  <1>2. ASSUME NEW s \in Symbols
        PROVE  /\ Entered(s).symbol = s /\ Entered(s).bot = Nobody
               /\ Entered(s).at = "sleeping" => WaitOf(s) > 0 /\ Entered(s).wait = WaitOf(s)
               /\ Entered(s).at # "sleeping" => Entered(s).wait = 0
    BY EnteredIsFresh DEF Inv
  <1>3. HeldWhereRun'
    <2>1. ASSUME NEW d \in Drains
          PROVE  /\ drain'[d].bot # Nobody => drain'[d].at = "running"
                 /\ drain'[d].at # "sleeping" => drain'[d].wait = 0
      BY <1>2, IdleIsARow DEF Renewed, Inv, HeldWhereRun
    <2> QED
      BY <2>1 DEF HeldWhereRun, Inv
  <1>4. SleepIsLong'
    <2>1. ASSUME NEW d \in Drains, drain'[d].at = "sleeping"
          PROVE  drain'[d].wait + age'[drain'[d].symbol] >= MinInterval
      <3>1. CASE drain'[d] = drain[d] /\ (d \in Live => age'[drain[d].symbol] = age[drain[d].symbol])
        BY <2>1, <3>1 DEF Inv, SleepIsLong, Live
      <3>2. CASE drain'[d] = Idle
        BY <2>1, <3>2, IdleIsARow
      <3>3. ASSUME NEW s \in Symbols, drain'[d] = Entered(s), WaitOf(s) > 0 => age'[s] = age[s]
            PROVE  drain'[d].wait + age'[drain'[d].symbol] >= MinInterval
        <4>1. age[s] \in 0..MinInterval /\ age'[s] = age[s] /\ drain'[d].wait = MinInterval - age[s]
          BY <2>1, <1>2, <3>3 DEF WaitOf, Inv, TypeOK
        <4> QED
          BY <1>2, <3>3, <4>1
      <3> QED
        BY <3>1, <3>2, <3>3 DEF Renewed
    <2> QED
      BY <2>1 DEF SleepIsLong
  <1>5. StopIsKnown'
    BY DEF StopIsKnown, Inv, Renewed
  <1> QED
    BY <1>3, <1>4, <1>5

\* Giving up the bots of the loops in D leaves each bot with one runner.
LEMMA RunnersKept ==
  ASSUME Inv, NEW D \in SUBSET Drains, Renewed(D), recovery' = recovery,
         busy' = busy \ {drain[d].bot : d \in D}
  PROVE  OneRunnerPerBot' /\ busy' \subseteq Bots
  <1>1. \A x \in Drains : drain'[x].bot = IF x \in D THEN Nobody ELSE drain[x].bot
    BY DEF Renewed
  <1>2. \A x \in D : \A y \in Drains \ D : drain[x].bot = Nobody \/ drain[y].bot # drain[x].bot
    BY DEF Inv, OneRunnerPerBot
  <1>3. \A x \in D : drain[x].bot = Nobody \/ recovery.bot # drain[x].bot
    BY DEF Inv, OneRunnerPerBot
  <1>4. busy' = ({drain'[d].bot : d \in Drains} \cup {recovery'.bot}) \ {Nobody}
    BY <1>1, <1>2, <1>3 DEF Inv, OneRunnerPerBot
  <1>5. \A d \in Drains : drain'[d].bot # Nobody =>
         /\ drain'[d].bot # recovery'.bot
         /\ \A e \in Drains \ {d} : drain'[e].bot # drain'[d].bot
    BY <1>1 DEF Inv, OneRunnerPerBot
  <1> QED
    BY <1>4, <1>5 DEF OneRunnerPerBot, Inv, TypeOK

LEMMA RenewedInv ==
  ASSUME Inv, NEW D \in SUBSET Drains, Renewed(D), recovery' = recovery,
         busy' = busy \ {drain[d].bot : d \in D},
         UNCHANGED <<attempts, policy, shutdown>>,
         price' \in [at : {"fetching", "timer", "off"}, delay : 0 .. MaxBackoff,
                     next : 0 .. MaxBackoff]
  PROVE  Inv'
  <1>1. HeldWhereRun' /\ SleepIsLong' /\ StopIsKnown'
    BY RenewedKeeps
  <1>2. OneRunnerPerBot' /\ busy' \subseteq Bots
    BY RunnersKept
  <1>3. TypeOK'
    BY <1>2 DEF Inv, TypeOK, Renewed, DrainRows
  <1>4. ClosedIsQuiet'
    <2>1. shutdown # "no" => Live' \subseteq Live
      BY DEF Renewed, Inv, StopIsKnown
    <2> QED
      BY <2>1 DEF Inv, ClosedIsQuiet
  <1> QED
    BY <1>1, <1>2, <1>3, <1>4 DEF Inv, Renewed

USE DEF Live

LEMMA DrainTypes ==
  ASSUME Inv
  PROVE  /\ drain \in [Drains -> DrainRows]
         /\ \A d \in Drains : drain[d] \in DrainRows
  BY DEF Inv, TypeOK, DrainRows

LEMMA WakeKeeps ==
  ASSUME Inv, NEW d \in Drains, Wake(d)
  PROVE  Inv'
  <1> DEFINE s == drain[d].symbol
  <1>1. d \in Live /\ drain[d].bot = Nobody /\ s \in Symbols /\ drain[d].at = "sleeping" /\ drain[d].wait = 0
    BY DrainTypes DEF Wake, Inv, HeldWhereRun, DrainRows
  <1>2. CASE GoesOn(s)
    <2>1. /\ drain' = [drain EXCEPT ![d].at = "listing"]
          /\ queued' = queued \ {s}
          /\ age' = [age EXCEPT ![s] = 0]
          /\ UNCHANGED <<running, stopped, awaited, price, recovery, busy, attempts, policy, shutdown>>
          /\ ~stopped
      BY <1>2 DEF Wake, GoesOn
    <2>2. /\ \A x \in Drains \ {d} : drain'[x] = drain[x]
          /\ drain'[d] = [drain[d] EXCEPT !.at = "listing"]
          /\ drain'[d].symbol = s /\ drain'[d].bot = Nobody /\ drain'[d].at = "listing" /\ drain'[d].wait = 0
          /\ drain'[d] \in DrainRows
          /\ drain' \in [Drains -> DrainRows]
      BY <1>1, <2>1, DrainTypes DEF DrainRows
    <2>3. Live' = Live
      BY <1>1, <2>2
    <2>4. \A x \in Drains : drain'[x].symbol = drain[x].symbol /\ drain'[x].bot = drain[x].bot
      BY <1>1, <2>2
    <2>5. Loops'
      BY <2>1, <2>3, <2>4 DEF Inv, Loops, OneDrainPerSymbol, QueuedHasDrain
    <2>6. TypeOK'
      BY <2>1, <2>2 DEF Inv, TypeOK, DrainRows
    <2>7. HeldWhereRun'
      BY <2>1, <2>2 DEF Inv, HeldWhereRun
    <2>8. SleepIsLong'
      <3>1. ASSUME NEW x \in Drains, drain'[x].at = "sleeping"
            PROVE  x # d /\ drain[x] = drain'[x] /\ drain[x].symbol # s /\ drain[x].symbol \in Symbols
        BY <1>1, <2>2, <3>1, DrainTypes DEF Inv, Loops, OneDrainPerSymbol, DrainRows
      <3> QED
        BY <2>1, <3>1 DEF Inv, SleepIsLong, TypeOK
    <2>9. StopIsKnown' /\ ClosedIsQuiet'
      BY <2>1, <2>3 DEF Inv, StopIsKnown, ClosedIsQuiet
    <2>10. OneRunnerPerBot'
      BY <2>1, <2>4 DEF Inv, OneRunnerPerBot
    <2> QED
      BY <2>5, <2>6, <2>7, <2>8, <2>9, <2>10 DEF Inv
  <1>3. CASE ~GoesOn(s)
    <2>1. Leave(d) /\ UNCHANGED <<price, recovery, busy, attempts, policy, shutdown>>
      BY <1>3 DEF Wake
    <2>2. Renewed({d})
      BY <1>1, <2>1, LeaveRenews
    <2>3. busy' = busy \ {drain[x].bot : x \in {d}}
      BY <1>1, <2>1 DEF Inv, OneRunnerPerBot
    <2> QED
      BY <2>1, <2>2, <2>3, RenewedInv DEF Inv, TypeOK
  <1> QED
    BY <1>2, <1>3

\* A step inside a loop: its row changes, but neither symbol nor liveness.
LEMMA InsideKeeps ==
  ASSUME Inv, NEW d \in Live, NEW r \in DrainRows, drain' = [drain EXCEPT ![d] = r],
         r.symbol = drain[d].symbol, r.at \notin {"ended", "sleeping"}, r.wait = 0,
         r.bot # Nobody => r.at = "running",
         UNCHANGED <<queued, running, age, stopped, awaited, price, recovery, policy, shutdown>>,
         attempts' \subseteq Bots, busy' \subseteq Bots, OneRunnerPerBot'
  PROVE  Inv'
  <1>1. /\ \A x \in Drains \ {d} : drain'[x] = drain[x]
        /\ drain'[d] = r /\ drain' \in [Drains -> DrainRows]
    BY DrainTypes
  <1>2. Live' = Live
    BY <1>1
  <1>3. \A x \in Drains : drain'[x].symbol = drain[x].symbol
    BY <1>1
  <1>4. Loops'
    BY <1>2, <1>3 DEF Inv, Loops, OneDrainPerSymbol, QueuedHasDrain
  <1>5. TypeOK'
    BY <1>1 DEF Inv, TypeOK, DrainRows
  <1>6. HeldWhereRun' /\ SleepIsLong'
    BY <1>1 DEF Inv, HeldWhereRun, SleepIsLong
  <1>7. StopIsKnown' /\ ClosedIsQuiet'
    BY <1>2 DEF Inv, StopIsKnown, ClosedIsQuiet
  <1> QED
    BY <1>4, <1>5, <1>6, <1>7 DEF Inv

LEMMA ListBotsKeeps ==
  ASSUME Inv, NEW d \in Drains, ListBots(d)
  PROVE  Inv'
  <1>1. PICK B \in SUBSET Bots : drain' = [drain EXCEPT ![d].at = "running", ![d].todo = B]
    BY DEF ListBots
  <1> DEFINE r == [drain[d] EXCEPT !.at = "running", !.todo = B]
  <1>2. drain[d].at = "listing" /\ d \in Live /\ drain[d].bot = Nobody /\ drain[d].wait = 0
    BY DEF ListBots, Inv, HeldWhereRun
  <1>3. /\ r \in DrainRows /\ r.symbol = drain[d].symbol /\ r.at = "running" /\ r.wait = 0 /\ r.bot = Nobody
        /\ drain' = [drain EXCEPT ![d] = r]
    BY <1>1, <1>2, DrainTypes DEF DrainRows
  <1>4. \A x \in Drains : drain'[x].bot = drain[x].bot
    BY <1>2, <1>3, DrainTypes
  <1>5. OneRunnerPerBot'
    <2>1. {drain'[x].bot : x \in Drains} = {drain[x].bot : x \in Drains}
      BY <1>4
    <2>2. busy' = busy /\ recovery' = recovery
      BY DEF ListBots
    <2> QED
      BY <1>4, <2>1, <2>2 DEF Inv, OneRunnerPerBot
  <1> QED
    BY <1>2, <1>3, <1>5, InsideKeeps DEF ListBots, Inv, TypeOK

LEMMA StartRunKeeps ==
  ASSUME Inv, NEW d \in Drains, NEW b \in Bots, StartRun(d, b)
  PROVE  Inv'
  <1> DEFINE r == [drain[d] EXCEPT !.todo = @ \ {b}, !.bot = IF b \in busy THEN Nobody ELSE b]
  <1>1. drain[d].at = "running" /\ d \in Live /\ drain[d].bot = Nobody /\ drain[d].wait = 0
    BY DEF StartRun, Inv, HeldWhereRun
  <1>2. /\ r \in DrainRows /\ r.symbol = drain[d].symbol /\ r.at = "running" /\ r.wait = 0
        /\ r.bot = IF b \in busy THEN Nobody ELSE b
        /\ drain' = [drain EXCEPT ![d] = r]
    BY <1>1, DrainTypes DEF DrainRows, StartRun
  <1>3. /\ \A x \in Drains \ {d} : drain'[x].bot = drain[x].bot
        /\ drain'[d].bot = IF b \in busy THEN Nobody ELSE b
    BY <1>2, DrainTypes
  <1>4. busy' = busy \cup {b} /\ recovery' = recovery
    BY DEF StartRun
  <1>5. OneRunnerPerBot'
    BY <1>1, <1>3, <1>4 DEF Inv, OneRunnerPerBot
  <1>6. /\ attempts' \subseteq Bots /\ busy' \subseteq Bots
        /\ UNCHANGED <<queued, running, age, stopped, awaited, price, recovery, policy, shutdown>>
    BY <1>4 DEF StartRun, Inv, TypeOK
  <1> QED
    BY <1>1, <1>2, <1>5, <1>6, InsideKeeps

LEMMA EndRunKeeps ==
  ASSUME Inv, NEW d \in Drains, EndRun(d)
  PROVE  Inv'
  <1> DEFINE r == [drain[d] EXCEPT !.bot = Nobody]
  <1>1. drain[d].at = "running" /\ d \in Live /\ drain[d].bot \in Bots /\ drain[d].wait = 0
    BY DrainTypes DEF EndRun, Inv, HeldWhereRun, DrainRows
  <1>2. /\ r \in DrainRows /\ r.symbol = drain[d].symbol /\ r.at = "running" /\ r.wait = 0
        /\ r.bot = Nobody
        /\ drain' = [drain EXCEPT ![d] = r]
    BY <1>1, DrainTypes DEF DrainRows, EndRun
  <1>3. /\ \A x \in Drains \ {d} : drain'[x].bot = drain[x].bot
        /\ drain'[d].bot = Nobody
    BY <1>2, DrainTypes
  <1>4. busy' = busy \ {drain[d].bot} /\ recovery' = recovery
    BY DEF EndRun
  <1>5. OneRunnerPerBot'
    BY <1>1, <1>3, <1>4 DEF Inv, OneRunnerPerBot
  <1>6. attempts' \subseteq Bots /\ busy' \subseteq Bots
    BY <1>1, <1>4 DEF EndRun, Inv, TypeOK
  <1> QED
    BY <1>1, <1>2, <1>5, <1>6, InsideKeeps DEF EndRun

LEMMA LoopAgainRenews ==
  ASSUME Inv, NEW d \in Drains, LoopAgain(d)
  PROVE  Renewed({d})
  <1> DEFINE s == drain[d].symbol
  <1>1. d \in Live
    BY DEF LoopAgain
  <1>2. CASE s \in queued
    <2>1. /\ drain' = [drain EXCEPT ![d] = Entered(s)]
          /\ queued' = queued \ StartedAtOnce({s})
          /\ age' = IF WaitOf(s) = 0 THEN [age EXCEPT ![s] = 0] ELSE age
          /\ UNCHANGED <<running, stopped, awaited>>
      BY <1>2 DEF LoopAgain
    <2>2. drain' = [[drain EXCEPT ![d] = Idle] EXCEPT ![d] = Entered(s)]
      BY <2>1, DrainTypes
    <2>3. ~stopped
      BY <1>2 DEF Inv, StopIsKnown
    <2>4. EntersAs(d, d)
      BY <1>2, <2>1, <2>2 DEF EntersAs
    <2> QED
      BY <1>1, <2>3, <2>4, EntersRenews
  <1> QED
    BY <1>1, <1>2, LeaveRenews DEF LoopAgain

LEMMA LoopAgainKeeps ==
  ASSUME Inv, NEW d \in Drains, LoopAgain(d)
  PROVE  Inv'
  <1>1. Renewed({d})
    BY LoopAgainRenews
  <1>2. busy' = busy \ {drain[x].bot : x \in {d}}
    BY DEF LoopAgain, Inv, OneRunnerPerBot
  <1> QED
    BY <1>1, <1>2, RenewedInv DEF LoopAgain, Inv, TypeOK

LEMMA RunThrowsKeeps ==
  ASSUME Inv, NEW d \in Drains, RunThrows(d)
  PROVE  Inv'
  <1>1. d \in Live
    BY DEF RunThrows
  <1>2. Renewed({d})
    BY <1>1, LeaveRenews DEF RunThrows
  <1>3. busy' = busy \ {drain[x].bot : x \in {d}}
    BY DEF RunThrows, Cleared
  <1> QED
    BY <1>2, <1>3, RenewedInv DEF RunThrows, Inv, TypeOK

\* A step that moves neither loops nor scheduler nor runs.
LEMMA LoopsUntouched ==
  ASSUME Inv, UNCHANGED <<schedulerVars, recovery, busy>>, attempts' \subseteq Bots,
         policy' \in [running : BOOLEAN, held : BOOLEAN],
         price' \in [at : {"fetching", "timer", "off"}, delay : 0 .. MaxBackoff,
                     next : 0 .. MaxBackoff],
         shutdown' = shutdown
  PROVE  Inv'
  <1>1. Live' = Live
    BY DEF schedulerVars
  <1>2. TypeOK'
    BY DEF schedulerVars, Inv, TypeOK
  <1>3. HeldWhereRun' /\ SleepIsLong' /\ OneRunnerPerBot'
    BY DEF schedulerVars, Inv, HeldWhereRun, SleepIsLong, OneRunnerPerBot
  <1>4. Loops' /\ StopIsKnown' /\ ClosedIsQuiet'
    BY <1>1 DEF schedulerVars, Inv, Loops, OneDrainPerSymbol, QueuedHasDrain, StopIsKnown, ClosedIsQuiet
  <1> QED
    BY <1>2, <1>3, <1>4 DEF Inv

LEMMA PriceTypes ==
  ASSUME Inv
  PROVE  /\ \A next \in 0..MaxBackoff :
              Rearmed(PollInterval, next) \in [at : {"fetching", "timer", "off"}, delay : 0 .. MaxBackoff,
                     next : 0 .. MaxBackoff]
         /\ Lesser(2 * PollInterval, MaxBackoff) \in 0..MaxBackoff
         /\ \A n \in 0..MaxBackoff : Lesser(2 * n, MaxBackoff) \in 0..MaxBackoff
         /\ \A delay, next \in 0..MaxBackoff :
              Rearmed(delay, next) \in [at : {"fetching", "timer", "off"}, delay : 0 .. MaxBackoff,
                     next : 0 .. MaxBackoff]
  BY DEF Rearmed, Lesser

LEMMA PricePollKeeps ==
  ASSUME Inv, PricePoll
  PROVE  Inv'
  <1>1. ASSUME NEW S \in SUBSET Symbols, PricesArrive(S)
        PROVE  Inv'
    <2>1. price' \in [at : {"fetching", "timer", "off"}, delay : 0 .. MaxBackoff,
                     next : 0 .. MaxBackoff]
      BY <1>1, PriceTypes DEF PricesArrive
    <2>2. Renewed({}) \/ UNCHANGED schedulerVars
      BY <1>1, ScheduleRenews DEF PricesArrive
    <2>3. UNCHANGED <<recovery, busy, attempts, policy, shutdown>>
      BY <1>1 DEF PricesArrive
    <2>4. CASE Renewed({})
      BY <2>1, <2>3, <2>4, RenewedInv
    <2>5. CASE UNCHANGED schedulerVars
      BY <2>1, <2>3, <2>5, LoopsUntouched DEF Inv, TypeOK
    <2> QED
      BY <2>2, <2>4, <2>5
  <1>2. CASE PollFails
    <2>1. price.next \in 0..MaxBackoff
      BY DEF Inv, TypeOK
    <2> QED
      BY <1>2, <2>1, PriceTypes, LoopsUntouched DEF PollFails, Inv, TypeOK
  <1>3. CASE Poll
    BY <1>3, LoopsUntouched DEF Poll, Inv, TypeOK
  <1> QED
    BY <1>1, <1>2, <1>3 DEF PricePoll

RecoveryRows == [at : {"listing", "running", "timer", "off"}, todo : SUBSET Bots,
       bot : Bots \cup {Nobody}, delay : 0 .. RecoveryInterval, stopped : BOOLEAN]

\* A step of the recovery poller alone.
LEMMA RecoveryMoves ==
  ASSUME Inv, UNCHANGED <<schedulerVars, price, policy, shutdown>>,
         recovery' \in RecoveryRows, recovery'.stopped = recovery.stopped,
         recovery.at # "off",
         recovery'.bot # Nobody => recovery'.at = "running",
         attempts' \subseteq Bots, busy' \subseteq Bots, OneRunnerPerBot'
  PROVE  Inv'
  <1>1. Live' = Live
    BY DEF schedulerVars
  <1>2. TypeOK'
    BY DEF schedulerVars, Inv, TypeOK, RecoveryRows
  <1>3. HeldWhereRun' /\ SleepIsLong'
    BY DEF schedulerVars, Inv, HeldWhereRun, SleepIsLong
  <1>4. Loops' /\ StopIsKnown' /\ ClosedIsQuiet'
    BY <1>1 DEF schedulerVars, Inv, Loops, OneDrainPerSymbol, QueuedHasDrain, StopIsKnown, ClosedIsQuiet
  <1> QED
    BY <1>2, <1>3, <1>4 DEF Inv

LEMMA RunnersWithoutRecovery ==
  ASSUME Inv, UNCHANGED drain, recovery'.bot = Nobody, busy' = busy \ {recovery.bot}
  PROVE  OneRunnerPerBot'
  BY DEF Inv, OneRunnerPerBot

\* Updating a poller's record field by field.
LEMMA PollerUpdate ==
  ASSUME NEW A, NEW T, NEW B, NEW D, NEW a \in A, NEW todo \in T, NEW b \in B, NEW d \in D,
         NEW r \in [at : A, todo : T, bot : B, delay : D, stopped : BOOLEAN]
  PROVE  LET q == [r EXCEPT !.at = a, !.todo = todo, !.bot = b, !.delay = d]
         IN  /\ q \in [at : A, todo : T, bot : B, delay : D, stopped : BOOLEAN]
             /\ q.at = a /\ q.bot = b /\ q.stopped = r.stopped
  OBVIOUS

LEMMA RecoveryRow ==
  ASSUME Inv
  PROVE  /\ recovery \in RecoveryRows
         /\ RecoveryOff \in RecoveryRows /\ RecoveryOff.bot = Nobody
         /\ RecoveryArmed \in RecoveryRows /\ RecoveryArmed.bot = Nobody
         /\ RecoveryOff.stopped = recovery.stopped /\ RecoveryArmed.stopped = recovery.stopped
         /\ RecoveryEnds \in {RecoveryOff, RecoveryArmed}
  <1> DEFINE A == {"listing", "running", "timer", "off"}
             B == Bots \cup {Nobody}
             D == 0..RecoveryInterval
  <1>1. recovery \in [at : A, todo : SUBSET Bots, bot : B, delay : D, stopped : BOOLEAN]
    BY DEF Inv, TypeOK
  <1>2. /\ "off" \in A /\ "timer" \in A /\ {} \in SUBSET Bots /\ Nobody \in B
        /\ 0 \in D /\ RecoveryInterval \in D
    OBVIOUS
  <1>3. RecoveryRows = [at : A, todo : SUBSET Bots, bot : B, delay : D, stopped : BOOLEAN]
    BY DEF RecoveryRows
  <1> HIDE DEF A, B, D
  <1>4. /\ RecoveryOff \in RecoveryRows /\ RecoveryOff.bot = Nobody /\ RecoveryOff.stopped = recovery.stopped
    BY <1>1, <1>2, <1>3, PollerUpdate DEF RecoveryOff
  <1>5. /\ RecoveryArmed \in RecoveryRows /\ RecoveryArmed.bot = Nobody
        /\ RecoveryArmed.stopped = recovery.stopped
    BY <1>1, <1>2, <1>3, PollerUpdate DEF RecoveryArmed
  <1>6. RecoveryEnds \in {RecoveryOff, RecoveryArmed}
    BY DEF RecoveryEnds
  <1> QED
    BY <1>1, <1>3, <1>4, <1>5, <1>6

LEMMA RecoveryKeeps ==
  ASSUME Inv, RecoveryStep \/ ListFails
  PROVE  Inv'
  <1>1. CASE ListPending
    <2>1. /\ recovery' \in RecoveryRows /\ recovery'.stopped = recovery.stopped
          /\ recovery'.at = "running" /\ recovery'.bot = Nobody /\ recovery.bot = Nobody /\ recovery.at = "listing"
      BY <1>1, RecoveryRow DEF ListPending, RecoveryRows, Inv, TypeOK, HeldWhereRun
    <2>2. OneRunnerPerBot'
      BY <1>1, <2>1, RunnersWithoutRecovery DEF ListPending, schedulerVars, Inv, OneRunnerPerBot
    <2> QED
      BY <1>1, <2>1, <2>2, RecoveryMoves DEF ListPending, Inv, TypeOK
  <1>2. CASE ListFails
    <2>1. /\ recovery' \in RecoveryRows /\ recovery'.stopped = recovery.stopped
          /\ recovery'.bot = Nobody /\ recovery.bot = Nobody /\ recovery.at = "listing"
      BY <1>2, RecoveryRow DEF ListFails, Inv, HeldWhereRun
    <2>2. OneRunnerPerBot'
      BY <1>2, <2>1, RunnersWithoutRecovery DEF ListFails, schedulerVars, Inv, OneRunnerPerBot
    <2> QED
      BY <1>2, <2>1, <2>2, RecoveryMoves DEF ListFails, Inv, TypeOK
  <1>3. CASE RecoverReturns
    <2>1. /\ recovery' \in RecoveryRows /\ recovery'.stopped = recovery.stopped
          /\ recovery'.bot = Nobody /\ recovery.at = "running"
      BY <1>3, RecoveryRow DEF RecoverReturns, RecoveryRows
    <2>2. OneRunnerPerBot'
      BY <1>3, <2>1, RunnersWithoutRecovery DEF RecoverReturns, schedulerVars
    <2>3. attempts' \subseteq Bots /\ busy' \subseteq Bots
      BY <1>3 DEF RecoverReturns, Inv, TypeOK
    <2> QED
      BY <1>3, <2>1, <2>2, <2>3, RecoveryMoves DEF RecoverReturns
  <1>4. CASE RecoveryLoopEnds
    <2>1. /\ recovery' \in RecoveryRows /\ recovery'.stopped = recovery.stopped
          /\ recovery'.bot = Nobody /\ recovery.bot = Nobody /\ recovery.at = "running"
      BY <1>4, RecoveryRow DEF RecoveryLoopEnds
    <2>2. OneRunnerPerBot'
      BY <1>4, <2>1, RunnersWithoutRecovery DEF RecoveryLoopEnds, schedulerVars, Inv, OneRunnerPerBot
    <2> QED
      BY <1>4, <2>1, <2>2, RecoveryMoves DEF RecoveryLoopEnds, Inv, TypeOK
  <1>5. CASE RecoveryTimer
    <2>1. /\ recovery' \in RecoveryRows /\ recovery'.stopped = recovery.stopped
          /\ recovery'.bot = Nobody /\ recovery.bot = Nobody /\ recovery.at = "timer"
      BY <1>5, RecoveryRow DEF RecoveryTimer, RecoveryRows, Inv, HeldWhereRun
    <2>2. OneRunnerPerBot'
      BY <1>5, <2>1, RunnersWithoutRecovery DEF RecoveryTimer, schedulerVars, Inv, OneRunnerPerBot
    <2> QED
      BY <1>5, <2>1, <2>2, RecoveryMoves DEF RecoveryTimer, Inv, TypeOK
  <1>6. ASSUME NEW b \in Bots, Recover(b)
        PROVE  Inv'
    <2>1. /\ recovery' \in RecoveryRows /\ recovery'.stopped = recovery.stopped
          /\ recovery'.bot = (IF b \in busy THEN Nobody ELSE b) /\ recovery'.at = "running"
          /\ recovery.bot = Nobody /\ recovery.at = "running"
      BY <1>6, RecoveryRow DEF Recover, RecoveryRows
    <2>2. busy' = busy \cup {b} /\ drain' = drain
      BY <1>6 DEF Recover, schedulerVars
    <2>3. OneRunnerPerBot'
      BY <2>1, <2>2 DEF Inv, OneRunnerPerBot
    <2>4. attempts' \subseteq Bots /\ busy' \subseteq Bots
      BY <1>6 DEF Recover, Inv, TypeOK
    <2> QED
      BY <1>6, <2>1, <2>3, <2>4, RecoveryMoves DEF Recover
  <1> QED
    BY <1>1, <1>2, <1>3, <1>4, <1>5, <1>6 DEF RecoveryStep

LEMMA PolicyKeeps ==
  ASSUME Inv, PolicyTimer \/ PolicyEnds
  PROVE  Inv'
  <1>1. policy' \in [running : BOOLEAN, held : BOOLEAN]
    <2>1. \A p, q \in BOOLEAN : [running |-> p, held |-> q] \in [running : BOOLEAN, held : BOOLEAN]
      OBVIOUS
    <2>2. TRUE \in BOOLEAN /\ FALSE \in BOOLEAN /\ (~policy.running) \in BOOLEAN
      OBVIOUS
    <2> QED
      BY <2>1, <2>2 DEF PolicyTimer, PolicyEnds
  <1> QED
    BY <1>1, LoopsUntouched DEF PolicyTimer, PolicyEnds, Inv, TypeOK

\* The shutdown takes its steps: the loops stay as they are.
LEMMA ShutdownKeeps ==
  ASSUME Inv, Signal \/ Drained \/ Close
  PROVE  Inv'
  <1>1. CASE Signal
    <2>1. /\ recovery' \in RecoveryRows /\ recovery'.stopped
          /\ recovery'.bot = recovery.bot
          /\ recovery'.bot # Nobody => recovery'.at = "running"
      <3>1. recovery.at = "timer" => recovery.bot = Nobody
        BY DEF Inv, HeldWhereRun
      <3>2. CASE recovery.at = "timer"
        <4>1. recovery' = [recovery EXCEPT !.stopped = TRUE, !.at = "off", !.delay = 0]
          BY <1>1, <3>2 DEF Signal
        <4>2. recovery = [at |-> recovery.at, todo |-> recovery.todo, bot |-> recovery.bot,
                          delay |-> recovery.delay, stopped |-> recovery.stopped]
          BY RecoveryRow DEF RecoveryRows
        <4>3. recovery' = [at |-> "off", todo |-> recovery.todo, bot |-> recovery.bot,
                           delay |-> 0, stopped |-> TRUE]
          BY <4>1, <4>2
        <4>4. recovery.todo \in SUBSET Bots /\ recovery.bot \in Bots \cup {Nobody}
          BY RecoveryRow DEF RecoveryRows
        <4> QED
          BY <3>1, <3>2, <4>3, <4>4 DEF RecoveryRows
      <3>3. CASE recovery.at # "timer"
        <4>1. recovery' = [recovery EXCEPT !.stopped = TRUE]
          BY <1>1, <3>3 DEF Signal
        <4> QED
          BY <4>1, RecoveryRow DEF RecoveryRows, Inv, HeldWhereRun
      <3> QED
        BY <3>2, <3>3
    <2>2. /\ price' \in [at : {"fetching", "timer", "off"}, delay : 0 .. MaxBackoff,
                     next : 0 .. MaxBackoff]
      <3>1. price \in [at : {"fetching", "timer", "off"}, delay : 0 .. MaxBackoff,
                     next : 0 .. MaxBackoff]
        BY DEF Inv, TypeOK
      <3>2. price' = price \/ price' = [price EXCEPT !.at = "off", !.delay = 0]
        BY <1>1 DEF Signal
      <3>3. price = [at |-> price.at, delay |-> price.delay, next |-> price.next]
        BY <3>1
      <3>4. CASE price' = [price EXCEPT !.at = "off", !.delay = 0]
        <4>1. price' = [at |-> "off", delay |-> 0, next |-> price.next] /\ price.next \in 0..MaxBackoff
          BY <3>1, <3>3, <3>4
        <4> QED
          BY <4>1
      <3> QED
        BY <3>1, <3>2, <3>4
    <2>3. Live' = Live /\ shutdown' = "draining"
      BY <1>1 DEF Signal
    <2>4. TypeOK'
      BY <1>1, <2>1, <2>2 DEF Signal, Inv, TypeOK, RecoveryRows
    <2>5. HeldWhereRun' /\ SleepIsLong' /\ OneRunnerPerBot'
      BY <1>1, <2>1 DEF Signal, Inv, HeldWhereRun, SleepIsLong, OneRunnerPerBot
    <2>6. Loops'
      BY <1>1, <2>3 DEF Signal, Inv, Loops, OneDrainPerSymbol, QueuedHasDrain
    <2>7. StopIsKnown' /\ ClosedIsQuiet'
      BY <1>1, <2>1, <2>3 DEF Signal, StopIsKnown, ClosedIsQuiet
    <2> QED
      BY <2>4, <2>5, <2>6, <2>7 DEF Inv
  <1>2. CASE Drained \/ Close
    <2>1. UNCHANGED <<schedulerVars, price, recovery, busy, attempts, policy>>
      BY <1>2 DEF Drained, Close
    <2>2. Live' = Live /\ shutdown # "no" /\ shutdown' \in {"policy", "closed"}
      BY <1>2, <2>1 DEF Drained, Close, schedulerVars
    <2>3. Live = {} /\ recovery.at = "off" /\ busy = {}
      <3>1. CASE Drained
        <4>1. Live = {} /\ recovery.at = "off"
          BY <3>1, <2>2 DEF Drained, Quiesced, Inv, StopIsKnown
        <4>2. recovery.bot = Nobody /\ \A d \in Drains : drain[d].bot = Nobody
          BY <4>1 DEF Inv, HeldWhereRun
        <4> QED
          BY <4>1, <4>2 DEF Inv, OneRunnerPerBot
      <3>2. CASE Close
        BY <3>2 DEF Close, Inv, ClosedIsQuiet
      <3> QED
        BY <1>2, <3>1, <3>2
    <2>4. TypeOK' /\ HeldWhereRun' /\ SleepIsLong' /\ OneRunnerPerBot'
      BY <2>1, <2>2 DEF schedulerVars, Inv, TypeOK, HeldWhereRun, SleepIsLong, OneRunnerPerBot
    <2>5. Loops' /\ StopIsKnown' /\ ClosedIsQuiet'
      BY <2>1, <2>2, <2>3 DEF schedulerVars, Inv, Loops, OneDrainPerSymbol, QueuedHasDrain,
                             StopIsKnown, ClosedIsQuiet
    <2> QED
      BY <2>4, <2>5 DEF Inv
  <1> QED
    BY <1>1, <1>2

\* Time: what is missing of an interval shrinks as fast as the sleep for it.
LEMMA TickKeeps ==
  ASSUME Inv, Tick
  PROVE  Inv'
  <1>1. \A n \in Nat : Less(n) \in 0..n /\ (n = 0 => Less(n) = 0) /\ Less(n) >= n - 1
    BY DEF Less
  <1>2. ASSUME NEW d \in Drains
        PROVE  /\ drain'[d] \in DrainRows
               /\ drain'[d].wait = Less(drain[d].wait)
               /\ drain'[d].at = drain[d].at /\ drain'[d].symbol = drain[d].symbol
               /\ drain'[d].bot = drain[d].bot
    <2>1. drain'[d] = [drain[d] EXCEPT !.wait = Less(drain[d].wait)]
      BY DEF Tick
    <2>2. drain[d].wait \in 0..MinInterval
      BY DrainTypes DEF DrainRows
    <2>3. Less(drain[d].wait) \in 0..MinInterval
      BY <1>1, <2>2
    <2> QED
      BY <2>1, <2>3, DrainTypes DEF DrainRows
  <1>3. drain' \in [Drains -> DrainRows]
    BY <1>2 DEF Tick
  <1>4. /\ age' \in [Symbols -> 0..MinInterval]
        /\ \A s \in Symbols : age'[s] = Lesser(age[s] + 1, MinInterval)
    BY DEF Tick, Lesser, Inv, TypeOK
  <1>5. /\ price' \in [at : {"fetching", "timer", "off"}, delay : 0 .. MaxBackoff,
                     next : 0 .. MaxBackoff]
    <2>1. price.delay \in 0..MaxBackoff
      BY DEF Inv, TypeOK
    <2>2. Less(price.delay) \in 0..MaxBackoff
      BY <1>1, <2>1
    <2> QED
      BY <2>2 DEF Tick, Inv, TypeOK
  <1>6. recovery' \in RecoveryRows /\ recovery'.at = recovery.at /\ recovery'.bot = recovery.bot
        /\ recovery'.stopped = recovery.stopped
    <2>1. recovery.delay \in 0..RecoveryInterval
      BY RecoveryRow DEF RecoveryRows
    <2>2. Less(recovery.delay) \in 0..RecoveryInterval
      BY <1>1, <2>1
    <2> QED
      BY <2>2, RecoveryRow DEF Tick, RecoveryRows
  <1>7. Live' = Live
    BY <1>2
  <1>8. TypeOK'
    BY <1>3, <1>4, <1>5, <1>6 DEF Tick, Inv, TypeOK, DrainRows, RecoveryRows
  <1>9. HeldWhereRun'
    BY <1>1, <1>2, <1>6 DEF Inv, HeldWhereRun
  <1>10. SleepIsLong'
    <2>1. ASSUME NEW d \in Drains, drain'[d].at = "sleeping"
          PROVE  drain'[d].wait + age'[drain'[d].symbol] >= MinInterval
      <3>1. /\ drain[d].symbol \in Symbols /\ drain[d].wait \in Nat
            /\ age[drain[d].symbol] \in 0..MinInterval
            /\ drain[d].wait + age[drain[d].symbol] >= MinInterval
        BY <1>2, <2>1, DrainTypes DEF DrainRows, Inv, SleepIsLong, TypeOK
      <3>2. /\ Less(drain[d].wait) \in Nat /\ Less(drain[d].wait) >= drain[d].wait - 1
        BY <1>1, <3>1
      <3>3. age'[drain[d].symbol] = Lesser(age[drain[d].symbol] + 1, MinInterval)
        BY <1>4, <3>1
      <3> QED
        BY <1>2, <3>1, <3>2, <3>3 DEF Lesser
    <2> QED
      BY <2>1 DEF SleepIsLong
  <1>11. Loops' /\ StopIsKnown' /\ ClosedIsQuiet'
    <2>1. {drain'[d].symbol : d \in Live} = {drain[d].symbol : d \in Live}
      BY <1>2
    <2> QED
      BY <1>2, <1>6, <1>7, <2>1 DEF Tick, Inv, Loops, OneDrainPerSymbol, QueuedHasDrain, StopIsKnown, ClosedIsQuiet
  <1>12. OneRunnerPerBot'
    <2>1. {drain'[d].bot : d \in Drains} = {drain[d].bot : d \in Drains}
      BY <1>2
    <2>2. busy' = busy
      BY DEF Tick
    <2>3. busy' = ({drain'[d].bot : d \in Drains} \cup {recovery'.bot}) \ {Nobody}
      BY <1>6, <2>1, <2>2 DEF Inv, OneRunnerPerBot
    <2>4. \A d \in Drains : drain'[d].bot = drain[d].bot
      BY <1>2
    <2> HIDE DEF Live
    <2> QED
      BY <1>6, <2>3, <2>4 DEF Inv, OneRunnerPerBot
  <1> QED
    BY <1>8, <1>9, <1>10, <1>11, <1>12 DEF Inv

-----------------------------------------------------------------------------

LEMMA InitHolds ==
  ASSUME Init
  PROVE  Inv
  <1>1. /\ drain = [d \in Drains |-> Idle] /\ drain \in [Drains -> DrainRows]
        /\ \A d \in Drains : drain[d].at = "ended" /\ drain[d].bot = Nobody /\ drain[d].wait = 0
    BY IdleIsARow DEF Init
  <1>2. Lesser(2 * PollInterval, MaxBackoff) \in 0..MaxBackoff
    BY DEF Lesser
  <1>3. /\ price \in [at : {"fetching", "timer", "off"}, delay : 0 .. MaxBackoff, next : 0 .. MaxBackoff]
        /\ recovery \in RecoveryRows
    BY <1>2 DEF Init, RecoveryRows
  <1>4. TypeOK
    <2>1. age \in [Symbols -> 0..MinInterval]
      BY DEF Init
    <2>2. /\ policy \in [running : BOOLEAN, held : BOOLEAN]
          /\ stopped \in BOOLEAN /\ shutdown \in {"no", "draining", "policy", "closed"}
      BY DEF Init
    <2>3. /\ queued \subseteq Symbols /\ running \subseteq Symbols /\ awaited \subseteq Drains
          /\ busy \subseteq Bots /\ attempts \subseteq Bots
      BY DEF Init
    <2> QED
      BY <1>1, <1>3, <2>1, <2>2, <2>3 DEF TypeOK, DrainRows, RecoveryRows
  <1>5. Live = {}
    BY <1>1
  <1>6. HeldWhereRun /\ SleepIsLong /\ StopIsKnown /\ ClosedIsQuiet
    BY <1>1, <1>5 DEF Init, HeldWhereRun, SleepIsLong, StopIsKnown, ClosedIsQuiet
  <1>7. Loops
    BY <1>5 DEF Init, Loops, OneDrainPerSymbol, QueuedHasDrain
  <1>8. OneRunnerPerBot
    BY <1>1 DEF Init, OneRunnerPerBot
  <1> QED
    BY <1>4, <1>6, <1>7, <1>8 DEF Inv

LEMMA NextHolds ==
  ASSUME Inv, [Next]_vars
  PROVE  Inv'
  <1>1. ASSUME NEW d \in Drains, SchedulerStep(d) \/ RunThrows(d)
        PROVE  Inv'
    BY <1>1, WakeKeeps, ListBotsKeeps, StartRunKeeps, EndRunKeeps, LoopAgainKeeps, RunThrowsKeeps
       DEF SchedulerStep
  <1>2. CASE UNCHANGED vars
    BY <1>2, LoopsUntouched DEF vars, Inv, TypeOK
  <1> QED
    BY <1>1, <1>2, PricePollKeeps, RecoveryKeeps, PolicyKeeps, ShutdownKeeps, TickKeeps DEF Next

\* The invariant holds always.
THEOREM InvHolds == Spec => []Inv
  <1>1. Init => Inv
    BY InitHolds
  <1>2. Inv /\ [Next]_vars => Inv'
    BY NextHolds
  <1> QED
    BY <1>1, <1>2, PTL DEF Spec

\* The worker's variables have their types: no timer and no set of bots leaves
\* its bounds, whatever errors, prices and signals come.
THEOREM RuntimeTypes == Spec => []TypeOK
  <1>1. Inv => TypeOK
    BY DEF Inv
  <1> QED
    BY <1>1, InvHolds, PTL

\* A symbol never has two drains (symbol-run-scheduler.ts): its bots are never
\* run by two loops at once.
THEOREM SymbolHasOneDrain == Spec => []OneDrainPerSymbol
  <1>1. Inv => OneDrainPerSymbol
    BY DEF Inv, Loops
  <1> QED
    BY <1>1, InvHolds, PTL

\* A queued price has a drain that will find it, also when the run it came
\* during throws.
THEOREM QueuedIsNotLost == Spec => []QueuedHasDrain
  <1>1. Inv => QueuedHasDrain
    BY DEF Inv, Loops
  <1> QED
    BY <1>1, InvHolds, PTL

\* The engine's set of running bots is exact: a bot is neither run twice at a
\* time, by two drains or a drain and the recovery poller, nor left marked.
THEOREM BotHasOneRunner == Spec => []OneRunnerPerBot
  <1>1. Inv => OneRunnerPerBot
    BY DEF Inv
  <1> QED
    BY <1>1, InvHolds, PTL

\* The database is closed only when no run and no recovery is under way.
THEOREM ClosesQuietly == Spec => []ClosedIsQuiet
  <1>1. Inv => ClosedIsQuiet
    BY DEF Inv
  <1> QED
    BY <1>1, InvHolds, PTL

-----------------------------------------------------------------------------
(* What a step may start.                                                  *)

\* A run starts only when the interval of its symbol is over, and never once
\* the scheduler was stopped.
StartsInTime ==
  \A d \in Drains : Enters(d) => age[drain'[d].symbol] = MinInterval /\ ~stopped

LEMMA RenewedStarts ==
  ASSUME Inv, NEW D \in SUBSET Drains, Renewed(D)
  PROVE  StartsInTime
  <1> SUFFICES ASSUME NEW d \in Drains, Enters(d)
               PROVE  age[drain'[d].symbol] = MinInterval /\ ~stopped
    BY DEF StartsInTime
  <1>1. drain'[d].at = "listing" /\ drain'[d] # drain[d]
    BY DEF Enters
  <1>2. PICK s \in Symbols : drain'[d] = Entered(s) /\ ~stopped
    BY <1>1, IdleIsARow DEF Renewed
  <1>3. WaitOf(s) = 0 /\ Entered(s).symbol = s
    BY <1>1, <1>2, EnteredIsFresh DEF Inv
  <1>4. age[s] \in 0..MinInterval
    BY DEF Inv, TypeOK
  <1> QED
    BY <1>2, <1>3, <1>4 DEF WaitOf

LEMMA StillStarts ==
  ASSUME UNCHANGED drain
  PROVE  StartsInTime
  BY DEF StartsInTime, Enters

LEMMA SchedulerStarts ==
  ASSUME Inv, NEW d \in Drains, SchedulerStep(d) \/ RunThrows(d)
  PROVE  StartsInTime
  <1>1. CASE Wake(d)
    <2>1. d \in Live /\ drain[d].at = "sleeping" /\ drain[d].wait = 0
      BY <1>1 DEF Wake
    <2>2. CASE GoesOn(drain[d].symbol)
      <3>1. drain' = [drain EXCEPT ![d].at = "listing"] /\ ~stopped
        BY <1>1, <2>2 DEF Wake, GoesOn
      <3>2. drain[d].symbol \in Symbols /\ age[drain[d].symbol] \in 0..MinInterval
        BY DrainTypes DEF DrainRows, Inv, TypeOK
      <3>3. age[drain[d].symbol] = MinInterval
        BY <2>1, <3>2 DEF Inv, SleepIsLong
      <3>4. drain'[d].symbol = drain[d].symbol /\ \A x \in Drains \ {d} : drain'[x] = drain[x]
        BY <3>1, DrainTypes DEF DrainRows
      <3> QED
        BY <3>1, <3>3, <3>4 DEF StartsInTime, Enters
    <2>3. CASE ~GoesOn(drain[d].symbol)
      BY <1>1, <2>1, <2>3, LeaveRenews, RenewedStarts DEF Wake
    <2> QED
      BY <2>2, <2>3
  <1>2. CASE LoopAgain(d)
    BY <1>2, LoopAgainRenews, RenewedStarts
  <1>3. CASE RunThrows(d)
    BY <1>3, LeaveRenews, RenewedStarts DEF RunThrows
  <1>4. CASE ListBots(d) \/ EndRun(d) \/ \E b \in Bots : StartRun(d, b)
    <2>1. /\ \A x \in Drains \ {d} : drain'[x] = drain[x]
          /\ drain'[d].at = "running"
      <3>1. CASE ListBots(d)
        <4>1. PICK B \in SUBSET Bots : drain' = [drain EXCEPT ![d].at = "running", ![d].todo = B]
          BY <3>1 DEF ListBots
        <4> QED
          BY <4>1, DrainTypes DEF DrainRows
      <3>2. CASE EndRun(d)
        BY <3>2, DrainTypes DEF EndRun, DrainRows
      <3>3. ASSUME NEW b \in Bots, StartRun(d, b)
            PROVE  drain'[d].at = "running" /\ \A x \in Drains \ {d} : drain'[x] = drain[x]
        <4>1. drain[d].at = "running" /\ drain' = [drain EXCEPT ![d] =
                [drain[d] EXCEPT !.todo = @ \ {b}, !.bot = IF b \in busy THEN Nobody ELSE b]]
          BY <3>3, DrainTypes DEF StartRun
        <4>2. [drain[d] EXCEPT !.todo = @ \ {b}, !.bot = IF b \in busy THEN Nobody ELSE b].at = "running"
          BY <4>1, DrainTypes DEF DrainRows
        <4> QED
          BY <4>1, <4>2, DrainTypes
      <3> QED
        BY <1>4, <3>1, <3>2, <3>3
    <2> QED
      BY <2>1 DEF StartsInTime, Enters
  <1> QED
    BY <1>1, <1>2, <1>3, <1>4 DEF SchedulerStep

LEMMA TickStarts ==
  ASSUME Inv, Tick
  PROVE  StartsInTime
  <1> SUFFICES ASSUME NEW d \in Drains, drain'[d].at = "listing"
               PROVE  drain'[d] = drain[d]
    BY DEF StartsInTime, Enters
  <1>1. drain'[d] = [drain[d] EXCEPT !.wait = Less(drain[d].wait)]
    BY DEF Tick
  <1>2. drain[d].at = "listing"
    BY <1>1, DrainTypes DEF DrainRows
  <1>3. drain[d].wait = 0
    BY <1>2 DEF Inv, HeldWhereRun
  <1> QED
    BY <1>1, <1>3, DrainTypes DEF Less, DrainRows

LEMMA NextStarts ==
  ASSUME Inv, [Next]_vars
  PROVE  StartsInTime
  <1>1. ASSUME NEW S \in SUBSET Symbols, PricesArrive(S)
        PROVE  StartsInTime
    <2>1. Renewed({}) \/ UNCHANGED schedulerVars
      BY <1>1, ScheduleRenews DEF PricesArrive
    <2> QED
      BY <2>1, RenewedStarts, StillStarts DEF schedulerVars
  <1>2. CASE PollFails \/ Poll
    BY <1>2, StillStarts DEF PollFails, Poll, schedulerVars
  <1>3. CASE RecoveryStep \/ ListFails
    BY <1>3, StillStarts DEF RecoveryStep, ListFails, ListPending, RecoverReturns, RecoveryLoopEnds,
                             RecoveryTimer, Recover, schedulerVars
  <1>4. CASE PolicyTimer \/ PolicyEnds \/ Signal \/ Drained \/ Close \/ UNCHANGED vars
    BY <1>4, StillStarts DEF PolicyTimer, PolicyEnds, Signal, Drained, Close, vars, schedulerVars
  <1> QED
    BY <1>1, <1>2, <1>3, <1>4, SchedulerStarts, TickStarts DEF Next, PricePoll

\* Two runs of a symbol start at least the interval apart, across drains,
\* errors and prices that arrive during the wait.
THEOREM RunsStartApart == Spec => RunsAreSpaced
  <1>1. Inv /\ [Next]_vars => [\A d \in Drains : Enters(d) => age[drain'[d].symbol] = MinInterval]_vars
    BY NextStarts DEF StartsInTime
  <1> QED
    BY <1>1, InvHolds, PTL DEF Spec, RunsAreSpaced

\* After the signal no run of a drain starts and the recovery takes no further
\* bot.
THEOREM StopStartsNothing == Spec => NothingStartsAfterStop
  <1>1. ASSUME Inv, [Next]_vars, shutdown # "no"
        PROVE  recovery'.bot \in {recovery.bot, Nobody}
    <2>1. recovery.stopped
      BY <1>1 DEF Inv, StopIsKnown
    <2>2. CASE RecoveryStep \/ ListFails
      BY <2>1, <2>2, <1>1, RecoveryRow DEF RecoveryStep, ListFails, ListPending, RecoverReturns, RecoveryLoopEnds,
           RecoveryTimer, Recover, TakesAnother, RecoveryRows
    <2>3. CASE Signal
      BY <1>1, <2>3 DEF Signal
    <2>4. CASE Tick
      BY <2>4, <1>1, RecoveryRow DEF Tick, RecoveryRows
    <2>5. ASSUME NEW d \in Drains, SchedulerStep(d) \/ RunThrows(d)
          PROVE  recovery' = recovery
      BY <2>5 DEF SchedulerStep, RunThrows, Wake, ListBots, EndRun, LoopAgain, StartRun
    <2>6. CASE PricePoll \/ PolicyTimer \/ PolicyEnds \/ Drained \/ Close \/ UNCHANGED vars
      BY <2>6 DEF PricePoll, PricesArrive, PollFails, Poll, PolicyTimer, PolicyEnds, Drained, Close, vars
    <2> QED
      BY <1>1, <2>2, <2>3, <2>4, <2>5, <2>6 DEF Next
  <1>2. ASSUME Inv, [Next]_vars, shutdown # "no"
        PROVE  \A d \in Drains : ~Enters(d)
    BY <1>2, NextStarts DEF StartsInTime, Inv, StopIsKnown
  <1>3. Inv /\ [Next]_vars =>
          [shutdown # "no" =>
             /\ \A d \in Drains : ~Enters(d)
             /\ recovery'.bot \in {recovery.bot, Nobody}]_vars
    BY <1>1, <1>2
  <1> QED
    BY <1>3, InvHolds, PTL DEF Spec, NothingStartsAfterStop

\* The worker's scheduler, pollers and shutdown keep all their invariants.
THEOREM RuntimeAlwaysHolds == Spec => []RuntimeHolds
  <1>1. Inv => RuntimeHolds
    BY DEF Inv, Loops, RuntimeHolds
  <1> QED
    BY <1>1, InvHolds, PTL

\* Runs start spaced while the worker works, and none starts once it stops.
THEOREM RunsStartOrderly == Spec => StartsAreOrderly
  <1> QED
    BY RunsStartApart, StopStartsNothing DEF StartsAreOrderly

-----------------------------------------------------------------------------
\* The prices.  Its variables are the suite's, in the order of its module:
\* x1 is now, x2 seen, x3 stored, x4 loaded, x5 cached, x6 batch, x7 restarts, x8
\* firstUse and x9 durable.

LEMMA FeedConstants ==
  /\ Quote \notin Bases /\ MaxBlock \in Nat /\ FeedTime \in Nat /\ StaleAfter \in Nat /\ MaxRestarts \in Nat
  BY StoresAssumption DEF Feed!FeedAssumption

\* The observation of a block: the one there was, or one of a newer block that begins now.
LEMMA SightingFacts ==
  ASSUME Feed!TypeOK, NEW m \in Feed!Mints, NEW k \in 0 .. MaxBlock
  PROVE  /\ Feed!Sighting(m, k) \in Feed!Observations
         /\ \/ Feed!Sighting(m, k) = x2[m]
            \/ Feed!Sighting(m, k).block > x2[m].block /\ Feed!Sighting(m, k).first = x1
         /\ Feed!Trusted(m, k) => k > 0 /\ Feed!Sighting(m, k).block = k
  <1>1. x1 \in 0 .. FeedTime /\ x2[m] \in Feed!Observations /\ x2[m].block \in 0 .. MaxBlock
    BY DEF Feed!TypeOK, Feed!Observations
  <1>2. [block |-> k, first |-> x1, advanced |-> x2[m] # Feed!Unseen] \in Feed!Observations
    BY <1>1 DEF Feed!Observations
  <1>3. CASE Feed!Regressed(m, k)
    BY <1>1, <1>3 DEF Feed!Sighting, Feed!Trusted
  <1>4. CASE ~Feed!Regressed(m, k) /\ k = x2[m].block
    <2>1. Feed!Sighting(m, k) = x2[m] /\ k > 0
      BY <1>4 DEF Feed!Sighting, Feed!Regressed
    <2> QED
      BY <1>1, <1>4, <2>1
  <1>5. CASE ~Feed!Regressed(m, k) /\ k # x2[m].block
    <2>1. Feed!Sighting(m, k) = [block |-> k, first |-> x1, advanced |-> x2[m] # Feed!Unseen]
      BY <1>5 DEF Feed!Sighting
    <2>2. k > x2[m].block /\ k > 0
      BY <1>1, <1>5 DEF Feed!Regressed
    <2> QED
      BY <1>2, <2>1, <2>2
  <1> QED
    BY <1>3, <1>4, <1>5

LEMMA EarlierFacts ==
  ASSUME NEW a \in Int, NEW b \in Int
  PROVE  /\ Feed!Earlier(a, b) <= a /\ Feed!Earlier(a, b) <= b /\ Feed!Earlier(a, b) \in {a, b}
  BY DEF Feed!Earlier

LEMMA PriceFromFacts ==
  ASSUME Feed!TypeOK, NEW r \in Feed!Responses, NEW b \in Bases, Feed!Trusted(Quote, r[Quote].block),
         Feed!PriceFrom(r, b) # Feed!NoPrice
  PROVE  /\ Feed!PriceFrom(r, b) \in Feed!Prices
         /\ Feed!PriceFrom(r, b).block > 0 /\ Feed!PriceFrom(r, b).quoteBlock > 0
         /\ Feed!PriceFrom(r, b).block = Feed!Sighting(b, r[b].block).block
         /\ Feed!PriceFrom(r, b).quoteBlock = Feed!Sighting(Quote, r[Quote].block).block
         /\ Feed!PriceFrom(r, b).at <= Feed!Sighting(b, r[b].block).first
         /\ Feed!PriceFrom(r, b).at <= Feed!Sighting(Quote, r[Quote].block).first
  <1> DEFINE s == Feed!Sighting(b, r[b].block)
             q == Feed!Sighting(Quote, r[Quote].block)
  <1>1. b \in Feed!Mints /\ Quote \in Feed!Mints
    BY DEF Feed!Mints
  <1>2. r[b].block \in 0 .. MaxBlock /\ r[Quote].block \in 0 .. MaxBlock
    BY <1>1 DEF Feed!Responses
  <1>3. s \in Feed!Observations /\ q \in Feed!Observations
    BY <1>1, <1>2, SightingFacts
  <1>4. Feed!Trusted(b, r[b].block)
    BY DEF Feed!PriceFrom
  <1>5. r[b].block > 0 /\ s.block = r[b].block /\ r[Quote].block > 0 /\ q.block = r[Quote].block
    BY <1>1, <1>2, <1>4, SightingFacts
  <1>6. Feed!PriceFrom(r, b) = [block |-> r[b].block, quoteBlock |-> r[Quote].block,
                                at |-> Feed!Earlier(s.first, q.first)]
    BY DEF Feed!PriceFrom
  <1> HIDE DEF s, q
  <1>7. s.first \in 0 .. FeedTime /\ q.first \in 0 .. FeedTime
    BY <1>3 DEF Feed!Observations
  <1>8. /\ Feed!Earlier(s.first, q.first) \in 0 .. FeedTime
        /\ Feed!Earlier(s.first, q.first) <= s.first /\ Feed!Earlier(s.first, q.first) <= q.first
    BY <1>7, EarlierFacts
  <1>9. Feed!PriceFrom(r, b) \in Feed!Prices
    BY <1>2, <1>6, <1>8 DEF Feed!Prices
  <1> QED
    BY <1>5, <1>6, <1>8, <1>9 DEF s, q

LEMMA NoPriceFacts ==
  Feed!NoPrice \in Feed!Prices /\ Feed!NoPrices \in [Bases -> Feed!Prices]
  BY FeedConstants DEF Feed!NoPrice, Feed!NoPrices, Feed!Prices

LEMMA NotUsedFacts ==
  /\ Feed!NotUsed \in [Feed!Mints -> [Feed!Blocks -> 0 .. Feed!Never]]
  /\ \A m \in Feed!Mints : \A k \in Feed!Blocks : Feed!NotUsed[m][k] = Feed!Never
  <1>1. Feed!Never \in 0 .. Feed!Never
    BY FeedConstants DEF Feed!Never
  <1> QED
    BY <1>1 DEF Feed!NotUsed

\* A price that is not younger than the first use of its blocks renews nothing.
LEMMA BackedIsNoRenewal == Feed!TypeOK /\ Feed!CachedIsBacked => Feed!NoRenewal
  <1> SUFFICES ASSUME Feed!TypeOK, Feed!CachedIsBacked, NEW b \in Bases, Feed!Fresh(b)
               PROVE  /\ x1 - x8[b][x5[b].block] <= StaleAfter
                      /\ x1 - x8[Quote][x5[b].quoteBlock] <= StaleAfter
    BY DEF Feed!NoRenewal
  <1> DEFINE p == x5[b]
             u == x8[b][p.block]
             v == x8[Quote][p.quoteBlock]
  <1>1. p.block > 0 /\ p.quoteBlock > 0 /\ p.at <= u /\ p.at <= v /\ x1 - p.at <= StaleAfter
    BY DEF Feed!CachedIsBacked, Feed!Fresh
  <1>2. x1 \in Int /\ p \in Feed!Prices /\ StaleAfter \in Int /\ MaxBlock \in Nat
    BY FeedConstants DEF Feed!TypeOK
  <1>3. p.block \in Feed!Blocks /\ p.quoteBlock \in Feed!Blocks /\ p.at \in Int
    <2> HIDE DEF p
    <2>1. p.block \in 0 .. MaxBlock /\ p.quoteBlock \in 0 .. MaxBlock /\ p.at \in 0 .. FeedTime
      BY <1>2 DEF Feed!Prices
    <2> QED
      BY <1>1, <1>2, <2>1 DEF Feed!Blocks
  <1>4. u \in Int /\ v \in Int
    <2>1. x8 \in [Feed!Mints -> [Feed!Blocks -> 0 .. Feed!Never]] /\ b \in Feed!Mints /\ Quote \in Feed!Mints
      BY DEF Feed!TypeOK, Feed!Mints
    <2> QED
      BY <1>3, <2>1
  <1> HIDE DEF p, u, v
  <1>5. x1 - u <= StaleAfter /\ x1 - v <= StaleAfter
    BY <1>1, <1>2, <1>3, <1>4
  <1> QED
    BY <1>5 DEF p, u, v

LEMMA RespondStep ==
  ASSUME Feed!FeedInv, NEW r \in Feed!Responses, Feed!Respond(r)
  PROVE  Feed!FeedInv'
  <1> DEFINE ok == r[Quote].priced /\ Feed!Trusted(Quote, r[Quote].block)
             prices == [b \in Bases |-> IF ok THEN Feed!PriceFrom(r, b) ELSE Feed!NoPrice]
             priced == {b \in Bases : prices[b] # Feed!NoPrice}
             phase == IF x9 THEN "saving" ELSE "saved"
             batch == IF priced = {} THEN Feed!Idle ELSE [phase |-> phase, prices |-> prices]
  <1>1. /\ x6.phase = "asked" /\ x4 = "yes" /\ x4' = x4
        /\ x2' = [m \in Feed!Mints |-> Feed!Sighting(m, r[m].block)]
        /\ x5' = [b \in Bases |-> IF b \in priced THEN x5[b] ELSE Feed!NoPrice]
        /\ x6' = batch
        /\ x1' = x1 /\ x3' = x3 /\ x7' = x7 /\ x8' = x8 /\ x9' = x9
    BY DEF Feed!Respond, Feed!Withdrawn
  <1>2. /\ Feed!TypeOK /\ Feed!BlocksAreKnown /\ Feed!NothingFromTheFuture /\ Feed!CachedIsBacked
        /\ Feed!NewestBlock /\ Feed!NoRenewal
    BY DEF Feed!FeedInv
  <1>3. \A b \in Bases : prices[b] # Feed!NoPrice =>
          /\ prices[b] \in Feed!Prices /\ prices[b].block > 0 /\ prices[b].quoteBlock > 0
          /\ prices[b].block = Feed!Sighting(b, r[b].block).block
          /\ prices[b].quoteBlock = Feed!Sighting(Quote, r[Quote].block).block
          /\ prices[b].at <= Feed!Sighting(b, r[b].block).first
          /\ prices[b].at <= Feed!Sighting(Quote, r[Quote].block).first
    BY <1>2, PriceFromFacts
  <1> HIDE DEF ok
  <1>4. prices \in [Bases -> Feed!Prices]
    BY <1>3, NoPriceFacts
  <1> HIDE DEF prices
  <1>5. \A m \in Feed!Mints : r[m].block \in 0 .. MaxBlock
    BY DEF Feed!Responses
  <1>6. \A m \in Feed!Mints :
          /\ x2'[m] \in Feed!Observations
          /\ x2'[m] = x2[m] \/ (x2'[m].block > x2[m].block /\ x2'[m].first = x1)
    BY <1>1, <1>2, <1>5, SightingFacts
  <1>7. Feed!TypeOK'
    <2>1. x6' \in [phase : {"idle", "asked", "saving", "saved"}, prices : [Bases -> Feed!Prices]]
      BY <1>1, <1>4, NoPriceFacts DEF Feed!Idle
    <2>2. x5' \in [Bases -> Feed!Prices]
      BY <1>1, <1>2, NoPriceFacts DEF Feed!TypeOK
    <2>3. x2' \in [Feed!Mints -> Feed!Observations]
      BY <1>1, <1>6
    <2> QED
      BY <1>1, <1>2, <2>1, <2>2, <2>3 DEF Feed!TypeOK
  <1>8. Feed!NothingFromTheFuture'
    <2>1. \A m \in Feed!Mints : x2'[m].first <= x1 /\ x3[m].first <= x1
      BY <1>2, <1>6 DEF Feed!NothingFromTheFuture, Feed!TypeOK
    <2> QED
      BY <1>1, <2>1 DEF Feed!NothingFromTheFuture
  <1>9. Feed!BlocksAreKnown'
    <2>1. SUFFICES ASSUME NEW m \in Feed!Mints, NEW k \in Feed!Blocks, x8[m][k] # Feed!Never
                   PROVE  k <= x2'[m].block /\ (k = x2'[m].block => x2'[m].first <= x8[m][k])
      BY <1>1, <1>2 DEF Feed!BlocksAreKnown, Feed!Knows
    <2>2. k <= x2[m].block /\ (k = x2[m].block => x2[m].first <= x8[m][k])
      BY <1>1, <1>2, <2>1 DEF Feed!BlocksAreKnown, Feed!Knows
    <2>3. k \in Int /\ x2[m].block \in Int
      BY <1>2 DEF Feed!TypeOK, Feed!Observations, Feed!Blocks
    <2> DEFINE o == x2'[m]
    <2>4. o.block \in Int /\ (o = x2[m] \/ (o.block > x2[m].block))
      BY <1>6 DEF Feed!Observations
    <2> HIDE DEF o
    <2>5. k <= o.block /\ (k = o.block => o.first <= x8[m][k])
      BY <2>2, <2>3, <2>4
    <2> QED
      BY <2>5 DEF o
  <1>10. Feed!BatchIsObserved'
    <2>1. CASE priced = {}
      BY <1>1, <2>1 DEF Feed!BatchIsObserved, Feed!Idle
    <2>2. CASE priced # {}
      <3>1. x6' = [phase |-> phase, prices |-> prices]
        BY <1>1, <2>2
      <3>2. Quote \in Feed!Mints /\ \A b \in Bases : b \in Feed!Mints
        BY DEF Feed!Mints
      <3>3. \A b \in Bases : IF prices[b] = Feed!NoPrice THEN x5'[b] = Feed!NoPrice
              ELSE /\ prices[b].block = x2'[b].block
                   /\ prices[b].quoteBlock = x2'[Quote].block
                   /\ prices[b].block > 0 /\ prices[b].quoteBlock > 0
                   /\ prices[b].at <= x2'[b].first /\ prices[b].at <= x2'[Quote].first
        BY <1>1, <1>3, <3>2
      <3>4. x6'.phase = phase /\ x6'.prices = prices
        BY <3>1
      <3>5. Feed!NoPrice' = Feed!NoPrice
        BY DEF Feed!NoPrice
      <3> QED
        BY <1>1, <3>3, <3>4, <3>5 DEF Feed!BatchIsObserved
    <2> QED
      BY <2>1, <2>2
  <1>11. \A b \in Bases : x5'[b] # Feed!NoPrice => x5'[b] = x5[b]
    BY <1>1
  <1>12. Feed!CachedIsBacked' /\ Feed!NewestBlock' /\ Feed!NoRenewal'
    BY <1>1, <1>2, <1>11 DEF Feed!CachedIsBacked, Feed!NewestBlock, Feed!NoRenewal, Feed!Fresh, Feed!NoPrice,
         Feed!Blocks, Feed!Never
  <1> QED
    BY <1>7, <1>8, <1>9, <1>10, <1>12 DEF Feed!FeedInv

\* The batch is published: its blocks are used now, if they were not before.
LEMMA SavedStep ==
  ASSUME Feed!FeedInv, Feed!Saved
  PROVE  Feed!FeedInv'
  <1> DEFINE prices == x6.prices
             Uses(m, k) == \E b \in Bases : prices[b] # Feed!NoPrice /\ k = IF m = b THEN prices[b].block
                             ELSE IF m = Quote THEN prices[b].quoteBlock ELSE 0
  <1>1. /\ Feed!TypeOK /\ Feed!BlocksAreKnown /\ Feed!NothingFromTheFuture /\ Feed!CachedIsBacked
        /\ Feed!NewestBlock /\ Feed!BatchIsObserved
    BY DEF Feed!FeedInv
  <1>2. /\ x6.phase = "saved" /\ x6' = Feed!Idle
        /\ x1' = x1 /\ x2' = x2 /\ x3' = x3 /\ x4' = x4 /\ x7' = x7 /\ x9' = x9
        /\ x5' = [b \in Bases |-> IF prices[b] = Feed!NoPrice THEN x5[b] ELSE prices[b]]
        /\ x8' = [m \in Feed!Mints |-> [k \in Feed!Blocks |->
                    IF x8[m][k] = Feed!Never /\ Uses(m, k) THEN x1 ELSE x8[m][k]]]
    BY DEF Feed!Saved, Feed!Publish
  <1>3. /\ x1 \in 0 .. FeedTime /\ x2 \in [Feed!Mints -> Feed!Observations]
        /\ prices \in [Bases -> Feed!Prices] /\ x5 \in [Bases -> Feed!Prices]
        /\ x8 \in [Feed!Mints -> [Feed!Blocks -> 0 .. Feed!Never]]
    BY <1>1 DEF Feed!TypeOK
  <1>4. /\ x4 = "yes" /\ (x9 => x3 = x2)
        /\ \A b \in Bases :
             IF prices[b] = Feed!NoPrice THEN x5[b] = Feed!NoPrice
             ELSE /\ prices[b].block = x2[b].block /\ prices[b].quoteBlock = x2[Quote].block
                  /\ prices[b].block > 0 /\ prices[b].quoteBlock > 0
                  /\ prices[b].at <= x2[b].first /\ prices[b].at <= x2[Quote].first
    BY <1>1, <1>2 DEF Feed!BatchIsObserved
  <1> HIDE DEF prices
  <1>5. Quote \in Feed!Mints /\ (\A b \in Bases : b \in Feed!Mints /\ b # Quote) /\ Feed!Never = FeedTime + 1
        /\ FeedTime \in Nat /\ MaxBlock \in Nat
    BY FeedConstants DEF Feed!Mints, Feed!Never
  <1>6. ASSUME NEW m \in Feed!Mints, NEW k \in Feed!Blocks, Uses(m, k)
        PROVE  k = x2[m].block
    <2>1. PICK b \in Bases : prices[b] # Feed!NoPrice /\ k = IF m = b THEN prices[b].block
                             ELSE IF m = Quote THEN prices[b].quoteBlock ELSE 0
      BY <1>6
    <2>2. k \in Int /\ k > 0
      BY <1>5 DEF Feed!Blocks
    <2> QED
      BY <1>4, <1>5, <2>1, <2>2
  <1>7. \A m \in Feed!Mints : \A k \in Feed!Blocks :
          /\ k = x2[m].block => x2[m].first <= x1
          /\ x8[m][k] # Feed!Never =>
               k <= x2[m].block /\ (k = x2[m].block => x2[m].first <= x8[m][k])
    BY <1>1, <1>4 DEF Feed!BlocksAreKnown, Feed!Knows, Feed!NothingFromTheFuture
  \* The uses after the step.
  <1> DEFINE use == x8'
  <1>8. \A m \in Feed!Mints : \A k \in Feed!Blocks :
          /\ use[m][k] \in 0 .. Feed!Never
          /\ \/ use[m][k] = x8[m][k]
             \/ use[m][k] = x1 /\ x8[m][k] = Feed!Never /\ k = x2[m].block
          /\ Uses(m, k) => use[m][k] # Feed!Never
    <2> SUFFICES ASSUME NEW m \in Feed!Mints, NEW k \in Feed!Blocks
                 PROVE  /\ use[m][k] \in 0 .. Feed!Never
                        /\ \/ use[m][k] = x8[m][k]
                           \/ use[m][k] = x1 /\ x8[m][k] = Feed!Never /\ k = x2[m].block
                        /\ Uses(m, k) => use[m][k] # Feed!Never
      OBVIOUS
    <2>1. use[m][k] = IF x8[m][k] = Feed!Never /\ Uses(m, k) THEN x1 ELSE x8[m][k]
      BY <1>2
    <2>2. x8[m][k] \in 0 .. Feed!Never /\ x1 \in 0 .. Feed!Never /\ x1 # Feed!Never
      BY <1>3, <1>5
    <2>3. Uses(m, k) => k = x2[m].block
      BY <1>6
    <2> HIDE DEF use, Uses
    <2> QED
      BY <2>1, <2>2, <2>3
  <1>9. use \in [Feed!Mints -> [Feed!Blocks -> 0 .. Feed!Never]]
    BY <1>2, <1>8
  <1>10. Feed!TypeOK'
    <2>1. x5' \in [Bases -> Feed!Prices]
      BY <1>2, <1>3
    <2>2. Feed!Idle \in [phase : {"idle", "asked", "saving", "saved"}, prices : [Bases -> Feed!Prices]]
      BY NoPriceFacts DEF Feed!Idle
    <2> QED
      BY <1>1, <1>2, <1>9, <2>1, <2>2 DEF Feed!TypeOK
  <1> HIDE DEF use
  <1>11. \A m \in Feed!Mints : \A k \in Feed!Blocks : use[m][k] # Feed!Never =>
           k <= x2[m].block /\ (k = x2[m].block => x2[m].first <= use[m][k])
    <2> SUFFICES ASSUME NEW m \in Feed!Mints, NEW k \in Feed!Blocks, use[m][k] # Feed!Never
                 PROVE  k <= x2[m].block /\ (k = x2[m].block => x2[m].first <= use[m][k])
      OBVIOUS
    <2>1. k \in Int /\ x2[m].block \in Int
      BY <1>3, <1>5 DEF Feed!Blocks, Feed!Observations
    <2>2. CASE use[m][k] = x8[m][k]
      BY <1>7, <2>2
    <2>3. CASE use[m][k] = x1 /\ k = x2[m].block
      BY <1>7, <2>1, <2>3
    <2> QED
      BY <1>8, <2>2, <2>3
  <1>12. Feed!BlocksAreKnown'
    BY <1>2, <1>4, <1>11 DEF Feed!BlocksAreKnown, Feed!Knows, Feed!Blocks, Feed!Never, use
  <1>13. Feed!NothingFromTheFuture' /\ Feed!BatchIsObserved'
    BY <1>1, <1>2 DEF Feed!NothingFromTheFuture, Feed!BatchIsObserved, Feed!Idle
  <1>14. ASSUME NEW b \in Bases, x5'[b] # Feed!NoPrice
         PROVE  /\ x5'[b].block > 0 /\ x5'[b].quoteBlock > 0 /\ x5'[b].at <= x1
                /\ x5'[b].at <= use[b][x5'[b].block] /\ x5'[b].at <= use[Quote][x5'[b].quoteBlock]
                /\ \A k \in Feed!Blocks : k > x5'[b].block => use[b][k] = Feed!Never
                /\ \A k \in Feed!Blocks : k > x5'[b].quoteBlock => use[Quote][k] = Feed!Never
    <2> DEFINE p == prices[b]
    <2>1. x5'[b] = p /\ p # Feed!NoPrice
      BY <1>2, <1>4, <1>14
    <2>2. /\ p.block = x2[b].block /\ p.quoteBlock = x2[Quote].block
          /\ p.block > 0 /\ p.quoteBlock > 0
          /\ p.at <= x2[b].first /\ p.at <= x2[Quote].first
      BY <1>4, <2>1
    <2>3. p.block \in Feed!Blocks /\ p.quoteBlock \in Feed!Blocks /\ p.at \in Int
      <3>1. p \in Feed!Prices
        BY <1>3
      <3> HIDE DEF p
      <3>2. p.block \in 0 .. MaxBlock /\ p.quoteBlock \in 0 .. MaxBlock /\ p.at \in 0 .. FeedTime
        BY <3>1 DEF Feed!Prices
      <3> QED
        BY <1>5, <2>2, <3>2 DEF Feed!Blocks
    <2>4. Uses(b, p.block) /\ Uses(Quote, p.quoteBlock)
      BY <1>5, <2>1
    <2>5. use[b][p.block] # Feed!Never /\ use[Quote][p.quoteBlock] # Feed!Never
      BY <1>5, <1>8, <2>3, <2>4
    <2> HIDE DEF p, Uses
    <2>6. x2[b].first <= use[b][p.block] /\ x2[Quote].first <= use[Quote][p.quoteBlock]
      BY <1>5, <1>11, <2>2, <2>3, <2>5
    <2>7. /\ x2[b].first \in Int /\ x2[Quote].first \in Int /\ x1 \in Int
          /\ use[b][p.block] \in Int /\ use[Quote][p.quoteBlock] \in Int
          /\ x2[b].block \in Int /\ x2[Quote].block \in Int
      BY <1>3, <1>5, <1>8, <2>3 DEF Feed!Observations
    <2>8. p.at <= x1 /\ p.at <= use[b][p.block] /\ p.at <= use[Quote][p.quoteBlock]
      <3>1. x2[b].first <= x1
        BY <1>1, <1>5 DEF Feed!NothingFromTheFuture
      <3> QED
        BY <2>2, <2>3, <2>6, <2>7, <3>1
    <2>9. \A m \in {b, Quote} : \A k \in Feed!Blocks : k > x2[m].block => use[m][k] = Feed!Never
      <3> SUFFICES ASSUME NEW m \in {b, Quote}, NEW k \in Feed!Blocks, k > x2[m].block, use[m][k] # Feed!Never
                   PROVE  FALSE
        OBVIOUS
      <3>1. k <= x2[m].block /\ x2[m].block \in Int
        BY <1>5, <1>11, <2>7
      <3>2. k \in Int
        BY <1>5 DEF Feed!Blocks
      <3> QED
        BY <3>1, <3>2
    <2> QED
      BY <2>1, <2>2, <2>8, <2>9
  <1>15. Feed!CachedIsBacked' /\ Feed!NewestBlock'
    BY <1>2, <1>14 DEF Feed!CachedIsBacked, Feed!NewestBlock, Feed!NoPrice, Feed!Blocks, Feed!Never, use
  <1>16. Feed!NoRenewal'
    BY <1>10, <1>15, BackedIsNoRenewal, PTL
  <1> QED
    BY <1>10, <1>12, <1>13, <1>15, <1>16 DEF Feed!FeedInv

LEMMA SaveStep ==
  ASSUME Feed!FeedInv, Feed!Save
  PROVE  Feed!FeedInv'
  <1>1. /\ x6.phase = "saving" /\ x1' = x1 /\ x2' = x2 /\ x4' = x4 /\ x5' = x5 /\ x7' = x7
        /\ x8' = x8 /\ x9' = x9
        /\ \/ x3' = x2 /\ x6' = [x6 EXCEPT !.phase = "saved"]
           \/ x3' \in {x3, x2} /\ x6' = Feed!Idle
    BY DEF Feed!Save
  <1>2. /\ Feed!TypeOK /\ Feed!BlocksAreKnown /\ Feed!NothingFromTheFuture /\ Feed!CachedIsBacked
        /\ Feed!NewestBlock /\ Feed!BatchIsObserved /\ Feed!NoRenewal
    BY DEF Feed!FeedInv
  <1>3. x4 = "yes" /\ x9 /\ x3' \in {x3, x2}
    BY <1>1, <1>2 DEF Feed!BatchIsObserved
  <1>4. x6 \in [phase : {"idle", "asked", "saving", "saved"}, prices : [Bases -> Feed!Prices]]
    BY <1>2 DEF Feed!TypeOK
  <1>5. \/ x6' = Feed!Idle
        \/ x3' = x2 /\ x6'.phase = "saved" /\ x6'.prices = x6.prices
           /\ x6' \in [phase : {"idle", "asked", "saving", "saved"}, prices : [Bases -> Feed!Prices]]
    BY <1>1, <1>4
  <1>6. Feed!TypeOK'
    <2>1. Feed!Idle \in [phase : {"idle", "asked", "saving", "saved"}, prices : [Bases -> Feed!Prices]]
      BY NoPriceFacts DEF Feed!Idle
    <2> QED
      BY <1>1, <1>2, <1>3, <1>5, <2>1 DEF Feed!TypeOK
  <1>7. Feed!BlocksAreKnown' /\ Feed!NothingFromTheFuture'
    <2>1. Feed!Knows(x2) /\ Feed!Knows(x3)
      BY <1>2, <1>3 DEF Feed!BlocksAreKnown
    <2>2. CASE x3' = x3
      BY <1>1, <1>2, <2>1, <2>2
      DEF Feed!BlocksAreKnown, Feed!Knows, Feed!NothingFromTheFuture, Feed!Blocks, Feed!Never
    <2>3. CASE x3' = x2
      BY <1>1, <1>2, <2>1, <2>3
      DEF Feed!BlocksAreKnown, Feed!Knows, Feed!NothingFromTheFuture, Feed!Blocks, Feed!Never
    <2> QED
      BY <1>3, <2>2, <2>3
  <1>8. Feed!BatchIsObserved'
    <2>1. CASE x6' = Feed!Idle
      BY <2>1 DEF Feed!BatchIsObserved, Feed!Idle
    <2>2. CASE x3' = x2 /\ x6'.phase = "saved" /\ x6'.prices = x6.prices
      <3>1. Feed!NoPrice' = Feed!NoPrice
        BY DEF Feed!NoPrice
      <3> QED
        BY <1>1, <1>2, <1>3, <2>2, <3>1 DEF Feed!BatchIsObserved
    <2> QED
      BY <1>5, <2>1, <2>2
  <1>9. Feed!CachedIsBacked' /\ Feed!NewestBlock' /\ Feed!NoRenewal'
    BY <1>1, <1>2 DEF Feed!CachedIsBacked, Feed!NewestBlock, Feed!NoRenewal, Feed!Fresh, Feed!NoPrice,
         Feed!Blocks, Feed!Never
  <1> QED
    BY <1>6, <1>7, <1>8, <1>9 DEF Feed!FeedInv

\* The steps that move no price: asking, the load, a failure, and time.
LEMMA QuietStep ==
  ASSUME Feed!FeedInv,
         Feed!Ask \/ Feed!Load \/ Feed!RequestFails \/ Feed!Tick
  PROVE  Feed!FeedInv'
  <1>1. /\ Feed!TypeOK /\ Feed!BlocksAreKnown /\ Feed!NothingFromTheFuture /\ Feed!CachedIsBacked
        /\ Feed!NewestBlock /\ Feed!BatchIsObserved /\ Feed!NoRenewal
    BY DEF Feed!FeedInv
  <1>2. /\ x3' = x3 /\ x5' = x5 /\ x7' = x7 /\ x8' = x8 /\ x9' = x9
        /\ x2' = x2 \/ (x2' = x3 /\ x9)
        /\ x4' \in {"no", "yes", "failed"} /\ (~x9 => x4' = "yes")
        /\ x4' = "yes" => (x4 = "yes" /\ x2' = x2) \/ (x9 /\ x2' = x3)
        /\ x1' = x1 \/ (x1 < FeedTime /\ x1' = x1 + 1)
        /\ \/ x6' = Feed!Idle \/ x6' = [Feed!Idle EXCEPT !.phase = "asked"]
           \/ x6' = x6 /\ (x6.phase # "asked" => x4' = x4 /\ x2' = x2)
    <2>1. x4 \in {"no", "yes", "failed"} /\ (~x9 => x4 = "yes") /\ x9 \in BOOLEAN
      BY <1>1 DEF Feed!TypeOK, Feed!BlocksAreKnown
    <2>2. CASE Feed!Ask
      BY <2>1, <2>2 DEF Feed!Ask
    <2>3. CASE Feed!Load
      BY <2>1, <2>3 DEF Feed!Load
    <2>4. CASE Feed!RequestFails
      BY <2>1, <2>4 DEF Feed!RequestFails
    <2>5. CASE Feed!Tick
      BY <2>1, <2>5 DEF Feed!Tick
    <2> QED
      BY <2>2, <2>3, <2>4, <2>5
  <1>3. x1 \in 0 .. FeedTime /\ FeedTime \in Nat
    BY <1>1, FeedConstants DEF Feed!TypeOK
  <1> DEFINE t == x1'
  <1>4. t \in 0 .. FeedTime /\ x1 <= t
    BY <1>2, <1>3
  <1> HIDE DEF t
  <1>5. x6' = x6 \/ (x6'.phase \in {"idle", "asked"} /\ x6'.prices = Feed!NoPrices
                     /\ x6' \in [phase : {"idle", "asked", "saving", "saved"}, prices : [Bases -> Feed!Prices]])
    BY <1>2, NoPriceFacts DEF Feed!Idle
  <1>6. Feed!TypeOK'
    BY <1>1, <1>2, <1>4, <1>5 DEF Feed!TypeOK, t
  <1>7. Feed!BlocksAreKnown'
    BY <1>1, <1>2 DEF Feed!BlocksAreKnown, Feed!Knows, Feed!Blocks, Feed!Never
  <1>8. Feed!NothingFromTheFuture'
    <2>1. \A m \in Feed!Mints : /\ x2[m].first \in Int /\ x3[m].first \in Int
                                /\ x2[m].first <= x1 /\ x3[m].first <= x1
      BY <1>1 DEF Feed!TypeOK, Feed!Observations, Feed!NothingFromTheFuture
    <2>2. \A m \in Feed!Mints : x2[m].first <= t /\ x3[m].first <= t
      BY <1>3, <1>4, <2>1
    <2> QED
      BY <1>2, <2>2 DEF Feed!NothingFromTheFuture, t
  <1>9. Feed!BatchIsObserved'
    <2>1. CASE x6'.phase \in {"idle", "asked"}
      BY <2>1 DEF Feed!BatchIsObserved
    <2>2. CASE x6' = x6 /\ x6.phase # "asked"
      BY <1>1, <1>2, <2>2 DEF Feed!BatchIsObserved, Feed!NoPrice, Feed!Idle
    <2> QED
      BY <1>5, <2>1, <2>2
  <1>10. Feed!CachedIsBacked' /\ Feed!NewestBlock'
    <2>1. \A b \in Bases : x5[b].at \in Int
      BY <1>1 DEF Feed!TypeOK, Feed!Prices
    <2>2. \A b \in Bases : x5[b].at <= x1 => x5[b].at <= t
      BY <1>3, <1>4, <2>1
    <2> QED
      BY <1>1, <1>2, <2>2 DEF Feed!CachedIsBacked, Feed!NewestBlock, Feed!NoPrice, Feed!Blocks, Feed!Never, t
  <1>11. Feed!NoRenewal'
    BY <1>6, <1>10, BackedIsNoRenewal, PTL
  <1> QED
    BY <1>6, <1>7, <1>8, <1>9, <1>10, <1>11 DEF Feed!FeedInv

LEMMA FeedRestarts ==
  ASSUME Feed!FeedInv, Feed!Restart
  PROVE  Feed!FeedInv'
  <1>1. /\ Feed!TypeOK /\ Feed!BlocksAreKnown /\ Feed!NothingFromTheFuture
    BY DEF Feed!FeedInv
  <1>2. /\ x7 < MaxRestarts /\ x7' = x7 + 1 /\ x6' = Feed!Idle /\ x5' = Feed!NoPrices
        /\ x4' = (IF x9 THEN "no" ELSE "yes") /\ x8' = (IF x9 THEN x8 ELSE Feed!NotUsed)
        /\ x2' = [m \in Feed!Mints |-> Feed!Unseen] /\ x1' = x1 /\ x3' = x3 /\ x9' = x9
    BY DEF Feed!Restart
  <1>3. x1 \in 0 .. FeedTime /\ FeedTime \in Nat /\ MaxBlock \in Nat /\ MaxRestarts \in Nat
    BY <1>1, FeedConstants DEF Feed!TypeOK
  <1>4. Feed!Unseen \in Feed!Observations /\ Feed!Unseen.first <= x1
    BY <1>3 DEF Feed!Unseen, Feed!Observations
  <1>5. Feed!TypeOK'
    <2>1. x7' \in 0 .. MaxRestarts
      BY <1>1, <1>2, <1>3 DEF Feed!TypeOK
    <2>2. Feed!Idle \in [phase : {"idle", "asked", "saving", "saved"}, prices : [Bases -> Feed!Prices]]
      BY NoPriceFacts DEF Feed!Idle
    <2>3. x8' \in [Feed!Mints -> [Feed!Blocks -> 0 .. Feed!Never]] /\ x4' \in {"no", "yes", "failed"}
      BY <1>1, <1>2, NotUsedFacts DEF Feed!TypeOK
    <2> QED
      BY <1>1, <1>2, <1>4, <2>1, <2>2, <2>3, NoPriceFacts DEF Feed!TypeOK
  <1>6. Feed!BlocksAreKnown'
    <2>1. CASE x9
      BY <1>1, <1>2, <2>1 DEF Feed!BlocksAreKnown, Feed!Knows, Feed!Blocks, Feed!Never
    <2>2. CASE ~x9
      BY <1>2, <2>2, NotUsedFacts DEF Feed!BlocksAreKnown, Feed!Knows, Feed!Blocks, Feed!Never
    <2> QED
      BY <2>1, <2>2
  <1>7. Feed!NothingFromTheFuture'
    BY <1>1, <1>2, <1>4 DEF Feed!NothingFromTheFuture
  <1>8. Feed!BatchIsObserved'
    BY <1>2 DEF Feed!BatchIsObserved, Feed!Idle
  <1>9. \A b \in Bases : x5'[b] = Feed!NoPrice
    BY <1>2 DEF Feed!NoPrices
  <1>10. Feed!CachedIsBacked' /\ Feed!NewestBlock' /\ Feed!NoRenewal'
    BY <1>9 DEF Feed!CachedIsBacked, Feed!NewestBlock, Feed!NoRenewal, Feed!Fresh, Feed!NoPrice
  <1> QED
    BY <1>5, <1>6, <1>7, <1>8, <1>10 DEF Feed!FeedInv

LEMMA FeedStarts == Feed!Init => Feed!FeedInv
  <1> SUFFICES ASSUME Feed!Init PROVE Feed!FeedInv
    OBVIOUS
  <1>1. /\ x1 = 0 /\ x7 = 0 /\ x2 = [m \in Feed!Mints |-> Feed!Unseen] /\ x3 = [m \in Feed!Mints |-> Feed!Unseen]
        /\ x4 = (IF x9 THEN "no" ELSE "yes") /\ x5 = Feed!NoPrices /\ x6 = Feed!Idle
        /\ x8 = Feed!NotUsed /\ x9 \in BOOLEAN
    BY DEF Feed!Init
  <1>2. FeedTime \in Nat /\ MaxBlock \in Nat /\ MaxRestarts \in Nat /\ Feed!Never \in 0 .. Feed!Never
    BY FeedConstants DEF Feed!Never
  <1>3. Feed!Unseen \in Feed!Observations /\ Feed!Unseen.first <= 0
    BY <1>2 DEF Feed!Unseen, Feed!Observations
  <1>4. Feed!TypeOK
    BY <1>1, <1>2, <1>3, NoPriceFacts, NotUsedFacts DEF Feed!TypeOK, Feed!Idle
  <1>5. Feed!BlocksAreKnown /\ Feed!NothingFromTheFuture /\ Feed!BatchIsObserved
    BY <1>1, <1>3, NotUsedFacts DEF Feed!BlocksAreKnown, Feed!Knows, Feed!NothingFromTheFuture, Feed!BatchIsObserved, Feed!Idle
  <1>6. \A b \in Bases : x5[b] = Feed!NoPrice
    BY <1>1 DEF Feed!NoPrices
  <1>7. Feed!CachedIsBacked /\ Feed!NewestBlock /\ Feed!NoRenewal
    BY <1>6 DEF Feed!CachedIsBacked, Feed!NewestBlock, Feed!NoRenewal, Feed!Fresh
  <1> QED
    BY <1>4, <1>5, <1>7 DEF Feed!FeedInv

LEMMA FeedStays == Feed!FeedInv /\ UNCHANGED Feed!vars => Feed!FeedInv'
  BY DEF Feed!vars, Feed!FeedInv, Feed!TypeOK, Feed!BlocksAreKnown, Feed!Knows, Feed!NothingFromTheFuture,
         Feed!BatchIsObserved, Feed!CachedIsBacked, Feed!NoRenewal, Feed!NewestBlock, Feed!Fresh, Feed!NoPrice

\* For any mints, blocks and restarts of a service with a store or without: no price is
\* renewed, and the engine reads the newest one, of those the service can know of.
THEOREM PricesStayTrue == Feed!Spec => []Feed!FeedInv
  <1>1. Feed!FeedInv /\ [Feed!Next]_Feed!vars => Feed!FeedInv'
    BY RespondStep, SavedStep, SaveStep, QuietStep, FeedRestarts, FeedStays DEF Feed!Next
  <1> QED
    BY <1>1, FeedStarts, PTL DEF Feed!Spec

-----------------------------------------------------------------------------
\* The candles.  Its variables are the suite's, in the order of its module:
\* x1 is now, x2 table, x3 writes, x4 request and x5 served.

LEMMA LeastNatural == ASSUME NEW S, S \subseteq Nat, S # {} PROVE \E x \in S : \A y \in S : x <= y
  <1>1. PICK x \in S : \A y \in S : ~ (<<y, x>> \in OpToRel(<, Nat))
    BY NatLessThanWellFounded, WFMin
  <1>2. \A y \in S : <<y, x>> \in OpToRel(<, Nat) <=> y < x
    BY DEF OpToRel
  <1>3. \A y \in S : y \in Nat /\ ~ (y < x)
    BY <1>1, <1>2
  <1>4. \A y \in S : x <= y
    BY <1>3
  <1> QED
    BY <1>4

LEMMA GreatestNatural ==
  ASSUME NEW n \in Nat, NEW S, S \subseteq 0 .. n, S # {}
  PROVE  \E x \in S : \A y \in S : y <= x
  <1> DEFINE T == {n - y : y \in S}
  <1>1. T \subseteq Nat /\ T # {}
    <2>1. \A y \in S : n - y \in Nat
      OBVIOUS
    <2>2. \A t \in T : \E y \in S : t = n - y
      OBVIOUS
    <2> QED
      BY <2>1, <2>2
  <1>2. PICK t \in T : \A u \in T : t <= u
    BY <1>1, LeastNatural
  <1>3. PICK x \in S : t = n - x
    BY <1>2
  <1>4. ASSUME NEW y \in S PROVE y <= x
    <2>1. n - y \in T /\ x \in 0 .. n /\ y \in 0 .. n
      OBVIOUS
    <2> QED
      BY <1>2, <1>3, <2>1
  <1> QED
    BY <1>4

LEMMA CandleConstants ==
  /\ Width \in Nat \ {0} /\ CandleTime \in Nat /\ Lookbacks \subseteq Nat
  /\ CandleTime \div Width \in Nat
  <1>1. Width \in Nat \ {0} /\ CandleTime \in Nat /\ Lookbacks \subseteq Nat
    BY StoresAssumption DEF Candles!HistoryAssumption
  <1> QED
    BY <1>1

LEMMA SlotTimes ==
  ASSUME NEW s \in Candles!Slots
  PROVE  /\ s \in Nat /\ Candles!Open(s) \in Nat /\ Candles!Close(s) = Candles!Open(s) + Width
         /\ Candles!Close(s) \in Nat
  <1>1. s \in Nat /\ Width \in Nat
    BY CandleConstants DEF Candles!Slots
  <1>2. s * Width \in Nat /\ (s + 1) * Width = s * Width + Width
    BY <1>1
  <1> QED
    BY <1>1, <1>2 DEF Candles!Open, Candles!Close

\* A candle that is built after its end, from rows asked for from before its start,
\* is whole.
LEMMA BuiltIsWhole ==
  ASSUME NEW from \in Int, NEW to \in Int, NEW s \in Candles!Slots, x1 \in 0 .. CandleTime,
         Candles!Closed(s, from, to)
  PROVE  /\ Candles!Built(s, from, to) = [whole |-> TRUE, at |-> x1]
         /\ Candles!Close(s) <= x1 /\ Candles!Close(s) <= to
  <1> DEFINE o == Candles!Open(s)
             c == Candles!Close(s)
             rows == Candles!RowsOf(s, from, to)
  <1>1. o \in Nat /\ c \in Nat /\ o >= from /\ c <= to /\ c <= x1 /\ x1 \in Nat
    <2>1. o \in Nat /\ c \in Nat /\ o >= from /\ c <= Candles!Earlier(to, x1) /\ x1 \in Nat
      BY SlotTimes, CandleConstants DEF Candles!Closed
    <2> HIDE DEF o, c
    <2> QED
      BY <2>1 DEF Candles!Earlier
  <1>2. rows = {t \in {u \in from .. to : u <= x1} : o <= t /\ t < c}
    BY DEF Candles!RowsOf, Candles!RowsIn
  <1> HIDE DEF o, c, rows
  <1>3. rows = o .. (c - 1) /\ \A t \in rows : t < x1
    BY <1>1, <1>2
  <1> QED
    BY <1>1, <1>3 DEF Candles!Built, rows, o, c

LEMMA HistoryFinished ==
  ASSUME NEW from \in Int, NEW to \in Int, x1 \in 0 .. CandleTime
  PROVE  Candles!History(from, to) \in Candles!Tables /\ Candles!Finished(Candles!History(from, to))
  <1> DEFINE h == Candles!History(from, to)
  <1>1. ASSUME NEW s \in Candles!Slots
        PROVE  \/ h[s] = Candles!NoCandle
               \/ h[s] = [whole |-> TRUE, at |-> x1] /\ Candles!Close(s) <= x1
    <2>1. h[s] = Candles!NoCandle \/ (Candles!Closed(s, from, to) /\ h[s] = Candles!Built(s, from, to))
      BY DEF Candles!History
    <2> QED
      BY <2>1, BuiltIsWhole
  <1>2. h = [s \in Candles!Slots |-> h[s]]
    BY DEF Candles!History
  <1> HIDE DEF h
  <1>3. [whole |-> TRUE, at |-> x1] \in Candles!Candles
    BY DEF Candles!Candles
  <1>4. h \in Candles!Tables
    <2>1. \A s \in Candles!Slots : h[s] \in Candles!Candles \cup {Candles!NoCandle}
      BY <1>1, <1>3
    <2> QED
      BY <1>2, <2>1 DEF Candles!Tables
  <1>5. Candles!Finished(h)
    <2> SUFFICES ASSUME NEW s \in Candles!Slots, h[s] # Candles!NoCandle
                 PROVE  h[s].whole /\ Candles!Close(s) <= h[s].at
      BY DEF Candles!Finished, Candles!Held
    <2> QED
      BY <1>1
  <1> QED
    BY <1>4, <1>5 DEF h

\* Where a refresh begins is a time.
LEMMA RefreshBegins ==
  ASSUME NEW c \in Candles!Tables, NEW from \in Int, NEW to \in Int
  PROVE  Candles!RefreshFrom(c, from, to) \in Int
  <1>1. CASE ~Candles!Covered(c, from, to)
    BY <1>1 DEF Candles!RefreshFrom
  <1>2. CASE Candles!Covered(c, from, to)
    <2> DEFINE last == Candles!Max(Candles!Held(c))
               start == Candles!Open(last) - 3 * Width
    <2>1. Candles!Held(c) \subseteq 0 .. (CandleTime \div Width) /\ Candles!Held(c) # {}
      BY <1>2 DEF Candles!Covered, Candles!Held, Candles!Slots
    <2>2. \E x \in Candles!Held(c) : \A y \in Candles!Held(c) : y <= x
      BY <2>1, CandleConstants, GreatestNatural
    <2>3. \A x, y \in Candles!Held(c) : x \in Int /\ y \in Int
      BY <2>1
    <2>4. last \in Candles!Held(c)
      <3>1. \E x \in Candles!Held(c) : \A y \in Candles!Held(c) : x >= y
        BY <2>2, <2>3
      <3> QED
        BY <3>1 DEF Candles!Max
    <2>5. last \in Candles!Slots
      BY <2>4 DEF Candles!Held
    <2>6. start \in Int
      BY <2>5, SlotTimes, CandleConstants
    <2> HIDE DEF start
    <2>7. Candles!Max({from, start}) \in {from, start}
      <3>1. \E x \in {from, start} : \A y \in {from, start} : x >= y
        BY <2>6
      <3> QED
        BY <3>1 DEF Candles!Max
    <2> QED
      BY <1>2, <2>6, <2>7 DEF Candles!RefreshFrom, start
  <1> QED
    BY <1>1, <1>2

\* What is cut from, or merged of, finished candles is finished.
LEMMA CutFinished ==
  ASSUME NEW c \in Candles!Tables, Candles!Finished(c), NEW d,
         d = [s \in Candles!Slots |-> d[s]],
         \A s \in Candles!Slots : d[s] \in {c[s], Candles!NoCandle}
  PROVE  d \in Candles!Tables /\ Candles!Finished(d)
  <1>1. \A s \in Candles!Slots : d[s] \in Candles!Candles \cup {Candles!NoCandle}
    BY DEF Candles!Tables
  <1>2. d \in Candles!Tables
    BY <1>1 DEF Candles!Tables
  <1> QED
    BY <1>2 DEF Candles!Finished, Candles!Held

LEMMA MergeFinished ==
  ASSUME NEW c \in Candles!Tables, Candles!Finished(c), NEW f \in Candles!Tables, Candles!Finished(f), NEW d,
         d = [s \in Candles!Slots |-> d[s]],
         \A s \in Candles!Slots : d[s] = c[s] \/ d[s] = f[s]
  PROVE  d \in Candles!Tables /\ Candles!Finished(d)
  <1>1. \A s \in Candles!Slots : d[s] \in Candles!Candles \cup {Candles!NoCandle}
    BY DEF Candles!Tables
  <1>2. d \in Candles!Tables
    BY <1>1 DEF Candles!Tables
  <1>3. ASSUME NEW s \in Candles!Slots, d[s] # Candles!NoCandle
        PROVE  d[s].whole /\ Candles!Close(s) <= d[s].at
    BY <1>3 DEF Candles!Finished, Candles!Held
  <1> QED
    BY <1>2, <1>3 DEF Candles!Finished, Candles!Held

LEMMA NoCandlesFinished ==
  /\ [s \in Candles!Slots |-> Candles!NoCandle] \in Candles!Tables
  /\ Candles!Finished([s \in Candles!Slots |-> Candles!NoCandle])
  BY DEF Candles!Tables, Candles!Finished, Candles!Held

Requests == [phase : {"idle", "reading", "asking"}, to : 0 .. CandleTime, had : Candles!Tables]

\* The state after a request of l was moved on: what must hold of the new
\* request and the new window.
LEMMA RequestMoves ==
  ASSUME Candles!CandlesInv, NEW l \in Lookbacks, NEW q \in Requests, NEW w \in Candles!Windows,
         Candles!Finished(q.had), Candles!Finished(w.candles),
         x1' = x1, x2' = x2, x4' = [x4 EXCEPT ![l] = q], x5' = [x5 EXCEPT ![l] = w],
         \A fresh \in x3' : fresh \in Candles!Tables /\ Candles!Finished(fresh)
  PROVE  Candles!CandlesInv'
  <1>1. /\ x1 \in 0 .. CandleTime /\ x2 \in Candles!Tables
        /\ \A s \in Candles!Held(x2) : Candles!Close(s) <= x2[s].at
        /\ x4 \in [Lookbacks -> Requests] /\ x5 \in [Lookbacks -> Candles!Windows]
        /\ Candles!Finished(x2)
        /\ \A k \in Lookbacks : Candles!Finished(x4[k].had) /\ Candles!Finished(x5[k].candles)
    BY DEF Candles!CandlesInv, Candles!TypeOK, Requests
  <1>2. x4' \in [Lookbacks -> Requests] /\ x5' \in [Lookbacks -> Candles!Windows]
    BY <1>1
  <1>3. \A k \in Lookbacks : x4'[k] \in {x4[k], q} /\ x5'[k] \in {x5[k], w}
    BY <1>1
  <1>4. \A k \in Lookbacks : Candles!Finished(x4'[k].had) /\ Candles!Finished(x5'[k].candles)
    BY <1>1, <1>3
  <1>5. \A k \in Lookbacks : x5'[k].candles \in Candles!Tables
    BY <1>2 DEF Candles!Windows
  <1>6. \A k \in Lookbacks : \A s \in Candles!Held(x5'[k].candles) : x5'[k].candles[s].whole
    BY <1>4 DEF Candles!Finished
  <1>7. Candles!TypeOK'
    BY <1>1, <1>2, <1>5 DEF Candles!TypeOK, Candles!Tables, Candles!Slots, Candles!NoCandle, Candles!Candles, Requests,
       Candles!Held, Candles!Close
  <1> QED
    BY <1>1, <1>2, <1>4, <1>6, <1>7 DEF Candles!CandlesInv, Candles!Finished, Candles!Held, Candles!Close, Candles!NoCandle,
       Candles!Windows, Candles!Tables, Candles!Slots, Candles!Candles, Candles!ServedIsFinal

\* A window that is answered: of the finished candles that ended by then.
LEMMA AnswerMoves ==
  ASSUME Candles!CandlesInv, NEW l \in Lookbacks, NEW c \in Candles!Tables, Candles!Finished(c),
         NEW to \in 0 .. CandleTime, NEW stale \in BOOLEAN, Candles!Answer(l, c, to, stale),
         x1' = x1, x2' = x2, \A fresh \in x3' : fresh \in Candles!Tables /\ Candles!Finished(fresh)
  PROVE  Candles!CandlesInv'
  <1> DEFINE e == Candles!Ended(c, to)
             w == IF Candles!Held(e) # {} /\ Candles!Gapless(e)
                  THEN [candles |-> e, at |-> x1, to |-> to, stale |-> stale] ELSE x5[l]
  <1>1. x4' = [x4 EXCEPT ![l] = Candles!NoRequest] /\ x5' = [x5 EXCEPT ![l] = w]
    <2>1. x5 = [x5 EXCEPT ![l] = x5[l]]
      BY DEF Candles!CandlesInv
    <2> QED
      BY <2>1 DEF Candles!Answer
  <1>2. e \in Candles!Tables /\ Candles!Finished(e)
    <2>1. e = [s \in Candles!Slots |-> e[s]] /\ \A s \in Candles!Slots : e[s] \in {c[s], Candles!NoCandle}
      BY DEF Candles!Ended
    <2> HIDE DEF e
    <2> QED
      BY <2>1, CutFinished
  <1> HIDE DEF e
  <1>3. w \in Candles!Windows /\ Candles!Finished(w.candles)
    <2>1. x1 \in 0 .. CandleTime /\ CandleTime \in Nat /\ x5[l] \in Candles!Windows /\ Candles!Finished(x5[l].candles)
      BY CandleConstants DEF Candles!CandlesInv, Candles!TypeOK
    <2>2. [candles |-> e, at |-> x1, to |-> to, stale |-> stale] \in Candles!Windows
      BY <1>2, <2>1 DEF Candles!Windows
    <2> QED
      BY <1>2, <2>1, <2>2
  <1>4. Candles!NoRequest \in Requests /\ Candles!Finished(Candles!NoRequest.had)
    BY NoCandlesFinished, CandleConstants DEF Candles!NoRequest, Requests
  <1> HIDE DEF w
  <1> QED
    BY <1>1, <1>3, <1>4, RequestMoves

\* A request that goes on leaves the windows alone.
LEMMA RequestGoesOn ==
  ASSUME Candles!CandlesInv, NEW l \in Lookbacks, NEW q \in Requests, Candles!Finished(q.had),
         x1' = x1, x2' = x2, x3' = x3, x4' = [x4 EXCEPT ![l] = q], x5' = x5
  PROVE  Candles!CandlesInv'
  <1>1. x5' = [x5 EXCEPT ![l] = x5[l]] /\ x5[l] \in Candles!Windows /\ Candles!Finished(x5[l].candles)
    BY DEF Candles!CandlesInv
  <1>2. \A fresh \in x3' : fresh \in Candles!Tables /\ Candles!Finished(fresh)
    BY DEF Candles!CandlesInv, Candles!TypeOK
  <1> QED
    BY <1>1, <1>2, RequestMoves

LEMMA CandlesTyped ==
  ASSUME Candles!CandlesInv
  PROVE  /\ x1 \in 0 .. CandleTime /\ CandleTime \in Nat
         /\ x2 \in Candles!Tables /\ Candles!Finished(x2)
         /\ \A fresh \in x3 : fresh \in Candles!Tables /\ Candles!Finished(fresh)
         /\ x4 \in [Lookbacks -> Requests]
         /\ \A l \in Lookbacks : Candles!Finished(x4[l].had)
  BY CandleConstants DEF Candles!CandlesInv, Candles!TypeOK, Requests

LEMMA FromIsTime ==
  ASSUME NEW l \in Lookbacks, NEW to \in 0 .. CandleTime
  PROVE  Candles!From(l, to) \in Int
  BY CandleConstants DEF Candles!From

LEMMA AskStep ==
  ASSUME Candles!CandlesInv, NEW l \in Lookbacks, Candles!Ask(l)
  PROVE  Candles!CandlesInv'
  <1> DEFINE q == [Candles!NoRequest EXCEPT !.phase = "reading", !.to = x1]
  <1>1. x1' = x1 /\ x2' = x2 /\ x3' = x3 /\ x4' = [x4 EXCEPT ![l] = q] /\ x5' = x5
    BY DEF Candles!Ask
  <1>2. Candles!NoRequest \in Requests /\ Candles!Finished(Candles!NoRequest.had)
    BY NoCandlesFinished, CandleConstants DEF Candles!NoRequest, Requests
  <1>3. q \in Requests /\ q.had = Candles!NoRequest.had
    BY <1>2, CandlesTyped DEF Requests
  <1> HIDE DEF q
  <1> QED
    BY <1>1, <1>2, <1>3, RequestGoesOn

LEMMA ReadStep ==
  ASSUME Candles!CandlesInv, NEW l \in Lookbacks, Candles!Read(l)
  PROVE  Candles!CandlesInv'
  <1> DEFINE to == x4[l].to
             had == Candles!InWindow(x2, Candles!From(l, to), to)
             q == [x4[l] EXCEPT !.phase = "asking", !.had = had]
  <1>1. /\ x1' = x1 /\ x2' = x2 /\ x3' = x3
        /\ \/ Candles!Answer(l, had, to, FALSE)
           \/ x4' = [x4 EXCEPT ![l].phase = "asking", ![l].had = had] /\ x5' = x5
    BY DEF Candles!Read
  <1>2. x4[l] \in Requests /\ to \in 0 .. CandleTime
    BY CandlesTyped DEF Requests
  <1>3. had \in Candles!Tables /\ Candles!Finished(had)
    <2>1. had = [s \in Candles!Slots |-> had[s]] /\ \A s \in Candles!Slots : had[s] \in {x2[s], Candles!NoCandle}
      BY DEF Candles!InWindow
    <2> HIDE DEF had
    <2> QED
      BY <2>1, CandlesTyped, CutFinished
  <1> HIDE DEF had, to
  <1>4. CASE Candles!Answer(l, had, to, FALSE)
    BY <1>1, <1>2, <1>3, <1>4, CandlesTyped, AnswerMoves
  <1>5. CASE x4' = [x4 EXCEPT ![l].phase = "asking", ![l].had = had] /\ x5' = x5
    <2>1. q \in Requests /\ q.had = had
      BY <1>2, <1>3 DEF Requests
    <2>2. x4' = [x4 EXCEPT ![l] = q]
      BY <1>2, <1>5, CandlesTyped
    <2> HIDE DEF q
    <2> QED
      BY <1>1, <1>3, <1>5, <2>1, <2>2, RequestGoesOn
  <1> QED
    BY <1>1, <1>4, <1>5

LEMMA AnswersStep ==
  ASSUME Candles!CandlesInv, NEW l \in Lookbacks, Candles!SourceAnswers(l)
  PROVE  Candles!CandlesInv'
  <1> DEFINE to == x4[l].to
             had == x4[l].had
             from == Candles!RefreshFrom(had, Candles!From(l, to), to)
             fresh == Candles!History(from, to)
             given == IF Candles!Covered(had, Candles!From(l, to), to) THEN Candles!Merged(had, fresh) ELSE fresh
  <1>1. /\ x1' = x1 /\ x2' = x2 /\ x3' = x3 \cup {fresh} /\ Candles!Answer(l, given, to, FALSE)
    BY DEF Candles!SourceAnswers
  <1>2. to \in 0 .. CandleTime /\ had \in Candles!Tables /\ Candles!Finished(had)
    BY CandlesTyped DEF Requests
  <1> HIDE DEF to, had
  <1>3. from \in Int /\ to \in Int
    BY <1>2, FromIsTime, RefreshBegins
  <1> HIDE DEF from
  <1>4. fresh \in Candles!Tables /\ Candles!Finished(fresh)
    BY <1>3, CandlesTyped, HistoryFinished
  <1>5. given \in Candles!Tables /\ Candles!Finished(given)
    <2> DEFINE merged == Candles!Merged(had, fresh)
    <2>1. merged = [s \in Candles!Slots |-> merged[s]]
          /\ \A s \in Candles!Slots : merged[s] = had[s] \/ merged[s] = fresh[s]
      BY DEF Candles!Merged
    <2> HIDE DEF merged, fresh
    <2>2. merged \in Candles!Tables /\ Candles!Finished(merged)
      BY <1>2, <1>4, <2>1, MergeFinished
    <2> QED
      BY <1>4, <2>2 DEF merged
  <1> HIDE DEF fresh, given
  <1>6. \A f \in x3' : f \in Candles!Tables /\ Candles!Finished(f)
    BY <1>1, <1>4, CandlesTyped
  <1> QED
    BY <1>1, <1>2, <1>5, <1>6, AnswerMoves

LEMMA FailsStep ==
  ASSUME Candles!CandlesInv, NEW l \in Lookbacks, Candles!SourceFails(l)
  PROVE  Candles!CandlesInv'
  <1>1. /\ x1' = x1 /\ x2' = x2 /\ x3' = x3
        /\ \/ Candles!Answer(l, x4[l].had, x4[l].to, TRUE)
           \/ x4' = [x4 EXCEPT ![l] = Candles!NoRequest] /\ x5' = x5
    BY DEF Candles!SourceFails
  <1>2. x4[l].to \in 0 .. CandleTime /\ x4[l].had \in Candles!Tables /\ Candles!Finished(x4[l].had)
    BY CandlesTyped DEF Requests
  <1>3. Candles!NoRequest \in Requests /\ Candles!Finished(Candles!NoRequest.had)
    BY NoCandlesFinished, CandleConstants DEF Candles!NoRequest, Requests
  <1>4. \A f \in x3' : f \in Candles!Tables /\ Candles!Finished(f)
    BY <1>1, CandlesTyped
  <1>5. CASE Candles!Answer(l, x4[l].had, x4[l].to, TRUE)
    BY <1>1, <1>2, <1>4, <1>5, AnswerMoves
  <1>6. CASE x4' = [x4 EXCEPT ![l] = Candles!NoRequest] /\ x5' = x5
    BY <1>1, <1>3, <1>6, RequestGoesOn
  <1> QED
    BY <1>1, <1>5, <1>6

LEMMA WriteStep ==
  ASSUME Candles!CandlesInv, NEW fresh \in x3, Candles!Write(fresh)
  PROVE  Candles!CandlesInv'
  <1>1. /\ x3' = x3 \ {fresh} /\ x1' = x1 /\ x4' = x4 /\ x5' = x5
        /\ x2' \in {x2, Candles!Written(fresh, {}), Candles!Written(fresh, Candles!NewestThree(fresh))}
    BY DEF Candles!Write
  <1>2. fresh \in Candles!Tables /\ Candles!Finished(fresh) /\ x2 \in Candles!Tables /\ Candles!Finished(x2)
    BY CandlesTyped
  <1>3. ASSUME NEW over PROVE Candles!Written(fresh, over) \in Candles!Tables
                              /\ Candles!Finished(Candles!Written(fresh, over))
    <2> DEFINE d == Candles!Written(fresh, over)
    <2>1. d = [s \in Candles!Slots |-> d[s]] /\ \A s \in Candles!Slots : d[s] = x2[s] \/ d[s] = fresh[s]
      BY DEF Candles!Written
    <2> HIDE DEF d
    <2>2. d \in Candles!Tables /\ Candles!Finished(d)
      BY <1>2, <2>1, MergeFinished
    <2> QED
      BY <2>2 DEF d
  <1> DEFINE t == x2'
  <1>4. t \in Candles!Tables /\ Candles!Finished(t)
    BY <1>1, <1>2, <1>3
  <1> HIDE DEF t
  <1>5. t \in Candles!Tables /\ \A s \in Candles!Slots : t[s] # Candles!NoCandle =>
          t[s].whole /\ Candles!Close(s) <= t[s].at
    BY <1>4 DEF Candles!Finished, Candles!Held
  <1> QED
    BY <1>1, <1>5 DEF t, Candles!CandlesInv, Candles!TypeOK, Candles!Finished, Candles!Held, Candles!Close,
       Candles!NoCandle, Candles!Windows, Candles!Tables, Candles!Slots, Candles!Candles, Candles!ServedIsFinal

LEMMA CandlesTick ==
  ASSUME Candles!CandlesInv, Candles!Tick
  PROVE  Candles!CandlesInv'
  <1>1. x1' \in 0 .. CandleTime
    BY CandlesTyped DEF Candles!Tick
  <1> QED
    BY <1>1 DEF Candles!Tick, Candles!CandlesInv, Candles!TypeOK, Candles!Finished, Candles!Held, Candles!Close,
       Candles!NoCandle, Candles!Windows, Candles!Tables, Candles!Slots, Candles!Candles, Candles!ServedIsFinal

LEMMA CandlesStay == Candles!CandlesInv /\ UNCHANGED Candles!vars => Candles!CandlesInv'
  BY DEF Candles!vars, Candles!CandlesInv, Candles!TypeOK, Candles!Finished, Candles!Held, Candles!Close,
       Candles!NoCandle, Candles!Windows, Candles!Tables, Candles!Slots, Candles!Candles, Candles!ServedIsFinal

LEMMA CandlesStart == Candles!Init => Candles!CandlesInv
  <1> SUFFICES ASSUME Candles!Init PROVE Candles!CandlesInv
    OBVIOUS
  <1> DEFINE none == [s \in Candles!Slots |-> Candles!NoCandle]
  <1>1. /\ x1 = 0 /\ x2 = none /\ x3 = {}
        /\ x4 = [l \in Lookbacks |-> Candles!NoRequest] /\ x5 = [l \in Lookbacks |-> Candles!NoWindow]
    BY DEF Candles!Init
  <1>2. none \in Candles!Tables /\ Candles!Finished(none) /\ Candles!Held(none) = {}
    BY NoCandlesFinished DEF Candles!Held
  <1>3. Candles!NoRequest = [phase |-> "idle", to |-> 0, had |-> none]
        /\ Candles!NoWindow = [candles |-> none, at |-> -1, to |-> 0, stale |-> FALSE]
    BY DEF Candles!NoRequest, Candles!NoWindow
  <1> HIDE DEF none
  <1>4. Candles!NoRequest \in Requests /\ Candles!NoWindow \in Candles!Windows
    BY <1>2, <1>3, CandleConstants DEF Requests, Candles!Windows
  <1>5. Candles!TypeOK
    BY <1>1, <1>2, <1>3, <1>4, CandleConstants DEF Candles!TypeOK, Requests
  <1> QED
    BY <1>1, <1>2, <1>3, <1>4, <1>5 DEF Candles!CandlesInv, Candles!ServedIsFinal

\* For any width, windows and page limit: every candle that is held is whole.
THEOREM CandlesStayWhole == Candles!Spec => []Candles!CandlesInv
  <1>1. Candles!CandlesInv /\ [Candles!Next]_Candles!vars => Candles!CandlesInv'
    BY AskStep, ReadStep, AnswersStep, FailsStep, WriteStep, CandlesTick, CandlesStay DEF Candles!Next
  <1> QED
    BY <1>1, CandlesStart, PTL DEF Candles!Spec

-----------------------------------------------------------------------------
\* The history.  Its variables are the suite's, in the order of its module:
\* x1 is now, x2 log, x3 states, x4 archived, x5 rows, x6 worker, x7 nextSnap, x8 snap,
\* x9 started, x10 kept and x11 faults.

LEMMA HistoryConstants ==
  /\ Bucket \in Nat \ {0} /\ StateKeep \in Nat /\ MaxTime \in Nat /\ MaxFaults \in Nat
  BY StoresAssumption DEF History!HistoryAssumption

LEMMA StatesTyped ==
  ASSUME History!TypeOK
  PROVE  /\ x1 \in 0 .. MaxTime /\ MaxTime \in Nat /\ x3 \subseteq x2
         /\ \A s \in x2 : s.bot \in Bots /\ s.at \in 1 .. x1 /\ s.at \in Nat /\ s.at <= x1
  <1>1. x1 \in 0 .. MaxTime /\ MaxTime \in Nat
    BY HistoryConstants DEF History!TypeOK
  <1> QED
    BY <1>1 DEF History!TypeOK

\* The newest state of a bot, by name and by what it is.
LEMMA NewestAt ==
  ASSUME NEW S, \A s \in S : s.at \in Nat, \A s, u \in S : s.at = u.at => s = u,
         NEW b, NEW t, NEW s \in History!StatesOf(S, b, t),
         \A u \in History!StatesOf(S, b, t) : u.at <= s.at
  PROVE  History!Newest(S, b, t) = s
  <1> DEFINE T == History!StatesOf(S, b, t)
             n == CHOOSE v \in T : \A u \in T : u.at <= v.at
  <1>1. T \subseteq S
    BY DEF History!StatesOf
  <1>2. n \in T /\ \A u \in T : u.at <= n.at
    OBVIOUS
  <1>3. n.at \in Nat /\ s.at \in Nat /\ n.at <= s.at /\ s.at <= n.at
    BY <1>1, <1>2
  <1>4. n = s
    BY <1>1, <1>2, <1>3
  <1> QED
    BY <1>4 DEF History!Newest

LEMMA NewestIs ==
  ASSUME NEW S, \A s \in S : s.at \in Nat, \A s, u \in S : s.at = u.at => s = u,
         NEW t \in Nat, NEW s \in S, s.at <= t, \A u \in S : u.bot = s.bot => u.at <= s.at
  PROVE  History!Newest(S, s.bot, t) = s
  <1>1. s \in History!StatesOf(S, s.bot, t) /\ \A u \in History!StatesOf(S, s.bot, t) : u.at <= s.at
    BY DEF History!StatesOf
  <1> QED
    BY <1>1, NewestAt

\* Among the states that a bot had at an instant there is a newest.
LEMMA NewestExists ==
  ASSUME History!TypeOK, History!OneStateAnInstant, NEW t, NEW b \in History!Seen(x2, t)
  PROVE  /\ History!Newest(x2, b, t) \in History!StatesOf(x2, b, t)
         /\ \A u \in History!StatesOf(x2, b, t) : u.at <= History!Newest(x2, b, t).at
  <1> DEFINE T == History!StatesOf(x2, b, t)
  <1>1. x1 \in Nat /\ T # {} /\ T \subseteq x2 /\ \A u \in x2 : u.at \in Nat /\ u.at <= x1
    BY StatesTyped DEF History!Seen, History!StatesOf
  <1> DEFINE Ages == {x1 - u.at : u \in T}
  <1>2. Ages # {} /\ Ages \subseteq Nat
    BY <1>1
  <1>3. PICK m \in Ages : \A n \in Ages : m <= n
    BY <1>2, LeastNatural
  <1>4. PICK s \in T : m = x1 - s.at
    OBVIOUS
  <1>5. \A u \in T : x1 - s.at <= x1 - u.at
    BY <1>3, <1>4
  <1>6. \A u \in T : u.at <= s.at
    BY <1>1, <1>5
  <1>7. History!Newest(x2, b, t) = s
    BY <1>1, <1>6, NewestAt DEF History!OneStateAnInstant
  <1> QED
    BY <1>6, <1>7

\* That each bot's newest state is stored, in the words of the property.
LEMMA NewestStored ==
  ASSUME History!TypeOK, History!OneStateAnInstant, History!NewestIsStored
  PROVE  History!NewestStateIsKept
  <1> SUFFICES ASSUME NEW b \in History!Seen(x2, x1)
               PROVE  History!Newest(x2, b, x1) \in x3
    BY DEF History!NewestStateIsKept
  <1>1. PICK s \in x3 : s.bot = b /\ History!IsNewest(s)
    BY DEF History!NewestIsStored
  <1>2. s \in x2 /\ (\A u \in x2 : u.at \in Nat) /\ s.at <= x1 /\ x1 \in Nat
    BY StatesTyped
  <1>3. \A u, v \in x2 : u.at = v.at => u = v
    BY DEF History!OneStateAnInstant
  <1>4. \A u \in x2 : u.bot = s.bot => u.at <= s.at
    BY <1>1 DEF History!IsNewest
  <1>5. History!Newest(x2, s.bot, x1) = s
    BY <1>2, <1>3, <1>4, NewestIs
  <1> QED
    BY <1>1, <1>5

\* What has its type keeps it when time goes on.
LEMMA LaterTypes ==
  ASSUME History!TypeOK, NEW t \in 0 .. MaxTime, x1 <= t
  PROVE  /\ 1 .. x1 \subseteq 1 .. t /\ 0 .. x1 \subseteq 0 .. t
         /\ x4 \in [Bots -> 1 .. t \cup {History!Never}]
         /\ \A r \in x5 : r.kind \in {"live", "backfill"} /\ r.at \in 0 .. t
         /\ x8.at \in 0 .. t \cup {History!Never} /\ x10.at \in 0 .. t \cup {History!Never}
  <1>1. x1 \in 0 .. MaxTime /\ MaxTime \in Nat
    BY StatesTyped
  <1>2. 1 .. x1 \subseteq 1 .. t /\ 0 .. x1 \subseteq 0 .. t
    BY <1>1
  <1>3. x4 \in [Bots -> 1 .. t \cup {History!Never}]
    BY <1>2 DEF History!TypeOK
  <1> QED
    BY <1>2, <1>3 DEF History!TypeOK

\* A bot writes: its state becomes the newest, and everyone else's stays.
LEMMA WriteStateStep ==
  ASSUME History!StoredInv, NEW b \in Bots, History!WriteState(b)
  PROVE  History!StoredInv'
  <1>1. /\ History!TypeOK /\ History!OneRebuiltRowPerBucket /\ History!OneStateAnInstant /\ History!NewestIsStored
        /\ History!MaintenanceKeepsNewest /\ (x8 # History!NoSnap => x8.at \in 0 .. x1)
    BY DEF History!StoredInv
  <1>2. PICK s : /\ s.bot = b /\ s.at = x1 + 1 /\ x2' = x2 \cup {s} /\ x3' = x3 \cup {s}
                 /\ x1 < MaxTime /\ x1' = x1 + 1 /\ x4' = x4 /\ x5' = x5 /\ x6' = x6 /\ x7' = x7
                 /\ x8' = x8 /\ x9' = x9 /\ x10' = x10 /\ x11' = x11
    <2>1. PICK gain \in {0, 1} :
            LET before == IF b \in History!Seen(x2, x1) THEN History!Newest(x2, b, x1).real ELSE 0
                s == [bot |-> b, at |-> x1 + 1, real |-> before + 1 - gain, unreal |-> gain]
            IN  x2' = x2 \cup {s} /\ x3' = x3 \cup {s}
      BY DEF History!WriteState
    <2> DEFINE before == IF b \in History!Seen(x2, x1) THEN History!Newest(x2, b, x1).real ELSE 0
               real == before + 1 - gain
               s == [bot |-> b, at |-> x1 + 1, real |-> real, unreal |-> gain]
    <2>2. x2' = x2 \cup {s} /\ x3' = x3 \cup {s}
      BY <2>1
    <2> HIDE DEF real
    <2>3. s.bot = b /\ s.at = x1 + 1
      OBVIOUS
    <2> HIDE DEF s
    <2> QED
      BY <2>2, <2>3 DEF History!WriteState
  <1>3. /\ x1 \in Nat /\ x3 \subseteq x2 /\ MaxTime \in Nat /\ x1 + 1 \in 0 .. MaxTime
        /\ \A u \in x2 : u.bot \in Bots /\ u.at \in 1 .. x1 /\ u.at \in Nat /\ u.at <= x1
    BY <1>1, <1>2, StatesTyped
  <1> DEFINE t == x1 + 1
  <1>4. t \in 0 .. MaxTime /\ x1 <= t /\ x1 < t /\ t \in 1 .. t /\ s.at = t /\ (\A u \in x2 : u.at < s.at) /\ x1' = t
    BY <1>2, <1>3
  <1> HIDE DEF t
  <1>5. \A u \in x2 \cup {s} : u.bot \in Bots /\ u.at \in 1 .. t
    BY <1>1, <1>2, <1>3, <1>4, LaterTypes
  <1>6. History!TypeOK'
    <2>1. /\ x4' \in [Bots -> 1 .. t \cup {History!Never}]
          /\ \A r \in x5' : r.kind \in {"live", "backfill"} /\ r.at \in 0 .. t
          /\ x8'.at \in 0 .. t \cup {History!Never} /\ x10'.at \in 0 .. t \cup {History!Never}
      BY <1>1, <1>2, <1>4, LaterTypes
    <2>2. /\ x3' \subseteq x2' /\ x6' \in {"down", "backfill", "snapshot", "maintain", "up"}
          /\ x10'.ids \subseteq x2' /\ x11' \in 0 .. MaxFaults
      BY <1>1, <1>2 DEF History!TypeOK
    <2>3. \A u \in x2' : u.bot \in Bots /\ u.at \in 1 .. t
      BY <1>2, <1>5
    <2> QED
      BY <1>4, <2>1, <2>2, <2>3 DEF History!TypeOK, History!Never
  <1>7. \A u, v \in x2 \cup {s} : u.at = v.at => u = v
    <2>1. \A u, v \in x2 : u.at = v.at => u = v
      BY <1>1 DEF History!OneStateAnInstant
    <2>2. \A u \in x2 : u.at # s.at
      BY <1>3, <1>4
    <2> QED
      BY <2>1, <2>2
  <1>8. History!OneStateAnInstant'
    BY <1>2, <1>7 DEF History!OneStateAnInstant
  \* The newest states after the step.
  <1>9. \A u \in x2 \cup {s} : u.bot = s.bot => u.at <= s.at
    BY <1>3, <1>4, <1>5
  <1>10. ASSUME NEW c \in Bots, \E u \in x2 \cup {s} : u.bot = c
         PROVE  \E u \in x3 \cup {s} : u.bot = c /\ \A v \in x2 \cup {s} : v.bot = c => v.at <= u.at
    <2>1. CASE c = b
      BY <1>2, <1>9, <2>1
    <2>2. CASE c # b
      <3>1. PICK u \in x2 : u.bot = c
        BY <1>2, <1>10, <2>2
      <3>2. c \in History!Seen(x2, x1)
        BY <1>3, <3>1 DEF History!Seen, History!StatesOf
      <3>3. PICK v \in x3 : v.bot = c /\ \A w \in x2 : w.bot = c => w.at <= v.at
        BY <1>1, <3>2 DEF History!NewestIsStored, History!IsNewest
      <3>4. \A w \in x2 \cup {s} : w.bot = c => w.at <= v.at
        BY <1>2, <2>2, <3>3
      <3> QED
        BY <3>3, <3>4
    <2> QED
      BY <2>1, <2>2
  <1>11. History!NewestIsStored'
    <2>1. \A c \in History!Seen(x2, x1)' : c \in Bots /\ \E u \in x2 \cup {s} : u.bot = c
      BY <1>2 DEF History!Seen, History!StatesOf
    <2>2. \A c \in History!Seen(x2, x1)' : \E u \in x3' : u.bot = c /\ \A v \in x2' : v.bot = c => v.at <= u.at
      BY <1>2, <1>10, <2>1
    <2>3. \A c \in History!Seen(x2, x1)' : \E u \in x3' : u.bot = c /\ History!IsNewest(u)'
      BY <2>2 DEF History!IsNewest
    <2> QED
      BY <2>3 DEF History!NewestIsStored
  <1>12. History!NewestStateIsKept'
    BY <1>6, <1>8, <1>11, NewestStored, PTL
  <1>13. History!MaintenanceKeepsNewest'
    <2> SUFFICES ASSUME x10 # History!NoKept
                 PROVE  /\ x10.at \in 0 .. t
                        /\ \A u \in x3' : (\A v \in x2' : v.bot = u.bot => v.at <= u.at) /\ u.at <= x10.at
                             => u \in x10.ids
      BY <1>2, <1>4 DEF History!MaintenanceKeepsNewest, History!IsNewest, History!NoKept, History!Never
    <2>1. /\ x10.at \in 0 .. x1
          /\ \A u \in x3 : History!IsNewest(u) /\ u.at <= x10.at => u \in x10.ids
      BY <1>1 DEF History!MaintenanceKeepsNewest
    <2>2. x10.at \in 0 .. t
      BY <1>1, <1>4, <2>1, LaterTypes
    <2>3. ~ (s.at <= x10.at)
      BY <1>3, <1>4, <2>1
    <2>4. \A u \in x3 : (\A v \in x2' : v.bot = u.bot => v.at <= u.at) => History!IsNewest(u)
      BY <1>2 DEF History!IsNewest
    <2> QED
      BY <1>2, <2>1, <2>2, <2>3, <2>4
  <1>14. (x8 # History!NoSnap => x8.at \in 0 .. x1)' /\ History!OneRebuiltRowPerBucket'
    <2>1. x8 # History!NoSnap => x8.at \in 0 .. t
      BY <1>1, <1>4, LaterTypes
    <2> QED
      BY <1>1, <1>2, <1>4, <2>1 DEF History!OneRebuiltRowPerBucket, History!NoSnap, History!Never
  <1> QED
    BY <1>6, <1>8, <1>11, <1>12, <1>13, <1>14 DEF History!StoredInv

\* The steps that leave the states alone and the rows to an argument of their own.
LEMMA StatesRest ==
  ASSUME History!StoredInv, x2' = x2, x3' = x3, x10' = x10, x1' = x1,
         History!TypeOK', History!OneRebuiltRowPerBucket', x8' # History!NoSnap => x8'.at \in 0 .. x1
  PROVE  History!StoredInv'
  <1>1. History!OneStateAnInstant' /\ History!NewestIsStored' /\ History!NewestStateIsKept'
    BY DEF History!StoredInv, History!OneStateAnInstant, History!NewestIsStored, History!NewestStateIsKept,
           History!IsNewest, History!Seen, History!StatesOf, History!Newest
  <1>2. History!MaintenanceKeepsNewest'
    BY DEF History!StoredInv, History!MaintenanceKeepsNewest, History!IsNewest, History!NoKept, History!Never
  <1> QED
    BY <1>1, <1>2 DEF History!StoredInv, History!NoSnap, History!Never

\* Time passes, or a bot is archived.
LEMMA TimeStep ==
  ASSUME History!StoredInv, History!Tick \/ \E b \in Bots : History!Archive(b)
  PROVE  History!StoredInv'
  <1> DEFINE t == x1 + 1
  <1>1. /\ History!TypeOK /\ History!OneRebuiltRowPerBucket /\ History!OneStateAnInstant /\ History!NewestIsStored
        /\ History!MaintenanceKeepsNewest /\ (x8 # History!NoSnap => x8.at \in 0 .. x1)
    BY DEF History!StoredInv
  <1>2. /\ x1 < MaxTime /\ x1' = t /\ x2' = x2 /\ x3' = x3 /\ x5' = x5 /\ x6' = x6 /\ x7' = x7
        /\ x8' = x8 /\ x9' = x9 /\ x10' = x10 /\ x11' = x11
        /\ x4' = x4 \/ \E b \in Bots : x4' = [x4 EXCEPT ![b] = t]
    BY DEF History!Tick, History!Archive
  <1>3. /\ x1 \in Nat /\ x3 \subseteq x2 /\ MaxTime \in Nat /\ t \in 0 .. MaxTime /\ x1 <= t /\ t \in 1 .. t
        /\ \A u \in x2 : u.bot \in Bots /\ u.at \in 1 .. x1 /\ u.at \in Nat /\ u.at <= x1 /\ u.at <= t
    <2>1. /\ x1 \in 0 .. MaxTime /\ x3 \subseteq x2 /\ MaxTime \in Nat
          /\ \A u \in x2 : u.bot \in Bots /\ u.at \in 1 .. x1 /\ u.at \in Nat /\ u.at <= x1
      BY <1>1, StatesTyped
    <2> QED
      BY <1>2, <2>1
  <1> HIDE DEF t
  <1>4. \A u \in x2 : u.at \in 1 .. t
    BY <1>1, <1>3, LaterTypes
  <1>5. History!TypeOK'
    <2>1. /\ x4 \in [Bots -> 1 .. t \cup {History!Never}]
          /\ \A r \in x5' : r.kind \in {"live", "backfill"} /\ r.at \in 0 .. t
          /\ x8'.at \in 0 .. t \cup {History!Never} /\ x10'.at \in 0 .. t \cup {History!Never}
      BY <1>1, <1>2, <1>3, LaterTypes
    <2>2. x4' \in [Bots -> 1 .. t \cup {History!Never}]
      BY <1>2, <1>3, <2>1
    <2>3. /\ x3' \subseteq x2' /\ x6' \in {"down", "backfill", "snapshot", "maintain", "up"}
          /\ x10'.ids \subseteq x2' /\ x11' \in 0 .. MaxFaults
      BY <1>1, <1>2 DEF History!TypeOK
    <2> QED
      BY <1>2, <1>3, <1>4, <2>1, <2>2, <2>3 DEF History!TypeOK, History!Never
  <1>6. History!OneStateAnInstant'
    BY <1>1, <1>2 DEF History!OneStateAnInstant
  <1>7. History!NewestIsStored'
    <2>1. \A c \in History!Seen(x2, x1)' : c \in History!Seen(x2, x1)
      BY <1>2, <1>3 DEF History!Seen, History!StatesOf
    <2>2. \A c \in History!Seen(x2, x1)' : \E u \in x3 : u.bot = c /\ History!IsNewest(u)
      BY <1>1, <2>1 DEF History!NewestIsStored
    <2>3. \A u : History!IsNewest(u) => History!IsNewest(u)'
      BY <1>2 DEF History!IsNewest
    <2> QED
      BY <1>2, <2>2, <2>3 DEF History!NewestIsStored
  <1>8. History!NewestStateIsKept'
    BY <1>5, <1>6, <1>7, NewestStored, PTL
  <1>9. History!MaintenanceKeepsNewest'
    <2>1. x10 # History!NoKept => x10.at \in 0 .. t
      BY <1>1, <1>3, LaterTypes DEF History!MaintenanceKeepsNewest
    <2> QED
      BY <1>1, <1>2, <2>1 DEF History!MaintenanceKeepsNewest, History!IsNewest, History!NoKept, History!Never
  <1>10. (x8 # History!NoSnap => x8.at \in 0 .. x1)' /\ History!OneRebuiltRowPerBucket'
    <2>1. x8 # History!NoSnap => x8.at \in 0 .. t
      BY <1>1, <1>3, LaterTypes
    <2> QED
      BY <1>1, <1>2, <2>1 DEF History!OneRebuiltRowPerBucket, History!NoSnap, History!Never
  <1> QED
    BY <1>5, <1>6, <1>7, <1>8, <1>9, <1>10 DEF History!StoredInv

\* A failure is counted.
LEMMA FaultCounted ==
  ASSUME History!TypeOK, History!Fault
  PROVE  x11' \in 0 .. MaxFaults
  BY HistoryConstants DEF History!TypeOK, History!Fault

\* The steps of the worker's start and of a snapshot that store no row.
LEMMA NoRowStep ==
  ASSUME History!StoredInv,
         History!SnapBots \/ History!SnapFails \/ History!BackfillFails \/ History!Start
  PROVE  History!StoredInv'
  <1>1. History!TypeOK /\ History!OneRebuiltRowPerBucket /\ (x8 # History!NoSnap => x8.at \in 0 .. x1)
    BY DEF History!StoredInv
  <1>2. x1 \in 0 .. x1
    BY <1>1, StatesTyped
  <1>3. /\ x1' = x1 /\ x2' = x2 /\ x3' = x3 /\ x4' = x4 /\ x5' = x5 /\ x10' = x10
        /\ x6' \in {"down", "backfill", "snapshot", "maintain", "up"}
        /\ x8' \in {x8, History!NoSnap} \/ (x8'.at = x1)
        /\ x11' \in 0 .. MaxFaults
    <2>1. x6 \in {"down", "backfill", "snapshot", "maintain", "up"} /\ x11 \in 0 .. MaxFaults
      BY <1>1 DEF History!TypeOK
    <2>2. CASE History!SnapBots
      BY <2>1, <2>2 DEF History!SnapBots
    <2>3. CASE History!SnapFails
      BY <1>1, <2>1, <2>3, FaultCounted DEF History!SnapFails
    <2>4. CASE History!BackfillFails
      BY <1>1, <2>1, <2>4, FaultCounted DEF History!BackfillFails
    <2>5. CASE History!Start
      BY <2>1, <2>5 DEF History!Start
    <2> QED
      BY <2>2, <2>3, <2>4, <2>5
  <1>4. x8'.at \in 0 .. x1 \cup {History!Never} /\ (x8' # History!NoSnap => x8'.at \in 0 .. x1)
    <2>1. History!NoSnap.at = History!Never
      BY DEF History!NoSnap
    <2>2. x8.at \in 0 .. x1 \cup {History!Never}
      BY <1>1 DEF History!TypeOK
    <2> QED
      BY <1>1, <1>2, <1>3, <2>1, <2>2
  <1>5. History!TypeOK'
    BY <1>1, <1>3, <1>4 DEF History!TypeOK, History!Never
  <1>6. History!OneRebuiltRowPerBucket'
    BY <1>1, <1>3 DEF History!OneRebuiltRowPerBucket
  <1> QED
    BY <1>3, <1>4, <1>5, <1>6, StatesRest

\* A live row is dated with the snapshot's start.
LEMMA SnapWriteStep ==
  ASSUME History!StoredInv, History!SnapWrite
  PROVE  History!StoredInv'
  <1>1. /\ History!TypeOK /\ History!OneRebuiltRowPerBucket /\ x8 # History!NoSnap /\ x8.at \in 0 .. x1
    BY DEF History!StoredInv, History!SnapWrite
  <1> DEFINE r == History!Row(x3, x1, x8.gone, x8.at, "live")
  <1>2. /\ x1' = x1 /\ x2' = x2 /\ x3' = x3 /\ x4' = x4 /\ x10' = x10 /\ x11' = x11
        /\ x5' = x5 \cup {r} /\ x8' = History!NoSnap
        /\ x6' \in {x6, "maintain"}
    BY DEF History!SnapWrite
  <1>3. r.kind = "live" /\ r.at = x8.at
    BY DEF History!Row
  <1> HIDE DEF r
  <1>4. History!TypeOK'
    BY <1>1, <1>2, <1>3 DEF History!TypeOK, History!NoSnap, History!Never
  <1>5. History!OneRebuiltRowPerBucket'
    BY <1>1, <1>2, <1>3 DEF History!OneRebuiltRowPerBucket
  <1> QED
    BY <1>2, <1>4, <1>5, StatesRest

\* Only missing buckets are rebuilt, each once, and a bucket with a state is not
\* before the first instant.
LEMMA BackfillStep ==
  ASSUME History!StoredInv, History!Backfill
  PROVE  History!StoredInv'
  <1>1. /\ History!TypeOK /\ History!OneRebuiltRowPerBucket /\ (x8 # History!NoSnap => x8.at \in 0 .. x1)
    BY DEF History!StoredInv
  <1>2. /\ x1' = x1 /\ x2' = x2 /\ x3' = x3 /\ x4' = x4 /\ x8' = x8 /\ x10' = x10 /\ x11' = x11
        /\ x6' = "snapshot"
        /\ x5' = x5 \/ (x3 # {} /\ x5' = x5 \cup {History!Rebuilt(t) : t \in {u \in History!Buckets : History!Missing(u)}})
    BY DEF History!Backfill
  <1>3. \A t \in History!Buckets : History!Rebuilt(t).kind = "backfill" /\ History!Rebuilt(t).at = t
    BY DEF History!Rebuilt, History!Row
  <1>4. ASSUME NEW t \in History!Buckets, x3 # {} PROVE t \in 0 .. x1
    <2>1. x1 \in Nat /\ (\A s \in x3 : s.at \in 1 .. x1)
      BY <1>1, StatesTyped
    <2>2. PICK s \in x3 : s.at <= t
      BY DEF History!Buckets, History!Seen, History!StatesOf
    <2>3. t \in History!FloorToBucket(History!Earliest) .. History!FloorToBucket(x1)
      BY DEF History!Buckets
    <2>4. History!FloorToBucket(x1) \in Int /\ History!FloorToBucket(x1) <= x1
      BY <2>1, HistoryConstants DEF History!FloorToBucket
    <2>5. t \in Int
      BY <2>3
    <2>6. t <= History!FloorToBucket(x1)
      BY <2>3, <2>5
    <2> QED
      BY <2>1, <2>2, <2>4, <2>5, <2>6
  <1>5. \A r \in x5' \ x5 : \E t \in History!Buckets :
          x3 # {} /\ History!Missing(t) /\ r = History!Rebuilt(t)
    BY <1>2
  <1>6. \A r \in x5' : r.kind \in {"live", "backfill"} /\ r.at \in 0 .. x1
    <2>1. \A r \in x5 : r.kind \in {"live", "backfill"} /\ r.at \in 0 .. x1
      BY <1>1 DEF History!TypeOK
    <2> QED
      BY <1>3, <1>4, <1>5, <2>1
  <1>7. History!TypeOK'
    BY <1>1, <1>2, <1>6 DEF History!TypeOK, History!Never
  <1>8. ASSUME NEW r \in x5', NEW q \in x5', r.kind = "backfill", q.kind = "backfill", r.at = q.at PROVE r = q
    <2>1. \A t : History!Missing(t) => \A w \in x5 : w.kind = "backfill" => w.at # t
      BY DEF History!Missing
    <2>2. CASE r \in x5 /\ q \in x5
      BY <1>1, <1>8, <2>2 DEF History!OneRebuiltRowPerBucket
    <2>3. CASE r \notin x5 /\ q \in x5
      BY <1>3, <1>5, <1>8, <2>1, <2>3
    <2>4. CASE r \in x5 /\ q \notin x5
      BY <1>3, <1>5, <1>8, <2>1, <2>4
    <2>5. CASE r \notin x5 /\ q \notin x5
      BY <1>3, <1>5, <1>8, <2>5
    <2> QED
      BY <2>2, <2>3, <2>4, <2>5
  <1>9. History!OneRebuiltRowPerBucket'
    BY <1>8 DEF History!OneRebuiltRowPerBucket
  <1> QED
    BY <1>1, <1>2, <1>7, <1>9, StatesRest

\* What a maintenance keeps: the newest states there are when it reads.
LEMMA MaintainStartStep ==
  ASSUME History!StoredInv, History!MaintainStart
  PROVE  History!StoredInv'
  <1> DEFINE read == [at |-> x1, ids |-> History!NewestOfEach]
  <1>1. /\ History!TypeOK /\ History!OneRebuiltRowPerBucket /\ History!OneStateAnInstant /\ History!NewestIsStored
        /\ History!NewestStateIsKept /\ (x8 # History!NoSnap => x8.at \in 0 .. x1)
    BY DEF History!StoredInv
  <1>2. /\ x1' = x1 /\ x2' = x2 /\ x3' = x3 /\ x4' = x4 /\ x5' = x5 /\ x8' = x8 /\ x11' = x11
        /\ x10' = x10 \/ x10' = read
        /\ x6' \in {x6, "up"}
    BY DEF History!MaintainStart
  <1>3. /\ x1 \in 0 .. x1 /\ x1 \in Nat /\ x3 \subseteq x2
        /\ \A u \in x2 : u.bot \in Bots /\ u.at \in Nat /\ u.at <= x1
    BY <1>1, StatesTyped
  <1>4. \A u, v \in x3 : u.at = v.at => u = v
    BY <1>1, <1>3 DEF History!OneStateAnInstant
  <1>5. ASSUME NEW u \in x3, History!IsNewest(u) PROVE u \in History!NewestOfEach
    <2>1. \A v \in x3 : v.bot = u.bot => v.at <= u.at
      BY <1>3, <1>5 DEF History!IsNewest
    <2>2. History!Newest(x3, u.bot, x1) = u
      BY <1>3, <1>4, <2>1, NewestIs
    <2>3. u.bot \in History!Seen(x3, x1)
      BY <1>3 DEF History!Seen, History!StatesOf
    <2> QED
      BY <2>2, <2>3 DEF History!NewestOfEach
  <1>6. History!NewestOfEach \subseteq x2
    <2> SUFFICES ASSUME NEW b \in History!Seen(x3, x1) PROVE History!Newest(x3, b, x1) \in x2
      BY DEF History!NewestOfEach
    <2>1. b \in History!Seen(x2, x1)
      BY <1>3 DEF History!Seen, History!StatesOf
    <2>2. PICK u \in x3 : u.bot = b /\ History!IsNewest(u)
      BY <1>1, <2>1 DEF History!NewestIsStored
    <2>3. \A v \in x3 : v.bot = u.bot => v.at <= u.at
      BY <1>3, <2>2 DEF History!IsNewest
    <2>4. History!Newest(x3, u.bot, x1) = u
      BY <1>3, <1>4, <2>3, NewestIs
    <2> QED
      BY <1>3, <2>2, <2>4
  <1>7. read.at = x1 /\ read.ids = History!NewestOfEach
    OBVIOUS
  <1> HIDE DEF read
  <1>8. History!TypeOK'
    <2>1. x10'.at \in 0 .. x1 \cup {History!Never} /\ x10'.ids \subseteq x2
      BY <1>1, <1>2, <1>3, <1>6, <1>7 DEF History!TypeOK
    <2> QED
      BY <1>1, <1>2, <2>1 DEF History!TypeOK, History!Never
  <1>9. History!MaintenanceKeepsNewest'
    <2>1. CASE x10' = x10
      BY <1>2, <2>1 DEF History!StoredInv, History!MaintenanceKeepsNewest, History!IsNewest, History!NoKept,
                        History!Never
    <2>2. CASE x10' = read
      BY <1>2, <1>3, <1>5, <1>7, <2>2 DEF History!MaintenanceKeepsNewest, History!IsNewest
    <2> QED
      BY <1>2, <2>1, <2>2
  <1>10. History!OneStateAnInstant' /\ History!NewestIsStored' /\ History!NewestStateIsKept'
         /\ History!OneRebuiltRowPerBucket'
    BY <1>1, <1>2 DEF History!OneStateAnInstant, History!NewestIsStored, History!NewestStateIsKept,
       History!IsNewest, History!Seen, History!StatesOf, History!Newest, History!OneRebuiltRowPerBucket
  <1> QED
    BY <1>1, <1>2, <1>8, <1>9, <1>10 DEF History!StoredInv, History!NoSnap, History!Never

\* No maintenance is under way after these, and what they delete is not a newest state.
LEMMA MaintainEndStep ==
  ASSUME History!StoredInv, History!MaintainDelete \/ History!MaintainFails \/ History!Crash
  PROVE  History!StoredInv'
  <1>1. /\ History!TypeOK /\ History!OneRebuiltRowPerBucket /\ History!OneStateAnInstant /\ History!NewestIsStored
        /\ History!MaintenanceKeepsNewest /\ (x8 # History!NoSnap => x8.at \in 0 .. x1)
    BY DEF History!StoredInv
  <1>2. /\ x1' = x1 /\ x2' = x2 /\ x4' = x4 /\ x10' = History!NoKept /\ x11' \in 0 .. MaxFaults
        /\ x5' \subseteq x5 /\ x8' \in {x8, History!NoSnap} /\ x6' \in {"down", "up"}
        /\ \/ x3' = x3
           \/ x10 # History!NoKept /\ x3' = {s \in x3 : s.at >= x10.at - StateKeep \/ s \in x10.ids}
    <2>1. x11 \in 0 .. MaxFaults
      BY <1>1 DEF History!TypeOK
    <2>2. CASE History!MaintainDelete
      BY <2>1, <2>2 DEF History!MaintainDelete
    <2>3. CASE History!MaintainFails
      BY <1>1, <2>3, FaultCounted DEF History!MaintainFails
    <2>4. CASE History!Crash
      BY <1>1, <2>4, FaultCounted DEF History!Crash
    <2> QED
      BY <2>2, <2>3, <2>4
  <1>3. x1 \in Nat /\ x3 \subseteq x2 /\ StateKeep \in Nat /\ \A u \in x2 : u.at \in Nat
    BY <1>1, StatesTyped, HistoryConstants
  <1>4. ASSUME NEW u \in x3, History!IsNewest(u) PROVE u \in x3'
    <2>1. CASE x3' = x3
      BY <2>1
    <2>2. CASE x10 # History!NoKept /\ x3' = {s \in x3 : s.at >= x10.at - StateKeep \/ s \in x10.ids}
      <3>1. x10.at \in 0 .. x1 /\ (u.at <= x10.at => u \in x10.ids)
        BY <1>1, <1>4, <2>2 DEF History!MaintenanceKeepsNewest
      <3>2. ~(u.at <= x10.at) => u.at >= x10.at - StateKeep
        BY <1>3, <3>1
      <3> QED
        BY <2>2, <3>1, <3>2
    <2> QED
      BY <1>2, <2>1, <2>2
  <1>5. History!TypeOK'
    <2>1. x8'.at \in 0 .. x1 \cup {History!Never}
      BY <1>1, <1>2 DEF History!TypeOK, History!NoSnap
    <2>2. History!NoKept.at = History!Never /\ History!NoKept.ids = {} /\ History!Never' = History!Never
      BY DEF History!NoKept, History!Never
    <2>3. x3' \subseteq x2
      BY <1>2, <1>3
    <2> QED
      BY <1>1, <1>2, <2>1, <2>2, <2>3 DEF History!TypeOK
  <1>6. History!OneStateAnInstant' /\ History!OneRebuiltRowPerBucket'
    BY <1>1, <1>2 DEF History!OneStateAnInstant, History!OneRebuiltRowPerBucket
  <1>7. History!NewestIsStored'
    <2>1. \A c \in History!Seen(x2, x1)' : c \in History!Seen(x2, x1)
      BY <1>2 DEF History!Seen, History!StatesOf
    <2>2. \A c \in History!Seen(x2, x1)' : \E u \in x3' : u.bot = c /\ History!IsNewest(u)
      BY <1>1, <1>4, <2>1 DEF History!NewestIsStored
    <2>3. \A u : History!IsNewest(u) => History!IsNewest(u)'
      BY <1>2 DEF History!IsNewest
    <2> QED
      BY <2>2, <2>3 DEF History!NewestIsStored
  <1>8. History!NewestStateIsKept'
    BY <1>5, <1>6, <1>7, NewestStored, PTL
  <1>9. History!MaintenanceKeepsNewest'
    BY <1>2 DEF History!MaintenanceKeepsNewest, History!NoKept, History!Never
  <1>10. (x8 # History!NoSnap => x8.at \in 0 .. x1)'
    BY <1>1, <1>2 DEF History!NoSnap, History!Never
  <1> QED
    BY <1>5, <1>6, <1>7, <1>8, <1>9, <1>10 DEF History!StoredInv

LEMMA HistoryStays == History!StoredInv /\ UNCHANGED History!vars => History!StoredInv'
  BY DEF History!vars, History!StoredInv, History!TypeOK, History!OneStateAnInstant, History!NewestIsStored,
         History!NewestStateIsKept, History!IsNewest, History!Seen, History!StatesOf, History!Newest,
         History!OneRebuiltRowPerBucket, History!MaintenanceKeepsNewest, History!NoKept, History!NoSnap,
         History!Never

LEMMA HistoryStarts == History!Init => History!StoredInv
  <1> SUFFICES ASSUME History!Init PROVE History!StoredInv
    OBVIOUS
  <1>1. /\ x1 = 0 /\ x2 = {} /\ x3 = {} /\ x4 = [b \in Bots |-> History!Never] /\ x5 = {} /\ x6 = "down"
        /\ x8 = History!NoSnap /\ x10 = History!NoKept /\ x11 = 0
    BY DEF History!Init
  <1>2. History!TypeOK
    BY <1>1, HistoryConstants DEF History!TypeOK, History!NoSnap, History!NoKept
  <1>3. \A b \in Bots : b \notin History!Seen(x2, x1)
    BY <1>1 DEF History!Seen, History!StatesOf
  <1>4. History!NewestIsStored /\ History!NewestStateIsKept
    BY <1>3 DEF History!NewestIsStored, History!NewestStateIsKept, History!Seen
  <1> QED
    BY <1>1, <1>2, <1>4 DEF History!StoredInv, History!OneStateAnInstant, History!OneRebuiltRowPerBucket,
       History!MaintenanceKeepsNewest

\* The sums of the instance are the sums that SumProofs is about.
LEMMA HistorySums == ASSUME NEW f PROVE History!SumFunction(f) = SumFunctionOnSet(f, DOMAIN f)
  BY DEF History!SumFunction, History!SumFunctionOnSet, History!FoldFunctionOnSet, History!MapThenFoldSet,
         SumFunctionOnSet, FoldFunctionOnSet, MapThenFoldSet

\* A row's total is the profit of an instant when the states it is made of are the
\* newest of that instant, also those that its archived bots ended with.
LEMMA RowTotal ==
  ASSUME History!HistoryInv, NEW S, S \subseteq x2, NEW t, NEW gone, NEW at, NEW kind,
         \A b \in History!Seen(x2, t) :
           b \in History!Seen(S, t) /\ History!Newest(S, b, t) = History!Newest(x2, b, t),
         \A b \in History!Seen(x2, t) : b \in gone => History!Newest(x2, b, x1) = History!Newest(x2, b, t)
  PROVE  History!Row(S, t, gone, at, kind).total = History!ProfitAt(t)
  <1> DEFINE D == History!Seen(x2, t)
             P == D \ gone
             N(b) == History!Newest(x2, b, t)
             real == [b \in D |-> IF b \in gone THEN History!PositionTotal(b) ELSE History!Newest(S, b, t).real]
             unreal == [b \in P |-> History!Newest(S, b, t).unreal]
             open == [b \in D |-> N(b).unreal]
             padded == [b \in D |-> IF b \in P THEN open[b] ELSE 0]
             total == [b \in D |-> N(b).real + N(b).unreal]
  <1>1. History!Seen(S, t) = D
    BY DEF History!Seen, History!StatesOf
  <1>2. IsFiniteSet(D) /\ P \subseteq D /\ IsFiniteSet(P)
    <2>1. IsFiniteSet(Bots)
      BY StoresAssumption DEF History!HistoryAssumption, History!IsFiniteSet, IsFiniteSet
    <2>2. D \subseteq Bots /\ P \subseteq D
      BY DEF History!Seen
    <2> QED
      BY <2>1, <2>2, FS_Subset
  <1>3. \A b \in D : N(b).real \in Int /\ N(b).unreal \in Int
    <2>1. \A b \in D : N(b) \in x2
      BY NewestExists DEF History!HistoryInv, History!StoredInv, History!StatesOf
    <2> QED
      BY <2>1 DEF History!HistoryInv, History!StoredInv, History!ProfitsAreWhole
  <1>4. \A b \in D : b \in gone => History!PositionTotal(b) = N(b).real + N(b).unreal
    BY DEF History!PositionTotal
  <1>5. \A b \in D : History!Newest(S, b, t) = N(b)
    OBVIOUS
  <1> HIDE DEF D, N
  <1>6. \A b \in D : real[b] = IF b \in gone THEN N(b).real + N(b).unreal ELSE N(b).real
    BY <1>4, <1>5
  <1>7. \A b \in D : /\ real[b] \in Int /\ open[b] \in Int /\ padded[b] \in Int
                     /\ padded[b] = IF b \in P THEN open[b] ELSE 0
                     /\ total[b] = real[b] + padded[b]
    BY <1>3, <1>6
  <1>8. \A b \in P : unreal[b] = open[b]
    BY <1>5
  <1>9. /\ History!RealizedOf(S, t, gone) = SumFunctionOnSet(real, D)
        /\ History!UnrealizedOf(S, t, gone) = SumFunctionOnSet(unreal, P)
        /\ History!ProfitAt(t) = SumFunctionOnSet(total, D)
    <2>1. /\ History!RealizedOf(S, t, gone) = History!SumFunction(real)
          /\ History!UnrealizedOf(S, t, gone) = History!SumFunction(unreal)
          /\ History!ProfitAt(t) = History!SumFunction(total)
      BY <1>1 DEF History!RealizedOf, History!UnrealizedOf, History!ProfitAt, D, N
    <2>2. DOMAIN real = D /\ DOMAIN unreal = P /\ DOMAIN total = D
      OBVIOUS
    <2> QED
      BY <2>1, <2>2, HistorySums
  <1> HIDE DEF real, unreal, open, padded, total, P
  <1>10. SumFunctionOnSet(unreal, P) = SumFunctionOnSet(open, P)
    BY <1>2, <1>8, SumsAgree
  <1>11. SumFunctionOnSet(open, P) = SumFunctionOnSet(padded, D)
    BY <1>2, <1>7, SumOfPart
  <1>12. SumFunctionOnSet(total, D) = SumFunctionOnSet(real, D) + SumFunctionOnSet(padded, D)
    BY <1>2, <1>7, SumOfBoth
  <1> QED
    BY <1>9, <1>10, <1>11, <1>12 DEF History!Row

\* Where every state an instant needs is stored, the stored ones give its newest.
LEMMA WholeInstant ==
  ASSUME History!HistoryInv, NEW t, History!Whole(t), NEW b \in History!Seen(x2, t)
  PROVE  b \in History!Seen(x3, t) /\ History!Newest(x3, b, t) = History!Newest(x2, b, t)
  <1> DEFINE n == History!Newest(x2, b, t)
  <1>1. /\ x3 \subseteq x2 /\ (\A u \in x2 : u.at \in Nat)
        /\ \A u, v \in x2 : u.at = v.at => u = v
    BY StatesTyped DEF History!HistoryInv, History!StoredInv, History!OneStateAnInstant
  <1>2. n \in History!StatesOf(x2, b, t) /\ \A u \in History!StatesOf(x2, b, t) : u.at <= n.at
    BY NewestExists DEF History!HistoryInv, History!StoredInv
  <1>3. n \in x3
    BY DEF History!Whole
  <1> HIDE DEF n
  <1>4. n \in History!StatesOf(x3, b, t) /\ \A u \in History!StatesOf(x3, b, t) : u.at <= n.at
    BY <1>1, <1>2, <1>3 DEF History!StatesOf
  <1>5. b \in History!Seen(x3, t)
    BY <1>4 DEF History!Seen
  <1>6. History!Newest(x3, b, t) = n
    BY <1>1, <1>4, NewestAt
  <1> QED
    BY <1>5, <1>6 DEF n

\* What an archived bot ended with is what it had ever since.
LEMMA ArchivedEnded ==
  ASSUME History!HistoryInv, NEW t \in Int, NEW b \in Bots, x4[b] <= t
  PROVE  History!Newest(x2, b, x1) = History!Newest(x2, b, t)
  <1>1. /\ x1 \in Nat /\ MaxTime \in Nat /\ x4 \in [Bots -> 1 .. x1 \cup {History!Never}]
        /\ \A u \in x2 : u.at \in Nat /\ u.at <= x1
    BY StatesTyped DEF History!HistoryInv, History!StoredInv, History!TypeOK
  <1>2. x4[b] \in Int
    BY <1>1 DEF History!Never
  <1>3. \A u \in x2 : u.bot = b => u.at <= x4[b]
    BY DEF History!HistoryInv, History!StoredInv, History!ArchivedIsQuiet
  <1>4. \A u \in x2 : u.bot = b => u.at <= t
    BY <1>1, <1>2, <1>3
  <1>5. History!StatesOf(x2, b, x1) = History!StatesOf(x2, b, t)
    BY <1>1, <1>4 DEF History!StatesOf
  <1> QED
    BY <1>5 DEF History!Newest

\* A live row tells the profit of the instant it is written at.
LEMMA LiveRowTells == History!HistoryInv /\ History!SnapWrite => History!RowsTellTheProfit
  <1> SUFFICES ASSUME History!HistoryInv, History!SnapWrite, NEW r \in x5' \ x5
               PROVE  r.kind # "backfill" /\ \E t \in r.at .. x1 : r.total = History!ProfitAt(t)
    BY DEF History!RowsTellTheProfit
  <1>1. r = History!Row(x3, x1, x8.gone, x8.at, "live") /\ x8 # History!NoSnap
    BY DEF History!SnapWrite
  <1>2. History!Whole(x1) /\ x3 \subseteq x2 /\ x8.at \in 0 .. x1 /\ x1 \in Nat
    BY <1>1, StatesTyped DEF History!HistoryInv, History!StoredInv, History!NewestStateIsKept, History!Whole
  <1>3. History!Row(x3, x1, x8.gone, x8.at, "live").total = History!ProfitAt(x1)
    BY <1>2, WholeInstant, RowTotal
  <1>4. r.kind = "live" /\ r.at = x8.at
    BY <1>1 DEF History!Row
  <1>5. x1 \in r.at .. x1
    BY <1>2, <1>4
  <1> QED
    BY <1>1, <1>3, <1>4, <1>5

\* A rebuilt row tells the profit of its bucket, if the states of that time are stored.
LEMMA RebuiltRowTells == History!HistoryInv /\ History!Backfill => History!RowsTellTheProfit
  <1> SUFFICES ASSUME History!HistoryInv, History!Backfill, NEW r \in x5' \ x5
               PROVE  r.kind = "backfill" /\ (History!Whole(r.at) => r.total = History!ProfitAt(r.at))
    BY DEF History!RowsTellTheProfit
  <1>1. PICK t \in History!Buckets : r = History!Rebuilt(t)
    BY DEF History!Backfill
  <1>2. t \in Int
    BY DEF History!Buckets
  <1>3. r.kind = "backfill" /\ r.at = t
    BY <1>1 DEF History!Rebuilt, History!Row
  <1>4. ASSUME History!Whole(t) PROVE r.total = History!ProfitAt(t)
    <2>1. x3 \subseteq x2
      BY StatesTyped DEF History!HistoryInv, History!StoredInv
    <2>2. \A b \in History!Seen(x2, t) :
            b \in History!ArchivedBy(t) => History!Newest(x2, b, x1) = History!Newest(x2, b, t)
      BY <1>2, ArchivedEnded DEF History!ArchivedBy
    <2>3. History!Row(x3, t, History!ArchivedBy(t), t, "backfill").total = History!ProfitAt(t)
      BY <1>4, <2>1, <2>2, WholeInstant, RowTotal
    <2> QED
      BY <1>1, <2>3 DEF History!Rebuilt
  <1> QED
    BY <1>3, <1>4

\* Every other step writes no row.
LEMMA RowsTell ==
  History!HistoryInv /\ [History!Next]_History!vars => History!RowsTellTheProfit
  <1> SUFFICES ASSUME History!HistoryInv, [History!Next]_History!vars, ~ History!SnapWrite, ~ History!Backfill
               PROVE  x5' \ x5 = {}
    BY LiveRowTells, RebuiltRowTells DEF History!RowsTellTheProfit
  <1>1. CASE UNCHANGED History!vars
    BY <1>1 DEF History!vars
  <1>2. CASE \E b \in Bots : History!WriteState(b) \/ History!Archive(b)
    BY <1>2 DEF History!WriteState, History!Archive
  <1>3. CASE History!SnapBots \/ History!SnapFails \/ History!BackfillFails
    BY <1>3 DEF History!SnapBots, History!SnapFails, History!BackfillFails
  <1>4. CASE History!MaintainStart \/ History!MaintainDelete \/ History!MaintainFails
    BY <1>4 DEF History!MaintainStart, History!MaintainDelete, History!MaintainFails
  <1>5. CASE History!Start \/ History!Crash \/ History!Tick
    BY <1>5 DEF History!Start, History!Crash, History!Tick
  <1> QED
    BY <1>1, <1>2, <1>3, <1>4, <1>5 DEF History!Next

\* A bucket's start, and the next multiple of its width.
LEMMA Floors ==
  ASSUME NEW t \in Nat
  PROVE  \E k \in Nat : /\ History!FloorToBucket(t) = k * Bucket /\ k * Bucket \in Nat
                        /\ k * Bucket <= t /\ t < k * Bucket + Bucket
  <1>1. Bucket \in Nat \ {0}
    BY HistoryConstants
  <1>2. t \div Bucket \in Nat
    BY <1>1
  <1>3. (t \div Bucket) * Bucket <= t /\ t < (t \div Bucket) * Bucket + Bucket /\ (t \div Bucket) * Bucket \in Nat
    BY <1>1
  <1> QED
    BY <1>2, <1>3 DEF History!FloorToBucket

LEMMA NextMultiple ==
  ASSUME NEW k \in Int, NEW t \in Int, t % Bucket = 0, k * Bucket < t
  PROVE  k * Bucket + Bucket <= t /\ (k * Bucket + Bucket) % Bucket = 0
  <1>1. Bucket \in Nat \ {0}
    BY HistoryConstants
  <1>2. t = (t \div Bucket) * Bucket /\ t \div Bucket \in Int
    BY <1>1
  <1> DEFINE m == t \div Bucket
  <1>3. k < m
    BY <1>1, <1>2
  <1>4. (k + 1) * Bucket <= m * Bucket
    BY <1>1, <1>2, <1>3
  <1>5. (k + 1) * Bucket = k * Bucket + Bucket
    BY <1>1
  <1>6. ((k + 1) * Bucket) % Bucket = 0
    BY <1>1
  <1> QED
    BY <1>2, <1>4, <1>5, <1>6

LEMMA ReachesBack ==
  History!HistoryInv /\ [History!Next]_History!vars => History!BackfillReachesBack
  <1> SUFFICES ASSUME History!HistoryInv, History!Backfill, x3 # {}, History!Buckets # {}
               PROVE  \E r \in x5' : r.at <= History!FloorToBucket(History!Earliest) + Bucket
    BY DEF History!BackfillReachesBack
  <1> DEFINE e == History!Earliest
             f == History!FloorToBucket(e)
  <1>1. /\ x1 \in Nat /\ Bucket \in Nat \ {0} /\ (\A u \in x3 : u.at \in Nat /\ u.at <= x1)
        /\ \A r \in x5 : r.at \in Nat
    <2>1. x1 \in Nat /\ x3 \subseteq x2 /\ \A u \in x2 : u.at \in Nat /\ u.at <= x1
      BY StatesTyped DEF History!HistoryInv, History!StoredInv
    <2>2. \A r \in x5 : r.at \in 0 .. x1
      BY DEF History!HistoryInv, History!StoredInv, History!TypeOK
    <2> QED
      BY <2>1, <2>2, HistoryConstants
  <1>2. e \in {u.at : u \in x3} /\ \A u \in x3 : e <= u.at
    <2> DEFINE Times == {u.at : u \in x3}
    <2>1. Times \subseteq Nat /\ Times # {}
      BY <1>1
    <2>2. \E m \in Times : \A n \in Times : m <= n
      BY <2>1, LeastNatural
    <2>3. e \in Times /\ \A n \in Times : e <= n
      BY <2>2 DEF History!Earliest, History!Min
    <2> QED
      BY <2>3
  <1>3. PICK s \in x3 : s.at = e
    BY <1>2
  <1>4. e \in Nat /\ e <= x1
    BY <1>1, <1>3
  <1>5. PICK k \in Nat : f = k * Bucket /\ f \in Nat /\ f <= e /\ e < f + Bucket
    BY <1>4, Floors
  <1>6. PICK m \in Nat : History!FloorToBucket(x1) = m * Bucket /\ m * Bucket \in Nat
    BY <1>1, Floors
  <1> HIDE DEF e
  <1>7. CASE History!Covered
    <2> DEFINE Ats == {r.at : r \in x5}
    <2>1. Ats # {} /\ Ats \subseteq Nat
      BY <1>1, <1>7 DEF History!Covered
    <2>2. \E a \in Ats : \A n \in Ats : a <= n
      BY <2>1, LeastNatural
    <2>3. History!Min(Ats) \in Ats
      BY <2>2 DEF History!Min
    <2>4. History!Min(Ats) <= f
      BY <1>7 DEF History!Covered, e
    <2>5. PICK r \in x5 : r.at <= f
      BY <2>3, <2>4
    <2>6. r \in x5'
      BY DEF History!Backfill
    <2>7. r.at <= f + Bucket
      BY <1>1, <1>5, <2>5
    <2> QED
      BY <2>6, <2>7 DEF e
  <1>8. CASE ~ History!Covered
    <2>1. PICK t \in History!Buckets : TRUE
      OBVIOUS
    <2>2. /\ t \in f .. History!FloorToBucket(x1) /\ t % Bucket = 0
      BY DEF History!Buckets, e
    <2>3. \E u \in History!Buckets : u <= f + Bucket
      <3>1. CASE t = f
        BY <1>1, <1>5, <2>1, <3>1
      <3>2. CASE t # f
        <4>1. t \in Int /\ f < t /\ t <= History!FloorToBucket(x1)
          BY <1>5, <1>6, <2>2, <3>2
        <4>2. f + Bucket <= t /\ (f + Bucket) % Bucket = 0
          BY <1>5, <2>2, <4>1, NextMultiple
        <4>3. f + Bucket \in f .. History!FloorToBucket(x1)
          BY <1>1, <1>5, <1>6, <4>1, <4>2
        <4>4. s \in History!StatesOf(x3, s.bot, f + Bucket)
          BY <1>1, <1>3, <1>5 DEF History!StatesOf
        <4>5. s.bot \in Bots
          BY StatesTyped DEF History!HistoryInv, History!StoredInv
        <4>6. History!Seen(x3, f + Bucket) # {}
          BY <4>4, <4>5 DEF History!Seen
        <4>7. f + Bucket \in History!Buckets
          BY <4>2, <4>3, <4>6 DEF History!Buckets, e
        <4>8. f + Bucket <= f + Bucket
          BY <1>1, <1>5
        <4> QED
          BY <4>7, <4>8
      <3> QED
        BY <3>1, <3>2
    <2>4. PICK u \in History!Buckets : u <= f + Bucket
      BY <2>3
    <2>5. x5' = x5 \cup {History!Rebuilt(v) : v \in {w \in History!Buckets : History!Missing(w)}}
      BY <1>8 DEF History!Backfill
    <2>6. \E r \in x5' : r.at = u
      <3>1. CASE History!Missing(u)
        <4>1. History!Rebuilt(u) \in x5' /\ History!Rebuilt(u).at = u
          BY <2>5, <3>1 DEF History!Rebuilt, History!Row
        <4> QED
          BY <4>1
      <3>2. CASE ~ History!Missing(u)
        BY <2>5, <3>2 DEF History!Missing
      <3> QED
        BY <3>1, <3>2
    <2> QED
      BY <2>4, <2>6 DEF e
  <1> QED
    BY <1>7, <1>8

\* The two writes of an instant: a state, and what ends a bot.
LEMMA ProfitsStay ==
  History!HistoryInv /\ [History!Next]_History!vars => History!ProfitsAreWhole' /\ History!ArchivedIsQuiet'
  <1> SUFFICES ASSUME History!HistoryInv, [History!Next]_History!vars
               PROVE  History!ProfitsAreWhole' /\ History!ArchivedIsQuiet'
    OBVIOUS
  <1>1. /\ x1 \in Nat /\ MaxTime \in Nat /\ x1 <= MaxTime /\ x4 \in [Bots -> 1 .. x1 \cup {History!Never}]
        /\ (\A u \in x2 : u.bot \in Bots /\ u.at \in Nat /\ u.at <= x1)
        /\ (\A u \in x2 : u.real \in Int /\ u.unreal \in Int /\ u.at <= x4[u.bot])
    BY StatesTyped DEF History!HistoryInv, History!StoredInv, History!TypeOK, History!ProfitsAreWhole, History!ArchivedIsQuiet
  <1>2. CASE x2' = x2 /\ x4' = x4
    BY <1>1, <1>2 DEF History!ProfitsAreWhole, History!ArchivedIsQuiet
  <1>3. ASSUME NEW b \in Bots, History!Archive(b)
        PROVE  History!ProfitsAreWhole' /\ History!ArchivedIsQuiet'
    <2>1. x2' = x2 /\ x4' = [x4 EXCEPT ![b] = x1 + 1]
      BY <1>3 DEF History!Archive
    <2>2. \A u \in x2 : u.at <= x1 + 1
      BY <1>1
    <2>3. \A u \in x2 : u.at <= x4'[u.bot]
      BY <1>1, <2>1, <2>2
    <2> QED
      BY <1>1, <2>1, <2>3 DEF History!ProfitsAreWhole, History!ArchivedIsQuiet
  <1>4. ASSUME NEW b \in Bots, History!WriteState(b)
        PROVE  History!ProfitsAreWhole' /\ History!ArchivedIsQuiet'
    <2> DEFINE before == IF b \in History!Seen(x2, x1) THEN History!Newest(x2, b, x1).real ELSE 0
    <2>1. before \in Int
      <3>1. CASE b \in History!Seen(x2, x1)
        <4>1. History!Newest(x2, b, x1) \in x2
          BY <3>1, NewestExists DEF History!HistoryInv, History!StoredInv, History!StatesOf
        <4> QED
          BY <1>1, <3>1, <4>1
      <3>2. CASE b \notin History!Seen(x2, x1)
        BY <3>2
      <3> QED
        BY <3>1, <3>2
    <2>2. PICK gain \in {0, 1} :
            x2' = x2 \cup {[bot |-> b, at |-> x1 + 1, real |-> before + 1 - gain, unreal |-> gain]}
      BY <1>4 DEF History!WriteState
    <2> HIDE DEF before
    <2> DEFINE real == before + 1 - gain
               new == [bot |-> b, at |-> x1 + 1, real |-> real, unreal |-> gain]
    <2>3. PICK s : s.bot = b /\ s.at = x1 + 1 /\ s.real \in Int /\ s.unreal \in Int /\ x2' = x2 \cup {s}
      <3>1. real \in Int /\ gain \in Int
        BY <2>1
      <3> HIDE DEF real
      <3>2. new.bot = b /\ new.at = x1 + 1 /\ new.real \in Int /\ new.unreal \in Int
        BY <3>1
      <3>3. x2' = x2 \cup {new}
        BY <2>2 DEF real
      <3> HIDE DEF new
      <3> QED
        BY <3>2, <3>3
    <2>4. x4' = x4 /\ x4[b] = History!Never /\ x1 < MaxTime
      BY <1>4 DEF History!WriteState
    <2>5. s.at <= x4[s.bot]
      BY <1>1, <2>3, <2>4 DEF History!Never
    <2> QED
      BY <1>1, <2>3, <2>4, <2>5 DEF History!ProfitsAreWhole, History!ArchivedIsQuiet
  <1>5. CASE History!SnapBots \/ History!SnapFails \/ History!BackfillFails \/ History!SnapWrite \/ History!Backfill
    BY <1>2, <1>5 DEF History!SnapBots, History!SnapFails, History!BackfillFails, History!SnapWrite, History!Backfill
  <1>6. CASE History!MaintainStart \/ History!MaintainDelete \/ History!MaintainFails
    BY <1>2, <1>6 DEF History!MaintainStart, History!MaintainDelete, History!MaintainFails
  <1>7. CASE History!Start \/ History!Crash \/ History!Tick \/ UNCHANGED History!vars
    BY <1>2, <1>7 DEF History!Start, History!Crash, History!Tick, History!vars
  <1> QED
    BY <1>3, <1>4, <1>5, <1>6, <1>7 DEF History!Next

\* For any bots, times and failures: no newest state is deleted, and no bucket is
\* rebuilt twice.
THEOREM NewestStatesStay == History!Spec => []History!HistoryInv
  <1>1. History!StoredInv /\ [History!Next]_History!vars => History!StoredInv'
    BY WriteStateStep, TimeStep, NoRowStep, SnapWriteStep, BackfillStep, MaintainStartStep, MaintainEndStep,
       HistoryStays DEF History!Next
  <1>2. History!HistoryInv /\ [History!Next]_History!vars => History!HistoryInv'
    BY <1>1, ProfitsStay DEF History!HistoryInv
  <1>3. History!Init => History!HistoryInv
    BY HistoryStarts DEF History!Init, History!HistoryInv, History!ProfitsAreWhole, History!ArchivedIsQuiet
  <1> QED
    BY <1>2, <1>3, PTL DEF History!Spec

-----------------------------------------------------------------------------
\* Whichever of the three is at work: what the worker passes on is true.
THEOREM StoredDataAlwaysHolds ==
  \/ Feed!Spec /\ [](part = "feed")
  \/ Candles!Spec /\ [](part = "candles")
  \/ History!Spec /\ [](part = "history")
  => []StoredDataHolds
  <1>1. Feed!FeedInv /\ part = "feed" => StoredDataHolds
    BY DEF Feed!FeedInv, StoredDataHolds
  <1>2. Candles!CandlesInv /\ part = "candles" => StoredDataHolds
    BY DEF Candles!CandlesInv, StoredDataHolds
  <1>3. History!HistoryInv /\ part = "history" => StoredDataHolds
    BY DEF History!HistoryInv, History!StoredInv, StoredDataHolds
  <1> QED
    BY <1>1, <1>2, <1>3, PricesStayTrue, CandlesStayWhole, NewestStatesStay, PTL
-----------------------------------------------------------------------------
\* The engine and the manager of a band keep what each relies on, for any prices, grids,
\* clock, limits, crashes, pauses and resumes: all of it while no run loses its lock, and
\* the revision of the snapshot and the distance of the revisions also when one does.
THEOREM RevisionsAlwaysHold ==
  \/ Bands!Spec /\ [][~Bands!LoseLock]_Bands!vars
  \/ Bands!Spec /\ [](part = "losing")
  => []RevisionsHold
  <1>1. Bands!Spec /\ [][~Bands!LoseLock]_Bands!vars => []Bands!RevisionsHold
    BY StoresAssumption, Bands!RevisionsAlwaysHold
  <1>2. Bands!Spec => []Bands!SnapshotNamesRevision
    BY StoresAssumption, Bands!SnapshotAlwaysNamesRevision
  <1>3. Bands!Spec => []Bands!RevisionsSpaced
    BY StoresAssumption, Bands!RevisionsStaySpaced
  <1>4. Bands!RevisionsHold => RevisionsHold
    BY DEF RevisionsHold, Bands!RevisionsHold
  <1>5. Bands!SnapshotNamesRevision /\ Bands!RevisionsSpaced /\ part = "losing" => RevisionsHold
    BY DEF RevisionsHold
  <1> QED
    BY <1>1, <1>2, <1>3, <1>4, <1>5, PTL

\* The manager applies what it decided on the lots it saw, and a new row of the history
\* tells the profit of its time and reaches back to the first states: for any prices and
\* clocks, bots, failures and crashes.
THEOREM ChangesAlwaysHold ==
  \/ Bands!Spec /\ [](part # "history")
  \/ History!Spec /\ [](part \notin BandParts)
  => ChangesHold
  <1> DEFINE Change == /\ part \in BandParts => Bands!AppliedToLotsSeen
                       /\ part = "history" => History!RowsTellTheProfit /\ History!BackfillReachesBack
  <1>1. Bands!Spec => [][Bands!AppliedToLotsSeen]_Bands!vars
    BY StoresAssumption, Bands!AlwaysAppliedToLotsSeen
  <1>2. [Bands!AppliedToLotsSeen]_Bands!vars /\ part # "history" => [Change]_workerVars
    BY DEF Bands!vars, Bands!AppliedToLotsSeen
  <1>3. History!HistoryInv /\ [History!Next]_History!vars /\ part \notin BandParts => [Change]_workerVars
    BY RowsTell, ReachesBack
  <1> QED
    BY <1>1, <1>2, <1>3, NewestStatesStay, PTL DEF ChangesHold, History!Spec
=============================================================================
