---------------------------- MODULE ShadowQuotes ----------------------------
(***************************************************************************)
(* The independent shadow collector (apps/worker/src/shadow-data-main.ts): *)
(* a process of its own that sweeps the bands on a timer.  For each asset  *)
(* it verifies the pool and stores closed candles; for each bot whose turn *)
(* it is it compares Jupiter quotes at one or two sizes, each comparison   *)
(* trying /order and then /build, each path a buy and the reverse of what  *)
(* the buy returned.  Quotes go out one at a time, through one pacer, and  *)
(* are given up after a timeout; every failure is reported and the sweep   *)
(* goes on.                                                                *)
(*                                                                         *)
(* Times are timers that count down.  A timer never fires early; it may    *)
(* fire up to Lag late.  The candles themselves are CandleHistory's.       *)
(***************************************************************************)
EXTENDS Integers, Sequences, FiniteSets

CONSTANTS
  Bots,        \* the targets, a sequence
  SymbolOf,    \* [bot -> asset]
  BadMint,     \* bots whose mints are not the collection market's
  SizesOf,     \* [bot -> number of different sizes, 1 or 2]
  HasTaker,    \* bots with a public taker for /build
  Gap, Timeout, Cadence, Period, Lag

BotSet == {Bots[i] : i \in DOMAIN Bots}
\* A bot has one band, and the timeout of a quote is longer than the time between two
\* of them: shadow-data-main keeps the defaults, 3 s and 1.1 s.
QuotesAssumption ==
  /\ Bots \in Seq(BotSet) /\ \A i, j \in DOMAIN Bots : Bots[i] = Bots[j] => i = j
  /\ {Gap, Timeout, Cadence, Period} \subseteq Nat \ {0} /\ Lag \in Nat
  /\ Gap <= Timeout

VARIABLES
  sweep,     \* whether there is one, and the tasks that are left of it
  due,       \* bots to be quoted in it, and the sizes tried so far
  compare,   \* the comparison under way, and its task
  flight,    \* its request: paced (not sent yet) or sent
  wake,      \* time until the next sweep, while there is none
  phase,     \* the clock modulo Period
  pace,      \* nextStart of the pacer, from now
  cooldown,  \* per bot, time until its quotes are 30 minutes old
  age        \* history: time since the last request left, up to Gap

vars == <<sweep, due, compare, flight, wake, phase, pace, cooldown, age>>

Valid == BotSet \ BadMint
Endpoints == <<"order", "build">>
\* A task is the market of the target at a place (size 0), or one of its sizes.
NoTask == [at |-> 0, size |-> 0]
NoSweep == [running |-> FALSE, left |-> {}]
NoCompare == [task |-> NoTask, path |-> 0, leg |-> 0, done |-> 0]
NoFlight == [at |-> "none", send |-> 0, deadline |-> 0]
Later(x, y) == IF x > y THEN x ELSE y

Init ==
  /\ sweep = NoSweep
  /\ due = [bots |-> {}, tried |-> {}]
  /\ compare = NoCompare
  /\ flight = NoFlight
  /\ wake = 0
  /\ phase \in 0..(Period - 1)
  /\ pace = 0
  /\ cooldown = [b \in BotSet |-> 0]
  /\ age = Gap

-----------------------------------------------------------------------------
(* A sweep.                                                                *)

FirstOfSymbol(i) ==
  \A j \in 1..(i - 1) : Bots[j] \in BadMint \/ SymbolOf[Bots[j]] # SymbolOf[Bots[i]]

\* What the loop over the targets does.
Tasks(quoted) ==
  {t \in [at : DOMAIN Bots, size : {0, 1, 2}] :
     /\ Bots[t.at] \notin BadMint
     /\ t.size = 0 => FirstOfSymbol(t.at)
     /\ t.size # 0 => Bots[t.at] \in quoted /\ t.size <= SizesOf[Bots[t.at]]}

\* The tasks in their order: target after target, its market first.
Before(t, u) == t.at < u.at \/ (t.at = u.at /\ t.size < u.size)
First(t) == t \in sweep.left /\ \A u \in sweep.left : ~ Before(u, t)

Idle == ~ sweep.running /\ compare = NoCompare
UntilNextSweep == Period - phase

StartSweep ==
  /\ Idle /\ wake <= 0
  /\ LET quoted == {b \in Valid : cooldown[b] = 0} IN
     /\ sweep' = [running |-> TRUE, left |-> Tasks(quoted)]
     /\ due' = [bots |-> quoted, tried |-> {}]
     /\ cooldown' = [b \in BotSet |-> IF b \in quoted THEN Cadence ELSE cooldown[b]]
  /\ UNCHANGED <<compare, flight, wake, phase, pace, age>>

\* The targets cannot be read: reported, and the next poll is set.
TargetsFail ==
  /\ Idle /\ wake <= 0
  /\ wake' = UntilNextSweep
  /\ UNCHANGED <<sweep, due, compare, flight, phase, pace, cooldown, age>>

EndSweep ==
  /\ sweep.running /\ sweep.left = {} /\ compare = NoCompare
  /\ sweep' = NoSweep
  /\ wake' = UntilNextSweep
  /\ UNCHANGED <<due, compare, flight, phase, pace, cooldown, age>>

\* Pool identity and candles of an asset: stored, or reported and left; either
\* way the sweep goes on.
Market ==
  /\ sweep.running /\ compare = NoCompare
  /\ \E t \in sweep.left :
       First(t) /\ t.size = 0 /\ sweep' = [sweep EXCEPT !.left = @ \ {t}]
  /\ UNCHANGED <<due, compare, flight, wake, phase, pace, cooldown, age>>

-----------------------------------------------------------------------------
(* A comparison.                                                           *)

StartCompare ==
  /\ sweep.running /\ compare = NoCompare
  /\ \E t \in sweep.left :
       First(t) /\ t.size # 0 /\ compare' = [NoCompare EXCEPT !.task = t, !.path = 1, !.leg = 1]
  /\ UNCHANGED <<sweep, due, flight, wake, phase, pace, cooldown, age>>

\* The next path, or the end of the comparison: it is handed to the store (which
\* may fail: reported) with the paths completed, partial, failed or skipped.
NextPath(c) == [c EXCEPT !.path = @ + 1, !.leg = 1]
Compared == Bots[compare.task.at]
Skipped == Endpoints[compare.path] = "build" /\ Compared \notin HasTaker

SkipPath ==
  /\ compare.path \in {1, 2} /\ flight = NoFlight /\ Skipped
  /\ compare' = NextPath(compare)
  /\ UNCHANGED <<sweep, due, flight, wake, phase, pace, cooldown, age>>

Finish ==
  /\ compare.path = 3
  /\ due' = [due EXCEPT !.tried = @ \cup {<<Compared, compare.task.size>>}]
  /\ sweep' = [sweep EXCEPT !.left = @ \ {compare.task}]
  /\ compare' = NoCompare
  /\ UNCHANGED <<flight, wake, phase, pace, cooldown, age>>

\* quote and the paced fetch under it: the timeout runs from here, the request
\* leaves when the pacer lets it.
Planned == pace
Ask ==
  /\ compare.path \in {1, 2} /\ flight = NoFlight /\ ~ Skipped
  /\ flight' = [at |-> "paced", send |-> Planned, deadline |-> Timeout]
  /\ pace' = Planned + Gap
  /\ UNCHANGED <<sweep, due, compare, wake, phase, cooldown, age>>

Send ==
  /\ flight.at = "paced" /\ flight.send <= 0
  /\ flight' = [flight EXCEPT !.at = "sent"]
  /\ age' = 0
  /\ UNCHANGED <<sweep, due, compare, wake, phase, pace, cooldown>>

\* A usable answer to the buy leads to the reverse, one to the reverse completes
\* the path; an error, or no answer in time, ends the path.
Answered ==
  /\ flight.at = "sent"
  /\ flight' = NoFlight
  /\ compare' = IF compare.leg = 1 THEN [compare EXCEPT !.leg = 2]
                ELSE [NextPath(compare) EXCEPT !.done = @ + 1]
  /\ UNCHANGED <<sweep, due, wake, phase, pace, cooldown, age>>
Refused ==
  /\ flight.at = "sent"
  /\ flight' = NoFlight
  /\ compare' = NextPath(compare)
  /\ UNCHANGED <<sweep, due, wake, phase, pace, cooldown, age>>
TimesOut ==
  /\ flight.at # "none" /\ flight.deadline <= 0
  /\ flight' = NoFlight
  /\ compare' = NextPath(compare)
  /\ UNCHANGED <<sweep, due, wake, phase, pace, cooldown, age>>

-----------------------------------------------------------------------------
(* Time.                                                                   *)

Less(t) == Later(t - 1, 0)

\* Time does not pass a timer by more than Lag.
Tick ==
  /\ flight.at = "paced" => flight.send > -Lag
  /\ flight.at # "none" => flight.deadline > -Lag
  /\ Idle => wake > -Lag
  /\ flight' = IF flight.at = "none" THEN flight
               ELSE [flight EXCEPT !.send = Later(@ - 1, -Lag), !.deadline = @ - 1]
  /\ wake' = IF Idle THEN wake - 1 ELSE wake
  /\ phase' = (phase + 1) % Period
  /\ pace' = Less(pace)
  /\ cooldown' = [b \in BotSet |-> Less(cooldown[b])]
  /\ age' = IF age < Gap THEN age + 1 ELSE age
  /\ UNCHANGED <<sweep, due, compare>>

Timers == StartSweep \/ EndSweep \/ StartCompare \/ SkipPath \/ Finish \/ Ask \/ Send \/ TimesOut
Next == Timers \/ TargetsFail \/ Market \/ Answered \/ Refused \/ Tick

Spec == Init /\ [][Next]_vars

-----------------------------------------------------------------------------
(* Properties.                                                             *)

\* The variables have their types, and a timer is never more than Lag overdue.
TypeOK ==
  /\ due.bots \subseteq Valid
  /\ compare.path \in 0..3 /\ compare.leg \in 0..2 /\ compare.done \in 0..2
  /\ flight.at \in {"none", "paced", "sent"}
  /\ flight.send \in (-Lag)..Gap /\ flight.deadline \in (-Lag)..Timeout
  /\ wake \in (-Lag)..Period /\ phase \in 0..(Period - 1)
  /\ pace \in 0..(2 * Gap) /\ age \in 0..Gap
  /\ cooldown \in [BotSet -> 0..Cadence]

\* "Les appels Jupiter sont espaces d'au moins 1,1 seconde sur l'ensemble des
\* comparaisons du processus" (docs/shadow-jev-v4.md:38): across legs, paths,
\* sizes, bots and sweeps, given-up requests included, as far as timers are on time.
CallsAreSpaced ==
  (flight.at = "paced" /\ flight'.at = "sent") => age >= Gap - Lag

\* However pools, candles, quotes and their storage fail, a sweep ends with every
\* bot whose turn it was tried at every one of its sizes.
SweepTriesEveryDueBot ==
  (sweep.running /\ ~ sweep'.running) =>
    due.tried = {p \in due.bots \X {1, 2} : p[2] <= SizesOf[p[1]]}

=============================================================================
