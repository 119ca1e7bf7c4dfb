---------------------------- MODULE PaperSimulate ----------------------------
(***************************************************************************)
(* The operator's "simulate a cross" on a legacy paper bot                 *)
(* (apps/web/src/app/api/bots/[id]/paper-simulate/route.ts).  The request  *)
(* reads the bot, its lots and its newest state, picks the level next to   *)
(* the price, and only then tries for the bot's lock; under it, it sets    *)
(* the bot running, writes the state it had read with a confirmed signal   *)
(* in it, and runs the engine once at a price just across the level.  The  *)
(* worker runs the same bot under the same lock; the pause and stop routes *)
(* do not take it.                                                         *)
(*                                                                         *)
(* A level is a number, the price the number of levels below it, an amount *)
(* a number of lots: a buy costs one, its sale returns two.  The steps of  *)
(* a trade are LegacyBot's; here its books are written in two.             *)
(***************************************************************************)
EXTENDS Integers, FiniteSets

CONSTANTS
  Requests,           \* requests the operator sends
  MaxLevel,           \* levels 1..MaxLevel
  Budget,
  MaxTries,           \* 40 attempts at the lock
  MaxRuns, MaxHalts   \* bounds: runs of the worker, pauses and stops

SimulateAssumption ==
  /\ IsFiniteSet(Requests)
  /\ {MaxLevel, Budget, MaxTries} \subseteq Nat \ {0}
  /\ {MaxRuns, MaxHalts} \subseteq Nat

VARIABLES
  bot,     \* bots.status and bots.currentPrice
  lots,    \* levels with an open lot
  snap,    \* newest state: cash, and the signal left in its metadata
  trades,  \* executions: how many bought, how many sold
  lock,    \* holder of the bot's advisory lock
  run,     \* the worker's run, and the lots it is about to have written
  req,     \* the requests
  left,    \* what is left of the bounds
  stale    \* history: a request wrote a state that was no longer the newest

rows == <<bot, lots, snap, trades>>
vars == <<rows, lock, run, req, left, stale>>

Levels == 1..MaxLevel
Sides == {"buy", "sell"}
Executions == trades.bought + trades.sold
Halted == {"paused", "stopped"}
NoSignal == <<>>
NoRequest == [at |-> "new", side |-> "buy", level |-> 0, price |-> 0, lots |-> {},
              cash |-> 0, before |-> 0, tries |-> 0, own |-> 0, answer |-> "none"]
NoRun == [at |-> "off", cash |-> 0]

Init ==
  /\ bot \in [status : {"running", "paused"}, price : 0..MaxLevel]
  /\ lots = {}
  /\ snap = [cash |-> Budget, signal |-> NoSignal]
  /\ trades = [bought |-> 0, sold |-> 0]
  /\ lock = "free"
  /\ run = NoRun
  /\ req = [r \in Requests |-> NoRequest]
  /\ left = [runs |-> MaxRuns, halts |-> MaxHalts]
  /\ stale = FALSE

-----------------------------------------------------------------------------
(* What a trade is, on any copy of lots and cash.                          *)

MayBuy(held, cash, level) == level \notin held /\ cash >= 1
Sellable(held, level) == {l \in held : l < level}

\* The level the price stands above (buy) or below (sell); 0 if none is left.
Target(side, price) ==
  IF side = "buy" THEN price ELSE IF price < MaxLevel THEN price + 1 ELSE 0

\* buildOrderIntent on what was read.
Armed(r) ==
  /\ r.level # 0
  /\ IF r.side = "buy" THEN MayBuy(r.lots, r.cash, r.level)
     ELSE Sellable(r.lots, r.level) # {}

-----------------------------------------------------------------------------
(* The worker and the operator.                                            *)

StartRun ==
  /\ left.runs > 0 /\ lock = "free" /\ bot.status \notin Halted
  /\ lock' = "worker"
  /\ run' = [NoRun EXCEPT !.at = "decide"]
  /\ left' = [left EXCEPT !.runs = @ - 1]
  /\ UNCHANGED <<rows, req, stale>>

Buy(level) ==
  /\ MayBuy(lots, snap.cash, level)
  /\ lots' = lots \cup {level}
  /\ trades' = [trades EXCEPT !.bought = @ + 1]
SellOff(gone) ==
  /\ lots' = lots \ gone
  /\ trades' = [trades EXCEPT !.sold = @ + Cardinality(gone)]

\* A run trades at some level, or only follows the price.
RunTrades ==
  /\ run.at = "decide"
  /\ \/ \E level \in Levels :
          Buy(level) /\ run' = [at |-> "snapshot", cash |-> snap.cash - 1]
     \/ \E l \in lots :
          SellOff({l}) /\ run' = [at |-> "snapshot", cash |-> snap.cash + 2]
  /\ UNCHANGED <<bot, snap, lock, req, left, stale>>
RunFollows ==
  /\ run.at = "decide"
  /\ \E p \in 0..MaxLevel : bot' = [bot EXCEPT !.price = p]
  /\ run' = [at |-> "snapshot", cash |-> snap.cash]
  /\ UNCHANGED <<lots, snap, trades, lock, req, left, stale>>
EndRun ==
  /\ run.at = "snapshot"
  /\ snap' = [cash |-> run.cash, signal |-> NoSignal]
  /\ run' = NoRun
  /\ lock' = "free"
  /\ UNCHANGED <<bot, lots, trades, req, left, stale>>

Halt ==
  /\ left.halts > 0
  /\ \E s \in Halted \ {bot.status} : bot' = [bot EXCEPT !.status = s]
  /\ left' = [left EXCEPT !.halts = @ - 1]
  /\ UNCHANGED <<lots, snap, trades, lock, run, req, stale>>

-----------------------------------------------------------------------------
(* A request.                                                              *)

Moves(r, to) == req' = [req EXCEPT ![r] = to]
Answers(r, a) == Moves(r, [req[r] EXCEPT !.at = "answered", !.answer = a])

ReadBot(r) ==
  /\ req[r].at = "new"
  /\ \E side \in Sides :
       Moves(r, [req[r] EXCEPT !.at = "state", !.side = side, !.price = bot.price,
                   !.level = Target(side, bot.price), !.lots = lots])
  /\ UNCHANGED <<rows, lock, run, left, stale>>

ReadState(r) ==
  /\ req[r].at = "state"
  /\ LET read == [req[r] EXCEPT !.cash = snap.cash] IN
     IF Armed(read) THEN Moves(r, [read EXCEPT !.at = "count"])
     ELSE Answers(r, "not armed")
  /\ UNCHANGED <<rows, lock, run, left, stale>>

\* executionCountBefore, also before the lock.
CountBefore(r) ==
  /\ req[r].at = "count"
  /\ Moves(r, [req[r] EXCEPT !.at = "try", !.before = Executions])
  /\ UNCHANGED <<rows, lock, run, left, stale>>

TriesAreLeft(r) == req[r].tries + 1 < MaxTries

\* withBotLock answers null: sleep and try again, 40 times in all.
LockIsTaken(r) ==
  /\ req[r].at = "try" /\ lock # "free"
  /\ IF TriesAreLeft(r) THEN Moves(r, [req[r] EXCEPT !.tries = @ + 1])
     ELSE Answers(r, "busy")
  /\ UNCHANGED <<rows, lock, run, left, stale>>

LockIsMine(r) == lock = "free"

\* Bot and state in one transaction, from what was read before the lock.
Write(r) ==
  /\ req[r].at = "try" /\ LockIsMine(r)
  /\ lock' = r
  /\ bot' = [status |-> "running", price |-> req[r].price]
  /\ snap' = [cash |-> req[r].cash, signal |-> <<req[r].side, req[r].level>>]
  /\ stale' = (stale \/ req[r].cash # snap.cash)
  /\ Moves(r, [req[r] EXCEPT !.at = "run"])
  /\ UNCHANGED <<lots, trades, run, left>>

\* runBot with skipLock: bot, lots and state are read again; the signal in the
\* state is confirmed.  Sells catch up.  The runtime rules may skip it.
Trade(r) ==
  /\ req[r].at = "run" /\ bot.status \notin Halted /\ snap.signal # NoSignal
  /\ \/ /\ snap.signal[1] = "buy" /\ Buy(snap.signal[2])
        /\ snap' = [cash |-> snap.cash - 1, signal |-> NoSignal]
        /\ Moves(r, [req[r] EXCEPT !.at = "count again", !.own = 1])
     \/ /\ snap.signal[1] = "sell"
        /\ \E gone \in (SUBSET Sellable(lots, snap.signal[2])) \ {{}} :
             /\ SellOff(gone)
             /\ snap' = [cash |-> snap.cash + 2 * Cardinality(gone), signal |-> NoSignal]
             /\ Moves(r, [req[r] EXCEPT !.at = "count again", !.own = Cardinality(gone)])
  /\ UNCHANGED <<bot, lock, run, left, stale>>
Skip(r) ==
  /\ req[r].at = "run"
  /\ snap' = [snap EXCEPT !.signal = NoSignal]
  /\ Moves(r, [req[r] EXCEPT !.at = "count again"])
  /\ UNCHANGED <<bot, lots, trades, lock, run, left, stale>>

\* executionCountAfter > executionCountBefore; the lock is given back.
Created(r) == Executions > req[r].before
CountAfter(r) ==
  /\ req[r].at = "count again"
  /\ lock' = "free"
  /\ Answers(r, IF Created(r) THEN "ok" ELSE "skipped")
  /\ UNCHANGED <<rows, run, left, stale>>

Request(r) ==
  \/ ReadBot(r) \/ ReadState(r) \/ CountBefore(r) \/ LockIsTaken(r)
  \/ Write(r) \/ Trade(r) \/ Skip(r) \/ CountAfter(r)

Next ==
  \/ StartRun \/ RunTrades \/ RunFollows \/ EndRun \/ Halt
  \/ \E r \in Requests : Request(r)
Spec == Init /\ [][Next]_vars

-----------------------------------------------------------------------------
(* Properties.                                                             *)

\* The variables have their types: the cash of a state is never negative, also
\* when an older one was put back.
TypeOK ==
  /\ bot \in [status : {"running"} \cup Halted, price : 0..MaxLevel]
  /\ lots \subseteq Levels
  /\ snap.cash \in Nat
  /\ trades \in [bought : Nat, sold : Nat]
  /\ lock \in {"free", "worker"} \cup Requests
  /\ \A r \in Requests : req[r].cash \in Nat /\ req[r].level \in 0..MaxLevel
  /\ stale \in BOOLEAN

\* Between runs the newest state accounts for every execution of the bot - as
\* long as no request put back a state that a run had replaced since it read it,
\* which is the one way the route can lose a trade.
StateCountsEveryTrade ==
  lock = "free" /\ ~ stale => snap.cash = Budget - trades.bought + 2 * trades.sold

\* Engine runs on a bot exclude each other, the simulated ones included: the
\* request's skipLock run is inside the lock the request took.
OneEngineRun ==
  /\ \A r \in Requests : req[r].at \in {"run", "count again"} => lock = r /\ run = NoRun
  /\ run # NoRun => lock = "worker"

=============================================================================
