--------------------------- MODULE WalletAdmission ---------------------------
(***************************************************************************)
(* How live trading is admitted to the one execution wallet: live bots are *)
(* created, cloned from a paper bot, topped up, resumed and archived, a V2 *)
(* portfolio is staged and activated, and all of them trade meanwhile.     *)
(*                                                                         *)
(* A request reads before it opens its transaction; the transaction takes  *)
(* the wallet's advisory lock, asks the chain what the wallet holds and    *)
(* compares that with what is already claimed.  Amounts are whole units of *)
(* USDC; a trade moves one.  Nobody else spends from the wallet.           *)
(***************************************************************************)
EXTENDS Integers, FiniteSets, Functions

CONSTANTS
  Bots,          \* legacy live bots that may ever exist
  V2,            \* the live portfolio, with its bands taken together
  Reqs,          \* requests served at a time
  NoReq,
  Funds,         \* USDC in the wallet at the start
  Amounts,       \* budgets, top-ups and fundings one may ask for
  SourceBudget,  \* budget of the paper bot that may be cloned
  Kinds,         \* what is asked, a subset of AllKinds
  MaxAsks, MaxTrades, MaxHalts   \* bounds

AllKinds == {"create", "clone", "top up", "resume", "archive", "stage", "activate"}
ASSUME AdmissionAssumption ==
  /\ IsFiniteSet(Bots) /\ V2 \notin Bots /\ NoReq \notin Reqs
  /\ Amounts \subseteq Nat \ {0} /\ Kinds \subseteq AllKinds
  /\ {Funds, SourceBudget, MaxAsks, MaxTrades, MaxHalts} \subseteq Nat

Owners == Bots \cup {V2}

VARIABLES
  wallet,   \* USDC on the chain
  row,      \* bots with config, newest snapshot and open lots; portfolios with its bands
  attempt,  \* execution_attempts
  lock,     \* pg_advisory_xact_lock of the wallet
  req,      \* requests in flight
  left,     \* what is left of the bounds
  stale     \* history: bots whose newest snapshot was replaced by an older one

vars == <<wallet, row, attempt, lock, req, left, stale>>

\* cash, profit: availableQuoteAmount and realizedPnlUsd of the newest snapshot;
\* held: cost of the open lots; running stands for every status not of the operator.
\* No column has a bound: a settlement after a resume over an older snapshot may
\* take cash below zero.
Rows == [stage : {"none", "open", "archived"}, status : {"running", "paused", "stopped"},
         cash : Int, profit : Int, held : Int, budget : Int, key : Nat]
NoRow == [stage |-> "none", status |-> "paused", cash |-> 0, profit |-> 0, held |-> 0, budget |-> 0, key |-> 0]
NoAttempt == [at |-> "none", side |-> "buy", gain |-> 0]
Idle == [at |-> "off", kind |-> "create", of |-> V2, amount |-> 0, key |-> 0, cash |-> 0, profit |-> 0,
         seen |-> 0, fresh |-> FALSE]

TypeOK ==
  /\ wallet \in Nat /\ row \in [Owners -> Rows] /\ lock \in Reqs \cup {NoReq} /\ stale \subseteq Bots
  /\ attempt \in [Owners -> [at : {"none", "prepared", "moved", "failed"}, side : {"buy", "sell"}, gain : 0 .. 1]]
  /\ req \in [Reqs -> [at : {"off", "validate", "key", "lock", "observe", "commit"}, kind : AllKinds, of : Owners,
                       amount : Nat, key : Nat, cash : Int, profit : Int, seen : Int, fresh : BOOLEAN]]
  /\ left \in [asks : 0 .. MaxAsks, trades : 0 .. MaxTrades, halts : 0 .. MaxHalts]

Init ==
  /\ wallet = Funds /\ row = [o \in Owners |-> NoRow] /\ attempt = [o \in Owners |-> NoAttempt]
  /\ lock = NoReq /\ req = [r \in Reqs |-> Idle]
  /\ left = [asks |-> MaxAsks, trades |-> MaxTrades, halts |-> MaxHalts] /\ stale = {}

Monus(x, y) == IF x > y THEN x - y ELSE 0
Least(x, y) == IF x < y THEN x ELSE y
Open == {o \in Owners : row[o].stage = "open"}
Halted(b) == row[b].status \in {"paused", "stopped"}

\* calculateReservedQuoteUsd over live bots that are not stopped (a band of the
\* portfolio is a bot too), and what that leaves for a new budget.
Reserved(o) == Least(row[o].budget, Monus(row[o].cash, row[o].profit))
Available ==
  Monus(wallet, SumFunctionOnSet([o \in Owners |-> Reserved(o)], {o \in Open : row[o].status # "stopped"}))

\* What assertLiveWalletCapital adds up: every bot that is not archived, paused
\* and stopped ones and profits included.
Claims == SumFunctionOnSet([o \in Owners |-> row[o].cash], Open)
Unsettled == {o \in Owners : attempt[o].at # "none"}

\* assertNoActiveLegacyLiveBots, assertLegacyLiveAdmission
NoActiveLegacy == \A b \in Bots \cap Open : Halted(b)
LegacyAdmitted == row[V2].stage = "none"
-----------------------------------------------------------------------------
\* Requests

Ends(r) == [req EXCEPT ![r] = Idle]
Goto(r, at) == req' = [req EXCEPT ![r].at = at]

\* A new newest snapshot, or a changed row, outdates what other requests have read.
Outdate(rs, o) == [r \in Reqs |-> IF rs[r].of = o THEN [rs[r] EXCEPT !.fresh = FALSE] ELSE rs[r]]

Ask(r, kind, o, at, amount) ==
  /\ kind \in Kinds /\ req[r].at = "off" /\ left.asks > 0 /\ left' = [left EXCEPT !.asks = @ - 1]
  /\ req' = [req EXCEPT ![r] = [Idle EXCEPT !.at = at, !.kind = kind, !.of = o, !.amount = amount,
                                !.cash = row[o].cash, !.profit = row[o].profit, !.fresh = TRUE]]
  /\ UNCHANGED <<wallet, row, attempt, lock, stale>>

Unborn(b) == row[b].stage = "none" /\ \A r \in Reqs : req[r].at # "off" => req[r].of # b
AskCreate(r) == \E b \in Bots, a \in Amounts : Unborn(b) /\ Ask(r, "create", b, "validate", a)
AskClone(r) == \E b \in Bots : Unborn(b) /\ Ask(r, "clone", b, "validate", SourceBudget)
AskTopUp(r) ==
  \E b \in Bots \cap Open, a \in Amounts : Halted(b) /\ Ask(r, "top up", b, "validate", a)
AskResume(r) == \E b \in Bots \cap Open : Halted(b) /\ Ask(r, "resume", b, "lock", 0)
AskArchive(r) == \E b \in Bots \cap Open : row[b].status = "stopped" /\ Ask(r, "archive", b, "commit", 0)
AskStage(r) == \E a \in Amounts : Ask(r, "stage", V2, "lock", a)
AskActivate(r) == row[V2].stage = "open" /\ row[V2].status = "paused" /\ Ask(r, "activate", V2, "lock", 0)

\* validateBudgetAllocation, validateAdditionalBudgetAllocation: outside any transaction.
Validate(r) ==
  /\ req[r].at = "validate"
  /\ req' = IF req[r].amount > Available THEN Ends(r)
            ELSE [req EXCEPT ![r].at = IF req[r].kind = "top up" THEN "lock" ELSE "key"]
  /\ UNCHANGED <<wallet, row, attempt, lock, left, stale>>

\* createUniqueBotKey: one suffix after another, until none has it.
KeysTaken == {row[b].key : b \in {c \in Bots : row[c].stage # "none"}}
FindKey(r) ==
  /\ req[r].at = "key"
  /\ \E k \in 1 .. Cardinality(Bots) + 1 :
       /\ k \notin KeysTaken /\ \A j \in 1 .. k - 1 : j \in KeysTaken
       /\ req' = [req EXCEPT ![r] = [@ EXCEPT !.at = "lock", !.key = k]]
  /\ UNCHANGED <<wallet, row, attempt, lock, left, stale>>

\* The transaction begins: lockLiveWallet, then no execution may be unsettled.
MayBegin(r) == Unsettled = {}
Begin(r) ==
  /\ req[r].at = "lock" /\ lock = NoReq /\ req[r].kind # "resume"
  /\ IF MayBegin(r) THEN lock' = r /\ Goto(r, "observe") ELSE lock' = lock /\ req' = Ends(r)
  /\ UNCHANGED <<wallet, row, attempt, left, stale>>

\* The wallet's balance, inside the transaction.
Observe(r) ==
  /\ req[r].at = "observe" /\ req' = [req EXCEPT ![r] = [@ EXCEPT !.at = "commit", !.seen = wallet]]
  /\ UNCHANGED <<wallet, row, attempt, lock, left, stale>>

\* Every wait is bounded: 8 s for the chain, 15 s for the transaction.
TimeOut(r) ==
  /\ req[r].at \in {"lock", "observe"} /\ req' = Ends(r) /\ lock' = IF lock = r THEN NoReq ELSE lock
  /\ UNCHANGED <<wallet, row, attempt, left, stale>>

CoveredByAvailable(r) == req[r].amount <= Available
Covered(r) == Claims + req[r].amount <= req[r].seen

\* tx.bot.create with its config, position and initial snapshot; keys are unique.
NewRow(r, key) == [stage |-> "open", status |-> "paused", cash |-> req[r].amount, profit |-> 0, held |-> 0,
                   budget |-> req[r].amount, key |-> key]
MayCreate(r) == Covered(r) /\ LegacyAdmitted /\ req[r].key \notin KeysTaken

\* PATCH with a larger budget: over the state it read, if that is still the newest.
MayTopUp(r) == Covered(r) /\ Halted(req[r].of) /\ row[req[r].of].stage = "open" /\ req[r].fresh
ToppedUp(r) ==
  [row[req[r].of] EXCEPT !.cash = req[r].cash + req[r].amount, !.profit = req[r].profit, !.budget = @ + req[r].amount]

\* stageLivePortfolio, activateLivePortfolio
MayStage(r) == Covered(r) /\ row[V2].stage = "none" /\ NoActiveLegacy
MayActivate(r) == Covered(r) /\ NoActiveLegacy /\ row[V2].status = "paused"

Granted(r) ==
  CASE req[r].kind \in {"create", "clone"} -> MayCreate(r)
    [] req[r].kind = "top up" -> MayTopUp(r)
    [] req[r].kind = "stage" -> MayStage(r)
    [] OTHER -> MayActivate(r)
Written(r) ==
  CASE req[r].kind \in {"create", "clone", "stage"} -> NewRow(r, req[r].key)
    [] req[r].kind = "top up" -> ToppedUp(r)
    [] OTHER -> [row[V2] EXCEPT !.status = "running"]
Commit(r) ==
  /\ req[r].at = "commit" /\ lock = r /\ lock' = NoReq
  /\ row' = IF Granted(r) THEN [row EXCEPT ![req[r].of] = Written(r)] ELSE row
  /\ req' = IF Granted(r) THEN Outdate(Ends(r), req[r].of) ELSE Ends(r)
  /\ UNCHANGED <<wallet, attempt, left, stale>>

\* DELETE: by what the route read, without the lock.
Archive(r) ==
  /\ req[r].at = "commit" /\ req[r].kind = "archive"
  /\ row' = [row EXCEPT ![req[r].of].stage = "archived"] /\ req' = Outdate(Ends(r), req[r].of)
  /\ UNCHANGED <<wallet, attempt, lock, left, stale>>

\* resume of a live bot: the snapshot the route had read becomes the newest again.
MayResume == LegacyAdmitted
Resume(r) ==
  /\ req[r].at = "lock" /\ req[r].kind = "resume" /\ lock = NoReq
  /\ IF MayResume
     THEN /\ row' = [row EXCEPT ![req[r].of] = [@ EXCEPT !.status = "running", !.cash = req[r].cash, !.profit = req[r].profit]]
          /\ stale' = IF req[r].fresh THEN stale ELSE stale \cup {req[r].of}
          /\ req' = Outdate(Ends(r), req[r].of)
     ELSE UNCHANGED <<row, stale>> /\ req' = Ends(r)
  /\ UNCHANGED <<wallet, attempt, lock, left>>

\* pause, stop
Halt(o) ==
  /\ o \in Open /\ left.halts > 0 /\ left' = [left EXCEPT !.halts = @ - 1]
  /\ \E s \in {"paused", "stopped"} :
       row[o].status # s /\ row' = [row EXCEPT ![o].status = s]
  /\ req' = Outdate(req, o) /\ UNCHANGED <<wallet, attempt, lock, stale>>
-----------------------------------------------------------------------------
\* Trades

\* prepareExecutionAttempt: on the newest state, alone on the wallet.
MayPrepare(o) ==
  /\ row[o].stage = "open" /\ row[o].status = "running" /\ Unsettled = {} /\ (o \in Bots => LegacyAdmitted)
Prepare(o) ==
  /\ lock = NoReq /\ left.trades > 0 /\ MayPrepare(o) /\ left' = [left EXCEPT !.trades = @ - 1]
  /\ \E side \in {"buy", "sell"}, gain \in 0 .. 1 :
       /\ IF side = "buy" THEN row[o].cash > 0 /\ gain = 0 ELSE row[o].held > 0
       /\ attempt' = [attempt EXCEPT ![o] = [at |-> "prepared", side |-> side, gain |-> gain]]
  /\ UNCHANGED <<wallet, row, lock, req, stale>>

\* The adapter sends it, whatever has become of the bot, and the chain decides.
Send(o) ==
  /\ attempt[o].at = "prepared"
  /\ \/ /\ attempt' = [attempt EXCEPT ![o].at = "moved"]
        /\ attempt[o].side = "buy" => wallet > 0
        /\ wallet' = IF attempt[o].side = "buy" THEN wallet - 1 ELSE wallet + 1 + attempt[o].gain
     \/ attempt' = [attempt EXCEPT ![o].at = "failed"] /\ wallet' = wallet
  /\ UNCHANGED <<row, lock, req, left, stale>>

\* commitExecution; the operator's status stays.
Filled(x, a) ==
  IF a.at = "failed" THEN x
  ELSE IF a.side = "buy" THEN [x EXCEPT !.cash = @ - 1, !.held = @ + 1]
  ELSE [x EXCEPT !.cash = @ + 1 + a.gain, !.held = @ - 1, !.profit = @ + a.gain]
Settle(o) ==
  /\ attempt[o].at \in {"moved", "failed"} /\ lock = NoReq
  /\ row' = [row EXCEPT ![o] = Filled(@, attempt[o])] /\ attempt' = [attempt EXCEPT ![o] = NoAttempt]
  /\ req' = Outdate(req, o) /\ UNCHANGED <<wallet, lock, left, stale>>

Asks(r) ==
  AskCreate(r) \/ AskClone(r) \/ AskTopUp(r) \/ AskResume(r) \/ AskArchive(r) \/ AskStage(r) \/ AskActivate(r)
Serve(r) ==
  Validate(r) \/ FindKey(r) \/ Begin(r) \/ Observe(r) \/ TimeOut(r) \/ Commit(r) \/ Archive(r) \/ Resume(r)
Trade(o) == Prepare(o) \/ Send(o) \/ Settle(o)
Next == (\E r \in Reqs : Asks(r) \/ Serve(r)) \/ (\E o \in Owners : Trade(o) \/ Halt(o))
Spec == Init /\ [][Next]_vars
-----------------------------------------------------------------------------
\* Properties

\* The books of the bots that may trade never claim more USDC than the wallet holds,
\* whoever was admitted while others traded.  Resuming over a newer
\* snapshot gives cash back that was spent (hazard), so such bots are left out.
SpentUnbooked(o) == IF attempt[o].at = "moved" /\ attempt[o].side = "buy" THEN 1 ELSE 0
ClaimsCovered ==
  stale = {} => Claims <= wallet + SumFunctionOnSet([o \in Owners |-> SpentUnbooked(o)], Open)

\* "Once a V2 live portfolio exists, legacy live creation, cloning, resumption and
\* durable execution preparation are blocked for this wallet" (docs/portfolio-v2.md:44):
\* no legacy bot runs, or has anything unsettled that is not its last.
OneModelPerWallet ==
  row[V2].stage = "open" => \A b \in Bots \cap Open : Halted(b) /\ attempt[b].at = "none"

\* A bot's cash and open lots are its budget and profits, through fills, top-ups and
\* resumes in any order; else createStateSnapshotFromOpenLots would invent money.
BooksMatchBudget ==
  \A b \in Bots \ stale : row[b].stage # "none" => row[b].cash + row[b].held = row[b].budget + row[b].profit

\* Two requests that look for the same key at once do not both get it.
KeysDistinct ==
  \A b, c \in Bots : b # c /\ row[b].stage # "none" /\ row[c].stage # "none" => row[b].key # row[c].key

\* Whatever was admitted, beside trades: the wallet covers what the bots claim, one
\* model trades on it, every bot has its own key, and its books come out at its
\* budget and its profit.
AdmissionHolds == TypeOK /\ ClaimsCovered /\ OneModelPerWallet /\ KeysDistinct /\ BooksMatchBudget

=============================================================================
