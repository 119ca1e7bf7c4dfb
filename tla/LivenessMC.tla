----------------------------- MODULE LivenessMC ------------------------------
(*****************************************************************************)
(* What must come to an end, for TLC: attempts at a swap, runs and shutdowns *)
(* of the worker, jobs and captures of the shadow, requests of the desk, and *)
(* what its pages show.                                                      *)
(* They share no state: a behaviour is one of the component that "part" names. *)
(*****************************************************************************)
EXTENDS Integers, Sequences, FiniteSets, TLC

CONSTANTS
  Absent, NoValue,   \* the value of a variable the component at work does not have, and no value
  sol, b1, b2, d1, d2, r1, r2, w1, w2, e1, e2, acting, watched

VARIABLES
  part,   \* the component at work
  goal,   \* the end that is waited for in this behaviour
  x1, x2, x3, x4, x5, x6, x7, x8, x9, x10, x11, x12, x13, x14, x15, x16, x17   \* its variables, in the order of its module

BothSol == (b1 :> sol) @@ (b2 :> sol)

\* One live band whose worker crashes.
Durable == INSTANCE DurableExecution WITH
  Bots <- {b1}, LiveBots <- {b1}, BandBots <- {b1}, Workers <- {w1}, Execs <- {e1, e2},
  NoExec <- Absent, NoBot <- Absent, NoWorker <- Absent, Halts <- {"paused"}, MayLoseLock <- FALSE,
  MaxCrashes <- 1,
  status <- x1, lots <- x2, snap <- x3, attempt <- x4, owner <- x5, ledger <- x6, result <- x7,
  uncertain <- x8, txid <- x9, chain <- x10, lock <- x11, pc <- x12, view <- x13, held <- x14,
  resuming <- x15, crashes <- x16

\* One symbol with two bots.
Runtime == INSTANCE WorkerRuntime WITH
  Symbols <- {sol}, Bots <- {b1, b2}, SymbolOf <- BothSol, Drains <- {d1, d2}, MinInterval <- 1,
  PollInterval <- 1, MaxBackoff <- 1, RecoveryInterval <- 1,
  queued <- x1, running <- x2, age <- x3, drain <- x4, stopped <- x5, awaited <- x6, price <- x7,
  recovery <- x8, busy <- x9, attempts <- x10, policy <- x11, shutdown <- x12

\* One job for two consumers.
Outbox == INSTANCE ShadowOutbox WITH
  Jobs <- {1}, Workers <- {w1, w2}, Lease <- 2, MaxAttempts <- 2, MaxDelay <- 2, MaxClaims <- 4,
  MaxFaults <- 2,
  row <- x1, attempts <- x2, local <- x3, claimant <- x4, faults <- x5

\* One band that acts and one that is watched.
Evidence == INSTANCE ShadowEvidence WITH
  Bands <- {acting, watched}, Auto <- {acting}, Reports <- {{"pair", "totals", "fee", "quote", "native"}},
  Window <- 2, MinSamples <- 2, MaxHour <- 1, MaxFills <- 0, MaxTasks <- 2, MaxFaults <- 1,
  NoTask <- Absent, Nothing <- NoValue,
  hour <- x1, fills <- x2, version <- x3, applied <- x4, recorded <- x5, manager <- x6, task <- x7,
  conn <- x8, obs <- x9, faults <- x10

\* Two bots to compare.
Quotes == INSTANCE ShadowQuotes WITH
  Bots <- <<"btc", "sol">>, SymbolOf <- [btc |-> "BTC", sol |-> "SOL"], BadMint <- {},
  SizesOf <- [btc |-> 2, sol |-> 1], HasTaker <- {"btc"}, Gap <- 2, Timeout <- 4, Cadence <- 7,
  Period <- 3, Lag <- 0,
  sweep <- x1, due <- x2, compare <- x3, flight <- x4, wake <- x5, phase <- x6, pace <- x7,
  cooldown <- x8, age <- x9

\* The page with two requests on their way,
Console == INSTANCE DeskConsole WITH
  Bots <- {1, 2}, Kinds <- {"stop", "archive", "save"}, MaxTyped <- 1, MaxCalls <- 2, MaxAsked <- 2,
  server <- x1, props <- x2, seen <- x3, archived <- x4, selected <- x5, hydrated <- x6,
  draft <- x7, typed <- x8, busy <- x9, calls <- x10, asked <- x11, refreshing <- x12,
  crossed <- x13

\* the lab with two questions,
Lab == INSTANCE LabConsole WITH
  Inputs <- {sol}, MaxGeneration <- 1, MaxFlights <- 2, Questions <- {"recommend", "stress"},
  inputs <- x1, generation <- x2, busy <- x3, flights <- x4, recommendation <- x5, active <- x6,
  rows <- x7, stress <- x8, opened <- x9

\* two routes that want the wallet,
Admission == INSTANCE WalletAdmission WITH
  Bots <- {b1, b2}, V2 <- NoValue, Reqs <- {r1, r2}, NoReq <- Absent, Funds <- 3, Amounts <- {2},
  SourceBudget <- 2, Kinds <- {"create", "clone", "resume", "stage", "activate"}, MaxAsks <- 3,
  MaxTrades <- 1, MaxHalts <- 1,
  wallet <- x1, row <- x2, attempt <- x3, lock <- x4, req <- x5, left <- x6, stale <- x7

\* and two requests for a simulated run.
Simulate == INSTANCE PaperSimulate WITH
  Requests <- {r1, r2}, MaxLevel <- 1, Budget <- 1, MaxTries <- 3, MaxRuns <- 1, MaxHalts <- 1,
  bot <- x1, lots <- x2, snap <- x3, trades <- x4, lock <- x5, run <- x6, req <- x7, left <- x8,
  stale <- x9

\* Profits that are near, far, very far and below one another.
Spikes == INSTANCE PnlSpikes WITH
  Profits <- {0, 255, 1000, 10000, -400}, MaxHour <- 4, MaxRows <- 1,
  clock <- x1, rows <- x2

\* An execution or two, a connection that drops,
Drawer == INSTANCE DeskStream WITH
  Bots <- {b1}, Statuses <- {"running"}, Outcomes <- {"filled"}, MaxExecutions <- 2,
  MaxChanges <- 0, MaxDrops <- 1, MaxFailures <- 0, MaxTurns <- 1, Kept <- 1, Delays <- 1,
  Overtaking <- TRUE,
  world <- x1, changes <- x2, drops <- x3, failures <- x4, reads <- x5, primed <- x6, sent <- x7,
  wire <- x8, telemetry <- x9, statusOf <- x10, keyOf <- x11, seen <- x12, toasts <- x13,
  board <- x14, due <- x15, asked <- x16, missed <- x17

\* and reads of the board that fail.
Board == INSTANCE DeskStream WITH
  Bots <- {b1}, Statuses <- {"running"}, Outcomes <- {"filled"}, MaxExecutions <- 1,
  MaxChanges <- 0, MaxDrops <- 0, MaxFailures <- 1, MaxTurns <- 2, Kept <- 1, Delays <- 2,
  Overtaking <- FALSE,
  world <- x1, changes <- x2, drops <- x3, failures <- x4, reads <- x5, primed <- x6, sent <- x7,
  wire <- x8, telemetry <- x9, statusOf <- x10, keyOf <- x11, seen <- x12, toasts <- x13,
  board <- x14, due <- x15, asked <- x16, missed <- x17

ASSUME
  /\ Evidence!EvidenceAssumption
  /\ Quotes!QuotesAssumption
  /\ Console!ConsoleAssumption
  /\ Lab!ConsoleAssumption
  /\ Simulate!SimulateAssumption
  /\ Drawer!DeskStreamAssumption
  /\ Board!DeskStreamAssumption
-----------------------------------------------------------------------------
Parts == {"durable", "runtime", "outbox", "evidence", "quotes", "console", "lab", "admission", "simulate", "spikes", "drawer", "board"}

\* The ends that are waited for; what is symmetric is asked of one.
GoalsOf(p) ==
  CASE p = "runtime" -> {"price", "attempt", "shutdown"}
    [] p = "outbox" -> {"job"}
    [] p = "evidence" -> {"cycle", "capture"}
    [] p = "quotes" -> {"compare"}
    [] OTHER -> {"end"}

\* The variables from one on that the component at work does not need.
From14Absent == x14 = Absent /\ x15 = Absent /\ x16 = Absent /\ x17 = Absent
from14 == <<x14, x15, x16, x17>>
From13Absent == x13 = Absent /\ From14Absent
from13 == <<x13, from14>>
From11Absent == x11 = Absent /\ x12 = Absent /\ From13Absent
from11 == <<x11, x12, from13>>
From10Absent == x10 = Absent /\ From11Absent
from10 == <<x10, from11>>
From8Absent == x8 = Absent /\ x9 = Absent /\ From10Absent
from8 == <<x8, x9, from10>>
From6Absent == x6 = Absent /\ x7 = Absent /\ From8Absent
from6 == <<x6, x7, from8>>
From3Absent == x3 = Absent /\ x4 = Absent /\ x5 = Absent /\ From6Absent
from3 == <<x3, x4, x5, from6>>

LivenessInit ==
  /\ part \in Parts /\ goal \in GoalsOf(part)
  /\ \/ part = "durable" /\ Durable!Init /\ x17 = Absent
     \/ part = "runtime" /\ Runtime!Init /\ From13Absent
     \/ part = "outbox" /\ Outbox!Init /\ From6Absent
     \/ part = "evidence" /\ Evidence!Init /\ From11Absent
     \/ part = "quotes" /\ Quotes!Init /\ From10Absent
     \/ part = "console" /\ Console!Init /\ From14Absent
     \/ part = "lab" /\ Lab!Init /\ From10Absent
     \/ part = "admission" /\ Admission!Init /\ From8Absent
     \/ part = "simulate" /\ Simulate!Init /\ From10Absent
     \/ part = "spikes" /\ Spikes!Init /\ From3Absent
     \/ part = "drawer" /\ Drawer!Init
     \/ part = "board" /\ Board!Init

LivenessNext ==
  /\ \/ part = "durable" /\ Durable!Next /\ UNCHANGED x17
     \/ part = "runtime" /\ Runtime!Next /\ UNCHANGED from13
     \/ part = "outbox" /\ Outbox!Next /\ UNCHANGED from6
     \/ part = "evidence" /\ Evidence!Next /\ UNCHANGED from11
     \/ part = "quotes" /\ Quotes!Next /\ UNCHANGED from10
     \/ part = "console" /\ Console!Next /\ UNCHANGED from14
     \/ part = "lab" /\ Lab!Next /\ UNCHANGED from10
     \/ part = "admission" /\ Admission!Next /\ UNCHANGED from8
     \/ part = "simulate" /\ Simulate!Next /\ UNCHANGED from10
     \/ part = "spikes" /\ Spikes!Next /\ UNCHANGED from3
     \/ part = "drawer" /\ Drawer!Next
     \/ part = "board" /\ Board!Next
  /\ UNCHANGED <<part, goal>>

livenessVars ==
  <<part, goal, x1, x2, x3, x4, x5, x6, x7, x8, x9, x10, x11, x12, x13, x14, x15, x16, x17>>

\* A step of the durable execution protocol, of a capture,
Attempting(Step) == part = "durable" /\ Step /\ UNCHANGED <<part, goal, x17>>
Capturing(t) ==
  part = "evidence" /\ goal = "capture" /\ Evidence!Capture(t) /\ UNCHANGED <<part, goal, from11>>

\* Attempts are taken up by the pollers and their runs go on.  The chain, Jupiter,
\* the RPC node, the price sources of a commit, the listing of attempts, the queries
\* of a capture and the sweeps succeed again and again if asked again and again (no
\* two components are at work in one behaviour, so one condition stands for both).
DurableFairness ==
  /\ WF_livenessVars(Attempting(Durable!StartRun(w1, b1) /\ x4[b1] # Absent))
  /\ WF_livenessVars(Attempting(Durable!RunStep(w1, b1)))
RetryFairness ==
  /\ SF_livenessVars(Attempting(Durable!LookupTells(w1, b1)) \/ Capturing(1))
  /\ SF_livenessVars(Attempting(Durable!RequestArrives(w1, b1)) \/ Capturing(2))
  /\ SF_livenessVars(\/ Attempting(Durable!ReplyTells(w1, b1))
                     \/ part = "runtime" /\ Runtime!ListPending /\ UNCHANGED <<part, goal, from13>>)
  /\ SF_livenessVars(\/ Attempting(Durable!Commit(w1, b1))
                     \/ part = "quotes" /\ Quotes!StartSweep /\ UNCHANGED <<part, goal, from10>>)

\* Every run of the worker ends and time goes on; nothing is assumed of prices or
\* errors.
RuntimeFairness ==
  /\ \A d \in {d1, d2} : WF_livenessVars(part = "runtime" /\ Runtime!SchedulerStep(d) /\ UNCHANGED <<part, goal, from13>>)
  /\ WF_livenessVars(part = "runtime" /\ Runtime!RecoveryStep /\ UNCHANGED <<part, goal, from13>>)
  /\ WF_livenessVars(part = "runtime" /\ Runtime!PolicyEnds /\ UNCHANGED <<part, goal, from13>>)
  /\ WF_livenessVars(part = "runtime" /\ Runtime!Drained /\ UNCHANGED <<part, goal, from13>>)
  /\ WF_livenessVars(part = "runtime" /\ Runtime!Close /\ UNCHANGED <<part, goal, from13>>)
  /\ WF_livenessVars(part = "runtime" /\ Runtime!Tick /\ UNCHANGED <<part, goal, from13>>)
  /\ WF_livenessVars(part = "runtime" /\ (Runtime!Poll \/ Runtime!PollFails) /\ UNCHANGED <<part, goal, from13>>)

\* Consumers go on, a crashed one after its restart; the cycle's own calls
\* return, and a statement timeout ends every query of a capture; timers fire.
ShadowFairness ==
  /\ WF_livenessVars(part = "outbox" /\ Outbox!Tick /\ UNCHANGED <<part, goal, from6>>)
  /\ \A c \in {w1, w2} : WF_livenessVars(part = "outbox" /\ Outbox!ConsumerStep(c) /\ UNCHANGED <<part, goal, from6>>)
  /\ WF_livenessVars(part = "evidence" /\ goal = "cycle" /\ Evidence!Cycle /\ UNCHANGED <<part, goal, from11>>)
  /\ WF_livenessVars(part = "quotes" /\ Quotes!Timers /\ UNCHANGED <<part, goal, from10>>)
  /\ WF_livenessVars(part = "quotes" /\ Quotes!Market /\ UNCHANGED <<part, goal, from10>>)
  /\ WF_livenessVars(part = "quotes" /\ Quotes!Tick /\ UNCHANGED <<part, goal, from10>>)

\* Requests are served and answered, intervals and timers fire, reads return or
\* fail, messages arrive, and the repair is run again.
DeskFairness ==
  /\ WF_livenessVars(part = "console" /\ Console!Serve /\ UNCHANGED <<part, goal, from14>>)
  /\ WF_livenessVars(part = "console" /\ Console!Answer /\ UNCHANGED <<part, goal, from14>>)
  /\ WF_livenessVars(part = "lab" /\ Lab!Answers /\ UNCHANGED <<part, goal, from10>>)
  /\ \A r \in {r1, r2} : WF_livenessVars(part = "admission" /\ Admission!Serve(r) /\ UNCHANGED <<part, goal, from8>>)
  /\ \A r \in {r1, r2} : WF_livenessVars(part = "simulate" /\ Simulate!Request(r) /\ UNCHANGED <<part, goal, from10>>)
  /\ WF_livenessVars(part = "spikes" /\ Spikes!Apply /\ UNCHANGED <<part, goal, from3>>)
  /\ WF_livenessVars(part = "drawer" /\ Drawer!Tick /\ UNCHANGED <<part, goal>>)
  /\ WF_livenessVars(part = "drawer" /\ (\E i \in DOMAIN x5 : Drawer!Read(i)) /\ UNCHANGED <<part, goal>>)
  /\ WF_livenessVars(part = "drawer" /\ (\E i \in DOMAIN x5 : Drawer!Push(i)) /\ UNCHANGED <<part, goal>>)
  /\ WF_livenessVars(part = "drawer" /\ Drawer!Receive /\ UNCHANGED <<part, goal>>)
  /\ WF_livenessVars(part = "drawer" /\ Drawer!RefreshBotDetail(b1) /\ UNCHANGED <<part, goal>>)
  /\ WF_livenessVars(part = "drawer" /\ (\E i \in DOMAIN x16 : Drawer!DetailRead(i)) /\ UNCHANGED <<part, goal>>)
  /\ WF_livenessVars(part = "drawer" /\ (\E i \in DOMAIN x16 : Drawer!DetailAnswer(i)) /\ UNCHANGED <<part, goal>>)
  /\ WF_livenessVars(part = "board" /\ Board!Tick /\ UNCHANGED <<part, goal>>)
  /\ WF_livenessVars(part = "board" /\ (\E i \in DOMAIN x5 : Board!Read(i)) /\ UNCHANGED <<part, goal>>)
  /\ WF_livenessVars(part = "board" /\ (\E i \in DOMAIN x5 : Board!Push(i)) /\ UNCHANGED <<part, goal>>)
  /\ WF_livenessVars(part = "board" /\ Board!Receive /\ UNCHANGED <<part, goal>>)
  /\ WF_livenessVars(part = "board" /\ Board!RefreshBotDetail(b1) /\ UNCHANGED <<part, goal>>)
  /\ WF_livenessVars(part = "board" /\ (\E i \in DOMAIN x16 : Board!DetailRead(i)) /\ UNCHANGED <<part, goal>>)
  /\ WF_livenessVars(part = "board" /\ (\E i \in DOMAIN x16 : Board!DetailAnswer(i)) /\ UNCHANGED <<part, goal>>)

LivenessSpec ==
  /\ LivenessInit /\ [][LivenessNext]_livenessVars
  /\ DurableFairness /\ RetryFairness /\ RuntimeFairness /\ ShadowFairness /\ DeskFairness
-----------------------------------------------------------------------------
\* What the chain decided reaches the books, through any crash, lost reply, failed
\* accounting, pause or stop (runBot, resumeExecutionAttempt).  It is
\* asked of one of the two interchangeable rows.
OutcomeIsBooked ==
  part = "durable" /\ x6[e1] = "open" /\ x10[e1] \in {"success", "reverted"}
    ~> part = "durable" /\ x6[e1] \in Durable!Terminal

\* What waits: a symbol with a fresh price, an attempt nobody runs, a worker that
\* shuts down, a captured job, an hour's cycle with room for its captures, a
\* scheduled capture, a bot to compare, a button, a question, a wallet's lock
\* and a request.
Waiting ==
  \/ part = "runtime" /\ goal = "price" /\ sol \in x1
  \/ part = "runtime" /\ goal = "attempt" /\ b1 \in x10
  \/ part = "runtime" /\ goal = "shutdown" /\ x12 = "draining"
  \/ part = "outbox" /\ x1[1].status # "absent"
  \/ part = "evidence" /\ goal = "cycle" /\ x6.running /\ Len(x7) = 0
  \/ part = "evidence" /\ goal = "capture" /\ Len(x7) > 0
  \/ part = "quotes"
  \/ part = "console" /\ x9 # Console!NoKey
  \/ part = "lab" /\ x3
  \/ part = "admission" /\ x4 # Absent
  \/ part = "simulate" /\ x7[r1].at # "new"

\* What has come to its end: the price was taken, the attempt is run, settled or
\* left to the next process, the database is closed, the job is answered or
\* given up, the cycle and the capture are done, the bot was compared once more,
\* the button is released, the question is over, the lock given back, and the
\* request answered.
Over ==
  \/ part = "runtime" /\ goal = "price" /\ sol \notin x1
  \/ part = "runtime" /\ goal = "attempt" /\ (b1 \in x9 \/ b1 \notin x10 \/ x12 # "no")
  \/ part = "runtime" /\ goal = "shutdown" /\ x12 = "closed"
  \/ part = "outbox" /\ x1[1].terminal
  \/ part = "evidence" /\ goal = "cycle" /\ ~x6.running
  \/ part = "evidence" /\ goal = "capture" /\ Len(x7) > 0 /\ Evidence!At(1, "done")
  \/ part = "quotes" /\ x3.task.at = 1
  \/ part = "console" /\ x9 = Console!NoKey
  \/ part = "lab" /\ ~x3
  \/ part = "admission" /\ x4 = Absent
  \/ part = "simulate" /\ x7[r1].at = "answered"

\* What was begun comes to its end, whatever runs throw, consumers crash,
\* listings fail, locks are held and answers are overtaken.
WorkEnds == Waiting ~> Over

\* What a page or a repair has come to: the drawer of a board shows the last
\* execution, so does the board when answers do not overtake one another, and
\* a repeated repair finds no spike any more.
Settled ==
  /\ part = "drawer" => (x14[b1] # Drawer!None => Drawer!DrawerTop(b1) = x1[b1].execution)
  /\ part = "board" => (x14[b1] # Board!None => x14[b1].execution = x1[b1].execution)
  /\ part = "spikes" => Spikes!ToRepair = {}

\* Once the worker rests, what is shown and what is kept settles.
ViewsSettle == <>[]Settled
=============================================================================
