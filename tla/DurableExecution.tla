-------------------------- MODULE DurableExecution --------------------------
(***************************************************************************)
(* The durable execution protocol of the grid-trading engine: how a worker *)
(* process turns a trading decision into exactly one swap on the chain and *)
(* exactly one entry in the books, whatever crashes, lost replies and      *)
(* operator actions come in between.                                       *)
(*                                                                         *)
(*   BotEngineService.runBot / resumeExecutionAttempt   the worker's steps *)
(*   PrismaTradeRepository.prepareExecutionAttempt,                        *)
(*     saveExecutionResult, commitExecution             the transactions   *)
(*   PrismaBotStateRepository                           lock, snapshots    *)
(*   JupiterExecutionAdapter                            the submission     *)
(*   pause / stop / resume / PATCH routes               the operator       *)
(*                                                                         *)
(* One database transaction is one action.  Every await outside a          *)
(* transaction separates two actions.                                      *)
(***************************************************************************)
EXTENDS Naturals

CONSTANTS
    Bots,         \* bots that trade through durable attempts
    LiveBots,     \* those that spend the one live wallet; the others are paper
    BandBots,     \* those attached to a portfolio grid band; the others are legacy
    Workers,      \* worker processes
    Execs,        \* execution rows that may be created
    NoExec,       \* "this bot has no unsettled attempt"
    NoBot,        \* "this execution row does not exist yet"
    NoWorker,     \* "nobody holds this advisory lock"
    Halts,        \* the halts the operator asks for: paused, stopped or both
    MayLoseLock,  \* can the session that holds the advisory lock die?
    MaxCrashes    \* bound: worker crashes

ASSUME BotsAssumption == LiveBots \subseteq Bots /\ BandBots \subseteq Bots
\* A legacy paper bot takes the non-durable path of executeConfirmedSignal.
ASSUME DurableAssumption == Bots = LiveBots \cup BandBots
ASSUME NullsAssumption == NoExec \notin Execs /\ NoBot \notin Bots /\ NoWorker \notin Workers
ASSUME HaltsAssumption == Halts \subseteq {"paused", "stopped"}
ASSUME BoundsAssumption == MayLoseLock \in BOOLEAN /\ MaxCrashes \in Nat

OperatorStatuses == {"paused", "stopped"}
\* "active" stands for running, cooldown and out_of_range.
Statuses == {"active", "error"} \cup OperatorStatuses

\* "unpriced": still unknown, but with Jupiter's confirmed Success response
\* saved, waiting only for the fee metadata of the transaction.
Unresolved == {"unknown", "unpriced"}
Terminal == {"filled", "failed"}
Results == {"none"} \cup Unresolved \cup Terminal

ChainStates == {"unsent", "inflight", "success", "reverted", "expired"}
Submitted == {"inflight", "success", "reverted"}

Labels == {"idle", "read", "snapshot", "pending", "recover", "prepare", "passive",
           "mark", "check", "send", "await", "save", "commit", "reread", "resnapshot",
           "catch", "release"}

\* The aggregate a run works from. "fresh" is the outcome of comparing
\* latestState.id with the newest snapshot row.
Views == [status : Statuses, lots : SUBSET Execs, snap : SUBSET Execs,
          fresh : BOOLEAN, recovery : BOOLEAN]

\* The attempt a run carries: the row as it was read, and the report in memory.
Attempts == [exec : Execs \cup {NoExec}, prev : Results, unc : BOOLEAN,
             txid : BOOLEAN, rep : Results]

NullView == [status |-> "active", lots |-> {}, snap |-> {},
             fresh |-> FALSE, recovery |-> FALSE]
NullAttempt == [exec |-> NoExec, prev |-> "none", unc |-> FALSE,
                txid |-> FALSE, rep |-> "none"]

VARIABLES
    status,     \* bots.status
    lots,       \* position_lots, as the set of fills that produced them
    snap,       \* the fills that the balances of the newest snapshot account for
    attempt,    \* execution_attempts: at most one row per bot
    owner,      \* executions.botId
    ledger,     \* executions: "none", "open" (completedAt null) or the outcome
    result,     \* execution_attempts.result
    uncertain,  \* execution_attempts.uncertain
    txid,       \* is the transaction id of the attempt known?
    chain,      \* what became of the signed transaction
    lock,       \* session advisory lock of each bot
    pc,         \* where each run is
    view,       \* the aggregate each run has read
    held,       \* the attempt each run carries
    resuming,   \* legacy resume requests: the snapshot read, not yet written back
    crashes     \* crashes so far

books == <<lots, snap>>
attempts == <<attempt, owner, ledger, result, uncertain, txid>>
locals == <<pc, view, held>>
vars == <<status, books, attempts, chain, lock, locals, resuming, crashes>>

TypeOK ==
    /\ status \in [Bots -> Statuses]
    /\ lots \in [Bots -> SUBSET Execs]
    /\ snap \in [Bots -> SUBSET Execs]
    /\ attempt \in [Bots -> Execs \cup {NoExec}]
    /\ owner \in [Execs -> Bots \cup {NoBot}]
    /\ ledger \in [Execs -> {"none", "open"} \cup Terminal]
    /\ result \in [Execs -> Results]
    /\ uncertain \in [Execs -> BOOLEAN]
    /\ txid \in [Execs -> BOOLEAN]
    /\ chain \in [Execs -> ChainStates]
    /\ lock \in [Bots -> Workers \cup {NoWorker}]
    /\ pc \in [Workers -> [Bots -> Labels]]
    /\ view \in [Workers -> [Bots -> Views]]
    /\ held \in [Workers -> [Bots -> Attempts]]
    /\ resuming \in [Bots -> SUBSET (SUBSET Execs)]
    /\ crashes \in 0..MaxCrashes

Init ==
    /\ status \in [Bots -> {"active", "paused"}]
    /\ lots = [b \in Bots |-> {}]
    /\ snap = [b \in Bots |-> {}]
    /\ attempt = [b \in Bots |-> NoExec]
    /\ owner = [e \in Execs |-> NoBot]
    /\ ledger = [e \in Execs |-> "none"]
    /\ result = [e \in Execs |-> "none"]
    /\ uncertain = [e \in Execs |-> FALSE]
    /\ txid = [e \in Execs |-> FALSE]
    /\ chain = [e \in Execs |-> "unsent"]
    /\ lock = [b \in Bots |-> NoWorker]
    /\ pc = [w \in Workers |-> [b \in Bots |-> "idle"]]
    /\ view = [w \in Workers |-> [b \in Bots |-> NullView]]
    /\ held = [w \in Workers |-> [b \in Bots |-> NullAttempt]]
    /\ resuming = [b \in Bots |-> {}]
    /\ crashes = 0

-----------------------------------------------------------------------------
(* Helpers                                                                 *)

Goto(w, b, label) == pc' = [pc EXCEPT ![w][b] = label]

\* The callback is left: what the run had in memory no longer matters.
Leave(w, b, label) ==
    /\ Goto(w, b, label)
    /\ view' = [view EXCEPT ![w][b] = NullView]
    /\ held' = [held EXCEPT ![w][b] = NullAttempt]

\* (Faulty form: the engine's own status always wins.)
overwriteOperatorStatus(current, proposed) == proposed

\* Every write of the engine to bots.status keeps a pause or a stop.
preserveOperatorStatus(current, proposed) ==
    IF current \in OperatorStatuses THEN current ELSE proposed

SetStatus(b, proposed) ==
    status' = [status EXCEPT ![b] = preserveOperatorStatus(@, proposed)]

\* A new snapshot row: every aggregate of the bot in views is now behind.
createSnapshot(b, s, views) ==
    /\ snap' = [snap EXCEPT ![b] = s]
    /\ view' = [w \in Workers |-> [views[w] EXCEPT ![b].fresh = FALSE]]

\* (Faulty form: the uncertain column is not read back.)
restoreAttemptAsNew(e) ==
    [exec |-> e, prev |-> result[e], unc |-> FALSE, txid |-> txid[e], rep |-> result[e]]

\* The attempt row as restoreAttempt hands it to the engine.
restoreAttempt(e) ==
    [exec |-> e, prev |-> result[e], unc |-> uncertain[e],
     txid |-> txid[e], rep |-> result[e]]

\* (Faulty form: a status that no reader of the attempt expects.)
MarkerSubmitted(prev) == "submitted"

\* The marker keeps the previous raw report, so a saved Success survives it.
Marker(prev) == IF prev = "unpriced" THEN "unpriced" ELSE "unknown"

\* (Faulty form: the latest failure report is believed.)
BelieveFailure(unc, rep) == rep

\* A failure reported for a transaction that may have been sent before proves
\* nothing about the earlier submission.
Downgrade(unc, rep) == IF unc /\ rep = "failed" THEN "unknown" ELSE rep

\* (Faulty form: only the bot's own attempt blocks it.)
NoOtherLiveAttempt(b) == FALSE

OtherLiveAttempt(b) ==
    b \in LiveBots /\ \E c \in LiveBots \ {b} : attempt[c] # NoExec

-----------------------------------------------------------------------------
(* The worker: from the lock to a decision                                 *)

\* The price poller's scheduler runs a listed bot, or the recovery poller runs
\* one that has an attempt; runningBotIds and the advisory lock let one in.
StartRun(w, b) ==
    /\ pc[w][b] = "idle"
    /\ lock[b] = NoWorker
    /\ \E recovery \in BOOLEAN :
         /\ IF recovery THEN attempt[b] # NoExec
                        ELSE status[b] \notin OperatorStatuses \/ attempt[b] # NoExec
         /\ view' = [view EXCEPT ![w][b].recovery = recovery]
    /\ lock' = [lock EXCEPT ![b] = w]
    /\ Goto(w, b, "read")
    /\ UNCHANGED <<status, books, attempts, chain, held, resuming, crashes>>

\* (Faulty form: lots are carried over from the previous read of the run.)
getBotAggregateKeepingLots(w, b) ==
    view' = [view EXCEPT ![w][b] = [@ EXCEPT !.status = status[b]]]

\* The aggregate is read in two queries: first the bot with its lots ...
getBotAggregate(w, b) ==
    view' = [view EXCEPT ![w][b] = [@ EXCEPT !.status = status[b], !.lots = lots[b]]]

\* ... then the newest snapshot.
findLatestBotStateSnapshot(w, b) ==
    view' = [view EXCEPT ![w][b] = [@ EXCEPT !.snap = snap[b], !.fresh = TRUE]]

ReadBot(w, b) ==
    /\ \/ pc[w][b] = "read" /\ Goto(w, b, "snapshot")
       \* executeSellCatchUp: a fresh aggregate for the next sell of the run
       \/ pc[w][b] = "reread" /\ Goto(w, b, "resnapshot")
    /\ getBotAggregate(w, b)
    /\ UNCHANGED <<status, books, attempts, chain, lock, held, resuming, crashes>>

ReadSnapshot(w, b) ==
    /\ pc[w][b] = "snapshot"
    /\ findLatestBotStateSnapshot(w, b)
    /\ Goto(w, b, "pending")
    /\ UNCHANGED <<status, books, attempts, chain, lock, held, resuming, crashes>>

\* A pending attempt comes before any price or any new decision.  Without one a
\* bot read as paused or stopped only gets a passive snapshot; for the others the
\* strategy, the risk rules and the quote guard decide.
Choices(status_) ==
    {"passive", "release"} \cup (IF status_ \in OperatorStatuses THEN {} ELSE {"prepare"})

ResumePending(w, b) ==
    /\ pc[w][b] = "pending"
    /\ attempt[b] # NoExec
    /\ held' = [held EXCEPT ![w][b] = restoreAttempt(attempt[b])]
    /\ Goto(w, b, IF result[attempt[b]] \in Terminal THEN "commit" ELSE "mark")
    /\ UNCHANGED <<status, books, attempts, chain, lock, view, resuming, crashes>>

Decide(w, b) ==
    /\ pc[w][b] = "pending"
    /\ attempt[b] = NoExec
    /\ \E next \in (IF view[w][b].recovery THEN {"release"}
                    ELSE IF view[w][b].status = "error" THEN {"recover"}
                    ELSE Choices(view[w][b].status)) : Goto(w, b, next)
    /\ UNCHANGED <<status, books, attempts, chain, lock, view, held, resuming, crashes>>

\* Error -> Running once a price came, or when none came and the cycle ends.
RecoverStatus(w, b) ==
    /\ pc[w][b] = "recover"
    /\ SetStatus(b, "active")
    /\ \E next \in Choices("active") : Goto(w, b, next)
    /\ UNCHANGED <<books, attempts, chain, lock, view, held, resuming, crashes>>

\* persistPassiveState: balances come from the aggregate, not from the database,
\* and nothing compares that aggregate with the newest snapshot.
PassiveSnapshot(w, b) ==
    /\ pc[w][b] = "passive"
    /\ createSnapshot(b, view[w][b].snap, [view EXCEPT ![w][b] = NullView])
    /\ \E proposed \in (IF view[w][b].status \in OperatorStatuses
                          THEN {view[w][b].status} ELSE {"active", "error"}) :
         SetStatus(b, proposed)
    /\ Goto(w, b, "release")
    /\ UNCHANGED <<lots, attempts, chain, lock, held, resuming, crashes>>

\* risk.nextStatus: the order is blocked and the bot put in error before its
\* passive snapshot.
RiskBlocks(w, b) ==
    /\ pc[w][b] = "prepare"
    /\ SetStatus(b, "error")
    /\ Goto(w, b, "passive")
    /\ UNCHANGED <<books, attempts, chain, lock, view, held, resuming, crashes>>

\* updateRange, the passive snapshot of a legacy bot that recenters, refuses to
\* move the range under a lot, an attempt or a halt that came meanwhile.
RecenterRefused(w, b) ==
    /\ pc[w][b] = "passive"
    /\ b \notin BandBots
    /\ lots[b] # {} \/ attempt[b] # NoExec \/ status[b] \in OperatorStatuses
    /\ Leave(w, b, "catch")
    /\ UNCHANGED <<status, books, attempts, chain, lock, resuming, crashes>>

\* Throttled (shouldPersistPassiveState), or dropped because the band's revision
\* moved on.
PassiveSkipped(w, b) ==
    /\ pc[w][b] = "passive"
    /\ Leave(w, b, "release")
    /\ UNCHANGED <<status, books, attempts, chain, lock, resuming, crashes>>

-----------------------------------------------------------------------------
(* The worker: one durable attempt                                         *)

\* (Faulty form: a pause during quote preparation goes unnoticed.)
MayPrepareHalted(w, b) ==
    ~ OtherLiveAttempt(b) /\ attempt[b] = NoExec /\ view[w][b].fresh

\* The guards of prepareExecutionAttempt that this module decides.
MayPrepare(w, b) ==
    /\ ~ OtherLiveAttempt(b)
    /\ attempt[b] = NoExec
    /\ view[w][b].fresh
    /\ status[b] \notin OperatorStatuses

Prepare(w, b) ==
    /\ pc[w][b] = "prepare"
    /\ MayPrepare(w, b)
    /\ \E e \in Execs, signed \in (IF b \in LiveBots THEN BOOLEAN ELSE {FALSE}) :
         /\ ledger[e] = "none"
         /\ attempt' = [attempt EXCEPT ![b] = e]
         /\ owner' = [owner EXCEPT ![e] = b]
         /\ ledger' = [ledger EXCEPT ![e] = "open"]
         \* A sponsored transaction has no id before the fee payer signs it.
         /\ txid' = [txid EXCEPT ![e] = signed]
         /\ held' = [held EXCEPT ![w][b] =
                       [NullAttempt EXCEPT !.exec = e, !.txid = signed]]
    /\ Goto(w, b, "mark")
    /\ UNCHANGED <<status, books, result, uncertain, chain, lock, view, resuming, crashes>>

\* Another process already prepared one: the engine carries on with that row.
PrepareExisting(w, b) ==
    /\ pc[w][b] = "prepare"
    /\ ~ OtherLiveAttempt(b)
    /\ attempt[b] # NoExec
    /\ held' = [held EXCEPT ![w][b] = restoreAttempt(attempt[b])]
    /\ Goto(w, b, IF result[attempt[b]] \in Terminal THEN "commit" ELSE "mark")
    /\ UNCHANGED <<status, books, attempts, chain, lock, view, resuming, crashes>>

\* The transaction throws: one of the guards, or the fee policy, the capital
\* reservation or the exit commitment.  DuplicateAssetExposureError (bands) ends
\* in a passive snapshot, everything else in the catch clause.
PrepareRefused(w, b) ==
    /\ pc[w][b] = "prepare"
    /\ \/ Leave(w, b, "catch")
       \/ b \in BandBots /\ Goto(w, b, "passive") /\ UNCHANGED <<view, held>>
    /\ UNCHANGED <<status, books, attempts, chain, lock, resuming, crashes>>

\* saveExecutionResult accepts the report unless the attempt is gone or already
\* holds the other outcome.
Accepts(b, e, rep) ==
    /\ attempt[b] = e
    /\ result[e] \in Terminal /\ rep \in Terminal => rep = result[e]

\* (Faulty form: the latest report is stored.)
saveLatestResult(e, rep, unc, known) ==
    /\ result' = [result EXCEPT ![e] = rep]
    /\ uncertain' = [uncertain EXCEPT ![e] = unc \/ rep \notin Terminal]
    /\ txid' = [txid EXCEPT ![e] = @ \/ known]

\* (Faulty form: only outcomes are worth a write.)
saveOutcomeOnly(e, rep, unc, known) ==
    IF rep \notin Terminal
      THEN UNCHANGED <<result, uncertain, txid>>
      ELSE /\ result' = [result EXCEPT ![e] = rep]
           /\ uncertain' = [uncertain EXCEPT ![e] = unc]
           /\ txid' = [txid EXCEPT ![e] = @ \/ known]

\* The write itself: a late unresolved report never erases a terminal one.
saveExecutionResult(e, rep, unc, known) ==
    IF result[e] \in Terminal /\ rep \notin Terminal
      THEN UNCHANGED <<result, uncertain, txid>>
      ELSE /\ result' = [result EXCEPT ![e] = rep]
           /\ uncertain' = [uncertain EXCEPT ![e] = unc \/ rep \notin Terminal]
           /\ txid' = [txid EXCEPT ![e] = @ \/ known]

\* (Faulty form: the chain is never asked.)
NeedsNoCheck(h) == FALSE

\* An attempt that may already have been sent is looked up on the chain first.
NeedsCheck(h) == h.unc /\ h.txid /\ h.prev # "unpriced"

\* The uncertainty marker, written before the bytes may leave the process.
SaveMarker(w, b) ==
    LET h == held[w][b]
    IN  /\ pc[w][b] = "mark"
        /\ IF Accepts(b, h.exec, Marker(h.prev))
             THEN /\ saveExecutionResult(h.exec, Marker(h.prev), TRUE, h.txid)
                  /\ held' = [held EXCEPT ![w][b].rep = Marker(h.prev)]
                  /\ Goto(w, b, IF NeedsCheck(h) THEN "check" ELSE "send")
                  /\ UNCHANGED view
             ELSE /\ UNCHANGED <<result, uncertain, txid>>
                  /\ Leave(w, b, "catch")
        /\ UNCHANGED <<status, books, attempt, owner, ledger, chain, lock, resuming, crashes>>

\* Report rep is now in memory; knowing says whether it names the transaction.
Reported(w, b, rep, knowing) ==
    LET h == held[w][b]
    IN  /\ held' = [held EXCEPT ![w][b] = [h EXCEPT !.rep = rep, !.txid = h.txid \/ knowing]]
        /\ Goto(w, b, "save")

ChainProvesFailure(w, b) ==
    /\ pc[w][b] = "check"
    /\ chain[held[w][b].exec] = "reverted"
    /\ Reported(w, b, "failed", TRUE)
    /\ UNCHANGED <<status, books, attempts, chain, lock, view, resuming, crashes>>

ChainLookupThrows(w, b) ==
    /\ pc[w][b] = "check"
    /\ Reported(w, b, Marker(held[w][b].prev), FALSE)
    /\ UNCHANGED <<status, books, attempts, chain, lock, view, resuming, crashes>>

ChainProvesNothing(w, b) ==
    /\ pc[w][b] = "check"
    /\ Goto(w, b, "send")
    /\ UNCHANGED <<status, books, attempts, chain, lock, view, held, resuming, crashes>>

\* The paper adapter computes the same simulated fill every time.
SimulateFill(w, b) ==
    /\ pc[w][b] = "send"
    /\ b \notin LiveBots
    /\ chain' = [chain EXCEPT ![held[w][b].exec] = "success"]
    /\ Reported(w, b, "filled", FALSE)
    /\ UNCHANGED <<status, books, attempts, lock, view, resuming, crashes>>

Submits(w, b) == pc[w][b] = "send" /\ b \in LiveBots /\ held[w][b].prev # "unpriced"

\* The request never reaches Jupiter, or its answer is not usable.
SendLost(w, b) ==
    /\ Submits(w, b)
    /\ Reported(w, b, "unknown", FALSE)
    /\ UNCHANGED <<status, books, attempts, chain, lock, view, resuming, crashes>>

\* A PRE_BROADCAST code: this request broadcast nothing.
SendRejected(w, b) ==
    /\ Submits(w, b)
    /\ Reported(w, b, Downgrade(held[w][b].unc, "failed"), FALSE)
    /\ UNCHANGED <<status, books, attempts, chain, lock, view, resuming, crashes>>

\* The signed bytes are out. They are the same bytes on every retry, so the
\* chain executes them at most once.
SendAccepted(w, b) ==
    LET e == held[w][b].exec
    IN  /\ Submits(w, b)
        /\ chain' = [chain EXCEPT ![e] = IF @ = "unsent" THEN "inflight" ELSE @]
        /\ Goto(w, b, "await")
        /\ UNCHANGED <<status, books, attempts, lock, view, held, resuming, crashes>>

\* A saved Success is never resubmitted: only its fee metadata is fetched.
FetchFees(w, b) ==
    /\ pc[w][b] = "send"
    /\ b \in LiveBots
    /\ held[w][b].prev = "unpriced"
    /\ \E rep \in {"filled", "unpriced"} : Reported(w, b, rep, TRUE)
    /\ UNCHANGED <<status, books, attempts, chain, lock, view, resuming, crashes>>

ReplyLost(w, b) ==
    /\ pc[w][b] = "await"
    /\ \E knowing \in BOOLEAN : Reported(w, b, "unknown", knowing)
    /\ UNCHANGED <<status, books, attempts, chain, lock, view, resuming, crashes>>

ReplySuccess(w, b) ==
    /\ pc[w][b] = "await"
    /\ chain[held[w][b].exec] = "success"
    /\ \E rep \in {"filled", "unpriced"} : Reported(w, b, rep, TRUE)
    /\ UNCHANGED <<status, books, attempts, chain, lock, view, resuming, crashes>>

\* A definitive failure code with the confirmed error to support it.
ReplyReverted(w, b) ==
    /\ pc[w][b] = "await"
    /\ chain[held[w][b].exec] = "reverted"
    /\ Reported(w, b, Downgrade(held[w][b].unc, "failed"), TRUE)
    /\ UNCHANGED <<status, books, attempts, chain, lock, view, resuming, crashes>>

SaveReport(w, b) ==
    LET h == held[w][b]
    IN  /\ pc[w][b] = "save"
        /\ IF Accepts(b, h.exec, h.rep)
             THEN /\ saveExecutionResult(h.exec, h.rep, h.rep \notin Terminal, h.txid)
                  /\ IF h.rep \in Terminal
                       THEN Goto(w, b, "commit") /\ UNCHANGED <<view, held>>
                       ELSE Leave(w, b, "release")
             ELSE /\ UNCHANGED <<result, uncertain, txid>>
                  /\ Leave(w, b, "catch")
        /\ UNCHANGED <<status, books, attempt, owner, ledger, chain, lock, resuming, crashes>>

\* (Faulty form: a failed execution is credited like a fill.)
WithExecution(fills, h) == fills \cup {h.exec}

\* The set of fills in the books the run writes back: what it read, plus its own.
WithFill(fills, h) == IF h.rep = "filled" THEN fills \cup {h.exec} ELSE fills

\* commitExecution: books, status, ledger and attempt in one transaction.  Lots,
\* balances and metadata were computed from the aggregate of this run.
Commit(w, b) ==
    LET h == held[w][b]
        v == view[w][b]
    IN  /\ pc[w][b] = "commit"
        /\ ledger[h.exec] = "open"
        /\ attempt[b] = h.exec
        /\ result[h.exec] = h.rep
        /\ ledger' = [ledger EXCEPT ![h.exec] = h.rep]
        /\ attempt' = [attempt EXCEPT ![b] = NoExec]
        /\ lots' = [lots EXCEPT ![b] = WithFill(v.lots, h)]
        /\ createSnapshot(b, WithFill(v.snap, h), [view EXCEPT ![w][b] = NullView])
        /\ SetStatus(b, IF v.status \in OperatorStatuses THEN v.status
                        ELSE IF h.rep = "failed" THEN "error" ELSE "active")
        /\ held' = [held EXCEPT ![w][b] = NullAttempt]
        \* A filled sell may be followed by another one in the same run.
        /\ \E next \in {"reread", "release"} :
             /\ next = "reread" => h.rep = "filled"
             /\ Goto(w, b, next)
        /\ UNCHANGED <<owner, result, uncertain, txid, chain, lock, resuming, crashes>>

\* completedAt is set: somebody else settled it.
CommitIgnored(w, b) ==
    /\ pc[w][b] = "commit"
    /\ ledger[held[w][b].exec] # "open"
    /\ Leave(w, b, "release")
    /\ UNCHANGED <<status, books, attempts, chain, lock, resuming, crashes>>

\* No valid accounting mark, no price for the fee, a portfolio settlement that
\* fails, or books that do not match the saved result: everything is rolled back
\* and the saved terminal result waits for the next run.
CommitThrows(w, b) ==
    /\ pc[w][b] = "commit"
    /\ Leave(w, b, "catch")
    /\ UNCHANGED <<status, books, attempts, chain, lock, resuming, crashes>>

\* executeSellCatchUp takes no second look at pending attempts.
RereadSnapshot(w, b) ==
    /\ pc[w][b] = "resnapshot"
    /\ findLatestBotStateSnapshot(w, b)
    /\ \E next \in Choices("active") : Goto(w, b, next)
    /\ UNCHANGED <<status, books, attempts, chain, lock, held, resuming, crashes>>

Catch(w, b) ==
    /\ pc[w][b] = "catch"
    /\ SetStatus(b, "error")
    /\ Goto(w, b, "release")
    /\ UNCHANGED <<books, attempts, chain, lock, view, held, resuming, crashes>>

Release(w, b) ==
    /\ pc[w][b] = "release"
    /\ Leave(w, b, "idle")
    /\ lock' = [lock EXCEPT ![b] = IF @ = w THEN NoWorker ELSE @]
    /\ UNCHANGED <<status, books, attempts, chain, resuming, crashes>>

-----------------------------------------------------------------------------
(* The surroundings                                                        *)

\* The network decides about a submitted transaction.
Land(e) ==
    /\ chain[e] = "inflight"
    /\ \E s \in {"success", "reverted", "expired"} : chain' = [chain EXCEPT ![e] = s]
    /\ UNCHANGED <<status, books, attempts, lock, locals, resuming, crashes>>

\* The blockhash of bytes that were never broadcast runs out.
Expire(e) ==
    /\ chain[e] = "unsent"
    /\ ledger[e] = "open"
    /\ owner[e] \in LiveBots
    /\ chain' = [chain EXCEPT ![e] = "expired"]
    /\ UNCHANGED <<status, books, attempts, lock, locals, resuming, crashes>>

\* The process dies: its memory is gone and its database sessions are closed.
Crash(w) ==
    /\ crashes < MaxCrashes
    /\ \E b \in Bots : pc[w][b] # "idle"
    /\ crashes' = crashes + 1
    /\ pc' = [pc EXCEPT ![w] = [b \in Bots |-> "idle"]]
    /\ view' = [view EXCEPT ![w] = [b \in Bots |-> NullView]]
    /\ held' = [held EXCEPT ![w] = [b \in Bots |-> NullAttempt]]
    /\ lock' = [b \in Bots |-> IF lock[b] = w THEN NoWorker ELSE lock[b]]
    /\ UNCHANGED <<status, books, attempts, chain, resuming>>

\* The session that holds the advisory lock is cut; withBotLock notices only
\* after the callback has finished.
LoseLock(b) ==
    /\ MayLoseLock
    /\ lock[b] # NoWorker
    /\ lock' = [lock EXCEPT ![b] = NoWorker]
    /\ UNCHANGED <<status, books, attempts, chain, locals, resuming, crashes>>

\* Pause and stop clone the newest snapshot under the bot's row lock.
Halt(b, s) ==
    /\ s \in Halts
    /\ status[b] # s
    /\ status' = [status EXCEPT ![b] = s]
    /\ createSnapshot(b, snap[b], view)
    /\ UNCHANGED <<lots, attempts, chain, lock, pc, held, resuming, crashes>>

Pause(b) == Halt(b, "paused")
Stop(b) == Halt(b, "stopped")

\* resumePortfolioBand: under the row lock, and only without an attempt.
ResumeBand(b) ==
    /\ b \in BandBots
    /\ status[b] # "active"
    /\ attempt[b] = NoExec
    /\ status' = [status EXCEPT ![b] = "active"]
    /\ createSnapshot(b, snap[b], view)
    /\ UNCHANGED <<lots, attempts, chain, lock, pc, held, resuming, crashes>>

\* The legacy resume route reads the newest snapshot outside any lock ...
ResumeRead(b) ==
    /\ b \notin BandBots
    /\ status[b] # "active"
    /\ resuming[b] = {}
    /\ resuming' = [resuming EXCEPT ![b] = {snap[b]}]
    /\ UNCHANGED <<status, books, attempts, chain, lock, locals, crashes>>

\* ... and writes its copy and the running status later, without looking again.
ResumeWrite(b) ==
    /\ \E s \in resuming[b] : createSnapshot(b, s, view)
    /\ status' = [status EXCEPT ![b] = "active"]
    /\ resuming' = [resuming EXCEPT ![b] = {}]
    /\ UNCHANGED <<lots, attempts, chain, lock, pc, held, crashes>>

-----------------------------------------------------------------------------
Deciding(w, b) ==
    \/ ReadBot(w, b) \/ ReadSnapshot(w, b) \/ Decide(w, b) \/ RecoverStatus(w, b)
    \/ PassiveSnapshot(w, b) \/ PassiveSkipped(w, b) \/ RiskBlocks(w, b)
    \/ RecenterRefused(w, b)
    \/ Prepare(w, b) \/ PrepareRefused(w, b)

Submitting(w, b) ==
    \/ ResumePending(w, b) \/ PrepareExisting(w, b) \/ SaveMarker(w, b)
    \/ ChainProvesFailure(w, b) \/ ChainLookupThrows(w, b) \/ ChainProvesNothing(w, b)
    \/ SimulateFill(w, b) \/ SendLost(w, b) \/ SendRejected(w, b)
    \/ SendAccepted(w, b) \/ FetchFees(w, b)
    \/ ReplyLost(w, b) \/ ReplySuccess(w, b) \/ ReplyReverted(w, b)
    \/ SaveReport(w, b)

Settling(w, b) ==
    \/ Commit(w, b) \/ CommitIgnored(w, b) \/ CommitThrows(w, b)
    \/ RereadSnapshot(w, b) \/ Catch(w, b) \/ Release(w, b)

RunStep(w, b) == Deciding(w, b) \/ Submitting(w, b) \/ Settling(w, b)

Network == \E e \in Execs : Land(e) \/ Expire(e)

Failure == (\E w \in Workers : Crash(w)) \/ (\E b \in Bots : LoseLock(b))

Operator == \E b \in Bots : \/ Pause(b) \/ Stop(b) \/ ResumeBand(b)
                            \/ ResumeRead(b) \/ ResumeWrite(b)

Next ==
    \/ \E w \in Workers, b \in Bots : StartRun(w, b) \/ RunStep(w, b)
    \/ Network
    \/ Failure
    \/ Operator

Spec == Init /\ [][Next]_vars

-----------------------------------------------------------------------------
(* What the protocol promises                                              *)

Booked(b) == {e \in Execs : owner[e] = b /\ ledger[e] = "filled"}

\* An execution is recorded as filled only if the chain executed it, and as
\* failed only if the chain never did and never will, although the report may
\* be a timeout, a rejection or the reply to a repeated submission
\* (resumeExecutionAttempt, executePreparedSwap).
BooksMatchChain ==
    \A e \in Execs :
        /\ ledger[e] = "filled" => chain[e] = "success"
        /\ ledger[e] = "failed" => chain[e] \notin {"inflight", "success"}

\* The lots of a bot come from exactly its completed fills, each applied once,
\* although commitExecution rewrites all lots from what the run read earlier.
EveryFillBookedOnce == \A b \in Bots : lots[b] = Booked(b)

\* Once the signed bytes may have left the process, the attempt row stays and
\* says so until the outcome is in the books: a restarted worker finds it.
SubmittedIsRecorded ==
    \A e \in Execs :
        ledger[e] = "open" /\ chain[e] \in Submitted =>
            /\ attempt[owner[e]] = e
            /\ result[e] # "none"
            /\ uncertain[e] \/ result[e] \in Terminal

\* The bots of the one live wallet never hold two unsettled attempts between
\* them: each quote is sized from a balance no other signed swap is spending
\* (lockLiveWallet and the count in prepareExecutionAttempt).
OneLiveAuthorisation ==
    \A b, c \in LiveBots : attempt[b] # NoExec /\ attempt[c] # NoExec => b = c

\* "A late timeout from another process must not erase a confirmed result",
\* and neither does a second, different outcome.
KeepsTerminalResults == \A e \in Execs : result[e] \in Terminal => result'[e] = result[e]
TerminalResultKept == [][KeepsTerminalResults]_vars

\* The engine never takes a bot out of the pause or stop an operator put it in,
\* however old the aggregate its status write was computed from is.  Steps of
\* a run are those that move a program counter.
KeepsOperatorStatus ==
    pc' # pc => \A b \in Bots : status[b] \in OperatorStatuses => status'[b] = status[b]
OperatorStatusKept == [][KeepsOperatorStatus]_vars

\* An attempt is created only from the newest balances and the current lots, and
\* never for a bot an operator halted while its quote was being prepared.
NoStalePreparation ==
    [][\A b \in Bots : attempt[b] = NoExec /\ attempt'[b] # NoExec =>
          /\ status[b] \notin OperatorStatuses
          /\ \E w \in Workers : /\ pc[w][b] = "prepare" /\ pc'[w][b] # "prepare"
                                /\ view[w][b].snap = snap[b]
                                /\ view[w][b].lots = lots[b]]_vars

\* The balances of the newest snapshot, from which the next order is sized,
\* account for exactly the fills in the lots, whoever wrote that snapshot: a
\* commit, a passive observation, a pause, a stop or a resume.
BalancesIncludeFills == \A b \in Bots : snap[b] = Booked(b)

\* Workers, markers, retries and crashes together do no more than authorise one
\* swap at a time and book what the chain did with it, once.
Settlement == INSTANCE ExactlyOnceSettlement WITH
    outcome <- ledger,
    executed <- {e \in Execs : chain[e] = "success"},
    book <- lots

SettlesExactlyOnce == Settlement!Spec

-----------------------------------------------------------------------------
(* Progress: what is asked again and again is answered in the end.         *)

\* A lookup tells what the chain decided about the bytes,
LookupTells(w, b) ==
    \/ ChainProvesFailure(w, b)
    \/ ChainProvesNothing(w, b) /\ chain[held[w][b].exec] # "reverted"

\* a request reaches Jupiter, or the RPC node that knows the fees,
RequestArrives(w, b) == SendAccepted(w, b) \/ (FetchFees(w, b) /\ held'[w][b].rep = "filled")

\* and its reply comes back with what the chain decided.
ReplyTells(w, b) == ReplyReverted(w, b) \/ (ReplySuccess(w, b) /\ held'[w][b].rep = "filled")
=============================================================================
