--------------------------- MODULE SnapshotHistory ---------------------------
(***************************************************************************)
(* The portfolio's history (apps/worker/src/portfolio-snapshots.ts) and    *)
(* its retention (runtime-maintenance.ts).  Every five minutes the worker  *)
(* sums the newest state of every bot into one row.  At its start it first *)
(* rebuilds, from the states still stored, the rows of the time before the *)
(* first one; then it takes a row and runs the maintenance, which deletes  *)
(* old states (but each bot's newest) and old rows.  Bots write states all *)
(* the while, and the worker may crash or any step may fail.               *)
(*                                                                         *)
(* One mode; every write happens at an instant of its own.  A state holds  *)
(* the realized and the unrealized profit.                                 *)
(***************************************************************************)
EXTENDS Integers, FiniteSets, FiniteSetsExt

CONSTANTS
  Bots,
  Bucket,      \* five minutes
  Every,       \* time between maintenances
  StateKeep,   \* retention of states
  RowKeep,     \* retention of rows
  MaxTime,     \* bound: the clock
  MaxFaults    \* bound: crashes and failures
HistoryAssumption ==
  /\ IsFiniteSet(Bots)
  /\ {Bucket, Every, StateKeep, RowKeep, MaxTime} \subseteq Nat \ {0}
  /\ MaxFaults \in Nat

VARIABLES
  now,
  log,       \* history: every state ever written
  states,    \* the states still stored
  archived,  \* per bot, when it was archived, or Never
  rows,      \* portfolio_snapshots
  worker,    \* what the worker's start is at
  nextSnap,  \* when the snapshot timer fires
  snap,      \* a snapshot between its two reads
  started,   \* lastMaintenanceStartedAt
  kept,      \* a maintenance between its read and its transaction
  faults     \* how often something failed

vars == <<now, log, states, archived, rows, worker, nextSnap, snap, started, kept, faults>>

Never == MaxTime + 1
NoSnap == [at |-> Never, gone |-> {}]
NoKept == [at |-> Never, ids |-> {}]

StatesOf(S, b, t) == {s \in S : s.bot = b /\ s.at <= t}
Seen(S, t) == {b \in Bots : StatesOf(S, b, t) # {}}
Newest(S, b, t) == CHOOSE s \in StatesOf(S, b, t) : \A u \in StatesOf(S, b, t) : u.at <= s.at

Init ==
  /\ now = 0
  /\ log = {} /\ states = {}
  /\ archived = [b \in Bots |-> Never]
  /\ rows = {}
  /\ worker = "down"
  /\ nextSnap = 0
  /\ snap = NoSnap
  /\ started = -Every
  /\ kept = NoKept
  /\ faults = 0

Fault == faults < MaxFaults /\ faults' = faults + 1

-----------------------------------------------------------------------------
(* The bots.                                                               *)

\* A run, or a route, writes a state: after a sale, or with a lot open.
WriteState(b) ==
  /\ now < MaxTime /\ archived[b] = Never
  /\ \E gain \in {0, 1} :
       LET before == IF b \in Seen(log, now) THEN Newest(log, b, now).real ELSE 0
           s == [bot |-> b, at |-> now + 1, real |-> before + 1 - gain, unreal |-> gain]
       IN  log' = log \cup {s} /\ states' = states \cup {s}
  /\ now' = now + 1
  /\ UNCHANGED <<archived, rows, worker, nextSnap, snap, started, kept, faults>>

Archive(b) ==
  /\ now < MaxTime /\ archived[b] = Never
  /\ archived' = [archived EXCEPT ![b] = now + 1]
  /\ now' = now + 1
  /\ UNCHANGED <<log, states, rows, worker, nextSnap, snap, started, kept, faults>>

\* The position holds what the bot's last state said.
PositionTotal(b) == LET s == Newest(log, b, now) IN s.real + s.unreal

-----------------------------------------------------------------------------
(* The rows.                                                               *)

\* One row's sums: an archived bot counts what it ended with, as realized.
RealizedOf(S, t, gone) ==
  SumFunction([b \in Seen(S, t) |-> IF b \in gone THEN PositionTotal(b) ELSE Newest(S, b, t).real])
UnrealizedOf(S, t, gone) ==
  SumFunction([b \in Seen(S, t) \ gone |-> Newest(S, b, t).unreal])
Row(S, t, gone, at, kind) ==
  [kind |-> kind, at |-> at, real |-> RealizedOf(S, t, gone),
   total |-> RealizedOf(S, t, gone) + UnrealizedOf(S, t, gone)]

ArchivedBy(t) == {b \in Bots : archived[b] <= t}

\* createPortfolioSnapshot reads the bots, then their newest states, and dates
\* the row with its start.
SnapBots ==
  /\ \/ worker = "snapshot"
     \/ worker = "up" /\ nextSnap <= now
  /\ snap = NoSnap
  /\ snap' = [at |-> now, gone |-> ArchivedBy(now)]
  /\ nextSnap' = IF worker = "up" THEN now + Bucket ELSE nextSnap
  /\ UNCHANGED <<now, log, states, archived, rows, worker, started, kept, faults>>

SnapWrite ==
  /\ snap # NoSnap
  /\ rows' = rows \cup {Row(states, now, snap.gone, snap.at, "live")}
  /\ snap' = NoSnap
  /\ worker' = IF worker = "snapshot" THEN "maintain" ELSE worker
  /\ UNCHANGED <<now, log, states, archived, nextSnap, started, kept, faults>>

\* safeCreatePortfolioSnapshots reports a failure and goes on.
SnapFails ==
  /\ snap # NoSnap
  /\ snap' = NoSnap
  /\ worker' = IF worker = "snapshot" THEN "maintain" ELSE worker
  /\ Fault
  /\ UNCHANGED <<now, log, states, archived, rows, nextSnap, started, kept>>

FloorToBucket(t) == (t \div Bucket) * Bucket
Earliest == Min({s.at : s \in states})
\* The oldest row is as old as the first bucket.
Covered == rows # {} /\ Min({r.at : r \in rows}) <= FloorToBucket(Earliest)

\* The rollup of one bucket, from the states of its time.
Rebuilt(t) == Row(states, t, ArchivedBy(t), t, "backfill")

Buckets == {t \in FloorToBucket(Earliest)..FloorToBucket(now) :
              t % Bucket = 0 /\ Seen(states, t) # {}}

\* ON CONFLICT DO NOTHING: a bucket keeps the row it was given.
Missing(t) == \A r \in rows : r.kind = "backfill" => r.at # t

Backfill ==
  /\ worker = "backfill"
  /\ rows' = IF states = {} \/ Covered THEN rows
             ELSE rows \cup {Rebuilt(t) : t \in {u \in Buckets : Missing(u)}}
  /\ worker' = "snapshot"
  /\ UNCHANGED <<now, log, states, archived, nextSnap, snap, started, kept, faults>>

BackfillFails ==
  /\ worker = "backfill"
  /\ worker' = "snapshot"
  /\ Fault
  /\ UNCHANGED <<now, log, states, archived, rows, nextSnap, snap, started, kept>>

-----------------------------------------------------------------------------
(* The maintenance.                                                        *)

NewestOfEach == {Newest(states, b, now) : b \in Seen(states, now)}

\* The time of this try is remembered whatever comes of it.
MaintainStart ==
  /\ worker \in {"maintain", "up"} /\ kept = NoKept
  /\ IF now - started < Every THEN kept' = kept /\ started' = started
     ELSE kept' = [at |-> now, ids |-> NewestOfEach] /\ started' = now
  /\ worker' = IF kept' = NoKept THEN "up" ELSE worker
  /\ nextSnap' = IF worker = "maintain" THEN now + Bucket ELSE nextSnap
  /\ UNCHANGED <<now, log, states, archived, rows, snap, faults>>

MaintainDelete ==
  /\ kept # NoKept
  /\ states' = {s \in states : s.at >= kept.at - StateKeep \/ s \in kept.ids}
  /\ rows' = {r \in rows : r.at >= kept.at - RowKeep}
  /\ kept' = NoKept
  /\ worker' = "up"
  /\ UNCHANGED <<now, log, archived, nextSnap, snap, started, faults>>

\* The transaction fails as a whole; the next try is six hours away.
MaintainFails ==
  /\ kept # NoKept
  /\ kept' = NoKept
  /\ worker' = "up"
  /\ Fault
  /\ UNCHANGED <<now, log, states, archived, rows, nextSnap, snap, started>>

-----------------------------------------------------------------------------

Start ==
  /\ worker = "down"
  /\ worker' = "backfill"
  /\ UNCHANGED <<now, log, states, archived, rows, nextSnap, snap, started, kept, faults>>

\* What the process held is gone, the time of its last maintenance too.
Crash ==
  /\ worker # "down"
  /\ worker' = "down"
  /\ snap' = NoSnap /\ kept' = NoKept
  /\ nextSnap' = 0 /\ started' = -Every
  /\ Fault
  /\ UNCHANGED <<now, log, states, archived, rows>>

Tick ==
  /\ now < MaxTime
  /\ now' = now + 1
  /\ UNCHANGED <<log, states, archived, rows, worker, nextSnap, snap, started, kept, faults>>

Next ==
  \/ \E b \in Bots : WriteState(b) \/ Archive(b)
  \/ SnapBots \/ SnapWrite \/ SnapFails
  \/ Backfill \/ BackfillFails
  \/ MaintainStart \/ MaintainDelete \/ MaintainFails
  \/ Start \/ Crash \/ Tick

Spec == Init /\ [][Next]_vars

-----------------------------------------------------------------------------
(* Properties.                                                             *)

\* The variables have their types; what is stored was written.
TypeOK ==
  /\ now \in 0..MaxTime
  /\ states \subseteq log
  /\ \A s \in log : s.bot \in Bots /\ s.at \in 1..now
  /\ archived \in [Bots -> 1..now \cup {Never}]
  /\ \A r \in rows : r.kind \in {"live", "backfill"} /\ r.at \in 0..now
  /\ worker \in {"down", "backfill", "snapshot", "maintain", "up"}
  /\ snap.at \in 0..now \cup {Never} /\ kept.at \in 0..now \cup {Never}
  /\ kept.ids \subseteq log
  /\ faults \in 0..MaxFaults

\* A bot's newest state is what its next run starts from: the maintenance never
\* deletes it, however old it is and whatever is written between the
\* maintenance's read and its deletions.
NewestStateIsKept == \A b \in Seen(log, now) : Newest(log, b, now) \in states

\* The whole profit at an instant, from every state ever written.
ProfitAt(t) ==
  SumFunction([b \in Seen(log, t) |-> Newest(log, b, t).real + Newest(log, b, t).unreal])
\* Every state an instant's sum needs is still stored.
Whole(t) == \A b \in Seen(log, t) : Newest(log, b, t) \in states

\* A new row's total is the profit the bots had: a rebuilt one's at its bucket,
\* as far as the states of that time are still stored; a live one's at an
\* instant between its date and its write.  Archiving moves profit inside a
\* row and changes no total.
RowsTellTheProfit ==
  \A r \in rows' \ rows :
    IF r.kind = "backfill" THEN Whole(r.at) => r.total = ProfitAt(r.at)
    ELSE \E t \in r.at..now : r.total = ProfitAt(t)

\* However often the worker restarts, a bucket is rebuilt once.
OneRebuiltRowPerBucket ==
  \A r, q \in rows : r.kind = "backfill" /\ q.kind = "backfill" /\ r.at = q.at => r = q

\* After a start whose backfill worked the history reaches back to the first
\* bucket of the states, also when an earlier backfill had failed and live rows
\* were written since.
BackfillReachesBack ==
  worker = "backfill" /\ worker' = "snapshot" /\ Backfill /\ states # {} /\ Buckets # {} =>
    \E r \in rows' : r.at <= FloorToBucket(Earliest) + Bucket

-----------------------------------------------------------------------------
(* What makes the properties inductive.                                    *)

\* A bot writes one state an instant.
OneStateAnInstant == \A s, u \in log : s.at = u.at => s = u

IsNewest(s) == \A u \in log : u.bot = s.bot => u.at <= s.at

\* Every bot's newest state is stored,
NewestIsStored == \A b \in Seen(log, now) : \E s \in states : s.bot = b /\ IsNewest(s)

\* and a maintenance keeps it, unless it is newer than its read.
MaintenanceKeepsNewest ==
  kept # NoKept =>
    /\ kept.at \in 0..now
    /\ \A s \in states : IsNewest(s) /\ s.at <= kept.at => s \in kept.ids

StoredInv ==
  /\ TypeOK /\ NewestStateIsKept /\ OneRebuiltRowPerBucket
  /\ OneStateAnInstant /\ NewestIsStored /\ MaintenanceKeepsNewest
  /\ snap # NoSnap => snap.at \in 0..now

\* Profits are whole numbers, and an archived bot writes no more: what it ended
\* with is what it had.
ProfitsAreWhole == \A s \in log : s.real \in Int /\ s.unreal \in Int
ArchivedIsQuiet == \A s \in log : s.at <= archived[s.bot]

HistoryInv == StoredInv /\ ProfitsAreWhole /\ ArchivedIsQuiet
=============================================================================
