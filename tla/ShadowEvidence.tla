--------------------------- MODULE ShadowEvidence ----------------------------
(***************************************************************************)
(* What the shadow experiment keeps of every closed hour: the portfolio    *)
(* manager decides, and beside it, on a database client of its own with    *)
(* one connection, freezes the observation (the state in one view, the     *)
(* decision, the costs of the fills seen so far) and later what became of  *)
(* the decision.  Fills, retries of an hour, failures and restarts go on   *)
(* meanwhile.                                                              *)
(*                                                                         *)
(* An hour is observed when it opens, so a fill of hour h comes after the  *)
(* observation of h.  A state is its version.                              *)
(***************************************************************************)
EXTENDS Integers, Sequences, FiniteSets, FiniteSetsExt

CONSTANTS
  Bands,
  Auto,        \* bands whose policy may act: paper ones and live ones with autoLive
  Reports,     \* what a fill's report proves, sets of facts
  Window,      \* days of history of a cost profile, in hours
  MinSamples,
  MaxHour, MaxFills, MaxTasks, MaxFaults,   \* bounds
  NoTask, Nothing

Hours == 1..MaxHour
\* What a fill leaves, what a profile of costs is made of, and what is stored of an hour.
FillRow == [id : 1..MaxFills, band : Bands, at : Hours, facts : Reports, size : {"bucket", "other"}]
CostProfile == [samples : SUBSET FillRow, usable : BOOLEAN]
Outcomes == {"none", "applied", "wait", "rejected", "observed_only"}
Observation ==
  [decision : {"wait", "revise"}, profile : CostProfile \cup {Nothing}, cash : Nat, lots : Nat,
   outcome : Outcomes]

EvidenceAssumption ==
  /\ IsFiniteSet(Bands) /\ Auto \subseteq Bands
  /\ {Window, MinSamples, MaxFills, MaxTasks, MaxFaults} \subseteq Nat /\ MaxHour \in Nat \ {0}
  /\ NoTask \notin 1..MaxTasks /\ Nothing \notin CostProfile \cup Observation

VARIABLES
  hour,      \* the clock
  fills,     \* filled live executions of the bands' bots
  version,   \* the portfolio's committed state
  applied,   \* decisions applied to a band in an hour
  recorded,  \* newest hour with a complete policy record, in the system log
  manager,   \* PortfolioManagerService: running, what is left of the cycle, pendingShadow, observed
  task,      \* captures under way, in the order they were scheduled
  conn,      \* who holds the shadow client's connection
  obs,       \* shadow_jev_observations with their engine outcome, by band and hour
  faults

vars == <<hour, fills, version, applied, recorded, manager, task, conn, obs, faults>>

Idle == [running |-> FALSE, hour |-> 1, todo |-> {}, pending |-> <<>>, observed |-> [b \in Bands |-> 0]]

Init ==
  /\ hour = 1 /\ fills = {} /\ version = 0
  /\ applied = [b \in Bands |-> [h \in Hours |-> 0]] /\ recorded = [b \in Bands |-> 0]
  /\ manager = Idle /\ task = <<>> /\ conn = NoTask
  /\ obs = [b \in Bands |-> [h \in Hours |-> Nothing]] /\ faults = 0

Tick ==
  /\ hour < MaxHour /\ hour' = hour + 1
  /\ UNCHANGED <<fills, version, applied, recorded, manager, task, conn, obs, faults>>

\* The engine settles a swap; its notional may be outside the bucket the profile looks at.
Fill(b) ==
  /\ \E n \in 1..MaxFills, r \in Reports, size \in {"bucket", "other"} :
       /\ {f.id : f \in fills} = 1..(n - 1)
       /\ fills' = fills \cup {[id |-> n, band |-> b, at |-> hour, facts |-> r, size |-> size]}
  /\ version' = version + 1
  /\ UNCHANGED <<hour, applied, recorded, manager, task, conn, obs, faults>>

-----------------------------------------------------------------------------
(* Observed costs *)

\* decomposeShadowExecutionCost: a cost is known only when the report proves it.
FeeKnown(f) == {"pair", "totals", "fee"} \subseteq f.facts
DriftKnown(f) == FeeKnown(f) /\ "quote" \in f.facts
NativeKnown(f) == "native" \in f.facts /\ ({"pair", "totals"} \subseteq f.facts \/ "price" \in f.facts)

ReadExecutions(b, asOf) == {f \in fills : f.band = b /\ f.at >= asOf - Window /\ f.at < asOf}
Profile(b, asOf) ==
  LET samples == {f \in ReadExecutions(b, asOf) : f.size = "bucket"}
  IN [samples |-> samples,
      usable |-> /\ Cardinality(samples) >= MinSamples
                 /\ \A f \in samples : FeeKnown(f) /\ DriftKnown(f) /\ NativeKnown(f)]

-----------------------------------------------------------------------------
(* The manager's cycle *)

StartCycle ==
  /\ ~manager.running
  /\ manager' = [manager EXCEPT !.running = TRUE, !.hour = hour, !.todo = Bands, !.pending = <<>>]
  /\ UNCHANGED <<hour, fills, version, applied, recorded, task, conn, obs, faults>>

\* The hour is the one the cycle started in.  It is decided once, also after a restart; an hour only watched is remembered in memory alone.
Due(b) == IF b \in Auto THEN Max({manager.observed[b], recorded[b]}) < manager.hour ELSE manager.observed[b] < manager.hour

Skip(b) ==
  /\ manager.running /\ b \in manager.todo /\ ~Due(b)
  /\ manager' = [manager EXCEPT !.todo = @ \ {b}]
  /\ UNCHANGED <<hour, fills, version, applied, recorded, task, conn, obs, faults>>

Pending(b, decision, outcome) == [band |-> b, hour |-> manager.hour, decision |-> decision, outcome |-> outcome]
Seen(b, shadow, done) ==
  [manager EXCEPT !.todo = @ \ {b}, !.pending = @ \o shadow, !.observed[b] = IF done THEN manager.hour ELSE @]

\* The band is observed without a policy: nothing is applied and nothing recorded.
Watch(b) ==
  /\ manager.running /\ b \in manager.todo \ Auto /\ Due(b)
  /\ \E d \in {"wait", "revise"} : manager' = Seen(b, <<Pending(b, d, "observed_only")>>, TRUE)
  /\ UNCHANGED <<hour, fills, version, applied, recorded, task, conn, obs, faults>>

OutcomeOf(decision, ok) ==
  IF ~ok THEN "rejected" ELSE IF decision = "wait" THEN "wait" ELSE "applied"

\* applyDecision and recordDecision both succeed.
Decide(b) ==
  /\ manager.running /\ b \in manager.todo \cap Auto /\ Due(b)
  /\ \E d \in {"wait", "revise"} :
       /\ manager' = Seen(b, <<Pending(b, d, OutcomeOf(d, TRUE))>>, TRUE)
       /\ applied' = [applied EXCEPT ![b][manager.hour] = IF d = "wait" THEN @ ELSE @ + 1]
       /\ version' = IF d = "wait" THEN version ELSE version + 1
       /\ recorded' = [recorded EXCEPT ![b] = manager.hour]
  /\ UNCHANGED <<hour, fills, task, conn, obs, faults>>

\* The state changed under the decision, or recording failed after it was applied: the hour stays open.
Refused(b) ==
  /\ faults < MaxFaults /\ faults' = faults + 1
  /\ manager.running /\ b \in manager.todo \cap Auto /\ Due(b)
  /\ \/ /\ manager' = Seen(b, <<Pending(b, "revise", OutcomeOf("revise", FALSE))>>, FALSE)
        /\ UNCHANGED <<applied, version>>
     \/ /\ manager' = Seen(b, <<Pending(b, "revise", OutcomeOf("revise", TRUE))>>, FALSE)
        /\ applied' = [applied EXCEPT ![b][manager.hour] = @ + 1] /\ version' = version + 1
  /\ UNCHANGED <<hour, fills, recorded, task, conn, obs>>

\* Stale runtime or candles: an incomplete record, no observation; or the whole cycle throws.
Unobserved(b) ==
  /\ faults < MaxFaults /\ faults' = faults + 1
  /\ manager.running /\ b \in manager.todo /\ Due(b)
  /\ \E rest \in {manager.todo \ {b}, {}} : manager' = [manager EXCEPT !.todo = rest]
  /\ UNCHANGED <<hour, fills, version, applied, recorded, task, conn, obs>>

New(p) == [band |-> p.band, hour |-> p.hour, decision |-> p.decision, outcome |-> p.outcome,
           at |-> "queued", profile |-> Nothing, cash |-> Nothing, lots |-> Nothing]

\* Captures are scheduled when the cycle is over; none is awaited.
EndCycle ==
  /\ manager.running /\ manager.todo = {}
  /\ Len(task) + Len(manager.pending) <= MaxTasks
  /\ manager' = [manager EXCEPT !.running = FALSE, !.pending = <<>>]
  /\ task' = task \o [i \in DOMAIN manager.pending |-> New(manager.pending[i])]
  /\ UNCHANGED <<hour, fills, version, applied, recorded, conn, obs, faults>>

-----------------------------------------------------------------------------
(* A capture, step by step *)

At(t, stage) == t \in DOMAIN task /\ task[t].at = stage
Go(t, x) == task' = [task EXCEPT ![t] = x]
Rest == UNCHANGED <<hour, fills, version, applied, recorded, manager>>

\* Before the transaction; an error leaves the profile null.
ReadProfile(t) ==
  /\ At(t, "queued") /\ conn = NoTask
  /\ \/ Go(t, [task[t] EXCEPT !.at = "ready", !.profile = Profile(task[t].band, task[t].hour)]) /\ UNCHANGED faults
     \/ Go(t, [task[t] EXCEPT !.at = "ready"]) /\ faults < MaxFaults /\ faults' = faults + 1
  /\ Rest /\ UNCHANGED <<conn, obs>>

\* The first query of the transaction fixes its view.
Begin(t) ==
  /\ At(t, "ready") /\ conn = NoTask /\ conn' = t
  /\ Go(t, [task[t] EXCEPT !.at = "reading", !.cash = version])
  /\ Rest /\ UNCHANGED <<obs, faults>>

\* Fault: the transaction reads what is committed by now.
ReadLotsCommitted(t) ==
  /\ At(t, "reading")
  /\ Go(t, [task[t] EXCEPT !.at = "read", !.lots = version])
  /\ Rest /\ UNCHANGED <<conn, obs, faults>>
\* Later queries see the same view, for the isolation level is repeatable read.
ReadLots(t) ==
  /\ At(t, "reading")
  /\ Go(t, [task[t] EXCEPT !.at = "read", !.lots = task[t].cash])
  /\ Rest /\ UNCHANGED <<conn, obs, faults>>

Frozen(x) == [decision |-> x.decision, profile |-> x.profile, cash |-> x.cash, lots |-> x.lots, outcome |-> "none"]
\* Fault: a later capture of the hour replaces the first.
InsertLast(x) == Frozen(x)
\* ON CONFLICT DO NOTHING on the hash of band and hour.
InsertOnce(x) == IF obs[x.band][x.hour] = Nothing THEN Frozen(x) ELSE obs[x.band][x.hour]
Store(t) ==
  /\ At(t, "read") /\ conn' = NoTask
  /\ obs' = [obs EXCEPT ![task[t].band][task[t].hour] = InsertOnce(task[t])]
  /\ Go(t, [task[t] EXCEPT !.at = "stored"])
  /\ Rest /\ UNCHANGED faults

\* finalizeOutcome: the same outcome again is fine, another one is refused.
RecordOutcome(t) ==
  /\ At(t, "stored") /\ conn = NoTask
  /\ obs' = [obs EXCEPT ![task[t].band][task[t].hour].outcome = IF @ = "none" THEN task[t].outcome ELSE @]
  /\ Go(t, [task[t] EXCEPT !.at = "done"])
  /\ Rest /\ UNCHANGED <<conn, faults>>

\* A query or the wait for the connection times out: logged, and never tried again.
FailTask(t) ==
  /\ faults < MaxFaults /\ faults' = faults + 1
  /\ t \in DOMAIN task /\ task[t].at # "done"
  /\ conn' = IF conn = t THEN NoTask ELSE conn
  /\ Go(t, [task[t] EXCEPT !.at = "done"])
  /\ Rest /\ UNCHANGED obs

\* The worker restarts: what was in memory is gone.
Restart ==
  /\ faults < MaxFaults /\ faults' = faults + 1
  /\ manager' = Idle /\ conn' = NoTask
  /\ task' = [t \in DOMAIN task |-> [task[t] EXCEPT !.at = "done"]]
  /\ UNCHANGED <<hour, fills, version, applied, recorded, obs>>

Cycle == EndCycle \/ \E b \in Bands : Skip(b) \/ Watch(b) \/ Decide(b) \/ Refused(b) \/ Unobserved(b)
Capture(t) == ReadProfile(t) \/ Begin(t) \/ ReadLots(t) \/ Store(t) \/ RecordOutcome(t)
Next ==
  \/ Tick \/ StartCycle \/ Cycle \/ Restart
  \/ \E b \in Bands : Fill(b)
  \/ \E t \in 1..MaxTasks : Capture(t) \/ FailTask(t)

Spec == Init /\ [][Next]_vars

-----------------------------------------------------------------------------
\* The variables stay in their domains.
TypeOK ==
  /\ hour \in Hours /\ conn \in (1..MaxTasks) \cup {NoTask} /\ Len(task) <= MaxTasks
  /\ manager.todo \subseteq Bands /\ \A b \in Bands : recorded[b] \in 0..MaxHour
  /\ \A b \in Bands, h \in Hours : obs[b][h] # Nothing => obs[b][h].outcome \in Outcomes

Observations == {o \in Bands \X Hours : obs[o[1]][o[2]] # Nothing}

\* However late a capture runs, the costs it freezes are of fills the bot had completed before the hour that was
\* observed; a usable profile has enough of them and every cost of each is known.
ProfileIsCausal ==
  \A o \in Observations : LET p == obs[o[1]][o[2]].profile IN p # Nothing =>
    /\ \A f \in p.samples : f.band = o[1] /\ f.at < o[2]
    /\ p.usable => Cardinality(p.samples) >= MinSamples
                   /\ \A f \in p.samples : {"pair", "totals", "fee", "quote", "native"} \subseteq f.facts

\* Cash and lots of one observation belong to one committed state, whatever settles while they are read.
SnapshotIsOneView == \A o \in Observations : obs[o[1]][o[2]].cash = obs[o[1]][o[2]].lots

\* An outcome "applied" was applied, "wait" proposed nothing, and a band that is only watched is never touched.
OutcomeWasReal ==
  \A o \in Observations : LET x == obs[o[1]][o[2]] IN
    /\ x.outcome = "applied" => applied[o[1]][o[2]] > 0
    /\ x.outcome = "observed_only" => o[1] \notin Auto /\ applied[o[1]][o[2]] = 0

\* An observation never changes, and its outcome only from none to one: retries of the hour add nothing.
EvidenceIsFrozen ==
  \A b \in Bands, h \in Hours : obs[b][h] # Nothing =>
    /\ obs'[b][h] # Nothing
    /\ obs[b][h].outcome # "none" => obs'[b][h] = obs[b][h]
    /\ [obs'[b][h] EXCEPT !.outcome = "none"] = [obs[b][h] EXCEPT !.outcome = "none"]

=============================================================================
