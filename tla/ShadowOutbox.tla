---------------------------- MODULE ShadowOutbox ----------------------------
(***************************************************************************)
(* The queue of questions put to the external Jev model: one row of        *)
(* shadow_jev_outbox per captured observation, claimed under a lease by    *)
(* consumer processes (apps/worker/src/shadow-jev-consumer.ts) that may be *)
(* slow, lose the reply of a commit, or die; one immutable row of          *)
(* shadow_jev_attempts per call.                                           *)
(*                                                                         *)
(* Jobs are numbered by observed_at.  Clocks are kept as the time left of  *)
(* a lease (negative: past) and of a retry delay.                          *)
(***************************************************************************)
EXTENDS Integers, FiniteSets

CONSTANTS
  Jobs,          \* observations, ordered by observed_at
  Workers,       \* consumer processes; a restarted one has a new workerId
  Lease,         \* LEASE_MS
  MaxAttempts,   \* MAX_ATTEMPTS
  MaxDelay,      \* the cap of retryDelayMs
  MaxClaims,     \* bound: claims of one job
  MaxFaults      \* bound: crashes, lost replies, failed reads and stalls together

ASSUME OutboxAssumption ==
  /\ Jobs \subseteq Nat
  /\ {Lease, MaxAttempts, MaxDelay, MaxClaims, MaxFaults} \subseteq Nat \ {0}
\* The delays double; the provers know nothing of ^ by themselves.
ASSUME DoublingAssumption == \A n \in 1 .. MaxClaims : 2 ^ (n - 1) \in Nat

VARIABLES
  row,        \* shadow_jev_outbox
  attempts,   \* shadow_jev_attempts by job and attempt_number
  local,      \* what each consumer is doing
  claimant,   \* history: who made the n-th claim of a job
  faults      \* faults so far, up to MaxFaults

vars == <<row, attempts, local, claimant, faults>>

NoWorker == "none"
NoAttempt == [worker |-> NoWorker, status |-> "none"]
Owners == Workers \cup {NoWorker}
Numbers == 1 .. MaxClaims
Statuses == {"absent", "pending", "processing", "completed", "failed"}
Stages == {"idle", "calling", "completing", "failing", "gone"}
Free == [at |-> "idle", job |-> 0, count |-> 0, built |-> FALSE, intime |-> FALSE]

TypeOK ==
  /\ row \in [Jobs -> [status : Statuses, terminal : BOOLEAN, by : Owners,
                       count : 0 .. MaxClaims, lease : -1 .. Lease, delay : 0 .. MaxDelay]]
  /\ attempts \in [Jobs -> [Numbers -> [worker : Owners, status : {"none", "completed", "failed"}]]]
  /\ local \in [Workers -> [at : Stages, job : Jobs \cup {0}, count : 0 .. MaxClaims,
                            built : BOOLEAN, intime : BOOLEAN]]
  /\ claimant \in [Jobs -> [Numbers -> Owners]]
  /\ faults \in 0 .. MaxFaults

Init ==
  /\ row = [j \in Jobs |-> [status |-> "absent", terminal |-> FALSE, by |-> NoWorker,
                            count |-> 0, lease |-> 0, delay |-> 0]]
  /\ attempts = [j \in Jobs |-> [n \in Numbers |-> NoAttempt]]
  /\ local = [w \in Workers |-> Free]
  /\ claimant = [j \in Jobs |-> [n \in Numbers |-> NoWorker]]
  /\ faults = 0
-----------------------------------------------------------------------------
\* capture: observation and outbox row in one transaction; a repeated capture
\* of the same observation finds the row there.
Capture(j) ==
  /\ row' = IF row[j].status = "absent" THEN [row EXCEPT ![j].status = "pending"] ELSE row
  /\ UNCHANGED <<attempts, local, claimant, faults>>

Claimable(j) ==
  \/ row[j].status \in {"pending", "failed"} /\ ~row[j].terminal /\ row[j].delay = 0
  \/ row[j].status = "processing" /\ row[j].lease <= 0

\* An expired lease leaves an attempt behind, unless that number has one.
Abandoned(j) ==
  IF row[j].status = "processing" /\ attempts[j][row[j].count] = NoAttempt
  THEN [attempts[j] EXCEPT ![row[j].count] = [worker |-> row[j].by, status |-> "failed"]]
  ELSE attempts[j]

\* The claiming transaction, for the oldest job that may be claimed.
ClaimRow(w, j) ==
  /\ local[w].at = "idle"
  /\ Claimable(j) /\ \A i \in Jobs : Claimable(i) => j <= i
  /\ row[j].count < MaxClaims
  /\ attempts' = [attempts EXCEPT ![j] = Abandoned(j)]
  /\ row' = [row EXCEPT ![j] = [status |-> "processing", terminal |-> FALSE, by |-> w,
                                count |-> row[j].count + 1, lease |-> Lease, delay |-> row[j].delay]]
  /\ claimant' = [claimant EXCEPT ![j][row[j].count + 1] = w]

\* processOne, up to the call of the model.
Claim(w, j) ==
  /\ ClaimRow(w, j)
  /\ local' = [local EXCEPT ![w] = [at |-> "calling", job |-> j, count |-> row[j].count + 1,
                                    built |-> FALSE, intime |-> FALSE]]
  /\ UNCHANGED faults

\* The rows of the claim cannot be read, or its fine market snapshot is
\* missing or has another hash: processOne throws, the job stays claimed.
ClaimUnread(w, j) ==
  /\ faults < MaxFaults /\ faults' = faults + 1
  /\ ClaimRow(w, j)
  /\ UNCHANGED local

InTime(j) == row[j].lease >= 0
OwnsByCount(w, j) == row[j].count = local[w].count
Owns(w, j) == row[j].status = "processing" /\ row[j].by = w

\* The model answered within the timeout and the answer parsed: complete()
\* takes its time stamp.
Answer(w) ==
  /\ local[w].at = "calling"
  /\ local' = [local EXCEPT ![w] = [@ EXCEPT !.at = "completing", !.built = TRUE, !.intime = InTime(local[w].job)]]
  /\ UNCHANGED <<row, attempts, claimant, faults>>

\* The request could not be built, or the call failed or timed out: fail().
CallFails(w, built) ==
  /\ local[w].at = "calling"
  /\ local' = [local EXCEPT ![w] = [@ EXCEPT !.at = "failing", !.built = built, !.intime = InTime(local[w].job)]]
  /\ UNCHANGED <<row, attempts, claimant, faults>>

Record(j, w, outcome) ==
  attempts' = [attempts EXCEPT ![j][row[j].count] = [worker |-> w, status |-> outcome]]

\* The transaction of complete(): an owner in time writes result and attempt.
Complete(w) ==
  LET j == local[w].job IN
  IF Owns(w, j) /\ local[w].intime
  THEN /\ row' = [row EXCEPT ![j] = [@ EXCEPT !.status = "completed", !.terminal = TRUE,
                                     !.by = NoWorker, !.lease = 0]]
       /\ Record(j, w, "completed")
  ELSE UNCHANGED <<row, attempts>>

CompleteReturns(w) ==
  /\ local[w].at = "completing"
  /\ Complete(w)
  /\ local' = [local EXCEPT ![w] =
       IF Owns(w, local[w].job) /\ local[w].intime THEN Free
       ELSE [@ EXCEPT !.at = "failing", !.intime = InTime(local[w].job)]]
  /\ UNCHANGED <<claimant, faults>>

\* complete() throws, before or after its commit: processClaim calls fail().
CompleteThrows(w) ==
  /\ local[w].at = "completing"
  /\ faults < MaxFaults /\ faults' = faults + 1
  /\ Complete(w) \/ UNCHANGED <<row, attempts>>
  /\ local' = [local EXCEPT ![w] = [@ EXCEPT !.at = "failing", !.intime = InTime(local[w].job)]]
  /\ UNCHANGED claimant

GivesUp(w) == local[w].count >= MaxAttempts \/ ~local[w].built
Shorter(a, b) == IF a < b THEN a ELSE b
RetryDelay(n) == Shorter(MaxDelay, 2 ^ (n - 1))

\* The transaction of fail().
FailRow(w) ==
  LET j == local[w].job IN
  IF Owns(w, j) /\ local[w].intime
  THEN /\ row' = [row EXCEPT ![j] = [@ EXCEPT !.status = "failed", !.terminal = GivesUp(w), !.by = NoWorker,
                    !.lease = 0, !.delay = IF GivesUp(w) THEN 0 ELSE RetryDelay(local[w].count)]]
       /\ Record(j, w, "failed")
  ELSE UNCHANGED <<row, attempts>>

\* Whether it wrote, found its own failure there or lost the lease (a throw
\* that the poll loop logs), the consumer goes back to its loop.
FailReturns(w) ==
  /\ local[w].at = "failing"
  /\ FailRow(w)
  /\ local' = [local EXCEPT ![w] = Free]
  /\ UNCHANGED <<claimant, faults>>

\* The database refuses fail(): the job stays claimed until its lease is over.
FailThrows(w) ==
  /\ local[w].at = "failing"
  /\ faults < MaxFaults /\ faults' = faults + 1
  /\ local' = [local EXCEPT ![w] = Free]
  /\ UNCHANGED <<row, attempts, claimant>>

\* A consumer dies, or is stopped between two jobs; another one is always there.
Die(w) ==
  /\ local[w].at # "gone" /\ \E v \in Workers \ {w} : local[v].at # "gone"
  /\ faults < MaxFaults /\ faults' = faults + 1
  /\ local' = [local EXCEPT ![w] = [Free EXCEPT !.at = "gone"]]
  /\ UNCHANGED <<row, attempts, claimant>>

\* Evaluation is cut off after EVALUATION_TIMEOUT_MS, well within a lease: only
\* a stalled process or database lets a lease run out under its holder.
Overruns == \E w \in Workers :
  local[w].job # 0 /\ Owns(w, local[w].job) /\ row[local[w].job].lease = 1

Tick ==
  /\ IF Overruns THEN faults < MaxFaults /\ faults' = faults + 1 ELSE UNCHANGED faults
  /\ row' = [j \in Jobs |-> [row[j] EXCEPT
       !.lease = IF row[j].status = "processing" /\ @ >= 0 THEN @ - 1 ELSE @,
       !.delay = IF @ > 0 THEN @ - 1 ELSE @]]
  /\ UNCHANGED <<attempts, local, claimant>>

ConsumerStep(w) ==
  \/ \E j \in Jobs : Claim(w, j)
  \/ Answer(w) \/ CallFails(w, TRUE) \/ CallFails(w, FALSE)
  \/ CompleteReturns(w) \/ FailReturns(w)

Fault(w) ==
  \/ \E j \in Jobs : ClaimUnread(w, j)
  \/ CompleteThrows(w) \/ FailThrows(w) \/ Die(w)

Next ==
  \/ \E j \in Jobs : Capture(j)
  \/ \E w \in Workers : ConsumerStep(w) \/ Fault(w)
  \/ Tick

\* A living consumer polls again and again (shadow-jev-main.ts), a call ends
\* within its timeout, and time goes on.
Fairness == WF_vars(Tick) /\ \A w \in Workers : WF_vars(ConsumerStep(w))

Spec == Init /\ [][Next]_vars /\ Fairness
-----------------------------------------------------------------------------
\* Every claim leaves exactly one attempt, under the number of the claim and
\* the identity of the consumer that made it: also a late answer, a takeover
\* after an expired lease or a lost reply never writes another one's attempt.
AttemptsTellClaims ==
  \A j \in Jobs, n \in Numbers :
    /\ attempts[j][n] # NoAttempt <=>
         n <= row[j].count /\ ~(n = row[j].count /\ row[j].status = "processing")
    /\ attempts[j][n] # NoAttempt => attempts[j][n].worker = claimant[j][n]

\* A job is completed by one attempt, its last one, and no other attempt of it
\* ever counts as completed.
CompletedByLastAttempt ==
  \A j \in Jobs :
    {n \in Numbers : attempts[j][n].status = "completed"} =
      IF row[j].status = "completed" THEN {row[j].count} ELSE {}

\* Jobs and attempts agree: what a consumer writes, at whatever time, counts once
\* and for the claim it was made under.
OutboxHolds == TypeOK /\ AttemptsTellClaims /\ CompletedByLastAttempt

\* The abstract queue: every job gets at most one final result.
Result == [j \in Jobs |->
  IF row[j].status = "absent" THEN "absent"
  ELSE IF row[j].status = "completed" THEN "answered"
  ELSE IF row[j].terminal THEN "abandoned" ELSE "open"]
Calls == [j \in Jobs |-> row[j].count]
Queue == INSTANCE OneAnswerQueue WITH result <- Result, calls <- Calls
OneAnswer == Queue!Spec

=============================================================================
