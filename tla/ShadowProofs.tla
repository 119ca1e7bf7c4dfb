---------------------------- MODULE ShadowProofs ----------------------------
(***************************************************************************)
(* What is proved of what a shadow records: its outbox, its evidence and   *)
(* its quotes, for any numbers of jobs, consumers, bands, hours, fills,    *)
(* bots and sizes, and any timers.                                         *)
(*                                                                         *)
(* The outbox: RowTells ties the status of a row to its counter, its       *)
(* holder and the history of claims, and HoldsJob says that a consumer     *)
(* past its claim has a job and a number: an answer is recorded under the  *)
(* row's counter but judged by what the consumer holds.                    *)
(*                                                                         *)
(* The evidence: a claim that a decision was applied is true wherever it   *)
(* is on its way (pending in the manager, in a capture, stored), a profile *)
(* is of completed fills wherever it is kept, and a capture that is about  *)
(* to store has read both halves of one view.                              *)
(*                                                                         *)
(* The quotes: PacerTells bounds, from both sides, what the pacer promised *)
(* the request that waits and what it leaves for the next, also when the   *)
(* request is given up unsent; SweepTells says that what was tried and     *)
(* what is left make up what is to be tried.                               *)
(***************************************************************************)
EXTENDS ShadowParts, Sequences, TLAPS

RowTells(j) ==
  /\ row[j].status \in {"absent", "pending"} => row[j].count = 0 /\ ~row[j].terminal
  /\ row[j].status \in {"processing", "completed", "failed"} => row[j].count \in Numbers
  /\ row[j].status = "processing" =>
       /\ ~row[j].terminal
       /\ row[j].by \in Workers /\ claimant[j][row[j].count] = row[j].by
  /\ row[j].status = "completed" => row[j].terminal

HoldsJob(w) ==
  local[w].at \in {"calling", "completing", "failing"} => local[w].job \in Jobs /\ local[w].count \in Numbers

IInv ==
  /\ TypeOK
  /\ \A j \in Jobs : RowTells(j)
  /\ \A w \in Workers : HoldsJob(w)

LEMMA Constants ==
  /\ Lease \in Nat \ {0} /\ MaxAttempts \in Nat \ {0} /\ MaxDelay \in Nat \ {0}
  /\ MaxClaims \in Nat \ {0} /\ MaxFaults \in Nat \ {0}
BY OutboxAssumption

LEMMA DelayInRange == \A n \in Numbers : RetryDelay(n) \in 0 .. MaxDelay
BY Constants, DoublingAssumption DEF RetryDelay, Shorter, Numbers

\* The shape of a row and of an attempt.
Row == [status : Statuses, terminal : BOOLEAN, by : Owners,
        count : 0 .. MaxClaims, lease : -1 .. Lease, delay : 0 .. MaxDelay]
AttemptRow == [worker : Owners, status : {"none", "completed", "failed"}]
Doing == [at : Stages, job : Jobs \cup {0}, count : 0 .. MaxClaims, built : BOOLEAN, intime : BOOLEAN]

LEMMA Shapes ==
  TypeOK <=> /\ row \in [Jobs -> Row]
             /\ attempts \in [Jobs -> [Numbers -> AttemptRow]]
             /\ local \in [Workers -> Doing]
             /\ claimant \in [Jobs -> [Numbers -> Owners]]
             /\ faults \in 0 .. MaxFaults
BY DEF TypeOK, Row, AttemptRow, Doing

LEMMA ShapesNext ==
  TypeOK' <=> /\ row' \in [Jobs -> Row]
              /\ attempts' \in [Jobs -> [Numbers -> AttemptRow]]
              /\ local' \in [Workers -> Doing]
              /\ claimant' \in [Jobs -> [Numbers -> Owners]]
              /\ faults' \in 0 .. MaxFaults
BY DEF TypeOK, Row, AttemptRow, Doing

\* Changing fields of a record, whatever the sets of their values.
LEMMA RowUpdate ==
  ASSUME NEW S, NEW B, NEW O, NEW N, NEW L, NEW D,
         NEW r \in [status : S, terminal : B, by : O, count : N, lease : L, delay : D],
         NEW s \in S, NEW t \in B, NEW o \in O, NEW l \in L, NEW d \in D
  PROVE  LET q == [r EXCEPT !.status = s, !.terminal = t, !.by = o, !.lease = l, !.delay = d]
         IN  /\ q \in [status : S, terminal : B, by : O, count : N, lease : L, delay : D]
             /\ q.status = s /\ q.terminal = t /\ q.by = o /\ q.count = r.count
OBVIOUS

LEMMA RowUpdateUndelayed ==
  ASSUME NEW S, NEW B, NEW O, NEW N, NEW L, NEW D,
         NEW r \in [status : S, terminal : B, by : O, count : N, lease : L, delay : D],
         NEW s \in S, NEW t \in B, NEW o \in O, NEW l \in L
  PROVE  LET q == [r EXCEPT !.status = s, !.terminal = t, !.by = o, !.lease = l]
         IN  /\ q \in [status : S, terminal : B, by : O, count : N, lease : L, delay : D]
             /\ q.status = s /\ q.terminal = t /\ q.by = o /\ q.count = r.count
OBVIOUS

LEMMA GoneShape ==
  /\ Free \in Doing
  /\ [Free EXCEPT !.at = "gone"] \in Doing /\ [Free EXCEPT !.at = "gone"].at = "gone"
<1>1. Free \in Doing
  BY Constants DEF Free, Doing, Stages
<1>2. ASSUME NEW A, NEW J, NEW N, NEW B, NEW C, NEW a \in A,
             NEW r \in [at : A, job : J, count : N, built : B, intime : C]
      PROVE  [r EXCEPT !.at = a] \in [at : A, job : J, count : N, built : B, intime : C] /\ [r EXCEPT !.at = a].at = a
  OBVIOUS
<1>3. "gone" \in Stages
  BY DEF Stages
<1> QED BY <1>1, <1>2, <1>3 DEF Doing
-----------------------------------------------------------------------------
\* Initially.
LEMMA InitInv == Init => IInv
<1> SUFFICES ASSUME Init PROVE IInv
  OBVIOUS
<1>1. TypeOK
  BY Constants, Shapes
  DEF Init, Row, AttemptRow, Doing, NoAttempt, Owners, Free, Statuses, Stages, Numbers
<1>2. \A j \in Jobs : RowTells(j)
  BY DEF Init, RowTells
<1>3. \A w \in Workers : HoldsJob(w)
  BY DEF Init, HoldsJob, Free
<1> QED BY <1>1, <1>2, <1>3 DEF IInv

LEMMA CaptureInv == ASSUME IInv, NEW i \in Jobs, Capture(i) PROVE IInv'
<1>1. TypeOK'
  BY Shapes, ShapesNext DEF IInv, Capture, Row, Statuses
<1>2. \A j \in Jobs : RowTells(j)'
  BY Shapes DEF IInv, Capture, RowTells, Row
<1>3. \A w \in Workers : HoldsJob(w)'
  BY DEF IInv, Capture, HoldsJob
<1> QED BY <1>1, <1>2, <1>3 DEF IInv

LEMMA AbandonedShape == ASSUME IInv, NEW i \in Jobs PROVE Abandoned(i) \in [Numbers -> AttemptRow]
BY Shapes DEF IInv, RowTells, Abandoned, AttemptRow, Row, Owners, NoAttempt

LEMMA ClaimRowInv ==
  ASSUME IInv, NEW u \in Workers, NEW i \in Jobs, ClaimRow(u, i)
  PROVE  /\ row' \in [Jobs -> Row] /\ attempts' \in [Jobs -> [Numbers -> AttemptRow]]
         /\ claimant' \in [Jobs -> [Numbers -> Owners]]
         /\ row[i].count + 1 \in Numbers
         /\ \A j \in Jobs : RowTells(j)'
<1> USE Constants
<1>1. row[i].count + 1 \in Numbers /\ row[i].count \in 0 .. MaxClaims /\ row[i].delay \in 0 .. MaxDelay
  BY Shapes DEF IInv, ClaimRow, Row, Numbers
<1>2. row' \in [Jobs -> Row]
  <2>1. [status |-> "processing", terminal |-> FALSE, by |-> u,
         count |-> row[i].count + 1, lease |-> Lease, delay |-> row[i].delay] \in Row
    BY <1>1 DEF Row, Statuses, Owners, Numbers
  <2> QED BY <2>1, Shapes DEF IInv, ClaimRow
<1>3. attempts' \in [Jobs -> [Numbers -> AttemptRow]]
  BY AbandonedShape, Shapes DEF IInv, ClaimRow
<1>4. claimant' \in [Jobs -> [Numbers -> Owners]]
  BY <1>1, Shapes DEF IInv, ClaimRow, Owners
<1>5. ASSUME NEW j \in Jobs PROVE RowTells(j)'
  <2>1. CASE j = i
    <3>1. row'[j] = [status |-> "processing", terminal |-> FALSE, by |-> u,
                     count |-> row[i].count + 1, lease |-> Lease, delay |-> row[i].delay]
      BY <2>1, Shapes DEF IInv, ClaimRow
    <3>2. claimant'[j][row[i].count + 1] = u
      BY <1>1, <2>1, Shapes DEF IInv, ClaimRow
    <3> QED BY <1>1, <3>1, <3>2 DEF RowTells
  <2>2. CASE j # i
    <3>1. row'[j] = row[j] /\ claimant'[j] = claimant[j]
      BY <2>2, Shapes DEF IInv, ClaimRow
    <3> QED BY <3>1 DEF IInv, RowTells
  <2> QED BY <2>1, <2>2
<1> QED BY <1>1, <1>2, <1>3, <1>4, <1>5

LEMMA ClaimInv == ASSUME IInv, NEW u \in Workers, NEW i \in Jobs, Claim(u, i) PROVE IInv'
<1> USE Constants
<1>1. ClaimRow(u, i)
  BY DEF Claim
<1>2. TypeOK'
  BY <1>1, ClaimRowInv, Shapes, ShapesNext DEF IInv, Claim, Doing, Stages, Numbers
<1>3. \A w \in Workers : HoldsJob(w)'
  BY <1>1, ClaimRowInv, Shapes DEF IInv, Claim, HoldsJob
<1> QED BY <1>1, <1>2, <1>3, ClaimRowInv DEF IInv

LEMMA ClaimUnreadInv == ASSUME IInv, NEW u \in Workers, NEW i \in Jobs, ClaimUnread(u, i) PROVE IInv'
<1>1. ClaimRow(u, i)
  BY DEF ClaimUnread
<1>2. TypeOK'
  BY <1>1, Constants, ClaimRowInv, Shapes, ShapesNext DEF IInv, ClaimUnread
<1>3. \A w \in Workers : HoldsJob(w)'
  BY DEF IInv, ClaimUnread, HoldsJob
<1> QED BY <1>1, <1>2, <1>3, ClaimRowInv DEF IInv

\* A consumer that stays where it is, or goes on with its job.
LEMMA GoesOn ==
  ASSUME IInv, NEW u \in Workers, NEW a \in Stages, NEW b \in BOOLEAN, NEW c \in BOOLEAN,
         local[u].at \in {"calling", "completing", "failing"},
         NEW new, local' = [local EXCEPT ![u] = new],
         \/ new = [local[u] EXCEPT !.at = a, !.built = b, !.intime = c]
         \/ new = [local[u] EXCEPT !.at = a, !.intime = c]
  PROVE  local' \in [Workers -> Doing] /\ \A w \in Workers : HoldsJob(w)'
<1> DEFINE N == 0 .. MaxClaims
           J == Jobs \cup {0}
           B == BOOLEAN
<1>1. local \in [Workers -> [at : Stages, job : J, count : N, built : B, intime : B]]
  BY Shapes DEF IInv, Doing
<1>2. b \in B /\ c \in B /\ Doing = [at : Stages, job : J, count : N, built : B, intime : B]
  BY DEF Doing
<1> HIDE DEF N, J, B
<1>3. local[u] \in [at : Stages, job : J, count : N, built : B, intime : B]
  BY <1>1
<1>4. new \in [at : Stages, job : J, count : N, built : B, intime : B]
  BY <1>2, <1>3
<1>5. new.job = local[u].job /\ new.count = local[u].count
  BY <1>2, <1>3
<1>6. local' \in [Workers -> Doing]
  BY <1>1, <1>2, <1>4
<1>7. (\A v \in Workers : v # u => local'[v] = local[v]) /\ local'[u] = new
  BY <1>1
<1> QED BY <1>5, <1>6, <1>7 DEF IInv, HoldsJob

LEMMA AnswerInv == ASSUME IInv, NEW u \in Workers, Answer(u) PROVE IInv'
<1>1. /\ InTime(local[u].job) \in BOOLEAN /\ TRUE \in BOOLEAN
      /\ local[u].at = "calling" /\ "completing" \in Stages
  BY DEF InTime, Answer, Stages
<1> DEFINE new == [local[u] EXCEPT !.at = "completing", !.built = TRUE, !.intime = InTime(local[u].job)]
<1>2. local' = [local EXCEPT ![u] = new]
  BY DEF Answer
<1>3. local' \in [Workers -> Doing] /\ \A w \in Workers : HoldsJob(w)'
  BY <1>1, <1>2, GoesOn
<1>4. TypeOK'
  BY <1>3, Shapes, ShapesNext DEF IInv, Answer
<1>5. \A j \in Jobs : RowTells(j)'
  BY DEF IInv, Answer, RowTells
<1> QED BY <1>3, <1>4, <1>5 DEF IInv

LEMMA CallFailsInv == ASSUME IInv, NEW u \in Workers, NEW b \in BOOLEAN, CallFails(u, b) PROVE IInv'
<1>1. /\ InTime(local[u].job) \in BOOLEAN
      /\ local[u].at = "calling" /\ "failing" \in Stages
  BY DEF InTime, CallFails, Stages
<1> DEFINE new == [local[u] EXCEPT !.at = "failing", !.built = b, !.intime = InTime(local[u].job)]
<1>2. local' = [local EXCEPT ![u] = new]
  BY DEF CallFails
<1>3. local' \in [Workers -> Doing] /\ \A w \in Workers : HoldsJob(w)'
  BY <1>1, <1>2, GoesOn
<1>4. TypeOK'
  BY <1>3, Shapes, ShapesNext DEF IInv, CallFails
<1>5. \A j \in Jobs : RowTells(j)'
  BY DEF IInv, CallFails, RowTells
<1> QED BY <1>3, <1>4, <1>5 DEF IInv

\* What the transaction of complete() leaves behind.
LEMMA CompleteInv ==
  ASSUME IInv, NEW u \in Workers, local[u].at = "completing", Complete(u)
  PROVE  /\ row' \in [Jobs -> Row] /\ attempts' \in [Jobs -> [Numbers -> AttemptRow]]
         /\ claimant' = claimant => \A j \in Jobs : RowTells(j)'
<1> DEFINE i == local[u].job
<1>1. i \in Jobs
  BY DEF IInv, HoldsJob
<1>2. CASE Owns(u, i) /\ local[u].intime
  <2>1. row[i] \in Row /\ row[i].count \in Numbers
    BY <1>1, <1>2, Shapes DEF IInv, RowTells, Owns
  <2> DEFINE told == [worker |-> u, status |-> "completed"]
  <2>2. told \in AttemptRow /\ attempts' = [attempts EXCEPT ![i][row[i].count] = told]
    BY <1>1, <1>2 DEF AttemptRow, Owners, Complete, Record
  <2> HIDE DEF told
  <2>3. attempts' \in [Jobs -> [Numbers -> AttemptRow]]
    BY <1>1, <2>1, <2>2, Shapes DEF IInv
  <2> DEFINE new == [row[i] EXCEPT !.status = "completed", !.terminal = TRUE, !.by = NoWorker, !.lease = 0]
  <2>4. row' = [row EXCEPT ![i] = new]
    BY <1>1, <1>2 DEF Complete
  <2>5. "completed" \in Statuses /\ TRUE \in BOOLEAN /\ NoWorker \in Owners /\ 0 \in -1 .. Lease
    BY Constants DEF Statuses, Owners
  <2>6. new \in Row /\ new.status = "completed" /\ new.terminal = TRUE /\ new.count = row[i].count
    BY <2>1, <2>5, RowUpdateUndelayed DEF Row
  <2> HIDE DEF new
  <2>7. row' \in [Jobs -> Row]
    BY <1>1, <2>4, <2>6, Shapes DEF IInv
  <2>8. \A j \in Jobs : claimant' = claimant => RowTells(j)'
    BY <1>1, <2>1, <2>4, <2>6, Shapes DEF IInv, RowTells
  <2> QED BY <2>3, <2>7, <2>8
<1>3. CASE ~(Owns(u, i) /\ local[u].intime)
  <2>1. UNCHANGED <<row, attempts>>
    BY <1>3 DEF Complete
  <2> QED BY <2>1, Shapes DEF IInv, RowTells
<1> QED BY <1>2, <1>3

LEMMA CompleteReturnsInv == ASSUME IInv, NEW u \in Workers, CompleteReturns(u) PROVE IInv'
<1>1. local[u].at = "completing" /\ Complete(u) /\ UNCHANGED <<claimant, faults>>
  BY DEF CompleteReturns
<1>2. Free \in Doing /\ InTime(local[u].job) \in BOOLEAN
  BY Constants DEF Free, Doing, Stages, InTime
<1>3. local' \in [Workers -> Doing]
  BY <1>2, Shapes DEF IInv, CompleteReturns, Doing, Stages
<1>4. TypeOK'
  BY <1>1, <1>3, CompleteInv, Shapes, ShapesNext DEF IInv
<1>5. \A w \in Workers : HoldsJob(w)'
  BY <1>1, Shapes DEF IInv, CompleteReturns, HoldsJob, Doing, Free
<1> QED BY <1>1, <1>4, <1>5, CompleteInv DEF IInv

LEMMA CompleteThrowsInv == ASSUME IInv, NEW u \in Workers, CompleteThrows(u) PROVE IInv'
<1>1. /\ local[u].at = "completing" /\ UNCHANGED claimant
      /\ Complete(u) \/ UNCHANGED <<row, attempts>>
      /\ faults' \in 0 .. MaxFaults
  BY Constants, Shapes DEF IInv, CompleteThrows
<1>2. /\ row' \in [Jobs -> Row] /\ attempts' \in [Jobs -> [Numbers -> AttemptRow]]
      /\ \A j \in Jobs : RowTells(j)'
  BY <1>1, CompleteInv, Shapes DEF IInv, RowTells
<1>3. InTime(local[u].job) \in BOOLEAN
  BY DEF InTime
<1>4. local' \in [Workers -> Doing]
  BY <1>3, Shapes DEF IInv, CompleteThrows, Doing, Stages
<1>5. TypeOK'
  BY <1>1, <1>2, <1>4, Shapes, ShapesNext DEF IInv
<1>6. \A w \in Workers : HoldsJob(w)'
  BY Shapes DEF IInv, CompleteThrows, HoldsJob, Doing
<1> QED BY <1>2, <1>5, <1>6 DEF IInv

LEMMA FailRowInv ==
  ASSUME IInv, NEW u \in Workers, local[u].at = "failing", FailRow(u)
  PROVE  /\ row' \in [Jobs -> Row] /\ attempts' \in [Jobs -> [Numbers -> AttemptRow]]
         /\ claimant' = claimant => \A j \in Jobs : RowTells(j)'
<1> DEFINE i == local[u].job
           pause == IF GivesUp(u) THEN 0 ELSE RetryDelay(local[u].count)
<1>1. i \in Jobs /\ local[u].count \in Numbers
  BY DEF IInv, HoldsJob
<1>2. CASE Owns(u, i) /\ local[u].intime
  <2>1. row[i] \in Row /\ row[i].count \in Numbers
    BY <1>1, <1>2, Shapes DEF IInv, RowTells, Owns
  <2>2. GivesUp(u) \in BOOLEAN /\ pause \in 0 .. MaxDelay
    BY <1>1, Constants, DelayInRange DEF GivesUp
  <2> DEFINE told == [worker |-> u, status |-> "failed"]
  <2>3. told \in AttemptRow /\ attempts' = [attempts EXCEPT ![i][row[i].count] = told]
    BY <1>1, <1>2 DEF AttemptRow, Owners, FailRow, Record
  <2> HIDE DEF told
  <2>4. attempts' \in [Jobs -> [Numbers -> AttemptRow]]
    BY <1>1, <2>1, <2>3, Shapes DEF IInv
  <2> DEFINE new == [row[i] EXCEPT !.status = "failed", !.terminal = GivesUp(u), !.by = NoWorker,
                                   !.lease = 0, !.delay = pause]
  <2>5. row' = [row EXCEPT ![i] = new]
    BY <1>1, <1>2 DEF FailRow
  <2>6. "failed" \in Statuses /\ NoWorker \in Owners /\ 0 \in -1 .. Lease
    BY Constants DEF Statuses, Owners
  <2> HIDE DEF pause
  <2>7. new \in Row /\ new.status = "failed" /\ new.count = row[i].count
    BY <2>1, <2>2, <2>6, RowUpdate DEF Row
  <2> HIDE DEF new
  <2>8. row' \in [Jobs -> Row]
    BY <1>1, <2>5, <2>7, Shapes DEF IInv
  <2>9. \A j \in Jobs : claimant' = claimant => RowTells(j)'
    BY <1>1, <2>1, <2>5, <2>7, Shapes DEF IInv, RowTells
  <2> QED BY <2>4, <2>8, <2>9
<1>3. CASE ~(Owns(u, i) /\ local[u].intime)
  <2>1. UNCHANGED <<row, attempts>>
    BY <1>3 DEF FailRow
  <2> QED BY <2>1, Shapes DEF IInv, RowTells
<1> QED BY <1>2, <1>3

LEMMA FailReturnsInv == ASSUME IInv, NEW u \in Workers, FailReturns(u) PROVE IInv'
<1>1. local[u].at = "failing" /\ FailRow(u) /\ UNCHANGED <<claimant, faults>>
  BY DEF FailReturns
<1>2. Free \in Doing
  BY Constants DEF Free, Doing, Stages
<1>3. TypeOK'
  BY <1>1, <1>2, FailRowInv, Shapes, ShapesNext DEF IInv, FailReturns
<1>4. \A w \in Workers : HoldsJob(w)'
  BY Shapes DEF IInv, FailReturns, HoldsJob, Free
<1> QED BY <1>1, <1>3, <1>4, FailRowInv DEF IInv

\* Steps of a consumer that leave the rows alone.
LEMMA LeavesInv == ASSUME IInv, NEW u \in Workers, FailThrows(u) \/ Die(u) PROVE IInv'
<1>1. Free \in Doing /\ [Free EXCEPT !.at = "gone"] \in Doing /\ [Free EXCEPT !.at = "gone"].at = "gone"
  BY GoneShape
<1>2. UNCHANGED <<row, attempts, claimant>>
  BY DEF FailThrows, Die
<1>3. TypeOK'
  <2>1. CASE FailThrows(u)
    BY <1>1, <1>2, <2>1, Constants, Shapes, ShapesNext DEF IInv, FailThrows
  <2>2. CASE Die(u)
    <3>1. local' = [local EXCEPT ![u] = [Free EXCEPT !.at = "gone"]] /\ faults' \in 0 .. MaxFaults
      BY <2>2, Constants, Shapes DEF IInv, Die
    <3> QED BY <1>1, <1>2, <3>1, Shapes, ShapesNext DEF IInv
  <2> QED BY <2>1, <2>2
<1>4. \A w \in Workers : HoldsJob(w)'
  BY <1>1, Shapes DEF IInv, FailThrows, Die, HoldsJob, Free
<1>5. \A j \in Jobs : RowTells(j)'
  BY <1>2 DEF IInv, RowTells
<1> QED BY <1>3, <1>4, <1>5 DEF IInv

\* Time passes.
LEMMA TickRow ==
  ASSUME TypeOK, Tick, NEW j \in Jobs
  PROVE  /\ row'[j] \in Row
         /\ row'[j].status = row[j].status /\ row'[j].terminal = row[j].terminal
         /\ row'[j].by = row[j].by /\ row'[j].count = row[j].count
<1>1. row[j] \in Row
  BY Shapes
<1>2. row'[j] = [row[j] EXCEPT
        !.lease = IF row[j].status = "processing" /\ @ >= 0 THEN @ - 1 ELSE @,
        !.delay = IF @ > 0 THEN @ - 1 ELSE @]
  BY DEF Tick
<1> DEFINE l == IF row[j].status = "processing" /\ row[j].lease >= 0 THEN row[j].lease - 1 ELSE row[j].lease
           d == IF row[j].delay > 0 THEN row[j].delay - 1 ELSE row[j].delay
<1>3. row'[j] = [row[j] EXCEPT !.lease = l, !.delay = d]
  BY <1>2
<1>4. l \in -1 .. Lease /\ d \in 0 .. MaxDelay
  BY <1>1, Constants DEF Row
<1> DEFINE L == -1 .. Lease
           D == 0 .. MaxDelay
           N == 0 .. MaxClaims
           B == BOOLEAN
<1>5. Row = [status : Statuses, terminal : B, by : Owners, count : N, lease : L, delay : D]
  BY DEF Row
<1>6. l \in L /\ d \in D
  BY <1>4
<1> HIDE DEF l, d, L, D, N, B
<1> QED BY <1>1, <1>3, <1>5, <1>6

LEMMA TickInv == ASSUME IInv, Tick PROVE IInv'
<1>1. row' \in [Jobs -> Row]
  <2>1. row' = [j \in Jobs |-> row'[j]]
    BY DEF Tick
  <2> QED BY <2>1, TickRow DEF IInv
<1>2. faults' \in 0 .. MaxFaults
  <2>1. faults \in 0 .. MaxFaults
    BY Shapes DEF IInv
  <2>2. (faults < MaxFaults /\ faults' = faults + 1) \/ faults' = faults
    BY DEF Tick
  <2> QED BY <2>1, <2>2, Constants
<1>3. TypeOK'
  BY <1>1, <1>2, Shapes, ShapesNext DEF IInv, Tick
<1>4. \A j \in Jobs : RowTells(j)'
  <2>1. claimant' = claimant
    BY DEF Tick
  <2> QED BY <2>1, TickRow DEF IInv, RowTells
<1>5. \A w \in Workers : HoldsJob(w)'
  BY DEF IInv, HoldsJob, Tick
<1> QED BY <1>3, <1>4, <1>5 DEF IInv
-----------------------------------------------------------------------------
\* One lemma per step, put together.
LEMMA StepInv == ASSUME IInv, [Next]_vars PROVE IInv'
<1>1. CASE \E j \in Jobs : Capture(j)
  BY <1>1, CaptureInv
<1>2. CASE \E w \in Workers : ConsumerStep(w)
  BY <1>2, ClaimInv, AnswerInv, CallFailsInv, CompleteReturnsInv, FailReturnsInv DEF ConsumerStep
<1>3. CASE \E w \in Workers : Fault(w)
  BY <1>3, ClaimUnreadInv, CompleteThrowsInv, LeavesInv DEF Fault
<1>4. CASE Tick
  BY <1>4, TickInv
<1>5. CASE UNCHANGED vars
  BY <1>5 DEF vars, IInv, TypeOK, RowTells, HoldsJob
<1> QED BY <1>1, <1>2, <1>3, <1>4, <1>5 DEF Next

LEMMA InvHolds == Spec => []IInv
<1>1. Init => IInv
  BY InitInv
<1>2. IInv /\ [Next]_vars => IInv'
  BY StepInv
<1> QED BY <1>1, <1>2, PTL DEF Spec

\* Rows, attempts and what every consumer is doing keep their shape.
THEOREM OutboxTypes == Spec => []TypeOK
<1>1. IInv => TypeOK
  BY DEF IInv
<1> QED BY <1>1, InvHolds, PTL
-----------------------------------------------------------------------------
\* Attempts and claims: one number at a time.
Recorded(j) ==
  \A n \in Numbers :
    /\ attempts[j][n] # NoAttempt <=>
         n <= row[j].count /\ ~(n = row[j].count /\ row[j].status = "processing")
    /\ attempts[j][n] # NoAttempt => attempts[j][n].worker = claimant[j][n]
    /\ attempts[j][n].status = "completed" <=> row[j].status = "completed" /\ n = row[j].count

\* A job nobody writes to.
LEMMA Untouched ==
  ASSUME NEW j \in Jobs, Recorded(j), attempts'[j] = attempts[j], claimant'[j] = claimant[j],
         row'[j].count = row[j].count, row'[j].status = row[j].status
  PROVE  Recorded(j)'
BY DEF Recorded

\* A claim closes the number it takes over and opens the next one.
LEMMA ClaimRecords ==
  ASSUME IInv, NEW i \in Jobs, Recorded(i), NEW u \in Workers, ClaimRow(u, i), NEW j \in Jobs, Recorded(j)
  PROVE  Recorded(j)'
<1>1. CASE j # i
  <2>1. attempts'[j] = attempts[j] /\ claimant'[j] = claimant[j] /\ row'[j] = row[j]
    BY <1>1, Shapes DEF IInv, ClaimRow
  <2> QED BY <2>1, Untouched
<1>2. CASE j = i
  <2> DEFINE k == row[i].count
  <2>1. k \in Nat /\ k + 1 \in Numbers /\ row[i].status \in {"pending", "processing", "failed"}
    <3>1. k + 1 \in Numbers
      BY ClaimRowInv
    <3>2. row[i].count \in Nat
      BY Shapes, Constants DEF IInv, Row
    <3>3. row[i].status \in {"pending", "processing", "failed"}
      BY DEF ClaimRow, Claimable
    <3> QED BY <3>1, <3>2, <3>3
  <2>2. row'[i].status = "processing" /\ row'[i].count = k + 1
    BY Shapes DEF IInv, ClaimRow
  <2>3. \A n \in Numbers : n # k + 1 => claimant'[i][n] = claimant[i][n]
    BY <2>1, Shapes DEF IInv, ClaimRow
  <2>4. attempts'[i] = Abandoned(i)
    BY Shapes DEF IInv, ClaimRow
  <2>5. CASE row[i].status = "processing"
    <3>1. k \in Numbers /\ attempts[i][k] = NoAttempt /\ claimant[i][k] = row[i].by
      BY <2>5 DEF IInv, RowTells, Recorded
    <3> DEFINE told == [worker |-> row[i].by, status |-> "failed"]
    <3>2. attempts'[i] = [attempts[i] EXCEPT ![k] = told]
      BY <2>4, <2>5, <3>1 DEF Abandoned
    <3>3. told # NoAttempt /\ told.worker = row[i].by /\ told.status = "failed"
      BY DEF NoAttempt
    <3> HIDE DEF told
    <3>4. attempts'[i][k] = told /\ \A n \in Numbers : n # k => attempts'[i][n] = attempts[i][n]
      BY <3>1, <3>2, Shapes DEF IInv
    <3> HIDE DEF k
    <3> QED BY <1>2, <2>1, <2>2, <2>3, <2>5, <3>1, <3>3, <3>4, Constants DEF Recorded, Numbers, k
  <2>6. CASE row[i].status \in {"pending", "failed"}
    <3>1. attempts'[i] = attempts[i]
      BY <2>4, <2>6 DEF Abandoned
    <3> QED BY <1>2, <2>1, <2>2, <2>3, <2>6, <3>1, Constants DEF Recorded, Numbers
  <2> QED BY <2>1, <2>5, <2>6
<1> QED BY <1>1, <1>2

\* An owner's outcome is recorded under the number it holds.
LEMMA OutcomeRecords ==
  ASSUME IInv, NEW i \in Jobs, NEW u \in Workers, Owns(u, i), NEW outcome \in {"completed", "failed"},
         Record(i, u, outcome), UNCHANGED claimant,
         \A k \in Jobs : row'[k].count = row[k].count,
         \A k \in Jobs : k # i => row'[k].status = row[k].status,
         row'[i].status = outcome,
         NEW j \in Jobs, Recorded(j)
  PROVE  Recorded(j)'
<1>1. CASE j # i
  <2>1. attempts'[j] = attempts[j]
    BY <1>1, Shapes DEF IInv, Record
  <2> QED BY <1>1, <2>1, Untouched
<1>2. CASE j = i
  <2> DEFINE k == row[i].count
             told == [worker |-> u, status |-> outcome]
  <2>1. k \in Numbers /\ claimant[i][k] = u /\ row[i].status = "processing"
    BY DEF IInv, RowTells, Owns
  <2>2. told # NoAttempt /\ told.worker = u /\ told.status = outcome
    BY DEF NoAttempt
  <2>3. attempts' = [attempts EXCEPT ![i][k] = told]
    BY DEF Record
  <2> HIDE DEF told
  <2>4. attempts'[i][k] = told /\ \A n \in Numbers : n # k => attempts'[i][n] = attempts[i][n]
    BY <2>1, <2>3, Shapes DEF IInv
  <2>5. row'[i].count = k /\ row'[i].status = outcome /\ claimant'[i] = claimant[i]
    OBVIOUS
  <2> SUFFICES ASSUME NEW n \in Numbers
               PROVE  /\ attempts'[i][n] # NoAttempt <=>
                           n <= row'[i].count /\ ~(n = row'[i].count /\ row'[i].status = "processing")
                      /\ attempts'[i][n] # NoAttempt => attempts'[i][n].worker = claimant'[i][n]
                      /\ attempts'[i][n].status = "completed" <=>
                           row'[i].status = "completed" /\ n = row'[i].count
    BY <1>2 DEF Recorded
  <2>6. k \in Int /\ n \in Int
    BY <2>1 DEF Numbers
  <2> HIDE DEF k
  <2>7. CASE n = k
    BY <2>1, <2>2, <2>4, <2>5, <2>6, <2>7
  <2>8. CASE n # k
    <3>1. attempts'[i][n] = attempts[i][n]
      BY <2>4, <2>8
    <3>2. attempts[i][n] # NoAttempt <=> n <= k
      BY <1>2, <2>1, <2>8 DEF Recorded, k
    <3>3. attempts[i][n] # NoAttempt => attempts[i][n].worker = claimant[i][n]
      BY <1>2 DEF Recorded
    <3>4. attempts[i][n].status # "completed"
      BY <1>2, <2>1 DEF Recorded
    <3> QED BY <2>5, <2>8, <3>1, <3>2, <3>3, <3>4
  <2> QED BY <2>7, <2>8
<1> QED BY <1>1, <1>2

AllRecorded == \A j \in Jobs : Recorded(j)

LEMMA InitRecords == Init => AllRecorded
BY Constants DEF Init, AllRecorded, Recorded, NoAttempt, Numbers

LEMMA CompleteRecords ==
  ASSUME IInv, AllRecorded, NEW u \in Workers, local[u].at = "completing", Complete(u), UNCHANGED claimant
  PROVE  AllRecorded'
<1> DEFINE i == local[u].job
<1>1. i \in Jobs
  BY DEF IInv, HoldsJob
<1>2. CASE Owns(u, i) /\ local[u].intime
  <2>1. row[i] \in Row
    BY <1>1, Shapes DEF IInv
  <2>2. "completed" \in Statuses /\ TRUE \in BOOLEAN /\ NoWorker \in Owners /\ 0 \in -1 .. Lease
    BY Constants DEF Statuses, Owners
  <2> DEFINE new == [row[i] EXCEPT !.status = "completed", !.terminal = TRUE, !.by = NoWorker, !.lease = 0]
  <2>3. new.status = "completed" /\ new.count = row[i].count
    BY <2>1, <2>2, RowUpdateUndelayed DEF Row
  <2>4. row' = [row EXCEPT ![i] = new] /\ Record(i, u, "completed")
    BY <1>2 DEF Complete
  <2> HIDE DEF new
  <2> QED BY <1>1, <1>2, <2>3, <2>4, OutcomeRecords, Shapes DEF IInv, AllRecorded
<1>3. CASE ~(Owns(u, i) /\ local[u].intime)
  BY <1>3 DEF Complete, AllRecorded, Recorded
<1> QED BY <1>2, <1>3

LEMMA FailRecords ==
  ASSUME IInv, AllRecorded, NEW u \in Workers, local[u].at = "failing", FailRow(u), UNCHANGED claimant
  PROVE  AllRecorded'
<1> DEFINE i == local[u].job
           pause == IF GivesUp(u) THEN 0 ELSE RetryDelay(local[u].count)
<1>1. i \in Jobs /\ local[u].count \in Numbers
  BY DEF IInv, HoldsJob
<1>2. CASE Owns(u, i) /\ local[u].intime
  <2>1. row[i] \in Row
    BY <1>1, Shapes DEF IInv
  <2>2. /\ "failed" \in Statuses /\ NoWorker \in Owners /\ 0 \in -1 .. Lease
        /\ GivesUp(u) \in BOOLEAN /\ pause \in 0 .. MaxDelay
    BY <1>1, Constants, DelayInRange DEF Statuses, Owners, GivesUp
  <2> DEFINE new == [row[i] EXCEPT !.status = "failed", !.terminal = GivesUp(u), !.by = NoWorker,
                                   !.lease = 0, !.delay = pause]
  <2>3. row' = [row EXCEPT ![i] = new] /\ Record(i, u, "failed")
    BY <1>2 DEF FailRow
  <2> HIDE DEF pause
  <2>4. new.status = "failed" /\ new.count = row[i].count
    BY <2>1, <2>2, RowUpdate DEF Row
  <2> HIDE DEF new
  <2> QED BY <1>1, <1>2, <2>3, <2>4, OutcomeRecords, Shapes DEF IInv, AllRecorded
<1>3. CASE ~(Owns(u, i) /\ local[u].intime)
  BY <1>3 DEF FailRow, AllRecorded, Recorded
<1> QED BY <1>2, <1>3

LEMMA StepRecords == ASSUME IInv, AllRecorded, [Next]_vars PROVE AllRecorded'
<1>1. CASE \E j \in Jobs : Capture(j)
  <2>1. PICK i \in Jobs : Capture(i)
    BY <1>1
  <2>2. CASE row[i].status = "absent"
    <3>1. /\ row[i].count = 0 /\ row'[i].count = row[i].count /\ row'[i].status = "pending"
          /\ \A j \in Jobs : j # i => row'[j] = row[j]
      BY <2>1, <2>2, Shapes DEF IInv, RowTells, Capture, Row
    <3> QED BY <2>1, <2>2, <3>1 DEF Capture, AllRecorded, Recorded
  <2>3. CASE row[i].status # "absent"
    BY <2>1, <2>3 DEF Capture, AllRecorded, Recorded
  <2> QED BY <2>2, <2>3
<1>2. CASE \E w \in Workers, j \in Jobs : ClaimRow(w, j)
  BY <1>2, ClaimRecords DEF AllRecorded
<1>3. CASE \E w \in Workers : local[w].at = "completing" /\ Complete(w) /\ UNCHANGED claimant
  BY <1>3, CompleteRecords
<1>4. CASE \E w \in Workers : local[w].at = "failing" /\ FailRow(w) /\ UNCHANGED claimant
  BY <1>4, FailRecords
<1>5. CASE UNCHANGED <<row, attempts, claimant>>
  BY <1>5 DEF AllRecorded, Recorded
<1>6. CASE Tick
  <2>1. TypeOK /\ UNCHANGED <<attempts, claimant>>
    BY <1>6 DEF IInv, Tick
  <2> QED BY <1>6, <2>1, TickRow, Untouched DEF AllRecorded
<1>7. ASSUME NEW w \in Workers, ConsumerStep(w) \/ Fault(w)
      PROVE  \/ \E j \in Jobs : ClaimRow(w, j)
             \/ local[w].at = "completing" /\ Complete(w) /\ UNCHANGED claimant
             \/ local[w].at = "failing" /\ FailRow(w) /\ UNCHANGED claimant
             \/ UNCHANGED <<row, attempts, claimant>>
  BY <1>7 DEF ConsumerStep, Fault, Claim, ClaimUnread, Answer, CallFails, CompleteReturns, CompleteThrows,
              FailReturns, FailThrows, Die
<1> QED BY <1>1, <1>2, <1>3, <1>4, <1>5, <1>6, <1>7 DEF Next, vars

LEMMA AllAreRecorded == Spec => []AllRecorded
<1>1. Init => AllRecorded
  BY InitRecords
<1>2. IInv /\ AllRecorded /\ [Next]_vars => AllRecorded'
  BY StepRecords
<1> QED BY <1>1, <1>2, InvHolds, PTL DEF Spec

\* Every claim leaves exactly one attempt, of the consumer that made it,
\* whoever is late, takes over or loses a reply (complete, fail and the
\* claiming transaction of ShadowOutboxRepository).
THEOREM ClaimsLeaveAttempts == Spec => []AttemptsTellClaims
<1>1. AllRecorded => AttemptsTellClaims
  BY DEF AllRecorded, Recorded, AttemptsTellClaims
<1> QED BY <1>1, AllAreRecorded, PTL

\* A job is completed by one attempt, its last one.
THEOREM LastAttemptCompletes == Spec => []CompletedByLastAttempt
<1>1. IInv /\ AllRecorded => CompletedByLastAttempt
  <2> SUFFICES ASSUME IInv, AllRecorded, NEW j \in Jobs
               PROVE  {n \in Numbers : attempts[j][n].status = "completed"} =
                        IF row[j].status = "completed" THEN {row[j].count} ELSE {}
    BY DEF CompletedByLastAttempt
  <2>1. row[j].status = "completed" => row[j].count \in Numbers
    BY DEF IInv, RowTells
  <2> QED BY <2>1 DEF AllRecorded, Recorded
<1> QED BY <1>1, InvHolds, AllAreRecorded, PTL
-----------------------------------------------------------------------------
\* The refinement, step by step.
ResultOf(r) ==
  IF r.status = "absent" THEN "absent"
  ELSE IF r.status = "completed" THEN "answered"
  ELSE IF r.terminal THEN "abandoned" ELSE "open"

\* What the queue sees of the rows, now and after a step.
LEMMA ResultShape ==
  /\ Result = [j \in Jobs |-> ResultOf(row[j])] /\ Calls = [j \in Jobs |-> row[j].count]
  /\ Result' = [j \in Jobs |-> ResultOf(row'[j])] /\ Calls' = [j \in Jobs |-> row'[j].count]
BY DEF Result, Calls, ResultOf

LEMMA QueueStill ==
  ASSUME \A j \in Jobs : row'[j].count = row[j].count /\ ResultOf(row'[j]) = ResultOf(row[j])
  PROVE  UNCHANGED <<Result, Calls>>
BY ResultShape

LEMMA QueueFinishes ==
  ASSUME NEW i \in Jobs, NEW r \in {"answered", "abandoned"},
         ResultOf(row[i]) = "open", row[i].count > 0, ResultOf(row'[i]) = r,
         \A j \in Jobs : row'[j].count = row[j].count,
         \A j \in Jobs : j # i => ResultOf(row'[j]) = ResultOf(row[j])
  PROVE  Queue!Next
<1>1. Result' = [Result EXCEPT ![i] = r] /\ Calls' = Calls /\ Result[i] = "open" /\ Calls[i] > 0
  BY ResultShape
<1>2. Queue!Finish(i, r)
  BY <1>1 DEF Queue!Finish
<1> QED BY <1>2 DEF Queue!Next

LEMMA QueueInit == Init => Queue!Init
BY DEF Init, Queue!Init, Result, Calls

LEMMA CaptureMaps == ASSUME IInv, NEW i \in Jobs, Capture(i) PROVE Queue!Next \/ UNCHANGED <<Result, Calls>>
<1>1. CASE row[i].status = "absent"
  <2>1. /\ row'[i].status = "pending" /\ row'[i].count = row[i].count /\ row'[i].terminal = FALSE
        /\ \A j \in Jobs : j # i => row'[j] = row[j]
    BY <1>1, Shapes DEF IInv, RowTells, Capture, Row
  <2>2. ResultOf(row[i]) = "absent" /\ ResultOf(row'[i]) = "open"
    BY <1>1, <2>1 DEF ResultOf
  <2>3. Result' = [Result EXCEPT ![i] = "open"] /\ Calls' = Calls /\ Result[i] = "absent"
    BY <2>1, <2>2, ResultShape
  <2>4. Queue!Enqueue(i)
    BY <2>3 DEF Queue!Enqueue
  <2> QED BY <2>4 DEF Queue!Next
<1>2. CASE row[i].status # "absent"
  BY <1>2, QueueStill DEF Capture
<1> QED BY <1>1, <1>2

LEMMA ClaimMaps == ASSUME IInv, NEW u \in Workers, NEW i \in Jobs, ClaimRow(u, i) PROVE Queue!Next
<1>1. /\ row'[i].status = "processing" /\ row'[i].terminal = FALSE /\ row'[i].count = row[i].count + 1
      /\ \A j \in Jobs : j # i => row'[j] = row[j]
  BY Shapes DEF IInv, ClaimRow
<1>2. row[i].status \in {"pending", "failed", "processing"} /\ ~row[i].terminal
  BY DEF IInv, RowTells, ClaimRow, Claimable
<1>3. ResultOf(row[i]) = "open" /\ ResultOf(row'[i]) = "open"
  BY <1>1, <1>2 DEF ResultOf
<1>4. Calls' = [Calls EXCEPT ![i] = @ + 1] /\ Result' = Result /\ Result[i] = "open"
  BY <1>1, <1>3, ResultShape
<1>5. Queue!Ask(i)
  BY <1>4 DEF Queue!Ask
<1> QED BY <1>5 DEF Queue!Next

LEMMA CompleteMaps ==
  ASSUME IInv, NEW u \in Workers, local[u].at = "completing", Complete(u)
  PROVE  Queue!Next \/ UNCHANGED <<Result, Calls>>
<1> DEFINE i == local[u].job
<1>1. i \in Jobs
  BY DEF IInv, HoldsJob
<1>2. CASE Owns(u, i) /\ local[u].intime
  <2>1. row[i] \in Row /\ row[i].count > 0 /\ row[i].status = "processing" /\ ~row[i].terminal
    BY <1>1, <1>2, Shapes DEF IInv, RowTells, Owns, Numbers
  <2>2. "completed" \in Statuses /\ TRUE \in BOOLEAN /\ NoWorker \in Owners /\ 0 \in -1 .. Lease
    BY Constants DEF Statuses, Owners
  <2> DEFINE new == [row[i] EXCEPT !.status = "completed", !.terminal = TRUE, !.by = NoWorker, !.lease = 0]
  <2>3. new.status = "completed" /\ new.count = row[i].count
    BY <2>1, <2>2, RowUpdateUndelayed DEF Row
  <2>4. row' = [row EXCEPT ![i] = new]
    BY <1>2 DEF Complete
  <2> HIDE DEF new
  <2>5. row'[i] = new /\ \A j \in Jobs : j # i => row'[j] = row[j]
    BY <1>1, <2>4, Shapes DEF IInv
  <2>6. ResultOf(row[i]) = "open" /\ ResultOf(row'[i]) = "answered"
    BY <2>1, <2>3, <2>5 DEF ResultOf
  <2> QED BY <1>1, <2>1, <2>3, <2>5, <2>6, QueueFinishes
<1>3. CASE ~(Owns(u, i) /\ local[u].intime)
  BY <1>3, QueueStill DEF Complete
<1> QED BY <1>2, <1>3

LEMMA FailMaps ==
  ASSUME IInv, NEW u \in Workers, local[u].at = "failing", FailRow(u)
  PROVE  Queue!Next \/ UNCHANGED <<Result, Calls>>
<1> DEFINE i == local[u].job
           pause == IF GivesUp(u) THEN 0 ELSE RetryDelay(local[u].count)
<1>1. i \in Jobs /\ local[u].count \in Numbers
  BY DEF IInv, HoldsJob
<1>2. CASE Owns(u, i) /\ local[u].intime
  <2>1. row[i] \in Row /\ row[i].count > 0 /\ row[i].status = "processing" /\ ~row[i].terminal
    BY <1>1, <1>2, Shapes DEF IInv, RowTells, Owns, Numbers
  <2>2. /\ "failed" \in Statuses /\ NoWorker \in Owners /\ 0 \in -1 .. Lease
        /\ GivesUp(u) \in BOOLEAN /\ pause \in 0 .. MaxDelay
    BY <1>1, Constants, DelayInRange DEF Statuses, Owners, GivesUp
  <2> DEFINE new == [row[i] EXCEPT !.status = "failed", !.terminal = GivesUp(u), !.by = NoWorker,
                                   !.lease = 0, !.delay = pause]
  <2>3. row' = [row EXCEPT ![i] = new]
    BY <1>2 DEF FailRow
  <2> HIDE DEF pause
  <2>4. new.status = "failed" /\ new.count = row[i].count /\ new.terminal = GivesUp(u)
    BY <2>1, <2>2, RowUpdate DEF Row
  <2> HIDE DEF new
  <2>5. row'[i] = new /\ \A j \in Jobs : j # i => row'[j] = row[j]
    BY <1>1, <2>3, Shapes DEF IInv
  <2>6. ResultOf(row[i]) = "open"
    BY <2>1 DEF ResultOf
  <2>7. CASE GivesUp(u)
    <3>1. ResultOf(row'[i]) = "abandoned"
      BY <2>4, <2>5, <2>7 DEF ResultOf
    <3> QED BY <1>1, <2>1, <2>4, <2>5, <2>6, <3>1, QueueFinishes
  <2>8. CASE ~GivesUp(u)
    <3>1. ResultOf(row'[i]) = "open"
      BY <2>4, <2>5, <2>8 DEF ResultOf
    <3> QED BY <1>1, <2>4, <2>5, <2>6, <3>1, QueueStill
  <2> QED BY <2>7, <2>8
<1>3. CASE ~(Owns(u, i) /\ local[u].intime)
  BY <1>3, QueueStill DEF FailRow
<1> QED BY <1>2, <1>3

LEMMA StepMaps == ASSUME IInv, [Next]_vars PROVE [Queue!Next]_<<Result, Calls>>
<1>1. CASE \E j \in Jobs : Capture(j)
  BY <1>1, CaptureMaps
<1>2. CASE \E w \in Workers, j \in Jobs : ClaimRow(w, j)
  BY <1>2, ClaimMaps
<1>3. CASE \E w \in Workers : local[w].at = "completing" /\ Complete(w)
  BY <1>3, CompleteMaps
<1>4. CASE \E w \in Workers : local[w].at = "failing" /\ FailRow(w)
  BY <1>4, FailMaps
<1>5. CASE UNCHANGED row
  BY <1>5, QueueStill
<1>6. CASE Tick
  <2>1. TypeOK
    BY DEF IInv
  <2> QED BY <1>6, <2>1, TickRow, QueueStill DEF ResultOf
<1>7. ASSUME NEW w \in Workers, ConsumerStep(w) \/ Fault(w)
      PROVE  \/ \E j \in Jobs : ClaimRow(w, j)
             \/ local[w].at = "completing" /\ Complete(w)
             \/ local[w].at = "failing" /\ FailRow(w)
             \/ UNCHANGED row
  BY <1>7 DEF ConsumerStep, Fault, Claim, ClaimUnread, Answer, CallFails, CompleteReturns, CompleteThrows,
              FailReturns, FailThrows, Die
<1> QED BY <1>1, <1>2, <1>3, <1>4, <1>5, <1>6, <1>7 DEF Next, vars

\* Whatever becomes of its consumers, the outbox is a queue that gives each
\* captured observation at most one final result, never without a call.
THEOREM OutboxImplementsQueue == Spec => OneAnswer
<1>1. Init => Queue!Init
  BY QueueInit
<1>2. IInv /\ [Next]_vars => [Queue!Next]_<<Result, Calls>>
  BY StepMaps
<1> QED BY <1>1, <1>2, InvHolds, PTL DEF Spec, OneAnswer, Queue!Spec

\* The rows of the outbox keep their types and tell of every claim, and a job
\* is completed by its last attempt alone.
THEOREM OutboxAlwaysHolds == Spec => []OutboxHolds
<1>1. TypeOK /\ AttemptsTellClaims /\ CompletedByLastAttempt => OutboxHolds
  BY DEF OutboxHolds
<1> QED BY <1>1, OutboxTypes, ClaimsLeaveAttempts, LastAttemptCompletes, PTL

-----------------------------------------------------------------------------
Decisions == {"wait", "revise"}
Scheduled == [band : Bands, hour : Evidence!Hours, decision : Decisions, outcome : Evidence!Outcomes]
CaptureStages == {"queued", "ready", "reading", "read", "stored", "done"}
CaptureTask ==
  [band : Bands, hour : Evidence!Hours, decision : Decisions, outcome : Evidence!Outcomes,
   at : CaptureStages, profile : Evidence!CostProfile \cup {NoValue}, cash : Nat \cup {NoValue}, lots : Nat \cup {NoValue}]
CycleState ==
  [running : BOOLEAN, hour : Evidence!Hours, todo : SUBSET Bands, pending : Seq(Scheduled),
   observed : [Bands -> 0 .. MaxHour]]
Stored == Evidence!Observation \cup {NoValue}

EvidenceTypes ==
  /\ x1 \in Evidence!Hours /\ x2 \in SUBSET Evidence!FillRow /\ x3 \in Nat
  /\ x4 \in [Bands -> [Evidence!Hours -> Nat]] /\ x5 \in [Bands -> 0 .. MaxHour]
  /\ x6 \in CycleState /\ x7 \in Seq(CaptureTask) /\ Len(x7) <= MaxTasks
  /\ x8 \in (1 .. MaxTasks) \cup {Absent}
  /\ x9 \in [Bands -> [Evidence!Hours -> Stored]] /\ x10 \in Nat

\* What is claimed of a decision, wherever the claim is on its way: it was applied.
Real(applied, b, h, outcome) ==
  /\ outcome = "applied" => applied[b][h] > 0
  /\ outcome = "observed_only" => b \notin AutoBands
\* A profile of costs, wherever it is kept, is of the band's fills before the hour.
Causal(p, b, h) ==
  p # NoValue =>
    /\ \A f \in p.samples : f.band = b /\ f.at < h
    /\ p.usable => /\ Evidence!Cardinality(p.samples) >= MinSamples
                   /\ \A f \in p.samples : {"pair", "totals", "fee", "quote", "native"} \subseteq f.facts

OnlyWatched == \A b \in Bands \ AutoBands : \A h \in Evidence!Hours : x4[b][h] = 0
ScheduledIsReal == \A i \in DOMAIN x6.pending : Real(x4, x6.pending[i].band, x6.pending[i].hour, x6.pending[i].outcome)
TaskTells(x, kept) ==
  /\ Real(x4, x.band, x.hour, x.outcome)
  /\ Causal(x.profile, x.band, x.hour)
  /\ x.at \in {"reading", "read"} => x.cash \in Nat
  /\ x.at = "read" => x.lots = x.cash
  /\ x.at = "stored" => kept[x.band][x.hour] # NoValue
StoredTells(o, b, h) ==
  o # NoValue =>
    /\ Real(x4, b, h, o.outcome)
    /\ Causal(o.profile, b, h)
    /\ o.cash = o.lots

EvidenceInv ==
  /\ EvidenceTypes /\ OnlyWatched /\ ScheduledIsReal
  /\ \A t \in DOMAIN x7 : TaskTells(x7[t], x9)
  /\ \A b \in Bands, h \in Evidence!Hours : StoredTells(x9[b][h], b, h)

LEMMA EvidenceConstants ==
  /\ AutoBands \subseteq Bands
  /\ Window \in Nat /\ MinSamples \in Nat /\ MaxFills \in Nat /\ MaxTasks \in Nat /\ MaxFailures \in Nat
  /\ MaxHour \in Nat \ {0} /\ Absent \notin 1 .. MaxTasks
  /\ NoValue \notin Evidence!CostProfile /\ NoValue \notin Evidence!Observation
BY RecordsAssumption DEF Evidence!EvidenceAssumption

LEMMA EvidenceInit == ASSUME Evidence!Init PROVE EvidenceInv
  <1> USE EvidenceConstants
  <1>1. 1 \in Evidence!Hours /\ Evidence!Idle \in CycleState /\ Evidence!Idle.pending = <<>>
    <2>1. <<>> \in Seq(Scheduled)
      OBVIOUS
    <2>2. [b \in Bands |-> 0] \in [Bands -> 0 .. MaxHour]
      OBVIOUS
    <2> QED
      BY <2>1, <2>2 DEF Evidence!Idle, CycleState, Evidence!Hours
  <1>2. x7 = <<>> /\ x7 \in Seq(CaptureTask) /\ Len(x7) = 0 /\ DOMAIN x7 = {}
    BY DEF Evidence!Init
  <1>3. EvidenceTypes
    BY <1>1, <1>2 DEF Evidence!Init, EvidenceTypes, Stored
  <1>4. OnlyWatched /\ ScheduledIsReal
    BY <1>1 DEF Evidence!Init, OnlyWatched, ScheduledIsReal
  <1>5. \A b \in Bands, h \in Evidence!Hours : StoredTells(x9[b][h], b, h)
    BY DEF Evidence!Init, StoredTells
  <1> QED
    BY <1>2, <1>3, <1>4, <1>5 DEF EvidenceInv

\* The clock and new fills leave everything that is kept alone.
LEMMA EvidenceOutside ==
  ASSUME EvidenceInv, Evidence!Tick \/ \E b \in Bands : Evidence!Fill(b)
  PROVE  EvidenceInv'
  <1> USE EvidenceConstants
  <1>1. UNCHANGED <<x4, x5, x6, x7, x8, x9, x10>>
    BY DEF Evidence!Tick, Evidence!Fill
  <1>2. x1' \in Evidence!Hours /\ x3' \in Nat
    BY DEF EvidenceInv, EvidenceTypes, Evidence!Tick, Evidence!Fill, Evidence!Hours
  <1>3. x2' \in SUBSET Evidence!FillRow
    <2>1. CASE Evidence!Tick
      BY <2>1 DEF EvidenceInv, EvidenceTypes, Evidence!Tick
    <2>2. ASSUME NEW b \in Bands, Evidence!Fill(b) PROVE x2' \in SUBSET Evidence!FillRow
      <3>1. PICK n \in 1 .. MaxFills, r \in Reports, s \in {"bucket", "other"} :
              x2' = x2 \cup {[id |-> n, band |-> b, at |-> x1, facts |-> r, size |-> s]}
        BY <2>2 DEF Evidence!Fill
      <3>2. [id |-> n, band |-> b, at |-> x1, facts |-> r, size |-> s] \in Evidence!FillRow
        BY DEF Evidence!FillRow, EvidenceInv, EvidenceTypes
      <3> QED
        BY <3>1, <3>2 DEF EvidenceInv, EvidenceTypes
    <2> QED
      BY <2>1, <2>2
  <1>4. EvidenceTypes'
    BY <1>1, <1>2, <1>3 DEF EvidenceInv, EvidenceTypes
  <1>5. \A b, h, o : Real(x4', b, h, o) <=> Real(x4, b, h, o)
    BY <1>1 DEF Real
  <1>6. OnlyWatched' /\ ScheduledIsReal'
    BY <1>1, <1>5 DEF EvidenceInv, OnlyWatched, ScheduledIsReal, Real
  <1>7. \A t \in DOMAIN x7' : TaskTells(x7[t], x9)'
    BY <1>1 DEF EvidenceInv, TaskTells, Real, Causal
  <1>8. \A b \in Bands, h \in Evidence!Hours : StoredTells(x9[b][h], b, h)'
    BY <1>1 DEF EvidenceInv, StoredTells, Real, Causal
  <1> QED
    BY <1>4, <1>6, <1>7, <1>8 DEF EvidenceInv
-----------------------------------------------------------------------------
LEMMA SeenShape ==
  ASSUME EvidenceInv, NEW b \in Bands, NEW s \in Scheduled, NEW done \in BOOLEAN,
         NEW m, m = Evidence!Seen(b, <<s>>, done)
  PROVE  /\ m \in CycleState
         /\ \A i \in DOMAIN m.pending :
              (i \in DOMAIN x6.pending /\ m.pending[i] = x6.pending[i]) \/ m.pending[i] = s
  <1>1. x6 \in CycleState
    BY DEF EvidenceInv, EvidenceTypes
  <1>2. x6.pending \in Seq(Scheduled) /\ x6.hour \in 0 .. MaxHour /\ x6.observed \in [Bands -> 0 .. MaxHour]
    BY <1>1, EvidenceConstants DEF CycleState, Evidence!Hours
  <1>3. x6.pending \o <<s>> \in Seq(Scheduled)
    BY <1>2
  <1>4. m = [x6 EXCEPT !.todo = x6.todo \ {b}, !.pending = x6.pending \o <<s>>,
                       !.observed = [x6.observed EXCEPT ![b] = IF done THEN x6.hour ELSE x6.observed[b]]]
    BY <1>1 DEF Evidence!Seen, CycleState
  <1>5. [x6.observed EXCEPT ![b] = IF done THEN x6.hour ELSE x6.observed[b]] \in [Bands -> 0 .. MaxHour]
    BY <1>2
  <1>6. x6.todo \ {b} \in SUBSET Bands
    BY <1>1 DEF CycleState
  <1>8. m \in CycleState /\ m.pending = x6.pending \o <<s>>
    <2> DEFINE p == x6.pending \o <<s>>
               t == x6.todo \ {b}
               o == [x6.observed EXCEPT ![b] = IF done THEN x6.hour ELSE x6.observed[b]]
    <2>1. p \in Seq(Scheduled) /\ t \in SUBSET Bands /\ o \in [Bands -> 0 .. MaxHour]
      BY <1>3, <1>5, <1>6
    <2>2. m = [x6 EXCEPT !.todo = t, !.pending = p, !.observed = o]
      BY <1>4
    <2> HIDE DEF p, t, o
    <2>3. m \in CycleState /\ m.pending = p
      <3> DEFINE P == Seq(Scheduled)
                 T == SUBSET Bands
                 O == [Bands -> 0 .. MaxHour]
      <3>1. CycleState = [running : BOOLEAN, hour : Evidence!Hours, todo : T, pending : P, observed : O]
        BY DEF CycleState
      <3>2. p \in P /\ t \in T /\ o \in O
        BY <2>1
      <3> HIDE DEF P, T, O
      <3> QED
        BY <1>1, <2>2, <3>1, <3>2
    <2> QED
      BY <2>3 DEF p
  <1>9. \A i \in 1 .. Len(x6.pending) + 1 :
          (x6.pending \o <<s>>)[i] = IF i \in 1 .. Len(x6.pending) THEN x6.pending[i] ELSE s
    BY <1>2
  <1>10. DOMAIN (x6.pending \o <<s>>) = 1 .. Len(x6.pending) + 1 /\ DOMAIN x6.pending = 1 .. Len(x6.pending)
    BY <1>2
  <1> QED
    BY <1>8, <1>9, <1>10

\* A step of the manager that schedules at most one true claim more.
LEMMA CycleStep ==
  ASSUME EvidenceInv, UNCHANGED <<x1, x2, x7, x8, x9>>, x3' \in Nat, x10' \in Nat,
         x4' \in [Bands -> [Evidence!Hours -> Nat]], x5' \in [Bands -> 0 .. MaxHour],
         x6' \in CycleState,
         \A b \in Bands, h \in Evidence!Hours : x4'[b][h] >= x4[b][h],
         \A b \in Bands \ AutoBands : x4'[b] = x4[b],
         \A i \in DOMAIN x6'.pending :
           \/ i \in DOMAIN x6.pending /\ x6'.pending[i] = x6.pending[i]
           \/ Real(x4', x6'.pending[i].band, x6'.pending[i].hour, x6'.pending[i].outcome)
  PROVE  EvidenceInv'
  <1>0. x4 \in [Bands -> [Evidence!Hours -> Nat]] /\ x6 \in CycleState /\ x7 \in Seq(CaptureTask)
    BY DEF EvidenceInv, EvidenceTypes
  <1>1. EvidenceTypes'
    BY DEF EvidenceInv, EvidenceTypes
  <1>2. OnlyWatched'
    BY DEF EvidenceInv, OnlyWatched
  <1>3. ScheduledIsReal'
    <2> SUFFICES ASSUME NEW i \in DOMAIN x6'.pending
                 PROVE  Real(x4', x6'.pending[i].band, x6'.pending[i].hour, x6'.pending[i].outcome)
      BY DEF ScheduledIsReal
    <2>1. CASE i \in DOMAIN x6.pending /\ x6'.pending[i] = x6.pending[i]
      <3>1. x6.pending \in Seq(Scheduled)
        BY <1>0 DEF CycleState
      <3>2. x6.pending[i] \in Scheduled
        BY <2>1, <3>1
      <3>3. x6.pending[i].band \in Bands /\ x6.pending[i].hour \in Evidence!Hours
        BY <3>2 DEF Scheduled
      <3>4. Real(x4, x6.pending[i].band, x6.pending[i].hour, x6.pending[i].outcome)
        BY <2>1 DEF EvidenceInv, ScheduledIsReal
      <3>5. Real(x4, x6.pending[i].band, x6.pending[i].hour, x6.pending[i].outcome) => Real(x4', x6'.pending[i].band, x6'.pending[i].hour, x6'.pending[i].outcome)
        BY <1>0, <2>1, <3>3 DEF Real
      <3> QED
        BY <3>4, <3>5
    <2> QED
      BY <2>1
  <1>4. \A t \in DOMAIN x7' : TaskTells(x7[t], x9)'
    <2> SUFFICES ASSUME NEW t \in DOMAIN x7 PROVE TaskTells(x7[t], x9)'
      OBVIOUS
    <2>1. x7[t] \in CaptureTask
      BY <1>0
    <2>2. x7[t].band \in Bands /\ x7[t].hour \in Evidence!Hours /\ TaskTells(x7[t], x9)
      BY <2>1 DEF CaptureTask, EvidenceInv
    <2>3. Real(x4, x7[t].band, x7[t].hour, x7[t].outcome) => Real(x4', x7[t].band, x7[t].hour, x7[t].outcome)
      BY <1>0, <2>2 DEF Real
    <2> QED
      BY <2>2, <2>3 DEF TaskTells, Causal
  <1>5. ASSUME NEW b \in Bands, NEW h \in Evidence!Hours PROVE StoredTells(x9[b][h], b, h)'
    <2>1. StoredTells(x9[b][h], b, h)
      BY DEF EvidenceInv
    <2>2. Real(x4, b, h, x9[b][h].outcome) => Real(x4', b, h, x9[b][h].outcome)
      BY <1>0 DEF Real
    <2> QED
      BY <2>1, <2>2 DEF StoredTells, Causal
  <1> QED
    BY <1>1, <1>2, <1>3, <1>4, <1>5 DEF EvidenceInv

\* The shape of the manager when a cycle starts, or a band is left out of one.
LEMMA CycleShape ==
  ASSUME EvidenceInv, NEW T \in SUBSET Bands
  PROVE  /\ [x6 EXCEPT !.todo = T] \in CycleState /\ [x6 EXCEPT !.todo = T].pending = x6.pending
         /\ [x6 EXCEPT !.running = FALSE, !.pending = <<>>] \in CycleState
         /\ [x6 EXCEPT !.running = FALSE, !.pending = <<>>].pending = <<>>
         /\ [x6 EXCEPT !.running = TRUE, !.hour = x1, !.todo = T, !.pending = <<>>] \in CycleState
         /\ [x6 EXCEPT !.running = TRUE, !.hour = x1, !.todo = T, !.pending = <<>>].pending = <<>>
  <1> DEFINE P == Seq(Scheduled)
             S == SUBSET Bands
             O == [Bands -> 0 .. MaxHour]
  <1>1. x6 \in [running : BOOLEAN, hour : Evidence!Hours, todo : S, pending : P, observed : O]
    BY DEF EvidenceInv, EvidenceTypes, CycleState
  <1>2. <<>> \in P /\ T \in S /\ x1 \in Evidence!Hours
    BY DEF EvidenceInv, EvidenceTypes
  <1>3. CycleState = [running : BOOLEAN, hour : Evidence!Hours, todo : S, pending : P, observed : O]
    BY DEF CycleState
  <1> HIDE DEF P, S, O
  <1> QED
    BY <1>1, <1>2, <1>3

LEMMA EvidenceRest ==
  ASSUME EvidenceInv
  PROVE  /\ x3 \in Nat /\ x10 \in Nat /\ x3 + 1 \in Nat /\ x10 + 1 \in Nat
         /\ x4 \in [Bands -> [Evidence!Hours -> Nat]] /\ x5 \in [Bands -> 0 .. MaxHour]
         /\ x6 \in CycleState /\ x6.hour \in Evidence!Hours /\ x6.hour \in 0 .. MaxHour /\ x6.todo \in SUBSET Bands
         /\ \A b \in Bands, h \in Evidence!Hours : x4[b][h] >= x4[b][h]
  BY EvidenceConstants DEF EvidenceInv, EvidenceTypes, CycleState, Evidence!Hours

\* The steps of a cycle that schedule nothing.
LEMMA QuietCycle ==
  ASSUME EvidenceInv,
         Evidence!StartCycle \/ \E b \in Bands : Evidence!Skip(b) \/ Evidence!Unobserved(b)
  PROVE  EvidenceInv'
  <1>1. UNCHANGED <<x1, x2, x3, x4, x5, x7, x8, x9>> /\ x10' \in Nat
    BY EvidenceRest DEF Evidence!StartCycle, Evidence!Skip, Evidence!Unobserved
  <1>2. /\ x6' \in CycleState
        /\ x6'.pending = <<>> \/ x6'.pending = x6.pending
    <2>1. CASE Evidence!StartCycle
      BY <2>1, CycleShape DEF Evidence!StartCycle
    <2>2. ASSUME NEW b \in Bands, Evidence!Skip(b) \/ Evidence!Unobserved(b)
          PROVE  x6' \in CycleState /\ x6'.pending = x6.pending
      <3>1. \E T \in SUBSET Bands : x6' = [x6 EXCEPT !.todo = T]
        BY <2>2, EvidenceRest DEF Evidence!Skip, Evidence!Unobserved
      <3> QED
        BY <3>1, CycleShape
    <2> QED
      BY <2>1, <2>2
  <1> QED
    BY <1>1, <1>2, EvidenceRest, CycleStep

\* A decision that is applied raises the count of its band and hour alone.
LEMMA AppliedOnce ==
  ASSUME EvidenceInv, NEW b \in AutoBands, NEW table,
         table = [x4 EXCEPT ![b][x6.hour] = x4[b][x6.hour] + 1]
  PROVE  /\ table \in [Bands -> [Evidence!Hours -> Nat]] /\ table[b][x6.hour] > 0
         /\ \A c \in Bands, h \in Evidence!Hours : table[c][h] >= x4[c][h]
         /\ \A c \in Bands \ AutoBands : table[c] = x4[c]
  <1>1. b \in Bands /\ x6.hour \in Evidence!Hours /\ x4[b][x6.hour] \in Nat
    BY EvidenceRest, EvidenceConstants
  <1>2. x4[b] \in [Evidence!Hours -> Nat]
    BY <1>1, EvidenceRest
  <1>3. table[b] = [x4[b] EXCEPT ![x6.hour] = x4[b][x6.hour] + 1]
    BY <1>1, EvidenceRest
  <1>4. table[b] \in [Evidence!Hours -> Nat]
    BY <1>1, <1>2, <1>3
  <1>5. \A c \in Bands : c # b => table[c] = x4[c]
    BY EvidenceRest
  <1>6. table \in [Bands -> [Evidence!Hours -> Nat]]
    BY <1>4, <1>5, EvidenceRest
  <1>7. \A h \in Evidence!Hours : table[b][h] >= x4[b][h]
    BY <1>1, <1>2, <1>3
  <1> QED
    BY <1>1, <1>2, <1>3, <1>5, <1>6, <1>7, EvidenceRest

\* A decision that is made: observed only, a wait, applied, or refused.
LEMMA DecidingCycle ==
  ASSUME EvidenceInv, NEW b \in Bands, Evidence!Watch(b) \/ Evidence!Decide(b) \/ Evidence!Refused(b)
  PROVE  EvidenceInv'
  <1>1. UNCHANGED <<x1, x2, x7, x8, x9>> /\ x3' \in Nat /\ x10' \in Nat /\ x5' \in [Bands -> 0 .. MaxHour]
    BY EvidenceRest DEF Evidence!Watch, Evidence!Decide, Evidence!Refused
  <1>2. PICK d \in Decisions, o \in Evidence!Outcomes, done \in BOOLEAN :
          /\ x6' = Evidence!Seen(b, <<Evidence!Pending(b, d, o)>>, done)
          /\ Real(x4', b, x6.hour, o)
          /\ x4' \in [Bands -> [Evidence!Hours -> Nat]]
          /\ \A c \in Bands, h \in Evidence!Hours : x4'[c][h] >= x4[c][h]
          /\ \A c \in Bands \ AutoBands : x4'[c] = x4[c]
    <2>1. CASE Evidence!Watch(b)
      <3>1. PICK d \in Decisions : x6' = Evidence!Seen(b, <<Evidence!Pending(b, d, "observed_only")>>, TRUE)
        BY <2>1 DEF Evidence!Watch, Decisions
      <3>2. b \notin AutoBands /\ x4' = x4 /\ "observed_only" \in Evidence!Outcomes
        BY <2>1 DEF Evidence!Watch, Evidence!Outcomes
      <3> QED
        BY <3>1, <3>2, EvidenceRest DEF Real
    <2>2. CASE Evidence!Decide(b)
      <3>1. PICK d \in Decisions :
              /\ x6' = Evidence!Seen(b, <<Evidence!Pending(b, d, Evidence!OutcomeOf(d, TRUE))>>, TRUE)
              /\ x4' = [x4 EXCEPT ![b][x6.hour] = IF d = "wait" THEN @ ELSE @ + 1]
        BY <2>2 DEF Evidence!Decide, Decisions
      <3>2. b \in AutoBands
        BY <2>2 DEF Evidence!Decide
      <3>3. CASE d = "wait"
        <4>1. Evidence!OutcomeOf(d, TRUE) = "wait" /\ "wait" \in Evidence!Outcomes
          BY <3>3 DEF Evidence!OutcomeOf, Evidence!Outcomes
        <4>2. x4' = x4
          BY <3>1, <3>3, EvidenceRest
        <4> QED
          BY <3>1, <4>1, <4>2, EvidenceRest DEF Real
      <3>4. CASE d # "wait"
        <4>1. Evidence!OutcomeOf(d, TRUE) = "applied" /\ "applied" \in Evidence!Outcomes
          BY <3>4 DEF Evidence!OutcomeOf, Evidence!Outcomes
        <4>2. x4' = [x4 EXCEPT ![b][x6.hour] = x4[b][x6.hour] + 1]
          BY <3>1, <3>4
        <4> QED
          BY <3>1, <3>2, <4>1, <4>2, AppliedOnce DEF Real
      <3> QED
        BY <3>3, <3>4
    <2>3. CASE Evidence!Refused(b)
      <3>1. b \in AutoBands /\ "revise" \in Decisions
        BY <2>3 DEF Evidence!Refused, Decisions
      <3>2. CASE x6' = Evidence!Seen(b, <<Evidence!Pending(b, "revise", Evidence!OutcomeOf("revise", FALSE))>>, FALSE) /\ UNCHANGED x4
        <4>1. Evidence!OutcomeOf("revise", FALSE) = "rejected" /\ "rejected" \in Evidence!Outcomes
          BY DEF Evidence!OutcomeOf, Evidence!Outcomes
        <4> QED
          BY <3>1, <3>2, <4>1, EvidenceRest DEF Real
      <3>3. CASE /\ x6' = Evidence!Seen(b, <<Evidence!Pending(b, "revise", Evidence!OutcomeOf("revise", TRUE))>>, FALSE)
                 /\ x4' = [x4 EXCEPT ![b][x6.hour] = x4[b][x6.hour] + 1]
        <4>1. Evidence!OutcomeOf("revise", TRUE) = "applied" /\ "applied" \in Evidence!Outcomes
          BY DEF Evidence!OutcomeOf, Evidence!Outcomes
        <4> QED
          BY <3>1, <3>3, <4>1, AppliedOnce DEF Real
      <3> QED
        BY <2>3, <3>2, <3>3 DEF Evidence!Refused
    <2> QED
      BY <2>1, <2>2, <2>3
  <1> DEFINE s == Evidence!Pending(b, d, o)
  <1>3. s \in Scheduled /\ s.band = b /\ s.hour = x6.hour /\ s.outcome = o
    BY EvidenceRest DEF Evidence!Pending, Scheduled
  <1>4. x6' = Evidence!Seen(b, <<s>>, done)
    BY <1>2
  <1> HIDE DEF s
  <1>5. /\ x6' \in CycleState
        /\ \A i \in DOMAIN x6'.pending :
             (i \in DOMAIN x6.pending /\ x6'.pending[i] = x6.pending[i]) \/ x6'.pending[i] = s
    BY <1>3, <1>4, SeenShape
  <1> QED
    BY <1>1, <1>2, <1>3, <1>5, CycleStep

-----------------------------------------------------------------------------
\* A step of the captures: tasks that are new or went on tell the truth, and
\* nothing that was stored is gone.
LEMMA CaptureStep ==
  ASSUME EvidenceInv, UNCHANGED <<x1, x2, x3, x4, x5>>, x10' \in Nat,
         x6' \in CycleState, x6'.pending = x6.pending \/ x6'.pending = <<>>,
         x8' \in (1 .. MaxTasks) \cup {Absent},
         x7' \in Seq(CaptureTask), Len(x7') <= MaxTasks,
         x9' \in [Bands -> [Evidence!Hours -> Stored]],
         \A t \in DOMAIN x7' : (t \in DOMAIN x7 /\ x7'[t] = x7[t]) \/ TaskTells(x7'[t], x9'),
         \A b \in Bands, h \in Evidence!Hours :
           (x9[b][h] # NoValue => x9'[b][h] # NoValue) /\ StoredTells(x9'[b][h], b, h)
  PROVE  EvidenceInv'
  <1>1. EvidenceTypes'
    BY DEF EvidenceInv, EvidenceTypes
  <1>2. OnlyWatched'
    BY DEF EvidenceInv, OnlyWatched
  <1>3. ScheduledIsReal'
    BY DEF EvidenceInv, ScheduledIsReal, Real
  <1>4. ASSUME NEW t \in DOMAIN x7' PROVE TaskTells(x7[t], x9)'
    <2>1. CASE t \in DOMAIN x7 /\ x7'[t] = x7[t]
      <3>1. TaskTells(x7[t], x9)
        BY <2>1 DEF EvidenceInv
      <3>2. x7[t] \in CaptureTask
        BY <2>1 DEF EvidenceInv, EvidenceTypes
      <3>3. x7[t].band \in Bands /\ x7[t].hour \in Evidence!Hours
        BY <3>2 DEF CaptureTask
      <3> QED
        BY <2>1, <3>1, <3>3 DEF TaskTells, Real, Causal
    <2>2. CASE TaskTells(x7'[t], x9')
      BY <2>2 DEF TaskTells, Real, Causal
    <2> QED
      BY <1>4, <2>1, <2>2
  <1>5. \A b \in Bands, h \in Evidence!Hours : StoredTells(x9[b][h], b, h)'
    BY DEF StoredTells, Real, Causal
  <1> QED
    BY <1>1, <1>2, <1>3, <1>4, <1>5 DEF EvidenceInv

\* Where the captures leave what is stored alone.
LEMMA StoredStays ==
  ASSUME EvidenceInv
  PROVE  /\ x9 \in [Bands -> [Evidence!Hours -> Stored]]
         /\ \A b \in Bands, h \in Evidence!Hours : StoredTells(x9[b][h], b, h)
         /\ x7 \in Seq(CaptureTask) /\ Len(x7) <= MaxTasks /\ DOMAIN x7 = 1 .. Len(x7)
         /\ \A t \in DOMAIN x7 :
              /\ x7[t] \in CaptureTask /\ TaskTells(x7[t], x9)
              /\ x7[t].band \in Bands /\ x7[t].hour \in Evidence!Hours /\ x7[t].decision \in Decisions
              /\ x7[t].outcome \in Evidence!Outcomes /\ x7[t].profile \in Evidence!CostProfile \cup {NoValue}
         /\ x6 \in CycleState /\ x10 \in Nat /\ x10 + 1 \in Nat /\ x3 \in Nat /\ x8 \in (1 .. MaxTasks) \cup {Absent}
  <1>1. x7 \in Seq(CaptureTask)
    BY DEF EvidenceInv, EvidenceTypes
  <1>2. \A t \in DOMAIN x7 : x7[t] \in CaptureTask
    BY <1>1
  <1> QED
    BY <1>1, <1>2 DEF EvidenceInv, EvidenceTypes, CaptureTask

\* A capture that goes on.
LEMMA TaskGoesOn ==
  ASSUME EvidenceInv, NEW t \in DOMAIN x7, NEW y \in CaptureTask, NEW kept, TaskTells(y, kept),
         NEW tasks, tasks = [x7 EXCEPT ![t] = y]
  PROVE  /\ tasks \in Seq(CaptureTask) /\ Len(tasks) <= MaxTasks
         /\ \A u \in DOMAIN tasks : (u \in DOMAIN x7 /\ tasks[u] = x7[u]) \/ TaskTells(tasks[u], kept)
  <1>1. x7 \in Seq(CaptureTask) /\ Len(x7) <= MaxTasks
    BY StoredStays
  <1>2. tasks \in Seq(CaptureTask) /\ Len(tasks) = Len(x7)
    BY <1>1
  <1>3. \A u \in DOMAIN tasks : u \in DOMAIN x7 /\ tasks[u] = IF u = t THEN y ELSE x7[u]
    BY <1>1
  <1> QED
    BY <1>1, <1>2, <1>3

LEMMA TaskUpdate ==
  ASSUME NEW B, NEW H, NEW D, NEW O, NEW A, NEW P, NEW C, NEW L, NEW a \in A,
         NEW r \in [band : B, hour : H, decision : D, outcome : O, at : A, profile : P, cash : C, lots : L]
  PROVE  /\ [r EXCEPT !.at = a] \in [band : B, hour : H, decision : D, outcome : O, at : A, profile : P, cash : C, lots : L]
         /\ \A p \in P : [r EXCEPT !.at = a, !.profile = p] \in [band : B, hour : H, decision : D, outcome : O, at : A, profile : P, cash : C, lots : L]
         /\ \A c \in C : [r EXCEPT !.at = a, !.cash = c] \in [band : B, hour : H, decision : D, outcome : O, at : A, profile : P, cash : C, lots : L]
         /\ \A l \in L : [r EXCEPT !.at = a, !.lots = l] \in [band : B, hour : H, decision : D, outcome : O, at : A, profile : P, cash : C, lots : L]
  OBVIOUS

\* A capture that ends.
LEMMA TaskEnds ==
  ASSUME EvidenceInv, NEW t \in DOMAIN x7, NEW kept
  PROVE  [x7[t] EXCEPT !.at = "done"] \in CaptureTask /\ TaskTells([x7[t] EXCEPT !.at = "done"], kept)
  <1>1. x7[t] \in CaptureTask /\ TaskTells(x7[t], x9)
    BY StoredStays
  <1>2. [x7[t] EXCEPT !.at = "done"] \in CaptureTask
    BY <1>1, TaskUpdate DEF CaptureTask, CaptureStages
  <1>3. TaskTells([x7[t] EXCEPT !.at = "done"], kept)
    BY <1>1 DEF TaskTells, CaptureTask
  <1> QED
    BY <1>2, <1>3

LEMMA FailTaskInv ==
  ASSUME EvidenceInv, NEW t \in 1 .. MaxTasks, Evidence!FailTask(t)
  PROVE  EvidenceInv'
  <1>1. t \in DOMAIN x7 /\ x7' = [x7 EXCEPT ![t] = [x7[t] EXCEPT !.at = "done"]]
    BY DEF Evidence!FailTask, Evidence!Go
  <1>2. UNCHANGED <<x1, x2, x3, x4, x5, x6, x9>> /\ x10' \in Nat /\ x8' \in (1 .. MaxTasks) \cup {Absent}
    BY StoredStays DEF Evidence!FailTask, Evidence!Rest
  <1>3. /\ x7' \in Seq(CaptureTask) /\ Len(x7') <= MaxTasks
        /\ \A u \in DOMAIN x7' : (u \in DOMAIN x7 /\ x7'[u] = x7[u]) \/ TaskTells(x7'[u], x9')
    BY <1>1, TaskEnds, TaskGoesOn
  <1> QED
    BY <1>2, <1>3, StoredStays, CaptureStep

LEMMA RestartInv ==
  ASSUME EvidenceInv, Evidence!Restart
  PROVE  EvidenceInv'
  <1>1. UNCHANGED <<x1, x2, x3, x4, x5, x9>> /\ x10' \in Nat /\ x8' = Absent
    BY StoredStays DEF Evidence!Restart
  <1>2. x6' \in CycleState /\ x6'.pending = <<>>
    <2>1. <<>> \in Seq(Scheduled)
      OBVIOUS
    <2>2. [b \in Bands |-> 0] \in [Bands -> 0 .. MaxHour] /\ 1 \in Evidence!Hours
      BY EvidenceConstants DEF Evidence!Hours
    <2> QED
      BY <2>1, <2>2 DEF Evidence!Restart, Evidence!Idle, CycleState
  <1>3. x7' = [t \in 1 .. Len(x7) |-> [x7[t] EXCEPT !.at = "done"]]
    BY StoredStays DEF Evidence!Restart
  <1>4. \A t \in 1 .. Len(x7) : [x7[t] EXCEPT !.at = "done"] \in CaptureTask /\ TaskTells([x7[t] EXCEPT !.at = "done"], x9')
    BY StoredStays, TaskEnds
  <1>5. x7' \in Seq(CaptureTask) /\ Len(x7') = Len(x7)
    BY <1>3, <1>4, StoredStays
  <1>6. \A t \in DOMAIN x7' : TaskTells(x7'[t], x9')
    BY <1>3, <1>4
  <1> QED
    BY <1>1, <1>2, <1>5, <1>6, StoredStays, CaptureStep

LEMMA EndCycleInv ==
  ASSUME EvidenceInv, Evidence!EndCycle
  PROVE  EvidenceInv'
  <1> DEFINE new == [i \in DOMAIN x6.pending |-> Evidence!New(x6.pending[i])]
  <1>1. /\ UNCHANGED <<x1, x2, x3, x4, x5, x8, x9, x10>> /\ x7' = x7 \o new
        /\ Len(x7) + Len(x6.pending) <= MaxTasks
        /\ x6' = [x6 EXCEPT !.running = FALSE, !.pending = <<>>]
    BY DEF Evidence!EndCycle
  <1>2. x6' \in CycleState /\ x6'.pending = <<>>
    BY <1>1, CycleShape
  <1>3. x6.pending \in Seq(Scheduled)
    BY DEF EvidenceInv, EvidenceTypes, CycleState
  <1>4. ASSUME NEW i \in DOMAIN x6.pending
        PROVE  Evidence!New(x6.pending[i]) \in CaptureTask /\ TaskTells(Evidence!New(x6.pending[i]), x9')
    <2>1. x6.pending[i] \in Scheduled /\ Real(x4, x6.pending[i].band, x6.pending[i].hour, x6.pending[i].outcome)
      BY <1>3 DEF EvidenceInv, ScheduledIsReal
    <2> DEFINE p == x6.pending[i]
    <2> HIDE DEF p
    <2>2. p \in Scheduled /\ Real(x4, p.band, p.hour, p.outcome)
      BY <2>1 DEF p
    <2>3. Evidence!New(p) \in CaptureTask
      BY <2>2 DEF Evidence!New, CaptureTask, Scheduled, CaptureStages
    <2>4. TaskTells(Evidence!New(p), x9')
      BY <2>2 DEF Evidence!New, TaskTells, Causal
    <2> QED
      BY <2>3, <2>4 DEF p
  <1>5. new \in Seq(CaptureTask) /\ Len(new) = Len(x6.pending) /\ \A i \in DOMAIN new : TaskTells(new[i], x9')
    <2>1. DOMAIN x6.pending = 1 .. Len(x6.pending) /\ Len(x6.pending) \in Nat
      BY <1>3
    <2>2. new = [i \in 1 .. Len(x6.pending) |-> Evidence!New(x6.pending[i])]
      BY <2>1
    <2> QED
      BY <1>4, <2>1, <2>2
  <1> HIDE DEF new
  <1>6. x7 \in Seq(CaptureTask)
    BY StoredStays
  <1>7. ASSUME NEW S, NEW s \in Seq(S), NEW t \in Seq(S)
        PROVE  /\ s \o t \in Seq(S) /\ Len(s \o t) = Len(s) + Len(t)
               /\ \A i \in DOMAIN (s \o t) :
                    \/ i \in DOMAIN s /\ (s \o t)[i] = s[i]
                    \/ i - Len(s) \in DOMAIN t /\ (s \o t)[i] = t[i - Len(s)]
    OBVIOUS
  <1>8. /\ x7' \in Seq(CaptureTask) /\ Len(x7') = Len(x7) + Len(new)
        /\ \A t \in DOMAIN x7' : (t \in DOMAIN x7 /\ x7'[t] = x7[t]) \/ (t - Len(x7) \in DOMAIN new /\ x7'[t] = new[t - Len(x7)])
    <2>1. x7' = x7 \o new
      BY <1>1
    <2>2. new \in Seq(CaptureTask)
      BY <1>5
    <2>3. /\ x7 \o new \in Seq(CaptureTask) /\ Len(x7 \o new) = Len(x7) + Len(new)
          /\ \A i \in DOMAIN (x7 \o new) :
               \/ i \in DOMAIN x7 /\ (x7 \o new)[i] = x7[i]
               \/ i - Len(x7) \in DOMAIN new /\ (x7 \o new)[i] = new[i - Len(x7)]
      BY <1>6, <1>7, <2>2
    <2> QED
      BY <2>1, <2>3
  <1>9. \A t \in DOMAIN x7' : (t \in DOMAIN x7 /\ x7'[t] = x7[t]) \/ TaskTells(x7'[t], x9')
    BY <1>5, <1>8
  <1> QED
    BY <1>1, <1>2, <1>5, <1>8, <1>9, StoredStays, CaptureStep

LEMMA ProfileTells ==
  ASSUME EvidenceInv, NEW b \in Bands, NEW h \in Evidence!Hours
  PROVE  Evidence!Profile(b, h) \in Evidence!CostProfile /\ Causal(Evidence!Profile(b, h), b, h)
  <1> DEFINE p == Evidence!Profile(b, h)
             samples == {f \in Evidence!ReadExecutions(b, h) : f.size = "bucket"}
  <1>1. /\ p.samples = samples
        /\ p.usable <=> /\ Evidence!Cardinality(samples) >= MinSamples
                        /\ \A f \in samples : Evidence!FeeKnown(f) /\ Evidence!DriftKnown(f) /\ Evidence!NativeKnown(f)
    BY DEF Evidence!Profile
  <1>2. \A f \in samples : f \in Evidence!FillRow /\ f.band = b /\ f.at < h
    BY DEF Evidence!ReadExecutions, EvidenceInv, EvidenceTypes
  <1>3. p \in Evidence!CostProfile
    <2>1. samples \in SUBSET Evidence!FillRow
      BY <1>2
    <2> HIDE DEF samples
    <2> QED
      BY <2>1 DEF Evidence!Profile, Evidence!CostProfile, samples
  <1>4. \A f : Evidence!FeeKnown(f) /\ Evidence!DriftKnown(f) /\ Evidence!NativeKnown(f) =>
               {"pair", "totals", "fee", "quote", "native"} \subseteq f.facts
    BY DEF Evidence!FeeKnown, Evidence!DriftKnown, Evidence!NativeKnown
  <1> HIDE DEF p, samples
  <1>5. Causal(p, b, h)
    BY <1>1, <1>2, <1>4 DEF Causal
  <1> QED
    BY <1>3, <1>5 DEF p

\* The steps of a capture before it is stored.
LEMMA ReadingInv ==
  ASSUME EvidenceInv, NEW t \in 1 .. MaxTasks,
         Evidence!ReadProfile(t) \/ Evidence!Begin(t) \/ Evidence!ReadLots(t)
  PROVE  EvidenceInv'
  <1>1. /\ t \in DOMAIN x7 /\ UNCHANGED <<x1, x2, x3, x4, x5, x6, x9>> /\ x10' \in Nat
        /\ x8' \in (1 .. MaxTasks) \cup {Absent}
    BY StoredStays DEF Evidence!ReadProfile, Evidence!Begin, Evidence!ReadLots, Evidence!At, Evidence!Rest
  <1>2. PICK y \in CaptureTask : x7' = [x7 EXCEPT ![t] = y] /\ TaskTells(y, x9)
    <2> DEFINE x == x7[t]
    <2>1. /\ x \in CaptureTask /\ TaskTells(x, x9) /\ x.band \in Bands /\ x.hour \in Evidence!Hours
          /\ {"ready", "reading", "read"} \subseteq CaptureStages
      BY <1>1, StoredStays DEF CaptureStages
    <2>2. CASE Evidence!ReadProfile(t)
      <3>1. PICK p \in {Evidence!Profile(x.band, x.hour)} \cup {x.profile} :
              x7' = [x7 EXCEPT ![t] = [x EXCEPT !.at = "ready", !.profile = p]]
        <4>1. CASE x7' = [x7 EXCEPT ![t] = [x EXCEPT !.at = "ready", !.profile = Evidence!Profile(x.band, x.hour)]]
          BY <4>1
        <4>2. CASE x7' = [x7 EXCEPT ![t] = [x EXCEPT !.at = "ready"]]
          <5>1. [x EXCEPT !.at = "ready"] = [x EXCEPT !.at = "ready", !.profile = x.profile]
            BY <2>1 DEF CaptureTask
          <5> QED
            BY <4>2, <5>1
        <4> QED
          BY <2>2, <4>1, <4>2 DEF Evidence!ReadProfile, Evidence!Go
      <3>2. p \in Evidence!CostProfile \cup {NoValue} /\ Causal(p, x.band, x.hour)
        BY <1>1, <2>1, ProfileTells, StoredStays DEF TaskTells
      <3> DEFINE y == [x EXCEPT !.at = "ready", !.profile = p]
      <3>3. y \in CaptureTask
        BY <2>1, <3>2, TaskUpdate DEF CaptureTask
      <3>4. TaskTells(y, x9)
        BY <2>1, <3>2 DEF TaskTells, CaptureTask
      <3> QED
        BY <3>1, <3>3, <3>4
    <2>3. CASE Evidence!Begin(t)
      <3> DEFINE y == [x EXCEPT !.at = "reading", !.cash = x3]
      <3>1. y \in CaptureTask
        BY <2>1, StoredStays, TaskUpdate DEF CaptureTask
      <3>2. TaskTells(y, x9)
        BY <2>1, StoredStays DEF TaskTells, CaptureTask
      <3> QED
        BY <2>3, <3>1, <3>2 DEF Evidence!Begin, Evidence!Go
    <2>4. CASE Evidence!ReadLots(t)
      <3> DEFINE y == [x EXCEPT !.at = "read", !.lots = x.cash]
      <3>1. x.cash \in Nat
        BY <2>1, <2>4 DEF TaskTells, Evidence!ReadLots, Evidence!At
      <3>2. y \in CaptureTask
        BY <2>1, <3>1, TaskUpdate DEF CaptureTask
      <3>3. TaskTells(y, x9)
        BY <2>1, <3>1 DEF TaskTells, CaptureTask
      <3> QED
        BY <2>4, <3>2, <3>3 DEF Evidence!ReadLots, Evidence!Go
    <2> QED
      BY <2>2, <2>3, <2>4
  <1>3. /\ x7' \in Seq(CaptureTask) /\ Len(x7') <= MaxTasks
        /\ \A u \in DOMAIN x7' : (u \in DOMAIN x7 /\ x7'[u] = x7[u]) \/ TaskTells(x7'[u], x9')
    BY <1>1, <1>2, TaskGoesOn
  <1> QED
    BY <1>1, <1>3, StoredStays, CaptureStep

\* One observation is written, the others are what they were.
Written(b, h, y) == [x9 EXCEPT ![b] = [x9[b] EXCEPT ![h] = y]]
LEMMA OneObservation ==
  ASSUME EvidenceInv, NEW b \in Bands, NEW h \in Evidence!Hours, NEW y \in Stored
  PROVE  /\ Written(b, h, y) \in [Bands -> [Evidence!Hours -> Stored]]
         /\ Written(b, h, y)[b][h] = y
         /\ \A c \in Bands, g \in Evidence!Hours : c # b \/ g # h => Written(b, h, y)[c][g] = x9[c][g]
  <1> DEFINE table == Written(b, h, y)
  <1> USE DEF Written
  <1>1. x9 \in [Bands -> [Evidence!Hours -> Stored]]
    BY StoredStays
  <1>2. x9[b] \in [Evidence!Hours -> Stored]
    BY <1>1
  <1>3. [x9[b] EXCEPT ![h] = y] \in [Evidence!Hours -> Stored]
    BY <1>2
  <1>4. table \in [Bands -> [Evidence!Hours -> Stored]] /\ table[b] = [x9[b] EXCEPT ![h] = y]
    BY <1>1, <1>3
  <1>5. \A c \in Bands : c # b => table[c] = x9[c]
    BY <1>1
  <1> QED
    BY <1>2, <1>4, <1>5

LEMMA StoreInv ==
  ASSUME EvidenceInv, NEW t \in 1 .. MaxTasks, Evidence!Store(t)
  PROVE  /\ EvidenceInv'
         /\ \A b \in Bands, h \in Evidence!Hours : x9[b][h] # NoValue => x9'[b][h] = x9[b][h]
  <1> DEFINE x == x7[t]
             y == Evidence!InsertOnce(x)
             d == [x EXCEPT !.at = "stored"]
  <1>1. /\ t \in DOMAIN x7 /\ UNCHANGED <<x1, x2, x3, x4, x5, x6, x10>> /\ x8' = Absent /\ x.at = "read"
        /\ x7' = [x7 EXCEPT ![t] = d]
        /\ x9' = [x9 EXCEPT ![x.band][x.hour] = y]
    BY DEF Evidence!Store, Evidence!At, Evidence!Rest, Evidence!Go
  <1>2. x \in CaptureTask /\ TaskTells(x, x9) /\ x.band \in Bands /\ x.hour \in Evidence!Hours
    BY <1>1, StoredStays
  <1>3. /\ Evidence!Frozen(x) \in Evidence!Observation
        /\ Evidence!Frozen(x).profile = x.profile /\ Evidence!Frozen(x).cash = Evidence!Frozen(x).lots
        /\ Evidence!Frozen(x).outcome = "none"
    <2>1. x.cash \in Nat /\ x.lots = x.cash
      BY <1>1, <1>2 DEF TaskTells
    <2>2. x.profile \in Evidence!CostProfile \cup {NoValue} /\ x.decision \in Decisions
      BY <1>1, StoredStays
    <2> HIDE DEF x
    <2> QED
      BY <2>1, <2>2 DEF Evidence!Frozen, Evidence!Observation, Evidence!Outcomes, Decisions
  <1>4. Evidence!Frozen(x) # NoValue
    BY <1>3, EvidenceConstants
  <1>5. /\ y \in Stored /\ y # NoValue /\ StoredTells(y, x.band, x.hour)
        /\ x9[x.band][x.hour] # NoValue => y = x9[x.band][x.hour]
    <2>1. CASE x9[x.band][x.hour] = NoValue
      <3>1. y = Evidence!Frozen(x)
        BY <2>1 DEF Evidence!InsertOnce
      <3>2. Causal(x.profile, x.band, x.hour)
        BY <1>2 DEF TaskTells
      <3>3. StoredTells(Evidence!Frozen(x), x.band, x.hour)
        BY <1>3, <3>2 DEF StoredTells, Real
      <3> QED
        BY <1>3, <1>4, <2>1, <3>1, <3>3 DEF Stored
    <2>2. CASE x9[x.band][x.hour] # NoValue
      <3>1. y = x9[x.band][x.hour]
        BY <2>2 DEF Evidence!InsertOnce
      <3> QED
        BY <1>2, <2>2, <3>1, StoredStays
    <2> QED
      BY <2>1, <2>2
  <1>6. d \in CaptureTask /\ d.band = x.band /\ d.hour = x.hour /\ d.outcome = x.outcome /\ d.profile = x.profile /\ d.at = "stored"
    BY <1>2, TaskUpdate DEF CaptureTask, CaptureStages
  <1> HIDE DEF x, y, d
  <1>7. x9' = Written(x.band, x.hour, y)
    BY <1>1, <1>2 DEF Written
  <1>8. /\ x9' \in [Bands -> [Evidence!Hours -> Stored]]
        /\ x9'[x.band][x.hour] = y
        /\ \A c \in Bands, g \in Evidence!Hours : c # x.band \/ g # x.hour => x9'[c][g] = x9[c][g]
    <2>1. PICK b \in Bands, h \in Evidence!Hours : b = x.band /\ h = x.hour
      BY <1>2
    <2>2. /\ Written(b, h, y) \in [Bands -> [Evidence!Hours -> Stored]]
          /\ Written(b, h, y)[b][h] = y
          /\ \A c \in Bands, g \in Evidence!Hours : c # b \/ g # h => Written(b, h, y)[c][g] = x9[c][g]
      BY <1>5, OneObservation
    <2>3. x9' = Written(b, h, y)
      BY <1>7, <2>1
    <2> QED
      BY <2>1, <2>2, <2>3
  <1>9. TaskTells(d, x9')
    BY <1>2, <1>5, <1>6, <1>8 DEF TaskTells
  <1>10. /\ x7' \in Seq(CaptureTask) /\ Len(x7') <= MaxTasks
         /\ \A u \in DOMAIN x7' : (u \in DOMAIN x7 /\ x7'[u] = x7[u]) \/ TaskTells(x7'[u], x9')
    BY <1>1, <1>6, <1>9, TaskGoesOn
  <1>11. \A b \in Bands, h \in Evidence!Hours :
           (x9[b][h] # NoValue => x9'[b][h] # NoValue) /\ StoredTells(x9'[b][h], b, h)
    BY <1>5, <1>8, StoredStays
  <1> QED
    BY <1>1, <1>5, <1>8, <1>10, <1>11, StoredStays, CaptureStep

LEMMA RecordOutcomeInv ==
  ASSUME EvidenceInv, NEW t \in 1 .. MaxTasks, Evidence!RecordOutcome(t)
  PROVE  /\ EvidenceInv'
         /\ \A b \in Bands, h \in Evidence!Hours : x9[b][h] # NoValue =>
              /\ x9'[b][h] # NoValue
              /\ x9[b][h].outcome # "none" => x9'[b][h] = x9[b][h]
              /\ [x9'[b][h] EXCEPT !.outcome = "none"] = [x9[b][h] EXCEPT !.outcome = "none"]
  <1> DEFINE x == x7[t]
             o == x9[x.band][x.hour]
             y == [o EXCEPT !.outcome = IF o.outcome = "none" THEN x.outcome ELSE o.outcome]
             d == [x EXCEPT !.at = "done"]
  <1>1. /\ t \in DOMAIN x7 /\ UNCHANGED <<x1, x2, x3, x4, x5, x6, x8, x10>> /\ x.at = "stored"
        /\ x7' = [x7 EXCEPT ![t] = d]
        /\ x9' = [x9 EXCEPT ![x.band][x.hour].outcome = IF @ = "none" THEN x.outcome ELSE @]
    BY DEF Evidence!RecordOutcome, Evidence!At, Evidence!Rest, Evidence!Go
  <1>2. /\ x \in CaptureTask /\ TaskTells(x, x9) /\ x.band \in Bands /\ x.hour \in Evidence!Hours
        /\ x.outcome \in Evidence!Outcomes
    BY <1>1, StoredStays
  <1>3. o # NoValue /\ o \in Evidence!Observation /\ StoredTells(o, x.band, x.hour)
    BY <1>1, <1>2, StoredStays DEF TaskTells, Stored
  <1>4. d \in CaptureTask /\ TaskTells(d, x9')
    BY <1>1, TaskEnds
  <1> HIDE DEF x, d
  <1>5. x9' = Written(x.band, x.hour, y)
    BY <1>1, <1>2, StoredStays DEF Written
  <1> HIDE DEF o
  <1>6. /\ y \in Evidence!Observation /\ y.profile = o.profile /\ y.cash = o.cash /\ y.lots = o.lots
        /\ y.outcome = IF o.outcome = "none" THEN x.outcome ELSE o.outcome
        /\ [y EXCEPT !.outcome = "none"] = [o EXCEPT !.outcome = "none"]
        /\ o.outcome # "none" => y = o
    BY <1>2, <1>3 DEF Evidence!Observation
  <1> HIDE DEF y
  <1>7. y \in Stored /\ y # NoValue
    BY <1>6, EvidenceConstants DEF Stored
  <1>8. StoredTells(y, x.band, x.hour)
    BY <1>2, <1>3, <1>6 DEF StoredTells, TaskTells, Real
  <1>9. /\ x9' \in [Bands -> [Evidence!Hours -> Stored]]
        /\ x9'[x.band][x.hour] = y
        /\ \A c \in Bands, g \in Evidence!Hours : c # x.band \/ g # x.hour => x9'[c][g] = x9[c][g]
    <2>1. PICK b \in Bands, h \in Evidence!Hours : b = x.band /\ h = x.hour
      BY <1>2
    <2>2. /\ Written(b, h, y) \in [Bands -> [Evidence!Hours -> Stored]]
          /\ Written(b, h, y)[b][h] = y
          /\ \A c \in Bands, g \in Evidence!Hours : c # b \/ g # h => Written(b, h, y)[c][g] = x9[c][g]
      BY <1>7, OneObservation
    <2>3. x9' = Written(b, h, y)
      BY <1>5, <2>1
    <2> QED
      BY <2>1, <2>2, <2>3
  <1>10. /\ x7' \in Seq(CaptureTask) /\ Len(x7') <= MaxTasks
         /\ \A u \in DOMAIN x7' : (u \in DOMAIN x7 /\ x7'[u] = x7[u]) \/ TaskTells(x7'[u], x9')
    BY <1>1, <1>4, TaskGoesOn
  <1>11. \A b \in Bands, h \in Evidence!Hours :
           (x9[b][h] # NoValue => x9'[b][h] # NoValue) /\ StoredTells(x9'[b][h], b, h)
    BY <1>7, <1>8, <1>9, StoredStays
  <1>12. EvidenceInv'
    BY <1>1, <1>9, <1>10, <1>11, StoredStays, CaptureStep
  <1> QED
    BY <1>6, <1>7, <1>9, <1>12 DEF o

\* Whatever a step does, the invariant of the evidence stays, and what was stored
\* only gets its outcome.
LEMMA EvidenceStep ==
  ASSUME EvidenceInv, [Evidence!Next]_Evidence!vars
  PROVE  EvidenceInv' /\ Evidence!EvidenceIsFrozen
  <1>1. CASE UNCHANGED x9 /\ EvidenceInv'
    BY <1>1 DEF Evidence!EvidenceIsFrozen
  <1>2. CASE Evidence!Tick \/ \E b \in Bands : Evidence!Fill(b)
    BY <1>1, <1>2, EvidenceOutside DEF Evidence!Tick, Evidence!Fill
  <1>3. CASE Evidence!StartCycle \/ \E b \in Bands : Evidence!Skip(b) \/ Evidence!Unobserved(b)
    BY <1>1, <1>3, QuietCycle DEF Evidence!StartCycle, Evidence!Skip, Evidence!Unobserved
  <1>4. CASE \E b \in Bands : Evidence!Watch(b) \/ Evidence!Decide(b) \/ Evidence!Refused(b)
    BY <1>1, <1>4, DecidingCycle DEF Evidence!Watch, Evidence!Decide, Evidence!Refused
  <1>5. CASE Evidence!EndCycle
    BY <1>1, <1>5, EndCycleInv DEF Evidence!EndCycle
  <1>6. CASE Evidence!Restart
    BY <1>1, <1>6, RestartInv DEF Evidence!Restart
  <1>7. CASE \E t \in 1 .. MaxTasks : Evidence!ReadProfile(t) \/ Evidence!Begin(t) \/ Evidence!ReadLots(t)
    BY <1>1, <1>7, ReadingInv DEF Evidence!ReadProfile, Evidence!Begin, Evidence!ReadLots, Evidence!Rest
  <1>8. CASE \E t \in 1 .. MaxTasks : Evidence!Store(t)
    BY <1>8, StoreInv DEF Evidence!EvidenceIsFrozen
  <1>9. CASE \E t \in 1 .. MaxTasks : Evidence!RecordOutcome(t)
    BY <1>9, RecordOutcomeInv DEF Evidence!EvidenceIsFrozen
  <1>10. CASE \E t \in 1 .. MaxTasks : Evidence!FailTask(t)
    BY <1>1, <1>10, FailTaskInv DEF Evidence!FailTask
  <1>11. CASE UNCHANGED Evidence!vars
    <2>1. EvidenceInv'
      BY <1>11 DEF Evidence!vars, EvidenceInv, EvidenceTypes, OnlyWatched, ScheduledIsReal, TaskTells, StoredTells, Real, Causal
    <2> QED
      BY <1>1, <1>11, <2>1 DEF Evidence!vars
  <1> QED
    BY <1>2, <1>3, <1>4, <1>5, <1>6, <1>7, <1>8, <1>9, <1>10, <1>11 DEF Evidence!Next, Evidence!Cycle, Evidence!Capture

\* An observation that is stored never changes but for its outcome, once: retries
\* of the hour, restarts and late captures add nothing to it.
THEOREM EvidenceStaysFrozen == Evidence!Spec => [][Evidence!EvidenceIsFrozen]_Evidence!vars
  <1>1. EvidenceInv /\ [Evidence!Next]_Evidence!vars => EvidenceInv' /\ Evidence!EvidenceIsFrozen
    BY EvidenceStep
  <1> QED
    BY <1>1, EvidenceInit, PTL DEF Evidence!Spec

\* However late a capture runs, it freezes costs of fills before its hour, one view
\* of the portfolio, and an outcome that was real.
THEOREM EvidenceIsTrue ==
  Evidence!Spec =>
    [](Evidence!TypeOK /\ Evidence!ProfileIsCausal /\ Evidence!SnapshotIsOneView /\ Evidence!OutcomeWasReal)
  <1>1. EvidenceInv /\ [Evidence!Next]_Evidence!vars => EvidenceInv'
    BY EvidenceStep
  <1>2. ASSUME EvidenceInv
        PROVE  Evidence!TypeOK /\ Evidence!ProfileIsCausal /\ Evidence!SnapshotIsOneView /\ Evidence!OutcomeWasReal
    <2>1. Evidence!TypeOK
      <3>1. \A b \in Bands, h \in Evidence!Hours : x9[b][h] \in Stored
        BY <1>2, StoredStays
      <3>2. \A b \in Bands, h \in Evidence!Hours : x9[b][h] # NoValue => x9[b][h].outcome \in Evidence!Outcomes
        BY <3>1 DEF Stored, Evidence!Observation
      <3> QED
        BY <1>2, <3>2, EvidenceRest DEF EvidenceInv, EvidenceTypes, Evidence!TypeOK
    <2>2. \A o \in Evidence!Observations :
            o[1] \in Bands /\ o[2] \in Evidence!Hours /\ x9[o[1]][o[2]] # NoValue /\ StoredTells(x9[o[1]][o[2]], o[1], o[2])
      BY <1>2, StoredStays DEF Evidence!Observations
    <2>3. Evidence!ProfileIsCausal
      BY <2>2 DEF Evidence!ProfileIsCausal, StoredTells, Causal
    <2>4. Evidence!SnapshotIsOneView
      BY <2>2 DEF Evidence!SnapshotIsOneView, StoredTells
    <2>5. Evidence!OutcomeWasReal
      BY <1>2, <2>2 DEF Evidence!OutcomeWasReal, StoredTells, Real, EvidenceInv, OnlyWatched
    <2> QED
      BY <2>1, <2>3, <2>4, <2>5
  <1> QED
    BY <1>1, <1>2, EvidenceInit, PTL DEF Evidence!Spec

-----------------------------------------------------------------------------
SweepTask == [at : Nat, size : {0, 1, 2}]
Comparing == [task : SweepTask, path : 0 .. 3, leg : 0 .. 2, done : 0 .. 2]
Flight == [at : {"none", "paced", "sent"}, send : (-Lag) .. Gap, deadline : (-Lag) .. Timeout]

QuoteTypes ==
  /\ x1 \in [running : BOOLEAN, left : SUBSET SweepTask]
  /\ x2 = [bots |-> x2.bots, tried |-> x2.tried] /\ x2.bots \subseteq Quotes!Valid
  /\ x3 \in Comparing /\ x4 \in Flight
  /\ x5 \in (-Lag) .. Period /\ x6 \in 0 .. (Period - 1) /\ x7 \in 0 .. (2 * Gap)
  /\ x8 \in [Quotes!BotSet -> 0 .. Cadence] /\ x9 \in 0 .. Gap

\* What the pacer promised the request that waits, and what it left for the next:
\* neither too much nor too little.
PacerTells ==
  /\ x4.at # "paced" => x7 <= Gap
  /\ x4.at = "paced" => /\ x7 <= Gap + x4.send \/ x7 = 0
                        /\ x4.send - x4.deadline <= Gap - Timeout
                        /\ x7 >= x4.send + Gap
                        /\ x9 + x4.send >= Gap - Lag
  /\ x9 + x7 >= Gap - Lag

\* A comparison is of a task that is left of the sweep.
ComparisonTells ==
  /\ x3.path = 0 => x3 = Quotes!NoCompare
  /\ x3.path # 0 => /\ x1.running /\ x3.task \in x1.left /\ x3.task.size # 0
                    /\ x3.leg # 0 /\ x3.done < x3.path
  /\ x4.at # "none" => x3.path \in {1, 2}

\* What was tried and what is left make up what is to be tried.
Pairs(left) == {<<Bots[t.at], t.size>> : t \in {u \in left : u.size # 0}}
Wanted(bots) == {p \in bots \X {1, 2} : p[2] <= SizesOf[p[1]]}
SweepTells == x1.running => x2.tried \cup Pairs(x1.left) = Wanted(x2.bots)

QuotesInv == QuoteTypes /\ PacerTells /\ ComparisonTells /\ SweepTells

LEMMA QuotesConstants ==
  /\ Gap \in Nat \ {0} /\ Timeout \in Nat \ {0} /\ Cadence \in Nat \ {0} /\ Period \in Nat \ {0}
  /\ Lag \in Nat /\ Gap <= Timeout /\ DOMAIN Bots \subseteq Nat
BY RecordsAssumption DEF Quotes!QuotesAssumption

LEMMA QuotesInit == ASSUME Quotes!Init PROVE QuotesInv
  <1> USE QuotesConstants
  <1>1. /\ x1 = [running |-> FALSE, left |-> {}] /\ x2 = [bots |-> {}, tried |-> {}]
        /\ x3 = Quotes!NoCompare /\ x4 = [at |-> "none", send |-> 0, deadline |-> 0]
        /\ x5 = 0 /\ x6 \in 0 .. (Period - 1) /\ x7 = 0 /\ x8 = [b \in Quotes!BotSet |-> 0] /\ x9 = Gap
    BY DEF Quotes!Init, Quotes!NoSweep, Quotes!NoFlight
  <1>2. QuoteTypes
    BY <1>1 DEF QuoteTypes, Comparing, Flight, SweepTask, Quotes!NoCompare, Quotes!NoTask
  <1>3. PacerTells
    BY <1>1 DEF PacerTells
  <1>4. ComparisonTells
    BY <1>1 DEF ComparisonTells, Quotes!NoCompare
  <1> QED
    BY <1>1, <1>2, <1>3, <1>4 DEF QuotesInv, SweepTells

LEMMA QuoteShapes ==
  ASSUME QuotesInv
  PROVE  /\ x1.running \in BOOLEAN /\ x1.left \in SUBSET SweepTask /\ x1 \in [running : BOOLEAN, left : SUBSET SweepTask]
         /\ x3 \in Comparing /\ x3.path \in 0 .. 3 /\ x3.leg \in 0 .. 2 /\ x3.done \in 0 .. 2 /\ x3.task \in SweepTask
         /\ x4 \in Flight /\ x4.at \in {"none", "paced", "sent"} /\ x4.send \in (-Lag) .. Gap
         /\ x4.deadline \in (-Lag) .. Timeout
         /\ x5 \in (-Lag) .. Period /\ x6 \in 0 .. (Period - 1) /\ x7 \in 0 .. (2 * Gap) /\ x9 \in 0 .. Gap
         /\ x8 \in [Quotes!BotSet -> 0 .. Cadence]
  BY DEF QuotesInv, QuoteTypes, Comparing, Flight

LEMMA NextPhase == ASSUME NEW n \in Nat \ {0}, NEW k \in 0 .. (n - 1) PROVE (k + 1) % n \in 0 .. (n - 1)
  OBVIOUS

\* The sweep's own steps.
LEMMA StartSweepInv ==
  ASSUME QuotesInv, Quotes!StartSweep
  PROVE  QuotesInv'
  <1> DEFINE quoted == {b \in Quotes!Valid : x8[b] = 0}
             left == Quotes!Tasks(quoted)
  <1>1. /\ x3 = Quotes!NoCompare /\ x1' = [running |-> TRUE, left |-> left]
        /\ x2' = [bots |-> quoted, tried |-> {}]
        /\ x8' = [b \in Quotes!BotSet |-> IF b \in quoted THEN Cadence ELSE x8[b]]
        /\ UNCHANGED <<x3, x4, x5, x6, x7, x9>>
    BY DEF Quotes!StartSweep, Quotes!Idle
  <1>2. left \in SUBSET SweepTask
    BY QuotesConstants DEF Quotes!Tasks, SweepTask
  <1>3. Pairs(left) = Wanted(quoted)
    <2>1. ASSUME NEW t \in left, t.size # 0 PROVE <<Bots[t.at], t.size>> \in Wanted(quoted)
      BY <2>1 DEF Quotes!Tasks, Wanted
    <2>2. ASSUME NEW p \in Wanted(quoted) PROVE p \in Pairs(left)
      <3>1. p = <<p[1], p[2]>> /\ p[1] \in quoted /\ p[2] \in {1, 2} /\ p[2] <= SizesOf[p[1]]
        BY <2>2 DEF Wanted
      <3>2. PICK i \in DOMAIN Bots : Bots[i] = p[1] /\ Bots[i] \notin BadMint
        BY <3>1 DEF Quotes!Valid, Quotes!BotSet
      <3> DEFINE t == [at |-> i, size |-> p[2]]
      <3>3. t \in left /\ t.at = i /\ t.size = p[2]
        BY <3>1, <3>2 DEF Quotes!Tasks
      <3> HIDE DEF left, t
      <3> QED
        BY <3>1, <3>2, <3>3 DEF Pairs
    <2> HIDE DEF left
    <2> QED
      BY <2>1, <2>2 DEF Pairs
  <1> HIDE DEF left, quoted
  <1>4. QuoteTypes'
    BY <1>1, <1>2, QuotesConstants, QuoteShapes DEF QuoteTypes, quoted
  <1>5. PacerTells' /\ ComparisonTells'
    BY <1>1 DEF QuotesInv, PacerTells, ComparisonTells, Quotes!NoCompare
  <1>6. SweepTells'
    BY <1>1, <1>3 DEF SweepTells
  <1> QED
    BY <1>4, <1>5, <1>6 DEF QuotesInv

LEMMA SweepEndsInv ==
  ASSUME QuotesInv, Quotes!EndSweep \/ Quotes!TargetsFail
  PROVE  QuotesInv'
  <1>1. UNCHANGED <<x2, x3, x4, x6, x7, x8, x9>> /\ x5' = Period - x6
    BY DEF Quotes!EndSweep, Quotes!TargetsFail, Quotes!UntilNextSweep
  <1>2. x5' \in (-Lag) .. Period
    BY <1>1, QuoteShapes, QuotesConstants
  <1>3. x3 = Quotes!NoCompare /\ (x1' = x1 \/ x1' = Quotes!NoSweep)
    BY DEF Quotes!EndSweep, Quotes!TargetsFail, Quotes!Idle
  <1>4. x1' \in [running : BOOLEAN, left : SUBSET SweepTask]
    <2>1. Quotes!NoSweep \in [running : BOOLEAN, left : SUBSET SweepTask]
      BY DEF Quotes!NoSweep
    <2> QED
      BY <1>3, <2>1, QuoteShapes
  <1>5. QuoteTypes'
    BY <1>1, <1>2, <1>4 DEF QuotesInv, QuoteTypes
  <1>6. PacerTells' /\ ComparisonTells'
    BY <1>1, <1>3 DEF QuotesInv, PacerTells, ComparisonTells, Quotes!NoCompare
  <1>7. SweepTells'
    BY <1>1, <1>3 DEF QuotesInv, SweepTells, Quotes!NoSweep
  <1> QED
    BY <1>5, <1>6, <1>7 DEF QuotesInv

\* A task that leaves the sweep.
LEMMA TaskLeaves ==
  ASSUME QuotesInv, NEW t \in x1.left
  PROVE  LET rest == [x1 EXCEPT !.left = @ \ {t}]
         IN  /\ rest \in [running : BOOLEAN, left : SUBSET SweepTask]
             /\ rest.running = x1.running /\ rest.left = x1.left \ {t}
  <1> DEFINE S == SUBSET SweepTask
  <1>1. x1 \in [running : BOOLEAN, left : S] /\ x1.left \ {t} \in S
    BY QuoteShapes
  <1> HIDE DEF S
  <1>2. [x1 EXCEPT !.left = @ \ {t}] \in [running : BOOLEAN, left : S]
    BY <1>1
  <1> QED
    BY <1>1, <1>2 DEF S

LEMMA MarketInv ==
  ASSUME QuotesInv, Quotes!Market
  PROVE  QuotesInv'
  <1>1. PICK t \in x1.left : t.size = 0 /\ x1' = [x1 EXCEPT !.left = @ \ {t}]
    BY DEF Quotes!Market
  <1>2. x3 = Quotes!NoCompare /\ UNCHANGED <<x2, x3, x4, x5, x6, x7, x8, x9>>
    BY DEF Quotes!Market
  <1>3. x1' \in [running : BOOLEAN, left : SUBSET SweepTask] /\ x1'.running = x1.running /\ x1'.left = x1.left \ {t}
    BY <1>1, TaskLeaves
  <1>4. Pairs(x1'.left) = Pairs(x1.left)
    BY <1>1, <1>3 DEF Pairs
  <1>5. QuoteTypes'
    BY <1>2, <1>3 DEF QuotesInv, QuoteTypes
  <1>6. PacerTells' /\ ComparisonTells'
    BY <1>2 DEF QuotesInv, PacerTells, ComparisonTells, Quotes!NoCompare
  <1>7. SweepTells'
    BY <1>2, <1>3, <1>4 DEF QuotesInv, SweepTells
  <1> QED
    BY <1>5, <1>6, <1>7 DEF QuotesInv

LEMMA FinishInv ==
  ASSUME QuotesInv, Quotes!Finish
  PROVE  QuotesInv'
  <1>1. /\ x3.path = 3 /\ x3' = Quotes!NoCompare /\ UNCHANGED <<x4, x5, x6, x7, x8, x9>>
        /\ x2' = [x2 EXCEPT !.tried = @ \cup {<<Bots[x3.task.at], x3.task.size>>}]
        /\ x1' = [x1 EXCEPT !.left = @ \ {x3.task}]
    BY DEF Quotes!Finish, Quotes!Compared
  <1>2. x1.running /\ x3.task \in x1.left /\ x3.task.size # 0 /\ x4.at = "none"
    BY <1>1, QuoteShapes DEF QuotesInv, ComparisonTells
  <1>3. x1' \in [running : BOOLEAN, left : SUBSET SweepTask] /\ x1'.running /\ x1'.left = x1.left \ {x3.task}
    BY <1>1, <1>2, TaskLeaves
  <1>4. x2'.bots = x2.bots
    BY <1>1 DEF QuotesInv, QuoteTypes
  <1>5. x2'.tried = x2.tried \cup {<<Bots[x3.task.at], x3.task.size>>}
    BY <1>1
  <1>6. QuoteTypes'
    <2>1. Quotes!NoCompare \in Comparing
      BY DEF Quotes!NoCompare, Quotes!NoTask, Comparing, SweepTask
    <2> QED
      BY <1>1, <1>3, <1>4, <2>1 DEF QuotesInv, QuoteTypes
  <1>7. PacerTells' /\ ComparisonTells'
    BY <1>1, <1>2 DEF QuotesInv, PacerTells, ComparisonTells, Quotes!NoCompare
  <1>8. x2'.tried \cup Pairs(x1'.left) = x2.tried \cup Pairs(x1.left)
    <2> DEFINE p(t) == <<Bots[t.at], t.size>>
    <2>1. \A q : q \in Pairs(x1.left) <=> \E t \in x1.left : t.size # 0 /\ q = p(t)
      BY DEF Pairs
    <2>2. \A q : q \in Pairs(x1'.left) <=> \E t \in x1.left \ {x3.task} : t.size # 0 /\ q = p(t)
      BY <1>3 DEF Pairs
    <2>3. x2'.tried = x2.tried \cup {p(x3.task)}
      BY <1>5
    <2> HIDE DEF p
    <2>4. \A q : q \in x2'.tried \cup Pairs(x1'.left) <=> q \in x2.tried \cup Pairs(x1.left)
      BY <1>2, <2>1, <2>2, <2>3
    <2> QED
      BY <2>4
  <1>9. SweepTells'
    BY <1>2, <1>3, <1>4, <1>8 DEF QuotesInv, SweepTells
  <1> QED
    BY <1>6, <1>7, <1>9 DEF QuotesInv

\* A comparison starts, and goes from path to path.
LEMMA ComparisonStarts ==
  ASSUME NEW t \in SweepTask
  PROVE  LET c == [Quotes!NoCompare EXCEPT !.task = t, !.path = 1, !.leg = 1]
         IN  c \in Comparing /\ c.task = t /\ c.path = 1 /\ c.leg = 1 /\ c.done = 0
  <1> DEFINE C == [task : SweepTask, path : 0 .. 3, leg : 0 .. 2, done : 0 .. 2]
  <1>1. Quotes!NoCompare \in C /\ Quotes!NoCompare.done = 0
    BY DEF Quotes!NoCompare, Quotes!NoTask, SweepTask
  <1> DEFINE c == Quotes!NoCompare
  <1> HIDE DEF c
  <1>2. ASSUME NEW S, NEW P, NEW L, NEW D, c \in [task : S, path : P, leg : L, done : D], t \in S, 1 \in P, 1 \in L
        PROVE  LET d == [c EXCEPT !.task = t, !.path = 1, !.leg = 1]
               IN  d \in [task : S, path : P, leg : L, done : D] /\ d.task = t /\ d.path = 1 /\ d.leg = 1 /\ d.done = c.done
    BY <1>2
  <1>3. c \in [task : SweepTask, path : 0 .. 3, leg : 0 .. 2, done : 0 .. 2] /\ 1 \in 0 .. 3 /\ 1 \in 0 .. 2
    BY <1>1 DEF c
  <1>4. LET d == [c EXCEPT !.task = t, !.path = 1, !.leg = 1]
        IN  /\ d \in [task : SweepTask, path : 0 .. 3, leg : 0 .. 2, done : 0 .. 2]
            /\ d.task = t /\ d.path = 1 /\ d.leg = 1 /\ d.done = c.done
    BY <1>2, <1>3
  <1> QED
    BY <1>1, <1>4 DEF Comparing, c

LEMMA ComparisonGoesOn ==
  ASSUME NEW c \in Comparing, c.path \in {1, 2}
  PROVE  LET next == Quotes!NextPath(c)
         IN  next \in Comparing /\ next.task = c.task /\ next.path = c.path + 1 /\ next.leg = 1 /\ next.done = c.done
  <1>1. c \in [task : SweepTask, path : 0 .. 3, leg : 0 .. 2, done : 0 .. 2] /\ c.path + 1 \in 0 .. 3 /\ 1 \in 0 .. 2
    BY DEF Comparing
  <1>2. ASSUME NEW S, NEW P, NEW L, NEW D, c \in [task : S, path : P, leg : L, done : D], c.path + 1 \in P, 1 \in L
        PROVE  LET d == [c EXCEPT !.path = @ + 1, !.leg = 1]
               IN  d \in [task : S, path : P, leg : L, done : D] /\ d.task = c.task /\ d.path = c.path + 1 /\ d.leg = 1
                   /\ d.done = c.done
    BY <1>2
  <1> QED
    BY <1>1, <1>2 DEF Comparing, Quotes!NextPath

LEMMA ComparisonCounts ==
  ASSUME NEW c \in Comparing, c.done + 1 \in 0 .. 2
  PROVE  LET more == [c EXCEPT !.done = @ + 1]
         IN  more \in Comparing /\ more.task = c.task /\ more.path = c.path /\ more.leg = c.leg /\ more.done = c.done + 1
  <1>1. ASSUME NEW S, NEW P, NEW L, NEW D, c \in [task : S, path : P, leg : L, done : D], c.done + 1 \in D
        PROVE  LET d == [c EXCEPT !.done = @ + 1]
               IN  d \in [task : S, path : P, leg : L, done : D] /\ d.task = c.task /\ d.path = c.path /\ d.leg = c.leg
                   /\ d.done = c.done + 1
    BY <1>1
  <1> QED
    BY <1>1 DEF Comparing

LEMMA ComparisonTurns ==
  ASSUME NEW c \in Comparing
  PROVE  LET back == [c EXCEPT !.leg = 2]
         IN  back \in Comparing /\ back.task = c.task /\ back.path = c.path /\ back.leg = 2 /\ back.done = c.done
  <1>1. ASSUME NEW S, NEW P, NEW L, NEW D, c \in [task : S, path : P, leg : L, done : D], 2 \in L
        PROVE  LET d == [c EXCEPT !.leg = 2]
               IN  d \in [task : S, path : P, leg : L, done : D] /\ d.task = c.task /\ d.path = c.path /\ d.leg = 2
                   /\ d.done = c.done
    BY <1>1
  <1> QED
    BY <1>1 DEF Comparing

LEMMA StartCompareInv ==
  ASSUME QuotesInv, Quotes!StartCompare
  PROVE  QuotesInv'
  <1>1. PICK t \in x1.left : t.size # 0 /\ x3' = [Quotes!NoCompare EXCEPT !.task = t, !.path = 1, !.leg = 1]
    BY DEF Quotes!StartCompare
  <1>2. x1.running /\ x3 = Quotes!NoCompare /\ UNCHANGED <<x1, x2, x4, x5, x6, x7, x8, x9>>
    BY DEF Quotes!StartCompare
  <1>3. t \in SweepTask
    BY QuoteShapes
  <1>4. x3' \in Comparing /\ x3'.task = t /\ x3'.path = 1 /\ x3'.leg = 1 /\ x3'.done = 0
    BY <1>1, <1>3, ComparisonStarts
  <1>5. x4.at = "none"
    BY <1>2 DEF QuotesInv, ComparisonTells, Quotes!NoCompare, QuoteTypes, Flight
  <1>6. QuoteTypes' /\ PacerTells' /\ SweepTells'
    BY <1>2, <1>4 DEF QuotesInv, QuoteTypes, PacerTells, SweepTells
  <1>7. ComparisonTells'
    BY <1>1, <1>2, <1>4, <1>5 DEF ComparisonTells
  <1> QED
    BY <1>6, <1>7 DEF QuotesInv

\* A path ends, whatever became of its request, and frees the pacer as it is.
LEMMA PathEnds ==
  ASSUME QuotesInv, x3.path \in {1, 2}, x4' = Quotes!NoFlight, x7 <= Gap,
         UNCHANGED <<x1, x2, x5, x6, x7, x8, x9>>,
         \/ x3' = Quotes!NextPath(x3)
         \/ x3' = [Quotes!NextPath(x3) EXCEPT !.done = @ + 1]
         \/ x3' = [x3 EXCEPT !.leg = 2]
  PROVE  QuotesInv'
  <1>1. x3.done < x3.path /\ x1.running /\ x3.task \in x1.left /\ x3.task.size # 0
    BY DEF QuotesInv, ComparisonTells
  <1>2. x3' \in Comparing /\ x3'.task = x3.task /\ x3'.path # 0 /\ x3'.leg # 0 /\ x3'.done < x3'.path
    <2>1. x3 \in Comparing /\ x3.path \in 1 .. 2 /\ x3.done \in 0 .. 2
      BY QuoteShapes
    <2> DEFINE next == Quotes!NextPath(x3)
    <2>2. next \in Comparing /\ next.task = x3.task /\ next.path = x3.path + 1 /\ next.leg = 1 /\ next.done = x3.done
      BY <2>1, ComparisonGoesOn
    <2>3. CASE x3' = next
      BY <1>1, <2>1, <2>2, <2>3
    <2>4. CASE x3' = [next EXCEPT !.done = @ + 1]
      <3>1. next.done + 1 \in 0 .. 2
        BY <1>1, <2>1, <2>2
      <3> HIDE DEF next
      <3> QED
        BY <1>1, <2>1, <2>2, <2>4, <3>1, ComparisonCounts
    <2>5. CASE x3' = [x3 EXCEPT !.leg = 2]
      BY <1>1, <2>1, <2>5, ComparisonTurns
    <2> QED
      BY <2>3, <2>4, <2>5
  <1>3. x4' = [at |-> "none", send |-> 0, deadline |-> 0] /\ x4' \in Flight
    BY QuotesConstants DEF Quotes!NoFlight, Flight
  <1>4. QuoteTypes' /\ SweepTells'
    BY <1>2, <1>3 DEF QuotesInv, QuoteTypes, SweepTells
  <1>5. PacerTells'
    BY <1>3 DEF QuotesInv, PacerTells
  <1>6. ComparisonTells'
    BY <1>1, <1>2, <1>3 DEF ComparisonTells
  <1> QED
    BY <1>4, <1>5, <1>6 DEF QuotesInv

LEMMA PathEndsInv ==
  ASSUME QuotesInv, Quotes!SkipPath \/ Quotes!Answered \/ Quotes!Refused \/ Quotes!TimesOut
  PROVE  QuotesInv'
  <1> USE QuotesConstants
  <1>1. x3.path \in {1, 2} /\ x4' = Quotes!NoFlight /\ UNCHANGED <<x1, x2, x5, x6, x7, x8, x9>>
    <2>1. CASE Quotes!SkipPath
      BY <2>1 DEF Quotes!SkipPath
    <2>2. CASE ~ Quotes!SkipPath
      BY <2>2 DEF Quotes!Answered, Quotes!Refused, Quotes!TimesOut, QuotesInv, ComparisonTells
    <2> QED
      BY <2>1, <2>2
  <1>2. x7 <= Gap
    <2>1. CASE x4.at = "paced"
      <3>1. x4.deadline <= 0
        BY <2>1 DEF Quotes!SkipPath, Quotes!NoFlight, Quotes!Answered, Quotes!Refused, Quotes!TimesOut
      <3> QED
        BY <2>1, <3>1, QuoteShapes DEF QuotesInv, PacerTells
    <2>2. CASE x4.at # "paced"
      BY <2>2 DEF QuotesInv, PacerTells
    <2> QED
      BY <2>1, <2>2
  <1>3. \/ x3' = Quotes!NextPath(x3)
        \/ x3' = [Quotes!NextPath(x3) EXCEPT !.done = @ + 1]
        \/ x3' = [x3 EXCEPT !.leg = 2]
    BY DEF Quotes!SkipPath, Quotes!Answered, Quotes!Refused, Quotes!TimesOut
  <1> QED
    BY <1>1, <1>2, <1>3, PathEnds

LEMMA AskInv ==
  ASSUME QuotesInv, Quotes!Ask
  PROVE  QuotesInv'
  <1> USE QuotesConstants
  <1>1. /\ x3.path \in {1, 2} /\ x4.at = "none" /\ x4' = [at |-> "paced", send |-> x7, deadline |-> Timeout]
        /\ x7' = x7 + Gap /\ UNCHANGED <<x1, x2, x3, x5, x6, x8, x9>>
    BY DEF Quotes!Ask, Quotes!Planned, Quotes!NoFlight
  <1>2. x7 <= Gap /\ x7 \in Nat /\ x9 + x7 >= Gap - Lag
    BY <1>1, QuoteShapes DEF QuotesInv, PacerTells
  <1>3. x4' \in Flight
    BY <1>1, <1>2 DEF Flight
  <1>4. x7' \in 0 .. (2 * Gap)
    BY <1>1, <1>2
  <1>5. QuoteTypes' /\ SweepTells'
    BY <1>1, <1>3, <1>4 DEF QuotesInv, QuoteTypes, SweepTells
  <1>6. PacerTells'
    BY <1>1, <1>2, QuoteShapes DEF PacerTells
  <1>7. ComparisonTells'
    BY <1>1 DEF QuotesInv, ComparisonTells
  <1> QED
    BY <1>5, <1>6, <1>7 DEF QuotesInv

LEMMA SendInv ==
  ASSUME QuotesInv, Quotes!Send
  PROVE  QuotesInv' /\ x9 >= Gap - Lag
  <1> USE QuotesConstants
  <1>1. /\ x4.at = "paced" /\ x4.send <= 0 /\ x4' = [x4 EXCEPT !.at = "sent"] /\ x9' = 0
        /\ UNCHANGED <<x1, x2, x3, x5, x6, x7, x8>>
    BY DEF Quotes!Send
  <1>2. x4' \in Flight /\ x4'.at = "sent"
    BY <1>1, QuoteShapes DEF Flight
  <1>3. QuoteTypes' /\ SweepTells'
    BY <1>1, <1>2 DEF QuotesInv, QuoteTypes, SweepTells
  <1>4. PacerTells' /\ x9 >= Gap - Lag
    BY <1>1, <1>2, QuoteShapes DEF QuotesInv, PacerTells
  <1>5. ComparisonTells'
    BY <1>1, <1>2 DEF QuotesInv, ComparisonTells
  <1> QED
    BY <1>3, <1>4, <1>5 DEF QuotesInv

LEMMA QuotesTickInv ==
  ASSUME QuotesInv, Quotes!Tick
  PROVE  QuotesInv'
  <1> USE QuotesConstants
  <1>1. /\ x4.at = "paced" => x4.send > -Lag
        /\ x4.at # "none" => x4.deadline > -Lag
        /\ Quotes!Idle => x5 > -Lag
        /\ x4' = IF x4.at = "none" THEN x4
                 ELSE [x4 EXCEPT !.send = Quotes!Later(@ - 1, -Lag), !.deadline = @ - 1]
        /\ x5' = (IF Quotes!Idle THEN x5 - 1 ELSE x5)
        /\ x6' = (x6 + 1) % Period /\ x7' = Quotes!Less(x7)
        /\ x8' = [b \in Quotes!BotSet |-> Quotes!Less(x8[b])]
        /\ x9' = (IF x9 < Gap THEN x9 + 1 ELSE x9)
        /\ UNCHANGED <<x1, x2, x3>>
    BY DEF Quotes!Tick
  <1>2. x6' \in 0 .. (Period - 1)
    BY <1>1, NextPhase, QuoteShapes
  <1>3. x5' \in (-Lag) .. Period
    BY <1>1, QuoteShapes
  <1>4. x7' = (IF x7 > 0 THEN x7 - 1 ELSE 0) /\ x7' \in 0 .. (2 * Gap) /\ x9' \in 0 .. Gap
    BY <1>1, QuoteShapes DEF Quotes!Less, Quotes!Later
  <1>5. x8' \in [Quotes!BotSet -> 0 .. Cadence]
    BY <1>1, QuoteShapes DEF Quotes!Less, Quotes!Later
  <1>6. /\ x4' \in Flight /\ x4'.at = x4.at
        /\ x4.at = "paced" => x4'.send = x4.send - 1 /\ x4'.deadline = x4.deadline - 1
    <2>1. CASE x4.at = "none"
      BY <1>1, <2>1, QuoteShapes
    <2>2. CASE x4.at # "none"
      <3> DEFINE s == Quotes!Later(x4.send - 1, -Lag)
      <3>1. s \in (-Lag) .. Gap /\ (x4.at = "paced" => s = x4.send - 1)
        BY <1>1, QuoteShapes DEF Quotes!Later
      <3>2. x4.deadline - 1 \in (-Lag) .. Timeout
        BY <1>1, <2>2, QuoteShapes
      <3>3. x4' = [x4 EXCEPT !.send = s, !.deadline = x4.deadline - 1]
        BY <1>1, <2>2
      <3> HIDE DEF s
      <3> QED
        BY <3>1, <3>2, <3>3, QuoteShapes DEF Flight
    <2> QED
      BY <2>1, <2>2
  <1>7. QuoteTypes' /\ SweepTells'
    <2>1. UNCHANGED <<x1, x2, x3>>
      BY <1>1
    <2>2. SweepTells'
      BY <2>1 DEF QuotesInv, SweepTells
    <2>3. x4' \in Flight
      BY <1>6
    <2> QED
      BY <2>1, <2>2, <1>2, <1>3, <1>4, <1>5, <2>3 DEF QuotesInv, QuoteTypes
  <1>8. PacerTells'
    <2>1. x9' + x7' >= Gap - Lag
      BY <1>1, <1>4, QuoteShapes DEF QuotesInv, PacerTells
    <2>2. x4.at # "paced" => x7' <= Gap
      BY <1>4, QuoteShapes DEF QuotesInv, PacerTells
    <2>3. ASSUME x4.at = "paced"
          PROVE  /\ x7' <= Gap + x4'.send \/ x7' = 0
                 /\ x4'.send - x4'.deadline <= Gap - Timeout
                 /\ x7' >= x4'.send + Gap
                 /\ x9' + x4'.send >= Gap - Lag
      <3>1. /\ x7 <= Gap + x4.send \/ x7 = 0
            /\ x4.send - x4.deadline <= Gap - Timeout
            /\ x7 >= x4.send + Gap
            /\ x9 + x4.send >= Gap - Lag
        BY <2>3 DEF QuotesInv, PacerTells
      <3>7. x4.send \in Int /\ x4.deadline \in Int /\ x7 \in Nat /\ x9 \in 0 .. Gap
        BY QuoteShapes
      <3>8. x4'.send = x4.send - 1 /\ x4'.deadline = x4.deadline - 1
        BY <1>6, <2>3
      <3>9. x4.send > -Lag
        BY <1>1, <2>3
      <3>2. /\ x4.send \in Int /\ x4.deadline \in Int /\ x7 \in Nat /\ x9 \in 0 .. Gap /\ x4.send > -Lag
            /\ x4'.send = x4.send - 1 /\ x4'.deadline = x4.deadline - 1
        BY <3>7, <3>8, <3>9
      <3>3. x9' + x4'.send >= Gap - Lag
        BY <1>1, <3>1, <3>2
      <3>4. x7' <= Gap + x4'.send \/ x7' = 0
        BY <1>4, <3>1, <3>2
      <3>5. x7' >= x4'.send + Gap
        BY <1>4, <3>1, <3>2
      <3> QED
        BY <3>1, <3>2, <3>3, <3>4, <3>5
    <2>4. x4'.at = x4.at
      BY <1>6
    <2> QED
      BY <2>1, <2>2, <2>3, <2>4 DEF PacerTells
  <1>9. ComparisonTells'
    BY <1>1, <1>6 DEF QuotesInv, ComparisonTells
  <1> QED
    BY <1>7, <1>8, <1>9 DEF QuotesInv

\* A sweep that ends has nothing left, so that everything to be tried was.
LEMMA SweepTried ==
  ASSUME QuotesInv, Quotes!EndSweep
  PROVE  Quotes!SweepTriesEveryDueBot
  <1>1. x1.running /\ x1.left = {}
    BY DEF Quotes!EndSweep
  <1>2. Pairs(x1.left) = {}
    BY <1>1 DEF Pairs
  <1>3. x2.tried = Wanted(x2.bots)
    BY <1>1, <1>2 DEF QuotesInv, SweepTells
  <1> QED
    BY <1>3 DEF Wanted, Quotes!SweepTriesEveryDueBot

\* A step keeps the invariant, sends a request only when the last is Gap - Lag old, and
\* ends a sweep only when it is done.
LEMMA QuotesStep ==
  ASSUME QuotesInv, [Quotes!Next]_Quotes!vars
  PROVE  QuotesInv' /\ Quotes!CallsAreSpaced /\ Quotes!SweepTriesEveryDueBot
  <1>1. CASE Quotes!StartSweep
    <2>1. ~ x1.running /\ x4' = x4
      BY <1>1 DEF Quotes!StartSweep, Quotes!Idle
    <2> QED
      BY <1>1, <2>1, StartSweepInv DEF Quotes!CallsAreSpaced, Quotes!SweepTriesEveryDueBot
  <1>2. CASE Quotes!EndSweep
    <2>1. x4' = x4
      BY <1>2 DEF Quotes!EndSweep
    <2> QED
      BY <1>2, <2>1, SweepEndsInv, SweepTried DEF Quotes!CallsAreSpaced
  <1>3. CASE Quotes!TargetsFail
    <2>1. UNCHANGED <<x1, x4>>
      BY <1>3 DEF Quotes!TargetsFail
    <2> QED
      BY <1>3, <2>1, SweepEndsInv DEF Quotes!CallsAreSpaced, Quotes!SweepTriesEveryDueBot
  <1>4. CASE Quotes!Market
    <2>1. x4' = x4 /\ x1'.running = x1.running
      <3>1. PICK t \in x1.left : x1' = [x1 EXCEPT !.left = @ \ {t}]
        BY <1>4 DEF Quotes!Market
      <3> QED
        BY <1>4, <3>1, TaskLeaves DEF Quotes!Market
    <2> QED
      BY <1>4, <2>1, MarketInv DEF Quotes!CallsAreSpaced, Quotes!SweepTriesEveryDueBot
  <1>5. CASE Quotes!StartCompare
    <2>1. UNCHANGED <<x1, x4>>
      BY <1>5 DEF Quotes!StartCompare
    <2> QED
      BY <1>5, <2>1, StartCompareInv DEF Quotes!CallsAreSpaced, Quotes!SweepTriesEveryDueBot
  <1>6. CASE Quotes!SkipPath \/ Quotes!Answered \/ Quotes!Refused \/ Quotes!TimesOut
    <2>1. x1' = x1 /\ (x4' = x4 \/ x4' = Quotes!NoFlight)
      BY <1>6 DEF Quotes!SkipPath, Quotes!Answered, Quotes!Refused, Quotes!TimesOut
    <2> QED
      BY <1>6, <2>1, PathEndsInv DEF Quotes!CallsAreSpaced, Quotes!SweepTriesEveryDueBot, Quotes!NoFlight
  <1>7. CASE Quotes!Finish
    <2>1. x3.path = 3 /\ x1' = [x1 EXCEPT !.left = @ \ {x3.task}] /\ x4' = x4
      BY <1>7 DEF Quotes!Finish
    <2>2. x3.task \in x1.left
      BY <2>1 DEF QuotesInv, ComparisonTells
    <2>3. x1'.running = x1.running
      BY <2>1, <2>2, TaskLeaves
    <2> QED
      BY <1>7, <2>1, <2>3, FinishInv DEF Quotes!CallsAreSpaced, Quotes!SweepTriesEveryDueBot
  <1>8. CASE Quotes!Ask
    <2>1. x1' = x1 /\ x4.at = "none"
      BY <1>8 DEF Quotes!Ask, Quotes!NoFlight
    <2> QED
      BY <1>8, <2>1, AskInv DEF Quotes!CallsAreSpaced, Quotes!SweepTriesEveryDueBot
  <1>9. CASE Quotes!Send
    <2>1. x1' = x1
      BY <1>9 DEF Quotes!Send
    <2> QED
      BY <1>9, <2>1, SendInv DEF Quotes!CallsAreSpaced, Quotes!SweepTriesEveryDueBot
  <1>10. CASE Quotes!Tick
    <2>1. x1' = x1 /\ (x4.at # "none" => x4' = [x4 EXCEPT !.send = Quotes!Later(@ - 1, -Lag), !.deadline = @ - 1])
      BY <1>10 DEF Quotes!Tick
    <2>2. x4.at # "none" => x4'.at = x4.at
      BY <2>1, QuoteShapes DEF Flight
    <2> QED
      BY <1>10, <2>1, <2>2, QuotesTickInv DEF Quotes!CallsAreSpaced, Quotes!SweepTriesEveryDueBot
  <1>11. CASE UNCHANGED Quotes!vars
    <2>1. UNCHANGED <<x1, x2, x3, x4, x5, x6, x7, x8, x9>>
      BY <1>11 DEF Quotes!vars
    <2>2. QuotesInv'
      BY <2>1 DEF QuotesInv, QuoteTypes, PacerTells, ComparisonTells, SweepTells
    <2> QED
      BY <2>1, <2>2 DEF Quotes!CallsAreSpaced, Quotes!SweepTriesEveryDueBot
  <1> QED
    BY <1>1, <1>2, <1>3, <1>4, <1>5, <1>6, <1>7, <1>8, <1>9, <1>10, <1>11 DEF Quotes!Next, Quotes!Timers

LEMMA QuotesTyped == ASSUME QuotesInv PROVE Quotes!TypeOK
  <1>1. x2.bots \subseteq Quotes!Valid
    BY DEF QuotesInv, QuoteTypes
  <1> QED
    BY <1>1, QuoteShapes DEF Quotes!TypeOK

\* Jupiter's quotes are spaced over the whole process, given-up requests included, as far
\* as the timers are on time.
THEOREM QuotesStaySpaced == Quotes!Spec => [][Quotes!CallsAreSpaced]_Quotes!vars
  <1>1. Quotes!Init => QuotesInv
    BY QuotesInit
  <1>2. QuotesInv /\ [Quotes!Next]_Quotes!vars => QuotesInv' /\ Quotes!CallsAreSpaced
    BY QuotesStep
  <1> QED
    BY <1>1, <1>2, PTL DEF Quotes!Spec

\* A sweep ends with every bot whose turn it was tried at each of its sizes.
THEOREM SweepsTryEveryBot == Quotes!Spec => [][Quotes!SweepTriesEveryDueBot]_Quotes!vars
  <1>1. Quotes!Init => QuotesInv
    BY QuotesInit
  <1>2. QuotesInv /\ [Quotes!Next]_Quotes!vars => QuotesInv' /\ Quotes!SweepTriesEveryDueBot
    BY QuotesStep
  <1> QED
    BY <1>1, <1>2, PTL DEF Quotes!Spec

THEOREM QuotesStayTyped == Quotes!Spec => []Quotes!TypeOK
  <1>1. Quotes!Init => QuotesInv
    BY QuotesInit
  <1>2. QuotesInv /\ [Quotes!Next]_Quotes!vars => QuotesInv'
    BY QuotesStep
  <1>3. QuotesInv => Quotes!TypeOK
    BY QuotesTyped
  <1> QED
    BY <1>1, <1>2, <1>3, PTL DEF Quotes!Spec

-----------------------------------------------------------------------------
\* Whichever of the three is at work: what is recorded stands for what happened.
THEOREM RecordsAlwaysHold ==
  \/ Spec /\ [](part = "outbox")
  \/ Evidence!Spec /\ [](part \in EvidenceParts)
  \/ Quotes!Spec /\ [](part = "quotes")
  => []RecordsHold
  <1>1. OutboxHolds /\ part = "outbox" => RecordsHold
    BY DEF RecordsHold, EvidenceParts
  <1>2. Evidence!TypeOK /\ Evidence!ProfileIsCausal /\ Evidence!SnapshotIsOneView /\ Evidence!OutcomeWasReal
        /\ part \in EvidenceParts => RecordsHold
    BY DEF RecordsHold, EvidenceParts
  <1>3. Quotes!TypeOK /\ part = "quotes" => RecordsHold
    BY DEF RecordsHold, EvidenceParts
  <1> QED
    BY <1>1, <1>2, <1>3, OutboxAlwaysHolds, EvidenceIsTrue, QuotesStayTyped, PTL

\* Evidence stays as it was stored, quotes stay apart and sweeps go to their end.
THEOREM RecordsAlwaysStand ==
  \/ Evidence!Spec /\ [](part # "quotes")
  \/ Quotes!Spec /\ [](part \notin EvidenceParts)
  => RecordsStand
  <1> DEFINE Change == /\ part \in EvidenceParts => Evidence!EvidenceIsFrozen
                       /\ part = "quotes" => Quotes!CallsAreSpaced /\ Quotes!SweepTriesEveryDueBot
  <1>1. EvidenceInv /\ [Evidence!Next]_Evidence!vars /\ part # "quotes" => EvidenceInv' /\ [Change]_recordVars
    BY EvidenceStep
  <1>2. QuotesInv /\ [Quotes!Next]_Quotes!vars /\ part \notin EvidenceParts => QuotesInv' /\ [Change]_recordVars
    BY QuotesStep
  <1> QED
    BY <1>1, <1>2, EvidenceInit, QuotesInit, PTL DEF RecordsStand, Evidence!Spec, Quotes!Spec
=============================================================================
