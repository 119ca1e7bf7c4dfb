----------------------- MODULE DurableExecutionProofs -----------------------
(***************************************************************************)
(* Theorems about DurableExecution, for every number of bots, workers and  *)
(* executions and every bound on crashes: first those that hold whether or *)
(* not the session that holds the advisory lock can be lost, then those    *)
(* about settlement, which need it to live.                                *)
(***************************************************************************)
EXTENDS DurableExecution, TLAPS

USE DEF OperatorStatuses, Statuses, Unresolved, Terminal, Results, ChainStates, Labels

-----------------------------------------------------------------------------
(* The helpers keep the types                                              *)

LEMMA NullTypes == NullView \in Views /\ NullAttempt \in Attempts
  BY DEF Views, Attempts, NullView, NullAttempt

\* Record updates the actions make.
LEMMA ViewUpdates ==
    ASSUME NEW v \in Views, NEW r \in BOOLEAN
    PROVE  /\ [v EXCEPT !.recovery = r] \in Views
           /\ [v EXCEPT !.fresh = FALSE] \in Views
  BY DEF Views

LEMMA ViewRead ==
    ASSUME NEW v \in Views, NEW s \in Statuses, NEW l \in SUBSET Execs, NEW n \in SUBSET Execs
    PROVE  /\ [v EXCEPT !.status = s, !.lots = l] \in Views
           /\ [v EXCEPT !.snap = n, !.fresh = TRUE] \in Views
  BY DEF Views

LEMMA AttemptUpdates ==
    ASSUME NEW h \in Attempts, NEW r \in Results, NEW k \in BOOLEAN
    PROVE  /\ [h EXCEPT !.rep = r] \in Attempts
           /\ [h EXCEPT !.rep = r, !.txid = k] \in Attempts
  BY DEF Attempts

LEMMA AttemptFields ==
    ASSUME NEW h \in Attempts
    PROVE  /\ h.exec \in Execs \cup {NoExec}
           /\ h.prev \in Results /\ h.rep \in Results
           /\ h.unc \in BOOLEAN /\ h.txid \in BOOLEAN
  BY DEF Attempts

LEMMA ViewFields ==
    ASSUME NEW v \in Views
    PROVE  v.status \in Statuses /\ v.lots \in SUBSET Execs /\ v.snap \in SUBSET Execs
  BY DEF Views

LEMMA GotoType ==
    ASSUME TypeOK, NEW w \in Workers, NEW b \in Bots, NEW l \in Labels, Goto(w, b, l)
    PROVE  pc' \in [Workers -> [Bots -> Labels]]
  BY DEF Goto, TypeOK

LEMMA LeaveType ==
    ASSUME TypeOK, NEW w \in Workers, NEW b \in Bots, NEW l \in Labels, Leave(w, b, l)
    PROVE  /\ pc' \in [Workers -> [Bots -> Labels]]
           /\ view' \in [Workers -> [Bots -> Views]]
           /\ held' \in [Workers -> [Bots -> Attempts]]
  BY GotoType, NullTypes DEF Leave, TypeOK

LEMMA SetStatusType ==
    ASSUME TypeOK, NEW b \in Bots, NEW s \in Statuses, SetStatus(b, s)
    PROVE  status' \in [Bots -> Statuses]
  BY DEF SetStatus, preserveOperatorStatus, TypeOK

LEMMA SnapshotType ==
    ASSUME TypeOK, NEW b \in Bots, NEW s \in SUBSET Execs,
           NEW vs \in [Workers -> [Bots -> Views]], createSnapshot(b, s, vs)
    PROVE  /\ snap' \in [Bots -> SUBSET Execs]
           /\ view' \in [Workers -> [Bots -> Views]]
  <1>1. ASSUME NEW v \in Workers
        PROVE  [vs[v] EXCEPT ![b].fresh = FALSE] \in [Bots -> Views]
    <2>1. vs[v][b] \in Views
      OBVIOUS
    <2>2. [vs[v][b] EXCEPT !.fresh = FALSE] \in Views
      BY <2>1, ViewUpdates
    <2> QED
      BY <2>2
  <1> QED
    BY <1>1 DEF createSnapshot, TypeOK

\* What a run forgets before it writes the snapshot that ends it.
LEMMA ForgottenView ==
    ASSUME TypeOK, NEW w \in Workers, NEW b \in Bots
    PROVE  [view EXCEPT ![w][b] = NullView] \in [Workers -> [Bots -> Views]]
  BY NullTypes DEF TypeOK

LEMMA AggregateType ==
    ASSUME TypeOK, NEW w \in Workers, NEW b \in Bots,
           getBotAggregate(w, b) \/ findLatestBotStateSnapshot(w, b)
    PROVE  view' \in [Workers -> [Bots -> Views]]
  <1>1. /\ view[w][b] \in Views /\ status[b] \in Statuses
        /\ lots[b] \in SUBSET Execs /\ snap[b] \in SUBSET Execs
    BY DEF TypeOK
  <1>2. [view[w][b] EXCEPT !.status = status[b], !.lots = lots[b]] \in Views
    BY <1>1, ViewRead
  <1>3. [view[w][b] EXCEPT !.snap = snap[b], !.fresh = TRUE] \in Views
    BY <1>1, ViewRead
  <1>4. CASE getBotAggregate(w, b)
    BY <1>2, <1>4 DEF getBotAggregate, TypeOK
  <1>5. CASE findLatestBotStateSnapshot(w, b)
    BY <1>3, <1>5 DEF findLatestBotStateSnapshot, TypeOK
  <1> QED
    BY <1>4, <1>5

LEMMA RestoredType ==
    ASSUME TypeOK, NEW e \in Execs
    PROVE  restoreAttempt(e) \in Attempts
  BY DEF restoreAttempt, Attempts, TypeOK

LEMMA ReportedType ==
    ASSUME TypeOK, NEW w \in Workers, NEW b \in Bots, NEW rep \in Results,
           NEW knowing \in BOOLEAN, Reported(w, b, rep, knowing)
    PROVE  /\ pc' \in [Workers -> [Bots -> Labels]]
           /\ held' \in [Workers -> [Bots -> Attempts]]
  <1> DEFINE known == held[w][b].txid \/ knowing
  <1>1. held[w][b] \in Attempts
    BY DEF TypeOK
  <1>2. known \in BOOLEAN
    OBVIOUS
  <1> HIDE DEF known
  <1>3. [held[w][b] EXCEPT !.rep = rep, !.txid = known] \in Attempts
    BY <1>1, <1>2, AttemptUpdates
  <1>4. held' = [held EXCEPT ![w][b] = [held[w][b] EXCEPT !.rep = rep, !.txid = known]]
    BY Zenon DEF Reported, known
  <1>5. pc' \in [Workers -> [Bots -> Labels]]
    BY GotoType DEF Reported
  <1>6. held' \in [Workers -> [Bots -> Attempts]]
    BY <1>3, <1>4 DEF TypeOK
  <1> QED
    BY <1>5, <1>6

LEMMA SavedType ==
    ASSUME TypeOK, NEW e \in Execs, NEW rep \in Results, NEW unc \in BOOLEAN,
           NEW known \in BOOLEAN, saveExecutionResult(e, rep, unc, known)
    PROVE  /\ result' \in [Execs -> Results]
           /\ uncertain' \in [Execs -> BOOLEAN]
           /\ txid' \in [Execs -> BOOLEAN]
  <1>1. CASE result[e] \in Terminal /\ rep \notin Terminal
    BY <1>1 DEF saveExecutionResult, TypeOK
  <1>2. CASE ~ (result[e] \in Terminal /\ rep \notin Terminal)
    <2> DEFINE u == unc \/ rep \notin Terminal
               t == txid[e] \/ known
    <2>1. u \in BOOLEAN /\ t \in BOOLEAN
      OBVIOUS
    <2>2. /\ result' = [result EXCEPT ![e] = rep]
          /\ uncertain' = [uncertain EXCEPT ![e] = u]
          /\ txid' = [txid EXCEPT ![e] = t]
      BY <1>2 DEF saveExecutionResult
    <2> HIDE DEF u, t
    <2> QED
      BY <2>1, <2>2 DEF TypeOK
  <1> QED
    BY <1>1, <1>2

LEMMA ReportValues ==
    ASSUME NEW prev, NEW unc \in BOOLEAN, NEW rep \in Results
    PROVE  Marker(prev) \in Unresolved /\ Downgrade(unc, rep) \in Results
  BY DEF Marker, Downgrade

-----------------------------------------------------------------------------
(* Type correctness                                                        *)

\* Where a run works on an attempt, it carries the row of one; where it is
\* about to commit, the report is an outcome.  Without this a commit could
\* book an execution that does not exist.
Carrying == {"mark", "check", "send", "await", "save", "commit"}

CarriesAttempt ==
    \A w \in Workers, b \in Bots :
        /\ pc[w][b] \in Carrying => held[w][b].exec \in Execs
        /\ pc[w][b] = "commit" => held[w][b].rep \in Terminal

TypeInv == TypeOK /\ CarriesAttempt

LEMMA InitTypeInv == Init => TypeInv
  <1> SUFFICES ASSUME Init PROVE TypeInv
    OBVIOUS
  <1>1. /\ pc \in [Workers -> [Bots -> Labels]]
        /\ view \in [Workers -> [Bots -> Views]]
        /\ held \in [Workers -> [Bots -> Attempts]]
    BY NullTypes DEF Init
  <1>2. TypeOK
    BY <1>1, BoundsAssumption DEF Init, TypeOK
  <1>3. CarriesAttempt
    BY DEF Init, CarriesAttempt, Carrying
  <1> QED
    BY <1>2, <1>3 DEF TypeInv

LEMMA DecidingTypeOK ==
    ASSUME TypeOK, NEW w \in Workers, NEW b \in Bots, StartRun(w, b) \/ Deciding(w, b)
    PROVE  TypeOK'
  <1> USE DEF books, attempts, locals
  <1>1. CASE StartRun(w, b)
    <2>1. pc' \in [Workers -> [Bots -> Labels]]
      BY <1>1, GotoType DEF StartRun
    <2>2. lock' \in [Bots -> Workers \cup {NoWorker}]
      BY <1>1 DEF StartRun, TypeOK
    <2>3. PICK recovery \in BOOLEAN : view' = [view EXCEPT ![w][b].recovery = recovery]
      BY <1>1 DEF StartRun
    <2>4. view[w][b] \in Views
      BY DEF TypeOK
    <2>5. [view[w][b] EXCEPT !.recovery = recovery] \in Views
      BY <2>4, ViewUpdates
    <2>6. view' \in [Workers -> [Bots -> Views]]
      BY <2>3, <2>5 DEF TypeOK
    <2> QED
      BY <1>1, <2>1, <2>2, <2>6 DEF StartRun, TypeOK
  <1>2. CASE ReadBot(w, b) \/ ReadSnapshot(w, b)
    <2>1. view' \in [Workers -> [Bots -> Views]]
      BY <1>2, AggregateType DEF ReadBot, ReadSnapshot
    <2>2. pc' \in [Workers -> [Bots -> Labels]]
      BY <1>2, GotoType DEF ReadBot, ReadSnapshot
    <2> QED
      BY <1>2, <2>1, <2>2 DEF ReadBot, ReadSnapshot, TypeOK
  <1>3. CASE Decide(w, b)
    <2>1. pc' \in [Workers -> [Bots -> Labels]]
      BY <1>3, GotoType DEF Decide, Choices
    <2> QED
      BY <1>3, <2>1 DEF Decide, TypeOK
  <1>4. CASE RecoverStatus(w, b)
    <2>1. pc' \in [Workers -> [Bots -> Labels]]
      BY <1>4, GotoType DEF RecoverStatus, Choices
    <2>2. status' \in [Bots -> Statuses]
      BY <1>4, SetStatusType DEF RecoverStatus
    <2> QED
      BY <1>4, <2>1, <2>2 DEF RecoverStatus, TypeOK
  <1>5. CASE PassiveSnapshot(w, b)
    <2>1. view[w][b].snap \in SUBSET Execs /\ view[w][b].status \in Statuses
      BY ViewFields DEF TypeOK
    <2>2. snap' \in [Bots -> SUBSET Execs] /\ view' \in [Workers -> [Bots -> Views]]
      BY <1>5, <2>1, ForgottenView, SnapshotType DEF PassiveSnapshot
    <2>3. status' \in [Bots -> Statuses]
      BY <1>5, <2>1, SetStatusType DEF PassiveSnapshot
    <2>4. pc' \in [Workers -> [Bots -> Labels]]
      BY <1>5, GotoType DEF PassiveSnapshot
    <2> QED
      BY <1>5, <2>2, <2>3, <2>4 DEF PassiveSnapshot, TypeOK
  <1>6. CASE PassiveSkipped(w, b) \/ RecenterRefused(w, b)
    BY <1>6, LeaveType DEF PassiveSkipped, RecenterRefused, TypeOK
  <1>7. CASE Prepare(w, b)
    <2>1. pc' \in [Workers -> [Bots -> Labels]]
      BY <1>7, GotoType DEF Prepare
    <2>2. PICK e \in Execs, signed \in BOOLEAN :
             /\ attempt' = [attempt EXCEPT ![b] = e]
             /\ owner' = [owner EXCEPT ![e] = b]
             /\ ledger' = [ledger EXCEPT ![e] = "open"]
             /\ txid' = [txid EXCEPT ![e] = signed]
             /\ held' = [held EXCEPT ![w][b] =
                           [NullAttempt EXCEPT !.exec = e, !.txid = signed]]
      BY <1>7 DEF Prepare
    <2>3. [NullAttempt EXCEPT !.exec = e, !.txid = signed] \in Attempts
      BY DEF NullAttempt, Attempts
    <2>4. held' \in [Workers -> [Bots -> Attempts]]
      BY <2>2, <2>3 DEF TypeOK
    <2>5. /\ attempt' \in [Bots -> Execs \cup {NoExec}]
          /\ owner' \in [Execs -> Bots \cup {NoBot}]
          /\ ledger' \in [Execs -> {"none", "open"} \cup Terminal]
          /\ txid' \in [Execs -> BOOLEAN]
      BY <2>2 DEF TypeOK
    <2> QED
      BY <1>7, <2>1, <2>4, <2>5 DEF Prepare, TypeOK
  <1>8. CASE PrepareRefused(w, b)
    <2>1. CASE Leave(w, b, "catch")
      BY <1>8, <2>1, LeaveType DEF PrepareRefused, TypeOK
    <2>2. CASE Goto(w, b, "passive") /\ UNCHANGED <<view, held>>
      BY <1>8, <2>2, GotoType DEF PrepareRefused, TypeOK
    <2> QED
      BY <1>8, <2>1, <2>2 DEF PrepareRefused
  <1>9. CASE RiskBlocks(w, b)
    <2>1. pc' \in [Workers -> [Bots -> Labels]]
      BY <1>9, GotoType DEF RiskBlocks
    <2>2. status' \in [Bots -> Statuses]
      BY <1>9, SetStatusType DEF RiskBlocks
    <2> QED
      BY <1>9, <2>1, <2>2 DEF RiskBlocks, TypeOK
  <1> QED
    BY <1>1, <1>2, <1>3, <1>4, <1>5, <1>6, <1>7, <1>8, <1>9 DEF Deciding

LEMMA RestoredHeldType ==
    ASSUME TypeOK, NEW w \in Workers, NEW b \in Bots, attempt[b] # NoExec,
           held' = [held EXCEPT ![w][b] = restoreAttempt(attempt[b])]
    PROVE  held' \in [Workers -> [Bots -> Attempts]]
  <1>1. attempt[b] \in Execs
    BY DEF TypeOK
  <1>2. restoreAttempt(attempt[b]) \in Attempts
    BY <1>1, RestoredType
  <1> QED
    BY <1>2 DEF TypeOK

LEMMA SubmittingTypeOK ==
    ASSUME TypeInv, NEW w \in Workers, NEW b \in Bots, Submitting(w, b)
    PROVE  TypeOK'
  <1> USE DEF books, attempts, locals
  <1>0. /\ TypeOK
        /\ held[w][b] \in Attempts
        /\ held[w][b].prev \in Results /\ held[w][b].rep \in Results
        /\ held[w][b].unc \in BOOLEAN /\ held[w][b].txid \in BOOLEAN
    BY AttemptFields DEF TypeInv, TypeOK
  <1>1. CASE ResumePending(w, b)
    <2>1. pc' \in [Workers -> [Bots -> Labels]]
      BY <1>0, <1>1, GotoType DEF ResumePending
    <2>2. held' \in [Workers -> [Bots -> Attempts]]
      BY <1>0, <1>1, RestoredHeldType DEF ResumePending
    <2> QED
      BY <1>0, <1>1, <2>1, <2>2 DEF ResumePending, TypeOK
  <1>2. CASE PrepareExisting(w, b)
    <2>1. pc' \in [Workers -> [Bots -> Labels]]
      BY <1>0, <1>2, GotoType DEF PrepareExisting
    <2>2. held' \in [Workers -> [Bots -> Attempts]]
      BY <1>0, <1>2, RestoredHeldType DEF PrepareExisting
    <2> QED
      BY <1>0, <1>2, <2>1, <2>2 DEF PrepareExisting, TypeOK
  <1>3. CASE SaveMarker(w, b)
    <2> DEFINE h == held[w][b]
               m == Marker(h.prev)
    <2>1. m \in Results
      BY <1>0 DEF Marker
    <2>2. CASE Accepts(b, h.exec, m)
      <3>1. /\ saveExecutionResult(h.exec, m, TRUE, h.txid)
            /\ held' = [held EXCEPT ![w][b].rep = m]
            /\ Goto(w, b, IF NeedsCheck(h) THEN "check" ELSE "send")
            /\ UNCHANGED view
        BY <1>3, <2>2 DEF SaveMarker
      <3>2. h.exec \in Execs
        BY <1>3 DEF TypeInv, CarriesAttempt, Carrying, SaveMarker
      <3>3. /\ result' \in [Execs -> Results]
            /\ uncertain' \in [Execs -> BOOLEAN]
            /\ txid' \in [Execs -> BOOLEAN]
        BY <1>0, <2>1, <3>1, <3>2, SavedType
      <3>4. [h EXCEPT !.rep = m] \in Attempts
        BY <1>0, <2>1, AttemptUpdates
      <3> HIDE DEF m
      <3>5. held' \in [Workers -> [Bots -> Attempts]]
        BY <1>0, <3>1, <3>4 DEF TypeOK
      <3>6. pc' \in [Workers -> [Bots -> Labels]]
        BY <1>0, <3>1, GotoType
      <3> QED
        BY <1>0, <1>3, <3>1, <3>3, <3>5, <3>6 DEF SaveMarker, TypeOK
    <2>3. CASE ~ Accepts(b, h.exec, m)
      <3>1. UNCHANGED <<result, uncertain, txid>> /\ Leave(w, b, "catch")
        BY <1>3, <2>3 DEF SaveMarker
      <3>2. /\ pc' \in [Workers -> [Bots -> Labels]]
            /\ view' \in [Workers -> [Bots -> Views]]
            /\ held' \in [Workers -> [Bots -> Attempts]]
        BY <1>0, <3>1, LeaveType
      <3> QED
        BY <1>0, <1>3, <3>1, <3>2 DEF SaveMarker, TypeOK
    <2> QED
      BY <2>2, <2>3
  <1>4. ASSUME NEW rep \in Results, NEW knowing \in BOOLEAN,
               Reported(w, b, rep, knowing), chain' \in [Execs -> ChainStates],
               UNCHANGED <<status, books, attempts, lock, view, resuming, crashes>>
        PROVE  TypeOK'
    <2>1. /\ pc' \in [Workers -> [Bots -> Labels]]
          /\ held' \in [Workers -> [Bots -> Attempts]]
      BY <1>0, <1>4, ReportedType
    <2> QED
      BY <1>0, <1>4, <2>1 DEF TypeOK
  <1>5. chain \in [Execs -> ChainStates]
    BY <1>0 DEF TypeOK
  <1>6. CASE ChainProvesFailure(w, b)
    BY <1>4, <1>5, <1>6 DEF ChainProvesFailure
  <1>7. CASE ChainLookupThrows(w, b)
    BY <1>0, <1>4, <1>5, <1>7, ReportValues DEF ChainLookupThrows
  <1>8. CASE ChainProvesNothing(w, b)
    <2>1. pc' \in [Workers -> [Bots -> Labels]]
      BY <1>0, <1>8, GotoType DEF ChainProvesNothing
    <2> QED
      BY <1>0, <1>8, <2>1 DEF ChainProvesNothing, TypeOK
  <1>9. CASE SimulateFill(w, b)
    BY <1>4, <1>5, <1>9 DEF SimulateFill
  <1>10. CASE SendLost(w, b)
    BY <1>4, <1>5, <1>10 DEF SendLost
  <1>11. CASE SendRejected(w, b)
    BY <1>0, <1>4, <1>5, <1>11, ReportValues DEF SendRejected
  <1>12. CASE SendAccepted(w, b)
    <2>1. pc' \in [Workers -> [Bots -> Labels]]
      BY <1>0, <1>12, GotoType DEF SendAccepted
    <2>2. chain' \in [Execs -> ChainStates]
      BY <1>5, <1>12 DEF SendAccepted
    <2> QED
      BY <1>0, <1>12, <2>1, <2>2 DEF SendAccepted, TypeOK
  <1>13. CASE FetchFees(w, b)
    BY <1>4, <1>5, <1>13 DEF FetchFees
  <1>14. CASE ReplyLost(w, b)
    BY <1>4, <1>5, <1>14 DEF ReplyLost
  <1>15. CASE ReplySuccess(w, b)
    BY <1>4, <1>5, <1>15 DEF ReplySuccess
  <1>16. CASE ReplyReverted(w, b)
    BY <1>0, <1>4, <1>5, <1>16, ReportValues DEF ReplyReverted
  <1>17. CASE SaveReport(w, b)
    <2> DEFINE h == held[w][b]
    <2>1. h.exec \in Execs
      BY <1>17 DEF TypeInv, CarriesAttempt, Carrying, SaveReport
    <2>2. CASE Accepts(b, h.exec, h.rep)
      <3>1. /\ saveExecutionResult(h.exec, h.rep, h.rep \notin Terminal, h.txid)
            /\ \/ Goto(w, b, "commit") /\ UNCHANGED <<view, held>>
               \/ Leave(w, b, "release")
        BY <1>17, <2>2 DEF SaveReport
      <3>2. /\ result' \in [Execs -> Results]
            /\ uncertain' \in [Execs -> BOOLEAN]
            /\ txid' \in [Execs -> BOOLEAN]
        BY <1>0, <2>1, <3>1, SavedType
      <3>3. CASE Goto(w, b, "commit") /\ UNCHANGED <<view, held>>
        BY <1>0, <1>17, <3>2, <3>3, GotoType DEF SaveReport, TypeOK
      <3>4. CASE Leave(w, b, "release")
        BY <1>0, <1>17, <3>2, <3>4, LeaveType DEF SaveReport, TypeOK
      <3> QED
        BY <3>1, <3>3, <3>4
    <2>3. CASE ~ Accepts(b, h.exec, h.rep)
      <3>1. UNCHANGED <<result, uncertain, txid>> /\ Leave(w, b, "catch")
        BY <1>17, <2>3 DEF SaveReport
      <3> QED
        BY <1>0, <1>17, <3>1, LeaveType DEF SaveReport, TypeOK
    <2> QED
      BY <2>2, <2>3
  <1> QED
    BY <1>1, <1>2, <1>3, <1>6, <1>7, <1>8, <1>9, <1>10, <1>11, <1>12,
       <1>13, <1>14, <1>15, <1>16, <1>17 DEF Submitting

LEMMA SettlingTypeOK ==
    ASSUME TypeInv, NEW w \in Workers, NEW b \in Bots, Settling(w, b)
    PROVE  TypeOK'
  <1> USE DEF books, attempts, locals
  <1>0. TypeOK
    BY DEF TypeInv
  <1>1. CASE Commit(w, b)
    <2> DEFINE h == held[w][b]
               v == view[w][b]
    <2>1. h.exec \in Execs /\ h.rep \in Terminal
      BY <1>1 DEF TypeInv, CarriesAttempt, Carrying, Commit
    <2>2. v.status \in Statuses /\ v.lots \in SUBSET Execs /\ v.snap \in SUBSET Execs
      BY <1>0, ViewFields DEF TypeOK
    <2>3. WithFill(v.lots, h) \in SUBSET Execs /\ WithFill(v.snap, h) \in SUBSET Execs
      BY <2>1, <2>2 DEF WithFill
    <2>4. /\ ledger' \in [Execs -> {"none", "open"} \cup Terminal]
          /\ attempt' \in [Bots -> Execs \cup {NoExec}]
          /\ lots' \in [Bots -> SUBSET Execs]
      BY <1>0, <1>1, <2>1, <2>3 DEF Commit, TypeOK
    <2>5. createSnapshot(b, WithFill(v.snap, h), [view EXCEPT ![w][b] = NullView])
      BY <1>1 DEF Commit
    <2>6. snap' \in [Bots -> SUBSET Execs] /\ view' \in [Workers -> [Bots -> Views]]
      BY <1>0, <2>3, <2>5, ForgottenView, SnapshotType
    <2>7. status' \in [Bots -> Statuses]
      BY <1>0, <1>1, <2>2, SetStatusType DEF Commit
    <2>8. held' \in [Workers -> [Bots -> Attempts]]
      BY <1>0, <1>1, NullTypes DEF Commit, TypeOK
    <2>9. pc' \in [Workers -> [Bots -> Labels]]
      BY <1>0, <1>1, GotoType DEF Commit
    <2> QED
      BY <1>0, <1>1, <2>4, <2>6, <2>7, <2>8, <2>9 DEF Commit, TypeOK
  <1>2. CASE CommitIgnored(w, b)
    BY <1>0, <1>2, LeaveType DEF CommitIgnored, TypeOK
  <1>3. CASE CommitThrows(w, b)
    BY <1>0, <1>3, LeaveType DEF CommitThrows, TypeOK
  <1>4. CASE RereadSnapshot(w, b)
    <2>1. pc' \in [Workers -> [Bots -> Labels]]
      BY <1>0, <1>4, GotoType DEF RereadSnapshot, Choices
    <2>2. view' \in [Workers -> [Bots -> Views]]
      BY <1>0, <1>4, AggregateType DEF RereadSnapshot
    <2> QED
      BY <1>0, <1>4, <2>1, <2>2 DEF RereadSnapshot, TypeOK
  <1>5. CASE Catch(w, b)
    <2>1. pc' \in [Workers -> [Bots -> Labels]]
      BY <1>0, <1>5, GotoType DEF Catch
    <2>2. status' \in [Bots -> Statuses]
      BY <1>0, <1>5, SetStatusType DEF Catch
    <2> QED
      BY <1>0, <1>5, <2>1, <2>2 DEF Catch, TypeOK
  <1>6. CASE Release(w, b)
    BY <1>0, <1>6, LeaveType DEF Release, TypeOK
  <1> QED
    BY <1>1, <1>2, <1>3, <1>4, <1>5, <1>6 DEF Settling

LEMMA SurroundingsTypeOK ==
    ASSUME TypeOK, Network \/ Failure \/ Operator
    PROVE  TypeOK'
  <1> USE DEF books, attempts, locals
  <1>0. \A b \in Bots : snap[b] \in SUBSET Execs
    BY DEF TypeOK
  <1>1. ASSUME NEW e \in Execs, Land(e) \/ Expire(e)
        PROVE  TypeOK'
    <2>1. PICK s \in ChainStates : chain' = [chain EXCEPT ![e] = s]
      BY <1>1 DEF Land, Expire
    <2>2. UNCHANGED <<status, lots, snap, attempts, lock, locals, resuming, crashes>>
      BY <1>1 DEF Land, Expire
    <2> QED
      BY <2>1, <2>2 DEF TypeOK
  <1>2. ASSUME NEW w \in Workers, Crash(w)
        PROVE  TypeOK'
    <2>1. crashes' \in 0..MaxCrashes
      BY <1>2, BoundsAssumption DEF Crash, TypeOK
    <2>2. /\ pc' \in [Workers -> [Bots -> Labels]]
          /\ lock' \in [Bots -> Workers \cup {NoWorker}]
      BY <1>2 DEF Crash, TypeOK
    <2>3. /\ view' \in [Workers -> [Bots -> Views]]
          /\ held' \in [Workers -> [Bots -> Attempts]]
      BY <1>2, NullTypes DEF Crash, TypeOK
    <2> QED
      BY <1>2, <2>1, <2>2, <2>3 DEF Crash, TypeOK
  <1>3. ASSUME NEW b \in Bots, LoseLock(b)
        PROVE  TypeOK'
    BY <1>3 DEF LoseLock, TypeOK
  <1>4. ASSUME NEW b \in Bots, NEW s \in OperatorStatuses, Halt(b, s)
        PROVE  TypeOK'
    <2>1. snap' \in [Bots -> SUBSET Execs] /\ view' \in [Workers -> [Bots -> Views]]
      BY <1>0, <1>4, SnapshotType DEF Halt, TypeOK
    <2> QED
      BY <1>4, <2>1 DEF Halt, TypeOK
  <1>5. ASSUME NEW b \in Bots, ResumeBand(b)
        PROVE  TypeOK'
    <2>1. snap' \in [Bots -> SUBSET Execs] /\ view' \in [Workers -> [Bots -> Views]]
      BY <1>0, <1>5, SnapshotType DEF ResumeBand, TypeOK
    <2> QED
      BY <1>5, <2>1 DEF ResumeBand, TypeOK
  <1>6. ASSUME NEW b \in Bots, ResumeRead(b)
        PROVE  TypeOK'
    BY <1>0, <1>6 DEF ResumeRead, TypeOK
  <1>7. ASSUME NEW b \in Bots, ResumeWrite(b)
        PROVE  TypeOK'
    <2>1. PICK s \in resuming[b] : createSnapshot(b, s, view)
      BY <1>7 DEF ResumeWrite
    <2>2. s \in SUBSET Execs
      BY DEF TypeOK
    <2>3. snap' \in [Bots -> SUBSET Execs] /\ view' \in [Workers -> [Bots -> Views]]
      BY <2>1, <2>2, SnapshotType DEF TypeOK
    <2> QED
      BY <1>7, <2>3 DEF ResumeWrite, TypeOK
  <1> QED
    BY <1>1, <1>2, <1>3, <1>4, <1>5, <1>6, <1>7
       DEF Network, Failure, Operator, Pause, Stop

\* What a run carries after a step that leaves it with attempt h at label l.
LEMMA Carried ==
    ASSUME TypeInv, NEW w \in Workers, NEW b \in Bots, NEW l, NEW h,
           Goto(w, b, l), held' = [held EXCEPT ![w][b] = h],
           l \in Carrying => h.exec \in Execs,
           l = "commit" => h.rep \in Terminal
    PROVE  CarriesAttempt'
  BY DEF TypeInv, TypeOK, CarriesAttempt, Goto

LEMMA CarriedAlong ==
    ASSUME TypeInv, NEW w \in Workers, NEW b \in Bots, NEW l,
           Goto(w, b, l), UNCHANGED held,
           l \in Carrying => held[w][b].exec \in Execs,
           l = "commit" => held[w][b].rep \in Terminal
    PROVE  CarriesAttempt'
  BY DEF TypeInv, TypeOK, CarriesAttempt, Goto

LEMMA CarriesNothing ==
    ASSUME TypeInv, NEW w \in Workers, NEW b \in Bots, NEW l \in Labels \ Carrying,
           Leave(w, b, l) \/ (Goto(w, b, l) /\ UNCHANGED held)
    PROVE  CarriesAttempt'
  <1>1. CASE Leave(w, b, l)
    BY <1>1, Carried DEF Leave, Carrying
  <1>2. CASE Goto(w, b, l) /\ UNCHANGED held
    BY <1>2, CarriedAlong DEF Carrying
  <1> QED
    BY <1>1, <1>2

LEMMA ReportedCarries ==
    ASSUME TypeInv, NEW w \in Workers, NEW b \in Bots, NEW rep, NEW knowing,
           pc[w][b] \in Carrying, Reported(w, b, rep, knowing)
    PROVE  CarriesAttempt'
  <1> DEFINE h == held[w][b]
             g == [h EXCEPT !.rep = rep, !.txid = h.txid \/ knowing]
  <1>1. h \in Attempts /\ h.exec \in Execs
    BY DEF TypeInv, TypeOK, CarriesAttempt
  <1>2. g.exec = h.exec
    BY <1>1 DEF Attempts
  <1>3. held' = [held EXCEPT ![w][b] = g] /\ Goto(w, b, "save")
    BY Zenon DEF Reported
  <1> HIDE DEF g
  <1> QED
    BY <1>1, <1>2, <1>3, Carried

LEMMA RunStepCarries ==
    ASSUME TypeInv, NEW w \in Workers, NEW b \in Bots, StartRun(w, b) \/ RunStep(w, b)
    PROVE  CarriesAttempt'
  <1> USE DEF books, attempts, locals, Carrying
  <1>1. CASE StartRun(w, b)
    BY <1>1, CarriesNothing DEF StartRun
  <1>2. CASE ReadBot(w, b) \/ ReadSnapshot(w, b) \/ Decide(w, b) \/ RecoverStatus(w, b)
             \/ RiskBlocks(w, b)
    <2>1. PICK l \in Labels \ Carrying : Goto(w, b, l) /\ UNCHANGED held
      BY <1>2 DEF ReadBot, ReadSnapshot, Decide, RecoverStatus, RiskBlocks, Choices
    <2> QED
      BY <2>1, CarriesNothing
  <1>3. CASE PassiveSnapshot(w, b) \/ PassiveSkipped(w, b) \/ RecenterRefused(w, b)
             \/ PrepareRefused(w, b)
    <2>1. PICK l \in Labels \ Carrying : Leave(w, b, l) \/ (Goto(w, b, l) /\ UNCHANGED held)
      BY <1>3 DEF PassiveSnapshot, PassiveSkipped, RecenterRefused, PrepareRefused
    <2> QED
      BY <2>1, CarriesNothing
  <1>4. CASE Prepare(w, b)
    <2>1. PICK e \in Execs, signed \in BOOLEAN :
             held' = [held EXCEPT ![w][b] = [NullAttempt EXCEPT !.exec = e, !.txid = signed]]
      BY <1>4 DEF Prepare
    <2>2. [NullAttempt EXCEPT !.exec = e, !.txid = signed].exec = e
      BY DEF NullAttempt
    <2> QED
      BY <1>4, <2>1, <2>2, Carried DEF Prepare
  <1>5. CASE ResumePending(w, b) \/ PrepareExisting(w, b)
    <2> DEFINE e == attempt[b]
    <2>1. e \in Execs
      BY <1>5 DEF TypeInv, TypeOK, ResumePending, PrepareExisting
    <2>2. restoreAttempt(e).exec = e /\ restoreAttempt(e).rep = result[e]
      BY DEF restoreAttempt
    <2>3. /\ held' = [held EXCEPT ![w][b] = restoreAttempt(e)]
          /\ Goto(w, b, IF result[e] \in Terminal THEN "commit" ELSE "mark")
      BY <1>5 DEF ResumePending, PrepareExisting
    <2> HIDE DEF e
    <2> QED
      BY <2>1, <2>2, <2>3, Carried
  <1>6. CASE SaveMarker(w, b)
    <2> DEFINE h == held[w][b]
               m == Marker(h.prev)
               g == [h EXCEPT !.rep = m]
    <2>1. h \in Attempts /\ h.exec \in Execs
      BY <1>6 DEF TypeInv, TypeOK, CarriesAttempt, SaveMarker
    <2>2. g.exec \in Execs
      BY <2>1 DEF Attempts
    <2>3. CASE Leave(w, b, "catch")
      BY <2>3, CarriesNothing
    <2>4. CASE /\ held' = [held EXCEPT ![w][b].rep = m]
               /\ Goto(w, b, IF NeedsCheck(h) THEN "check" ELSE "send")
      <3>1. held' = [held EXCEPT ![w][b] = g]
        BY <2>4
      <3> HIDE DEF g
      <3> QED
        BY <2>2, <2>4, <3>1, Carried
    <2> QED
      BY <1>6, <2>3, <2>4 DEF SaveMarker
  <1>7. CASE \/ ChainProvesFailure(w, b) \/ ChainLookupThrows(w, b) \/ SimulateFill(w, b)
             \/ SendLost(w, b) \/ SendRejected(w, b) \/ FetchFees(w, b)
             \/ ReplyLost(w, b) \/ ReplySuccess(w, b) \/ ReplyReverted(w, b)
    <2>1. pc[w][b] \in {"check", "send", "await"}
      BY <1>7 DEF ChainProvesFailure, ChainLookupThrows, SimulateFill, SendLost, SendRejected,
                  FetchFees, ReplyLost, ReplySuccess, ReplyReverted, Submits
    <2>2. \E rep, knowing : Reported(w, b, rep, knowing)
      BY <1>7 DEF ChainProvesFailure, ChainLookupThrows, SimulateFill, SendLost, SendRejected,
                  FetchFees, ReplyLost, ReplySuccess, ReplyReverted
    <2> QED
      BY <2>1, <2>2, ReportedCarries
  <1>8. CASE ChainProvesNothing(w, b) \/ SendAccepted(w, b)
    <2>1. held[w][b].exec \in Execs
      BY <1>8 DEF TypeInv, CarriesAttempt, ChainProvesNothing, SendAccepted, Submits
    <2>2. PICK l \in {"send", "await"} : Goto(w, b, l) /\ UNCHANGED held
      BY <1>8 DEF ChainProvesNothing, SendAccepted
    <2> QED
      BY <2>1, <2>2, CarriedAlong
  <1>9. CASE SaveReport(w, b)
    <2>1. held[w][b].exec \in Execs
      BY <1>9 DEF TypeInv, CarriesAttempt, SaveReport
    <2>2. CASE Leave(w, b, "release") \/ Leave(w, b, "catch")
      BY <2>2, CarriesNothing
    <2>3. CASE held[w][b].rep \in Terminal /\ Goto(w, b, "commit") /\ UNCHANGED held
      BY <2>1, <2>3, CarriedAlong
    <2> QED
      BY <1>9, <2>2, <2>3 DEF SaveReport
  <1>10. CASE Commit(w, b)
    <2>1. PICK l \in {"reread", "release"} : Goto(w, b, l)
      BY <1>10 DEF Commit
    <2> QED
      BY <1>10, <2>1, Carried DEF Commit
  <1>11. CASE CommitIgnored(w, b) \/ CommitThrows(w, b) \/ Release(w, b) \/ Catch(w, b)
    <2>1. PICK l \in Labels \ Carrying : Leave(w, b, l) \/ (Goto(w, b, l) /\ UNCHANGED held)
      BY <1>11 DEF CommitIgnored, CommitThrows, Release, Catch
    <2> QED
      BY <2>1, CarriesNothing
  <1>12. CASE RereadSnapshot(w, b)
    <2>1. PICK l \in Labels \ Carrying : Goto(w, b, l) /\ UNCHANGED held
      BY <1>12 DEF RereadSnapshot, Choices
    <2> QED
      BY <2>1, CarriesNothing
  <1> QED
    BY <1>1, <1>2, <1>3, <1>4, <1>5, <1>6, <1>7, <1>8, <1>9, <1>10, <1>11, <1>12
       DEF RunStep, Deciding, Submitting, Settling

LEMMA SurroundingsCarry ==
    ASSUME TypeInv, Network \/ Failure \/ Operator
    PROVE  CarriesAttempt'
  <1>1. ASSUME NEW w \in Workers, Crash(w)
        PROVE  CarriesAttempt'
    BY <1>1 DEF TypeInv, TypeOK, CarriesAttempt, Crash, Carrying
  <1>2. CASE UNCHANGED <<pc, held>>
    BY <1>2 DEF TypeInv, CarriesAttempt
  <1>3. Network \/ Operator \/ (\E b \in Bots : LoseLock(b)) => UNCHANGED <<pc, held>>
    BY DEF Network, Land, Expire, Operator, Pause, Stop, Halt, ResumeBand, ResumeRead,
           ResumeWrite, LoseLock, locals
  <1> QED
    BY <1>1, <1>2, <1>3 DEF Failure

\* A run that works on an attempt always carries its row, and the types hold.
THEOREM TypeInvariant == Spec => []TypeInv
  <1>1. TypeInv /\ [Next]_vars => TypeInv'
    <2> SUFFICES ASSUME TypeInv, [Next]_vars
                 PROVE  TypeOK' /\ CarriesAttempt'
      BY DEF TypeInv
    <2>1. CASE UNCHANGED vars
      BY <2>1 DEF TypeInv, TypeOK, CarriesAttempt, vars, books, attempts, locals
    <2>2. ASSUME NEW w \in Workers, NEW b \in Bots, StartRun(w, b) \/ RunStep(w, b)
          PROVE  TypeOK' /\ CarriesAttempt'
      BY <2>2, RunStepCarries, DecidingTypeOK, SubmittingTypeOK, SettlingTypeOK
         DEF RunStep, TypeInv
    <2>3. CASE Network \/ Failure \/ Operator
      BY <2>3, SurroundingsCarry, SurroundingsTypeOK DEF TypeInv
    <2> QED
      BY <2>1, <2>2, <2>3 DEF Next
  <1> QED
    BY InitTypeInv, <1>1, PTL DEF Spec

\* Every variable keeps its type in every reachable state.
THEOREM TypeCorrect == Spec => []TypeOK
  <1>1. TypeInv => TypeOK
    BY DEF TypeInv
  <1> QED
    BY TypeInvariant, <1>1, PTL

-----------------------------------------------------------------------------
(* One wallet, one authorisation                                           *)

LEMMA AttemptsKept ==
    ASSUME NEW w \in Workers, NEW b \in Bots,
           \/ StartRun(w, b)
           \/ Deciding(w, b) /\ ~ Prepare(w, b)
           \/ Submitting(w, b)
           \/ Settling(w, b) /\ ~ Commit(w, b)
           \/ Network \/ Failure \/ Operator
    PROVE  UNCHANGED <<attempt, owner, ledger>>
  <1> USE DEF attempts
  <1>1. CASE StartRun(w, b) \/ (Deciding(w, b) /\ ~ Prepare(w, b))
    BY <1>1 DEF StartRun, Deciding, ReadBot, ReadSnapshot, Decide, RecoverStatus, PassiveSnapshot,
                PassiveSkipped, RiskBlocks, RecenterRefused, PrepareRefused
  <1>2. CASE Submitting(w, b)
    BY <1>2 DEF Submitting, ResumePending, PrepareExisting, SaveMarker, ChainProvesFailure,
                ChainLookupThrows, ChainProvesNothing, SimulateFill, SendLost, SendRejected,
                SendAccepted, FetchFees, ReplyLost, ReplySuccess, ReplyReverted, SaveReport
  <1>3. CASE Settling(w, b) /\ ~ Commit(w, b)
    BY <1>3 DEF Settling, CommitIgnored, CommitThrows, RereadSnapshot, Catch, Release
  <1>4. CASE Network \/ Failure \/ Operator
    BY <1>4 DEF Network, Land, Expire, Failure, Crash, LoseLock, Operator, Pause, Stop, Halt,
                ResumeBand, ResumeRead, ResumeWrite
  <1> QED
    BY <1>1, <1>2, <1>3, <1>4

\* The live bots never hold two unsettled attempts between them, with any number
\* of bots and workers, crashes and lost lock sessions: the count that
\* prepareExecutionAttempt takes under the wallet lock is enough on its own.
THEOREM OneLiveAuthorisationHolds == Spec => []OneLiveAuthorisation
  <1>1. Init => OneLiveAuthorisation
    BY BotsAssumption DEF Init, OneLiveAuthorisation
  <1>2. TypeOK /\ OneLiveAuthorisation /\ [Next]_vars => OneLiveAuthorisation'
    <2> SUFFICES ASSUME TypeOK, OneLiveAuthorisation, [Next]_vars
                 PROVE  OneLiveAuthorisation'
      OBVIOUS
    <2>1. CASE UNCHANGED attempt
      BY <2>1 DEF OneLiveAuthorisation
    <2>2. ASSUME NEW w \in Workers, NEW b \in Bots, Prepare(w, b)
          PROVE  OneLiveAuthorisation'
      <3>1. PICK e \in Execs : attempt' = [attempt EXCEPT ![b] = e]
        BY <2>2 DEF Prepare
      <3>2. b \in LiveBots => \A c \in LiveBots \ {b} : attempt[c] = NoExec
        BY <2>2 DEF Prepare, MayPrepare, OtherLiveAttempt
      <3> QED
        BY <3>1, <3>2, BotsAssumption DEF TypeOK, OneLiveAuthorisation
    <2>3. ASSUME NEW w \in Workers, NEW b \in Bots, Commit(w, b)
          PROVE  OneLiveAuthorisation'
      <3>1. attempt' = [attempt EXCEPT ![b] = NoExec]
        BY <2>3 DEF Commit
      <3> QED
        BY <3>1, BotsAssumption DEF TypeOK, OneLiveAuthorisation
    <2>4. CASE UNCHANGED vars
      BY <2>1, <2>4 DEF vars, attempts
    <2>5. ASSUME NEW w \in Workers, NEW b \in Bots, StartRun(w, b) \/ RunStep(w, b)
          PROVE  OneLiveAuthorisation'
      BY <2>1, <2>2, <2>3, <2>5, AttemptsKept DEF RunStep
    <2>6. CASE Network \/ Failure \/ Operator
      BY <2>1, <2>6
         DEF Network, Land, Expire, Failure, Crash, LoseLock, Operator, Pause, Stop, Halt,
             ResumeBand, ResumeRead, ResumeWrite, attempts
    <2> QED
      BY <2>4, <2>5, <2>6 DEF Next
  <1> QED
    BY <1>1, <1>2, TypeCorrect, PTL DEF Spec

-----------------------------------------------------------------------------
(* What a step may never do                                                *)

\* The conditional write of saveExecutionResult, with the check before it,
\* leaves every terminal result alone.
LEMMA SaveKeepsTerminal ==
    ASSUME TypeOK, NEW b \in Bots, NEW e \in Execs, NEW rep \in Results, NEW unc, NEW known,
           Accepts(b, e, rep), saveExecutionResult(e, rep, unc, known),
           NEW f \in Execs, result[f] \in Terminal
    PROVE  result'[f] = result[f]
  <1>1. CASE rep \notin Terminal /\ result[e] \in Terminal
    BY <1>1 DEF saveExecutionResult
  <1>2. CASE ~ (rep \notin Terminal /\ result[e] \in Terminal)
    <2>1. result' = [result EXCEPT ![e] = rep]
      BY <1>2 DEF saveExecutionResult
    <2>2. CASE f = e
      BY <1>2, <2>1, <2>2 DEF Accepts, TypeOK
    <2>3. CASE f # e
      BY <2>1, <2>3 DEF TypeOK
    <2> QED
      BY <2>2, <2>3
  <1> QED
    BY <1>1, <1>2

\* A saved outcome is never replaced, whichever process reports something else
\* later, even when two of them work on one attempt (saveExecutionResult).
THEOREM TerminalResultKeptAlways == Spec => TerminalResultKept
  <1>1. TypeInv /\ [Next]_vars => [KeepsTerminalResults]_vars
    <2> SUFFICES ASSUME TypeInv, Next, NEW f \in Execs, result[f] \in Terminal
                 PROVE  result'[f] = result[f]
      BY DEF vars, attempts, KeepsTerminalResults
    <2>1. ASSUME NEW w \in Workers, NEW b \in Bots, SaveMarker(w, b)
          PROVE  result'[f] = result[f]
      <3> DEFINE h == held[w][b]
      <3>1. h.exec \in Execs /\ Marker(h.prev) \in Results
        BY <2>1 DEF TypeInv, CarriesAttempt, Carrying, SaveMarker, Marker
      <3> QED
        BY <2>1, <3>1, SaveKeepsTerminal DEF SaveMarker, TypeInv
    <2>2. ASSUME NEW w \in Workers, NEW b \in Bots, SaveReport(w, b)
          PROVE  result'[f] = result[f]
      <3> DEFINE h == held[w][b]
      <3>1. h.exec \in Execs /\ h.rep \in Results
        BY <2>2, AttemptFields DEF TypeInv, TypeOK, CarriesAttempt, Carrying, SaveReport
      <3> QED
        BY <2>2, <3>1, SaveKeepsTerminal DEF SaveReport, TypeInv
    <2>3. ASSUME NEW w \in Workers, NEW b \in Bots,
                 \/ StartRun(w, b)
                 \/ RunStep(w, b) /\ ~ SaveMarker(w, b) /\ ~ SaveReport(w, b)
          PROVE  result' = result
      <3> USE DEF attempts
      <3>1. CASE StartRun(w, b) \/ Deciding(w, b)
        BY <3>1 DEF StartRun, Deciding, ReadBot, ReadSnapshot, Decide, RecoverStatus, PassiveSnapshot,
                    PassiveSkipped, RiskBlocks, RecenterRefused, Prepare, PrepareRefused
      <3>2. CASE Submitting(w, b) /\ ~ SaveMarker(w, b) /\ ~ SaveReport(w, b)
        BY <3>2 DEF Submitting, ResumePending, PrepareExisting, ChainProvesFailure,
                    ChainLookupThrows, ChainProvesNothing, SimulateFill, SendLost, SendRejected,
                    SendAccepted, FetchFees, ReplyLost, ReplySuccess, ReplyReverted
      <3>3. CASE Settling(w, b)
        BY <3>3 DEF Settling, Commit, CommitIgnored, CommitThrows, RereadSnapshot, Catch, Release
      <3> QED
        BY <2>3, <3>1, <3>2, <3>3 DEF RunStep
    <2>4. CASE Network \/ Failure \/ Operator
      BY <2>4
         DEF Network, Land, Expire, Failure, Crash, LoseLock, Operator, Pause, Stop, Halt,
             ResumeBand, ResumeRead, ResumeWrite, attempts
    <2> QED
      BY <2>1, <2>2, <2>3, <2>4 DEF Next
  <1>2. Spec => []TypeInv
    BY TypeInvariant
  <1> QED
    BY <1>1, <1>2, PTL DEF Spec, TerminalResultKept

\* A pause or a stop survives every step of every run, whichever aggregate the
\* engine's proposed status comes from (preserveOperatorStatus).
THEOREM OperatorStatusKeptAlways == Spec => OperatorStatusKept
  <1>1. TypeOK /\ [Next]_vars => [KeepsOperatorStatus]_vars
    <2> SUFFICES ASSUME TypeOK, Next, pc' # pc, NEW c \in Bots, status[c] \in OperatorStatuses
                 PROVE  status'[c] = status[c]
      BY DEF vars, KeepsOperatorStatus
    <2>1. ASSUME NEW b \in Bots, NEW s, SetStatus(b, s)
          PROVE  status'[c] = status[c]
      BY <2>1 DEF SetStatus, preserveOperatorStatus, TypeOK
    <2>2. ASSUME NEW w \in Workers, NEW b \in Bots, StartRun(w, b) \/ RunStep(w, b)
          PROVE  status' = status \/ \E s : SetStatus(b, s)
      <3>1. CASE StartRun(w, b) \/ Deciding(w, b)
        BY <3>1 DEF StartRun, Deciding, ReadBot, ReadSnapshot, Decide, RecoverStatus, PassiveSnapshot,
                    PassiveSkipped, RiskBlocks, RecenterRefused, Prepare, PrepareRefused
      <3>2. CASE Submitting(w, b)
        BY <3>2 DEF Submitting, ResumePending, PrepareExisting, SaveMarker, ChainProvesFailure,
                    ChainLookupThrows, ChainProvesNothing, SimulateFill, SendLost, SendRejected,
                    SendAccepted, FetchFees, ReplyLost, ReplySuccess, ReplyReverted, SaveReport
      <3>3. CASE Settling(w, b)
        BY <3>3 DEF Settling, Commit, CommitIgnored, CommitThrows, RereadSnapshot, Catch, Release
      <3> QED
        BY <2>2, <3>1, <3>2, <3>3 DEF RunStep
    <2>3. CASE Network \/ Failure
      BY <2>3 DEF Network, Land, Expire, Failure, Crash, LoseLock
    <2>4. CASE Operator
      BY <2>4 DEF Operator, Pause, Stop, Halt, ResumeBand, ResumeRead, ResumeWrite, locals
    <2> QED
      BY <2>1, <2>2, <2>3, <2>4 DEF Next
  <1> QED
    BY <1>1, TypeCorrect, PTL DEF Spec, OperatorStatusKept

-----------------------------------------------------------------------------
(***************************************************************************)
(* Settlement: what the books, the chain and the attempt rows have to do   *)
(* with each other, as long as the session that holds the advisory lock of *)
(* a bot does not die while the run goes on (MayLoseLock = FALSE; the      *)
(* theorems above need no such assumption).                                *)
(*                                                                         *)
(* The inductive invariant SettleInv speaks of one execution row (RowOK),  *)
(* one bot (BotOK) and one run (RunOK) at a time.  A step of a run changes *)
(* rows of its own bot only, so everything about the others is carried     *)
(* over once and for all (OthersKept), and each action is left with its    *)
(* own row, bot and run.                                                   *)
(***************************************************************************)
-----------------------------------------------------------------------------
(* The inductive invariant                                                 *)

\* The five columns of one execution row, with what the chain did with it:
\* the outcome in the ledger is the saved result, and a saved result is what
\* the chain proves.
Recorded(e) ==
    /\ ledger[e] = "none" =>
          owner[e] = NoBot /\ result[e] = "none" /\ ~ uncertain[e] /\ chain[e] = "unsent"
    /\ ledger[e] # "none" => owner[e] \in Bots
    /\ ledger[e] \in Terminal => result[e] = ledger[e]

Proven(e) ==
    /\ result[e] \in {"filled", "unpriced"} => chain[e] = "success"
    /\ result[e] = "failed" => chain[e] \notin {"inflight", "success"}
    /\ result[e] \in Unresolved => uncertain[e]
    /\ result[e] = "none" => chain[e] \in {"unsent", "expired"}

RowOK(e) ==
    /\ Recorded(e)
    /\ Proven(e)
    /\ ledger[e] = "open" => attempt[owner[e]] = e

\* The attempt of a bot is an open row of that bot, its lots are its completed
\* fills and, for a band, so are the balances of its newest snapshot.
BotOK(b) ==
    /\ attempt[b] # NoExec => owner[attempt[b]] = b /\ ledger[attempt[b]] = "open"
    /\ lots[b] = Booked(b)
    /\ b \in BandBots => snap[b] = Booked(b) /\ resuming[b] = {}

\* A run that carries an attempt carries the attempt of its bot, knows the
\* result it was read with, and reports no more than the chain has proved.
CarryOK(w, b) ==
    LET h == held[w][b]
        e == held[w][b].exec
    IN  /\ pc[w][b] \in Carrying => e = attempt[b] /\ e # NoExec
        /\ pc[w][b] = "mark" =>
              h.prev = result[e] /\ h.unc = uncertain[e] /\ result[e] \notin Terminal
        /\ pc[w][b] \in {"check", "send", "await", "save"} =>
              result[e] = Marker(h.prev) /\ h.prev \notin Terminal
        /\ pc[w][b] = "check" => h.unc
        /\ pc[w][b] = "send" /\ ~ h.unc => chain[e] \in {"unsent", "expired"}
        /\ pc[w][b] = "save" =>
              /\ h.rep # "none"
              /\ h.rep \in {"filled", "unpriced"} => chain[e] = "success"
              /\ h.rep = "failed" => chain[e] \notin {"inflight", "success"}
        /\ pc[w][b] = "commit" => h.rep = result[e]

\* From the moment the run has read them, its lots are the lots; its balances
\* are those of the newest snapshot while it believes them fresh and, for a
\* band, until the run ends.
LotsRead == {"snapshot", "pending", "recover", "prepare", "passive", "resnapshot"} \cup Carrying
BalancesRead == LotsRead \ {"snapshot", "resnapshot"}

ViewOK(w, b) ==
    LET v == view[w][b]
    IN  /\ pc[w][b] \in LotsRead => v.lots = lots[b]
        /\ v.fresh => v.snap = snap[b]
        /\ pc[w][b] \in BalancesRead /\ b \in BandBots => v.snap = snap[b]

\* Only the holder of a bot's advisory lock runs it.
OwnOK(w, b) == pc[w][b] # "idle" => lock[b] = w

RunOK(w, b) == OwnOK(w, b) /\ CarryOK(w, b) /\ ViewOK(w, b)

SettleInv ==
    /\ \A e \in Execs : RowOK(e)
    /\ \A b \in Bots : BotOK(b)
    /\ \A w \in Workers, b \in Bots : RunOK(w, b)

LEMMA InitSettles == Init => SettleInv
  <1> SUFFICES ASSUME Init PROVE SettleInv
    OBVIOUS
  <1>1. ASSUME NEW e \in Execs PROVE RowOK(e)
    <2>1. /\ owner[e] = NoBot /\ ledger[e] = "none" /\ result[e] = "none"
          /\ ~ uncertain[e] /\ chain[e] = "unsent"
      BY DEF Init
    <2> QED
      BY <2>1 DEF RowOK, Recorded, Proven
  <1>2. ASSUME NEW b \in Bots PROVE BotOK(b)
    BY DEF Init, BotOK, Booked
  <1>3. ASSUME NEW w \in Workers, NEW b \in Bots PROVE RunOK(w, b)
    <2>1. pc[w][b] = "idle" /\ view[w][b] = NullView
      BY DEF Init
    <2> QED
      BY <2>1 DEF RunOK, OwnOK, CarryOK, ViewOK, NullView, LotsRead, BalancesRead, Carrying
  <1> QED
    BY <1>1, <1>2, <1>3 DEF SettleInv

-----------------------------------------------------------------------------
(* What a step of run (w, b) leaves alone                                  *)

\* The other runs stand where they stood; at most they learn that the balances
\* they read are no longer the newest.
OtherRunsKept(w, b) ==
    \A v \in Workers, c \in Bots : v # w \/ c # b =>
        /\ pc'[v][c] = pc[v][c]
        /\ held'[v][c] = held[v][c]
        /\ view'[v][c].lots = view[v][c].lots
        /\ view'[v][c].snap = view[v][c].snap
        /\ view'[v][c].fresh => view[v][c].fresh /\ snap'[c] = snap[c]

OtherBotsKept(b) ==
    \A c \in Bots \ {b} :
        /\ attempt'[c] = attempt[c] /\ lots'[c] = lots[c] /\ snap'[c] = snap[c]
        /\ resuming'[c] = resuming[c] /\ lock'[c] = lock[c]

SameRow(e) ==
    /\ owner'[e] = owner[e] /\ ledger'[e] = ledger[e] /\ chain'[e] = chain[e]
    /\ result'[e] = result[e] /\ uncertain'[e] = uncertain[e]

OtherRowsKept(b) ==
    \A e \in Execs : IF owner[e] \in {b, NoBot} THEN owner'[e] \in {b, NoBot} ELSE SameRow(e)

OthersKept(w, b) == OtherRunsKept(w, b) /\ OtherBotsKept(b) /\ OtherRowsKept(b)

\* The advisory lock keeps every other worker out of the bot.
LEMMA Alone ==
    ASSUME TypeOK, SettleInv, NEW w \in Workers, NEW b \in Bots,
           pc[w][b] # "idle" \/ lock[b] = NoWorker
    PROVE  \A v \in Workers : v # w => pc[v][b] = "idle"
  BY NullsAssumption DEF SettleInv, RunOK, OwnOK

\* A row that keeps its columns keeps its meaning.
LEMMA SameRowOK ==
    ASSUME NEW e \in Execs, RowOK(e), SameRow(e),
           ledger[e] = "open" => attempt'[owner[e]] = attempt[owner[e]]
    PROVE  RowOK(e)'
  BY DEF RowOK, Recorded, Proven, SameRow

LEMMA OtherRows ==
    ASSUME TypeOK, SettleInv, NEW b \in Bots, OtherBotsKept(b), OtherRowsKept(b),
           NEW e \in Execs, owner[e] \notin {b, NoBot}
    PROVE  RowOK(e)'
  <1>1. RowOK(e) /\ SameRow(e)
    BY DEF SettleInv, OtherRowsKept
  <1>2. owner[e] \in Bots \ {b}
    BY DEF TypeOK
  <1> QED
    BY <1>1, <1>2, SameRowOK DEF OtherBotsKept

LEMMA OtherBots ==
    ASSUME TypeOK, SettleInv, NEW b \in Bots, OtherBotsKept(b), OtherRowsKept(b),
           NEW c \in Bots, c # b
    PROVE  BotOK(c)'
  <1>1. Booked(c)' = Booked(c)
    BY NullsAssumption DEF OtherRowsKept, SameRow, Booked
  <1>2. BotOK(c)
    BY DEF SettleInv
  <1>3. attempt[c] # NoExec => SameRow(attempt[c])
    BY <1>2, NullsAssumption DEF BotOK, OtherRowsKept, TypeOK
  <1> QED
    BY <1>1, <1>2, <1>3 DEF BotOK, OtherBotsKept, SameRow

LEMMA OtherRuns ==
    ASSUME TypeOK, SettleInv, NEW w \in Workers, NEW b \in Bots, OthersKept(w, b),
           \A v \in Workers : v # w => pc[v][b] = "idle",
           NEW v \in Workers, NEW c \in Bots, v # w \/ c # b
    PROVE  RunOK(v, c)'
  <1>1. RunOK(v, c) /\ BotOK(c)
    BY DEF SettleInv
  <1>2. /\ pc'[v][c] = pc[v][c] /\ held'[v][c] = held[v][c]
        /\ view'[v][c].lots = view[v][c].lots /\ view'[v][c].snap = view[v][c].snap
        /\ view'[v][c].fresh => view[v][c].fresh /\ snap'[c] = snap[c]
    BY DEF OthersKept, OtherRunsKept
  <1>3. CASE c = b
    <2>1. pc'[v][c] = "idle"
      BY <1>2, <1>3
    <2> QED
      BY <1>1, <1>2, <2>1 DEF RunOK, OwnOK, CarryOK, ViewOK, LotsRead, BalancesRead, Carrying
  <1>4. CASE c # b
    <2>1. /\ attempt'[c] = attempt[c] /\ lots'[c] = lots[c]
          /\ snap'[c] = snap[c] /\ lock'[c] = lock[c]
      BY <1>4 DEF OthersKept, OtherBotsKept
    <2>2. pc[v][c] \in Carrying => SameRow(held[v][c].exec)
      BY <1>1, <1>4, NullsAssumption DEF RunOK, CarryOK, BotOK, OthersKept, OtherRowsKept, TypeOK
    <2>3. CarryOK(v, c)'
      BY <1>1, <1>2, <2>1, <2>2 DEF RunOK, CarryOK, SameRow, Carrying, Marker
    <2>4. OwnOK(v, c)' /\ ViewOK(v, c)'
      BY <1>1, <1>2, <2>1 DEF RunOK, OwnOK, ViewOK
    <2> QED
      BY <2>3, <2>4 DEF RunOK
  <1> QED
    BY <1>3, <1>4

\* What is left to show of a step of run (w, b).
LEMMA StepSettles ==
    ASSUME TypeOK, SettleInv, NEW w \in Workers, NEW b \in Bots, OthersKept(w, b),
           pc[w][b] # "idle" \/ lock[b] = NoWorker,
           \A e \in Execs : owner[e] \in {b, NoBot} => RowOK(e)',
           BotOK(b)', RunOK(w, b)'
    PROVE  SettleInv'
  <1>1. ASSUME NEW e \in Execs PROVE RowOK(e)'
    BY OtherRows DEF OthersKept
  <1>2. ASSUME NEW c \in Bots PROVE BotOK(c)'
    BY OtherBots DEF OthersKept
  <1>3. ASSUME NEW v \in Workers, NEW c \in Bots PROVE RunOK(v, c)'
    BY OtherRuns, Alone
  <1> QED
    BY <1>1, <1>2, <1>3 DEF SettleInv

-----------------------------------------------------------------------------
(* What the helpers of the actions do to one run and to the others         *)

LEMMA GotoMoves ==
    ASSUME TypeOK, NEW w \in Workers, NEW b \in Bots, NEW l, Goto(w, b, l)
    PROVE  /\ pc'[w][b] = l
           /\ \A v \in Workers, c \in Bots : v # w \/ c # b => pc'[v][c] = pc[v][c]
  BY DEF Goto, TypeOK

\* One entry of the table of views, or of attempts carried, is replaced.
ViewBecomes(w, b, x) == view' = [view EXCEPT ![w][b] = x]
HeldBecomes(w, b, x) == held' = [held EXCEPT ![w][b] = x]

LEMMA ViewMoves ==
    ASSUME TypeOK, NEW w \in Workers, NEW b \in Bots, NEW x, ViewBecomes(w, b, x)
    PROVE  /\ view'[w][b] = x
           /\ \A v \in Workers, c \in Bots : v # w \/ c # b => view'[v][c] = view[v][c]
  BY DEF TypeOK, ViewBecomes

LEMMA HeldMoves ==
    ASSUME TypeOK, NEW w \in Workers, NEW b \in Bots, NEW x, HeldBecomes(w, b, x)
    PROVE  /\ held'[w][b] = x
           /\ \A v \in Workers, c \in Bots : v # w \/ c # b => held'[v][c] = held[v][c]
  BY DEF TypeOK, HeldBecomes

\* A step moves one run and perhaps replaces what that run has in memory.
RunMoves(w, b, l) ==
    /\ Goto(w, b, l)
    /\ view' = view \/ \E x \in Views : ViewBecomes(w, b, x)
    /\ held' = held \/ \E x \in Attempts : HeldBecomes(w, b, x)

LEMMA RunMovesKeeps ==
    ASSUME TypeOK, NEW w \in Workers, NEW b \in Bots, NEW l, RunMoves(w, b, l), snap' = snap
    PROVE  OtherRunsKept(w, b) /\ pc'[w][b] = l
  <1>1. /\ pc'[w][b] = l
        /\ \A v \in Workers, c \in Bots : v # w \/ c # b => pc'[v][c] = pc[v][c]
    BY GotoMoves DEF RunMoves
  <1>2. \A v \in Workers, c \in Bots : v # w \/ c # b => view'[v][c] = view[v][c]
    <2>1. CASE view' = view
      BY <2>1
    <2>2. CASE \E x \in Views : ViewBecomes(w, b, x)
      BY <2>2, ViewMoves
    <2> QED
      BY <2>1, <2>2 DEF RunMoves
  <1>3. \A v \in Workers, c \in Bots : v # w \/ c # b => held'[v][c] = held[v][c]
    <2>1. CASE held' = held
      BY <2>1
    <2>2. CASE \E x \in Attempts : HeldBecomes(w, b, x)
      BY <2>2, HeldMoves
    <2> QED
      BY <2>1, <2>2 DEF RunMoves
  <1> QED
    BY <1>1, <1>2, <1>3 DEF OtherRunsKept

\* A local step leaves the books, the attempts and the chain alone.
LocalStep(w, b, l) ==
    /\ RunMoves(w, b, l)
    /\ \A c \in Bots \ {b} : lock'[c] = lock[c]
    /\ UNCHANGED <<lots, snap, attempts, chain, resuming>>

LEMMA LocalStepMoves ==
    ASSUME TypeOK, NEW w \in Workers, NEW b \in Bots, NEW l, LocalStep(w, b, l)
    PROVE  OthersKept(w, b) /\ pc'[w][b] = l
  <1>1. OtherRunsKept(w, b) /\ pc'[w][b] = l
    BY RunMovesKeeps DEF LocalStep
  <1>2. OtherBotsKept(b) /\ OtherRowsKept(b)
    BY DEF LocalStep, OtherBotsKept, OtherRowsKept, SameRow, attempts
  <1> QED
    BY <1>1, <1>2 DEF OthersKept

\* Such a step only has to keep what is said of its own run.
LEMMA LocalStepSettles ==
    ASSUME TypeOK, SettleInv, NEW w \in Workers, NEW b \in Bots, NEW l, LocalStep(w, b, l),
           pc[w][b] # "idle" \/ lock[b] = NoWorker, RunOK(w, b)'
    PROVE  SettleInv'
  <1>1. OthersKept(w, b)
    BY LocalStepMoves
  <1>2. ASSUME NEW e \in Execs PROVE RowOK(e)'
    <2>1. RowOK(e)
      BY DEF SettleInv
    <2>2. SameRow(e) /\ attempt' = attempt
      BY DEF LocalStep, SameRow, attempts
    <2> QED
      BY <2>1, <2>2, SameRowOK
  <1>3. BotOK(b)'
    <2>1. BotOK(b)
      BY DEF SettleInv
    <2> QED
      BY <2>1 DEF LocalStep, BotOK, Booked, attempts
  <1> QED
    BY <1>1, <1>2, <1>3, StepSettles

\* Where nothing is said of a run but whose it is.
Idling == {"read", "reread", "catch", "release"}

LEMMA IdlingRunOK ==
    ASSUME NEW w \in Workers, NEW b \in Bots,
           pc'[w][b] \in Idling, lock'[b] = w,
           view'[w][b].fresh => view'[w][b].snap = snap'[b]
    PROVE  RunOK(w, b)'
  BY DEF RunOK, OwnOK, CarryOK, ViewOK, LotsRead, BalancesRead, Carrying, Idling

LEMMA NotCarrying ==
    ASSUME NEW w \in Workers, NEW b \in Bots, pc'[w][b] \notin Carrying
    PROVE  CarryOK(w, b)'
  BY DEF CarryOK, Carrying

LEMMA LeavingSettles ==
    ASSUME TypeOK, SettleInv, NEW w \in Workers, NEW b \in Bots,
           NEW l \in {"idle", "catch", "release"}, Leave(w, b, l), pc[w][b] # "idle",
           l # "idle" => lock'[b] = lock[b],
           \A c \in Bots \ {b} : lock'[c] = lock[c],
           UNCHANGED <<lots, snap, attempts, chain, resuming>>
    PROVE  SettleInv'
  <1>1. LocalStep(w, b, l)
    BY NullTypes DEF Leave, LocalStep, RunMoves, ViewBecomes, HeldBecomes
  <1>2. pc'[w][b] = l /\ view'[w][b] = NullView
    <2>1. Goto(w, b, l) /\ ViewBecomes(w, b, NullView)
      BY DEF Leave, ViewBecomes
    <2>2. pc'[w][b] = l
      BY <2>1, GotoMoves
    <2>3. view'[w][b] = NullView
      BY <2>1, ViewMoves
    <2> QED
      BY <2>2, <2>3
  <1>3. RunOK(w, b)
    BY DEF SettleInv
  <1>4. RunOK(w, b)'
    <2>1. CASE l = "idle"
      BY <1>2, <2>1
         DEF RunOK, OwnOK, CarryOK, ViewOK, LotsRead, BalancesRead, Carrying, NullView
    <2>2. CASE l # "idle"
      BY <1>2, <1>3, <2>2, IdlingRunOK DEF RunOK, OwnOK, NullView, Idling
    <2> QED
      BY <2>1, <2>2
  <1> QED
    BY <1>1, <1>4, LocalStepSettles

-----------------------------------------------------------------------------
(* From the lock to a decision                                             *)

\* A step to a label without an attempt leaves the view of its run alone, or reads it anew.
LEMMA WanderingSettles ==
    ASSUME TypeOK, SettleInv, NEW w \in Workers, NEW b \in Bots, NEW l \in Labels,
           Goto(w, b, l), pc[w][b] # "idle", l # "idle", l \notin Carrying,
           l \in LotsRead => pc[w][b] \in LotsRead,
           l \in BalancesRead => pc[w][b] \in BalancesRead,
           UNCHANGED <<books, attempts, chain, lock, view, held, resuming>>
    PROVE  SettleInv'
  <1>1. LocalStep(w, b, l)
    BY DEF LocalStep, RunMoves, books
  <1>2. pc'[w][b] = l
    BY GotoMoves
  <1>3. RunOK(w, b)
    BY DEF SettleInv
  <1>4. OwnOK(w, b)' /\ CarryOK(w, b)'
    BY <1>2, <1>3 DEF RunOK, OwnOK, CarryOK, Carrying
  <1>5. ViewOK(w, b)'
    BY <1>2, <1>3 DEF RunOK, ViewOK, books
  <1> QED
    BY <1>1, <1>4, <1>5, LocalStepSettles DEF RunOK

LEMMA StartRunSettles ==
    ASSUME TypeOK, SettleInv, NEW w \in Workers, NEW b \in Bots, StartRun(w, b)
    PROVE  SettleInv'
  <1>1. PICK r \in BOOLEAN : view' = [view EXCEPT ![w][b].recovery = r]
    BY DEF StartRun
  <1> DEFINE x == [view[w][b] EXCEPT !.recovery = r]
  <1>2. view[w][b] \in Views
    BY DEF TypeOK
  <1>3. x \in Views /\ x.fresh = view[w][b].fresh /\ x.snap = view[w][b].snap
    BY <1>2 DEF Views
  <1>4. ViewBecomes(w, b, x)
    BY <1>1 DEF ViewBecomes
  <1> HIDE DEF x
  <1>5. lock' = [lock EXCEPT ![b] = w] /\ Goto(w, b, "read") /\ lock[b] = NoWorker
    BY DEF StartRun
  <1>6. LocalStep(w, b, "read")
    BY <1>3, <1>4, <1>5 DEF StartRun, LocalStep, RunMoves, books, TypeOK
  <1>7. pc'[w][b] = "read" /\ view'[w][b] = x /\ lock'[b] = w
    BY <1>4, <1>5, GotoMoves, ViewMoves DEF TypeOK
  <1>8. ViewOK(w, b)
    BY DEF SettleInv, RunOK
  <1>9. RunOK(w, b)'
    BY <1>3, <1>7, <1>8, IdlingRunOK DEF ViewOK, Idling, StartRun, books
  <1> QED
    BY <1>5, <1>6, <1>9, LocalStepSettles

LEMMA ReadBotSettles ==
    ASSUME TypeOK, SettleInv, NEW w \in Workers, NEW b \in Bots, ReadBot(w, b)
    PROVE  SettleInv'
  <1>1. PICK l \in {"snapshot", "resnapshot"} : Goto(w, b, l) /\ pc[w][b] # "idle"
    BY DEF ReadBot
  <1> DEFINE x == [view[w][b] EXCEPT !.status = status[b], !.lots = lots[b]]
  <1>2. view[w][b] \in Views /\ status[b] \in Statuses /\ lots[b] \in SUBSET Execs
    BY DEF TypeOK
  <1>3. /\ x \in Views /\ x.lots = lots[b]
        /\ x.fresh = view[w][b].fresh /\ x.snap = view[w][b].snap
    BY <1>2 DEF Views
  <1>4. ViewBecomes(w, b, x)
    BY DEF ReadBot, getBotAggregate, ViewBecomes
  <1> HIDE DEF x
  <1>5. LocalStep(w, b, l)
    BY <1>1, <1>3, <1>4 DEF ReadBot, LocalStep, RunMoves, books
  <1>6. pc'[w][b] = l /\ view'[w][b] = x
    BY <1>1, <1>4, GotoMoves, ViewMoves
  <1>7. RunOK(w, b)
    BY DEF SettleInv
  <1>8. OwnOK(w, b)' /\ CarryOK(w, b)'
    BY <1>1, <1>6, <1>7, NotCarrying DEF ReadBot, RunOK, OwnOK, Carrying
  <1>9. ViewOK(w, b)'
    BY <1>3, <1>6, <1>7 DEF ReadBot, RunOK, ViewOK, books, LotsRead, BalancesRead
  <1> QED
    BY <1>1, <1>5, <1>8, <1>9, LocalStepSettles DEF RunOK

\* The newest snapshot is read after the lots, and neither has changed since.
LEMMA ReadSnapshotSettles ==
    ASSUME TypeOK, SettleInv, NEW w \in Workers, NEW b \in Bots,
           ReadSnapshot(w, b) \/ RereadSnapshot(w, b)
    PROVE  SettleInv'
  <1>1. PICK l \in {"pending", "passive", "release", "prepare"} : Goto(w, b, l)
    BY DEF ReadSnapshot, RereadSnapshot, Choices
  <1>2. pc[w][b] \in {"snapshot", "resnapshot"}
    BY DEF ReadSnapshot, RereadSnapshot
  <1> DEFINE x == [view[w][b] EXCEPT !.snap = snap[b], !.fresh = TRUE]
  <1>3. view[w][b] \in Views /\ snap[b] \in SUBSET Execs
    BY DEF TypeOK
  <1>4. x \in Views /\ x.lots = view[w][b].lots /\ x.snap = snap[b]
    BY <1>3 DEF Views
  <1>5. ViewBecomes(w, b, x)
    BY DEF ReadSnapshot, RereadSnapshot, findLatestBotStateSnapshot, ViewBecomes
  <1> HIDE DEF x
  <1>6. UNCHANGED <<books, attempts, chain, lock, held, resuming>>
    BY DEF ReadSnapshot, RereadSnapshot
  <1>7. LocalStep(w, b, l)
    BY <1>1, <1>4, <1>5, <1>6 DEF LocalStep, RunMoves, books
  <1>8. pc'[w][b] = l /\ view'[w][b] = x
    BY <1>1, <1>5, GotoMoves, ViewMoves
  <1>9. RunOK(w, b)
    BY DEF SettleInv
  <1>10. OwnOK(w, b)' /\ CarryOK(w, b)'
    BY <1>1, <1>2, <1>6, <1>8, <1>9, NotCarrying DEF RunOK, OwnOK, Carrying
  <1>11. ViewOK(w, b)'
    BY <1>2, <1>4, <1>6, <1>8, <1>9 DEF RunOK, ViewOK, books, LotsRead
  <1> QED
    BY <1>2, <1>7, <1>10, <1>11, LocalStepSettles DEF RunOK

\* A snapshot written for bot b: every run of the bot has stale balances now.
LEMMA SnapshotMoves ==
    ASSUME TypeOK, NEW b \in Bots, NEW s, NEW vs \in [Workers -> [Bots -> Views]],
           createSnapshot(b, s, vs)
    PROVE  /\ snap'[b] = s
           /\ \A c \in Bots \ {b} : snap'[c] = snap[c]
           /\ \A v \in Workers :
                /\ view'[v][b].fresh = FALSE
                /\ view'[v][b].lots = vs[v][b].lots /\ view'[v][b].snap = vs[v][b].snap
                /\ \A c \in Bots \ {b} : view'[v][c] = vs[v][c]
  <1>1. snap'[b] = s /\ \A c \in Bots \ {b} : snap'[c] = snap[c]
    BY DEF createSnapshot, TypeOK
  <1>2. ASSUME NEW v \in Workers
        PROVE  /\ view'[v][b].fresh = FALSE
               /\ view'[v][b].lots = vs[v][b].lots /\ view'[v][b].snap = vs[v][b].snap
               /\ \A c \in Bots \ {b} : view'[v][c] = vs[v][c]
    <2>1. view'[v] = [vs[v] EXCEPT ![b].fresh = FALSE]
      BY DEF createSnapshot
    <2>2. view'[v][b] = [vs[v][b] EXCEPT !.fresh = FALSE]
      BY <2>1
    <2>3. vs[v][b] \in Views
      OBVIOUS
    <2>4. \A c \in Bots \ {b} : view'[v][c] = vs[v][c]
      BY <2>1
    <2> QED
      BY <2>2, <2>3, <2>4 DEF Views
  <1> QED
    BY <1>1, <1>2

LEMMA PassiveSnapshotSettles ==
    ASSUME TypeOK, SettleInv, NEW w \in Workers, NEW b \in Bots, PassiveSnapshot(w, b)
    PROVE  SettleInv'
  <1> DEFINE vs == [view EXCEPT ![w][b] = NullView]
  <1>1. vs \in [Workers -> [Bots -> Views]]
    BY ForgottenView
  <1>2. \A v \in Workers, c \in Bots : v # w \/ c # b => vs[v][c] = view[v][c]
    BY DEF TypeOK
  <1>3. createSnapshot(b, view[w][b].snap, vs)
    BY DEF PassiveSnapshot
  <1> HIDE DEF vs
  <1>4. /\ pc[w][b] = "passive" /\ Goto(w, b, "release")
        /\ UNCHANGED <<lots, attempts, chain, lock, held, resuming>>
    BY DEF PassiveSnapshot
  <1>5. /\ snap'[b] = view[w][b].snap
        /\ \A c \in Bots \ {b} : snap'[c] = snap[c]
        /\ \A v \in Workers :
             /\ view'[v][b].fresh = FALSE
             /\ view'[v][b].lots = vs[v][b].lots /\ view'[v][b].snap = vs[v][b].snap
             /\ \A c \in Bots \ {b} : view'[v][c] = vs[v][c]
    BY <1>1, <1>3, SnapshotMoves
  <1>6. /\ pc'[w][b] = "release"
        /\ \A v \in Workers, c \in Bots : v # w \/ c # b => pc'[v][c] = pc[v][c]
    BY <1>4, GotoMoves
  <1>7. OtherRunsKept(w, b)
    BY <1>2, <1>4, <1>5, <1>6 DEF OtherRunsKept
  <1>8. OtherBotsKept(b) /\ OtherRowsKept(b)
    BY <1>4, <1>5 DEF OtherBotsKept, OtherRowsKept, SameRow, attempts
  <1>9. ASSUME NEW e \in Execs PROVE RowOK(e)'
    BY <1>4, SameRowOK DEF SettleInv, SameRow, attempts
  <1>10. BotOK(b) /\ RunOK(w, b)
    BY DEF SettleInv
  <1>11. BotOK(b)'
    BY <1>4, <1>5, <1>10
       DEF BotOK, RunOK, ViewOK, LotsRead, BalancesRead, Booked, attempts
  <1>12. RunOK(w, b)'
    BY <1>4, <1>5, <1>6, <1>10, IdlingRunOK DEF RunOK, OwnOK, Idling
  <1> QED
    BY <1>4, <1>7, <1>8, <1>9, <1>11, <1>12, StepSettles DEF OthersKept

\* The steps towards a decision that neither read nor write.
LEMMA WaitingSettles ==
    ASSUME TypeOK, SettleInv, NEW w \in Workers, NEW b \in Bots,
           \/ Decide(w, b) \/ RecoverStatus(w, b) \/ RiskBlocks(w, b)
           \/ PassiveSkipped(w, b) \/ RecenterRefused(w, b) \/ PrepareRefused(w, b)
    PROVE  SettleInv'
  <1>1. CASE Decide(w, b) \/ RecoverStatus(w, b) \/ RiskBlocks(w, b)
    <2>1. PICK l \in {"release", "recover", "passive", "prepare"} : Goto(w, b, l)
      BY <1>1 DEF Decide, RecoverStatus, RiskBlocks, Choices
    <2>2. pc[w][b] \in {"pending", "recover", "prepare"}
      BY <1>1 DEF Decide, RecoverStatus, RiskBlocks
    <2>3. UNCHANGED <<books, attempts, chain, lock, view, held, resuming>>
      BY <1>1 DEF Decide, RecoverStatus, RiskBlocks
    <2>4. l \in Labels /\ l # "idle" /\ l \notin Carrying
      BY DEF Carrying
    <2> QED
      BY <2>1, <2>2, <2>3, <2>4, WanderingSettles DEF LotsRead, BalancesRead
  <1>2. CASE PassiveSkipped(w, b) \/ RecenterRefused(w, b)
    <2>1. PICK l \in {"release", "catch"} : Leave(w, b, l)
      BY <1>2 DEF PassiveSkipped, RecenterRefused
    <2> QED
      BY <1>2, <2>1, LeavingSettles DEF PassiveSkipped, RecenterRefused, books
  <1>3. CASE PrepareRefused(w, b) /\ Leave(w, b, "catch")
    BY <1>3, LeavingSettles DEF PrepareRefused, books
  <1>4. CASE PrepareRefused(w, b) /\ Goto(w, b, "passive") /\ UNCHANGED <<view, held>>
    BY <1>4, WanderingSettles DEF PrepareRefused, LotsRead, BalancesRead, Carrying
  <1> QED
    BY <1>1, <1>2, <1>3, <1>4 DEF PrepareRefused

-----------------------------------------------------------------------------
(* One durable attempt                                                     *)

\* What the invariant says of a run that carries attempt e.
Carries(w, b, e) ==
    /\ e \in Execs /\ e = held[w][b].exec /\ e = attempt[b] /\ e # NoExec
    /\ owner[e] = b /\ ledger[e] = "open"
    /\ RowOK(e) /\ lock[b] = w
    /\ view[w][b].lots = lots[b]
    /\ view[w][b].fresh => view[w][b].snap = snap[b]
    /\ b \in BandBots => view[w][b].snap = snap[b]

LEMMA CarriedRow ==
    ASSUME TypeOK, SettleInv, NEW w \in Workers, NEW b \in Bots, pc[w][b] \in Carrying
    PROVE  Carries(w, b, held[w][b].exec)
  <1> DEFINE e == held[w][b].exec
  <1>1. RunOK(w, b) /\ BotOK(b)
    BY DEF SettleInv
  <1>2. e = attempt[b] /\ e # NoExec
    BY <1>1 DEF RunOK, CarryOK
  <1>3. e \in Execs /\ owner[e] = b /\ ledger[e] = "open"
    BY <1>1, <1>2 DEF BotOK, TypeOK
  <1>4. RowOK(e)
    BY <1>3 DEF SettleInv
  <1>5. lock[b] = w
    BY <1>1 DEF RunOK, OwnOK, Carrying
  <1>6. /\ view[w][b].lots = lots[b]
        /\ view[w][b].fresh => view[w][b].snap = snap[b]
        /\ b \in BandBots => view[w][b].snap = snap[b]
    BY <1>1 DEF RunOK, ViewOK, LotsRead, BalancesRead, Carrying
  <1> QED
    BY <1>2, <1>3, <1>4, <1>5, <1>6 DEF Carries

\* A step that writes nothing but row e, the attempt its run carries.
RowStep(w, b, e, l) ==
    /\ RunMoves(w, b, l)
    /\ \A f \in Execs \ {e} : SameRow(f)
    /\ UNCHANGED <<lots, snap, attempt, owner, ledger, lock, resuming>>

LEMMA RowStepSettles ==
    ASSUME TypeOK, SettleInv, NEW w \in Workers, NEW b \in Bots, NEW e, NEW l,
           Carries(w, b, e), pc[w][b] # "idle", l # "idle", RowStep(w, b, e, l),
           Proven(e)', CarryOK(w, b)', ViewOK(w, b)'
    PROVE  SettleInv'
  <1>1. OtherRunsKept(w, b) /\ pc'[w][b] = l
    BY RunMovesKeeps DEF RowStep
  <1>2. OtherBotsKept(b) /\ OtherRowsKept(b)
    BY DEF RowStep, OtherBotsKept, OtherRowsKept, Carries
  <1>3. ASSUME NEW f \in Execs PROVE RowOK(f)'
    <2>1. CASE f = e
      BY <2>1 DEF RowOK, Recorded, Carries, RowStep
    <2>2. CASE f # e
      BY <2>2, SameRowOK DEF SettleInv, RowStep
    <2> QED
      BY <2>1, <2>2
  <1>4. BotOK(b)'
    BY DEF SettleInv, RowStep, BotOK, Booked
  <1>5. OwnOK(w, b)'
    BY DEF Carries, RowStep, OwnOK
  <1> QED
    BY <1>1, <1>2, <1>3, <1>4, <1>5, StepSettles DEF RunOK, OthersKept

\* While the attempt is carried on, the aggregate of the run is not read again.
LEMMA CarriesView ==
    ASSUME NEW w \in Workers, NEW b \in Bots, NEW e, Carries(w, b, e),
           UNCHANGED <<lots, snap, view>>
    PROVE  ViewOK(w, b)'
  BY DEF Carries, ViewOK

\* The row as it is read is what a run carries from then on.
LEMMA RestoreSettles ==
    ASSUME TypeOK, SettleInv, NEW w \in Workers, NEW b \in Bots,
           ResumePending(w, b) \/ PrepareExisting(w, b)
    PROVE  SettleInv'
  <1> DEFINE e == attempt[b]
             h == restoreAttempt(e)
             l == IF result[e] \in Terminal THEN "commit" ELSE "mark"
  <1>1. /\ pc[w][b] \in {"pending", "prepare"} /\ e # NoExec /\ Goto(w, b, l)
        /\ HeldBecomes(w, b, h)
        /\ UNCHANGED <<books, attempts, chain, lock, view, resuming>>
    BY DEF ResumePending, PrepareExisting, HeldBecomes
  <1>2. e \in Execs /\ owner[e] = b /\ ledger[e] = "open"
    BY <1>1 DEF SettleInv, BotOK, TypeOK
  <1>3. h \in Attempts
    BY <1>2, RestoredType
  <1>4. /\ h.exec = e /\ h.prev = result[e] /\ h.unc = uncertain[e] /\ h.rep = result[e]
    BY DEF restoreAttempt
  <1> HIDE DEF h
  <1>5. LocalStep(w, b, l)
    BY <1>1, <1>3 DEF LocalStep, RunMoves, books
  <1>6. pc'[w][b] = l /\ held'[w][b] = h
    <2>1. pc'[w][b] = l
      BY <1>1, GotoMoves
    <2> QED
      BY <1>1, <2>1, HeldMoves
  <1>7. RunOK(w, b)
    BY DEF SettleInv
  <1>8. OwnOK(w, b)' /\ ViewOK(w, b)'
    BY <1>1, <1>6, <1>7 DEF RunOK, OwnOK, ViewOK, LotsRead, BalancesRead, books
  <1>9. CarryOK(w, b)'
    BY <1>1, <1>4, <1>6 DEF CarryOK, attempts
  <1> QED
    BY <1>1, <1>5, <1>8, <1>9, LocalStepSettles DEF RunOK


\* What the engine has been told, as far as the chain bears it out.
Supported(e, rep) ==
    /\ rep \in Results \ {"none"}
    /\ rep \in {"filled", "unpriced"} => chain[e] = "success"
    /\ rep = "failed" => chain[e] \notin {"inflight", "success"}

\* What the invariant says of the row of a run on its way to a report.
LEMMA MarkedRow ==
    ASSUME TypeOK, SettleInv, NEW w \in Workers, NEW b \in Bots,
           pc[w][b] \in {"check", "send", "await", "save"}
    PROVE  LET h == held[w][b]
               e == held[w][b].exec
           IN  /\ Carries(w, b, e) /\ h \in Attempts
               /\ result[e] = Marker(h.prev) /\ h.prev \in Results \ Terminal
               /\ result[e] \in Unresolved /\ uncertain[e]
               /\ result[e] = "unpriced" <=> h.prev = "unpriced"
               /\ result[e] = "unpriced" => chain[e] = "success"
  <1> DEFINE h == held[w][b]
             e == held[w][b].exec
  <1>1. Carries(w, b, e)
    BY CarriedRow DEF Carrying
  <1>2. result[e] = Marker(h.prev) /\ h.prev \notin Terminal
    BY DEF SettleInv, RunOK, CarryOK
  <1>3. h \in Attempts /\ h.prev \in Results
    BY AttemptFields DEF TypeOK
  <1>4. result[e] \in Unresolved /\ (result[e] = "unpriced" <=> h.prev = "unpriced")
    BY <1>2 DEF Marker
  <1>5. uncertain[e] /\ (result[e] = "unpriced" => chain[e] = "success")
    BY <1>1, <1>4 DEF Carries, RowOK, Proven
  <1> QED
    BY <1>1, <1>2, <1>3, <1>4, <1>5

\* The run now holds a report that the chain supports.
LEMMA ReportedMoves ==
    ASSUME TypeOK, SettleInv, NEW w \in Workers, NEW b \in Bots,
           pc[w][b] \in {"check", "send", "await"}, UNCHANGED <<view, result>>,
           NEW rep, NEW knowing \in BOOLEAN, Reported(w, b, rep, knowing),
           NEW e, e = held[w][b].exec, Supported(e, rep)', UNCHANGED attempt
    PROVE  RunMoves(w, b, "save") /\ CarryOK(w, b)'
  <1> DEFINE h == held[w][b]
             known == h.txid \/ knowing
             x == [h EXCEPT !.rep = rep, !.txid = known]
  <1>1. /\ Carries(w, b, e) /\ h \in Attempts
        /\ result[e] = Marker(h.prev) /\ h.prev \in Results \ Terminal
    BY MarkedRow
  <1>2. rep \in Results /\ known \in BOOLEAN
    BY <1>1, AttemptFields DEF Supported
  <1> HIDE DEF known
  <1>3. x \in Attempts
    BY <1>1, <1>2, AttemptUpdates
  <1>4. x.exec = e /\ x.prev = h.prev /\ x.rep = rep
    BY <1>1 DEF Attempts
  <1>5. Goto(w, b, "save") /\ HeldBecomes(w, b, x)
    BY DEF Reported, HeldBecomes, known
  <1> HIDE DEF x
  <1>6. RunMoves(w, b, "save")
    BY <1>3, <1>5 DEF RunMoves
  <1>7. pc'[w][b] = "save" /\ held'[w][b] = x
    <2>1. pc'[w][b] = "save"
      BY <1>5, GotoMoves
    <2> QED
      BY <1>5, <2>1, HeldMoves
  <1>8. /\ e = attempt[b] /\ e # NoExec
    BY <1>1 DEF Carries
  <1>9. CarryOK(w, b)'
    BY <1>1, <1>4, <1>7, <1>8 DEF CarryOK, Supported, Carrying
  <1> QED
    BY <1>6, <1>9

LEMMA ReportedSettles ==
    ASSUME TypeOK, SettleInv, NEW w \in Workers, NEW b \in Bots,
           pc[w][b] \in {"check", "send", "await"},
           NEW rep, NEW knowing \in BOOLEAN, Reported(w, b, rep, knowing),
           Supported(held[w][b].exec, rep),
           UNCHANGED <<books, attempts, chain, lock, view, resuming>>
    PROVE  SettleInv'
  <1>1. Carries(w, b, held[w][b].exec)
    BY MarkedRow
  <1>2. RunMoves(w, b, "save") /\ CarryOK(w, b)'
    BY ReportedMoves DEF Supported, attempts
  <1>3. LocalStep(w, b, "save") /\ pc'[w][b] = "save"
    BY <1>2, RunMovesKeeps DEF LocalStep, books
  <1>4. OwnOK(w, b)' /\ ViewOK(w, b)'
    BY <1>1, <1>3, CarriesView DEF Carries, OwnOK, books
  <1> QED
    BY <1>2, <1>3, <1>4, LocalStepSettles DEF RunOK

\* Each answer of the chain, of Jupiter or of nobody at all is one the chain
\* supports: this is why a late, lost or wrong reply cannot falsify the books.
LEMMA AnswersSettle ==
    ASSUME TypeOK, SettleInv, NEW w \in Workers, NEW b \in Bots,
           \/ ChainProvesFailure(w, b) \/ ChainLookupThrows(w, b)
           \/ SendLost(w, b) \/ SendRejected(w, b) \/ FetchFees(w, b)
           \/ ReplyLost(w, b) \/ ReplySuccess(w, b) \/ ReplyReverted(w, b)
    PROVE  SettleInv'
  <1> DEFINE h == held[w][b]
             e == held[w][b].exec
  <1>1. /\ pc[w][b] \in {"check", "send", "await"}
        /\ UNCHANGED <<books, attempts, chain, lock, view, resuming>>
    BY DEF ChainProvesFailure, ChainLookupThrows, Submits, SendLost, SendRejected, FetchFees,
           ReplyLost, ReplySuccess, ReplyReverted
  <1>2. /\ h \in Attempts /\ result[e] = Marker(h.prev)
        /\ result[e] \in Unresolved
        /\ result[e] = "unpriced" <=> h.prev = "unpriced"
        /\ result[e] = "unpriced" => chain[e] = "success"
    BY <1>1, MarkedRow
  <1>3. ASSUME NEW rep, NEW knowing \in BOOLEAN, Reported(w, b, rep, knowing), Supported(e, rep)
        PROVE  SettleInv'
    BY <1>1, <1>3, ReportedSettles
  <1>4. CASE ChainProvesFailure(w, b)
    <2>1. Reported(w, b, "failed", TRUE)
      BY <1>4 DEF ChainProvesFailure
    <2>2. Supported(e, "failed")
      BY <1>4 DEF ChainProvesFailure, Supported
    <2> QED
      BY <1>3, <2>1, <2>2
  <1>5. CASE ChainLookupThrows(w, b)
    <2>1. Reported(w, b, Marker(h.prev), FALSE)
      BY <1>5 DEF ChainLookupThrows
    <2>2. Supported(e, Marker(h.prev))
      BY <1>2 DEF Supported
    <2> QED
      BY <1>3, <2>1, <2>2
  <1>6. CASE SendLost(w, b)
    <2>1. Reported(w, b, "unknown", FALSE)
      BY <1>6 DEF SendLost
    <2>2. Supported(e, "unknown")
      BY DEF Supported
    <2> QED
      BY <1>3, <2>1, <2>2
  <1>7. CASE SendRejected(w, b)
    <2>1. Reported(w, b, Downgrade(h.unc, "failed"), FALSE)
      BY <1>7 DEF SendRejected
    <2>2. ~ h.unc => chain[e] \in {"unsent", "expired"}
      BY <1>7 DEF SendRejected, Submits, SettleInv, RunOK, CarryOK
    <2>3. Supported(e, Downgrade(h.unc, "failed"))
      BY <2>2 DEF Supported, Downgrade
    <2> QED
      BY <1>3, <2>1, <2>3
  <1>8. CASE FetchFees(w, b)
    <2>1. PICK rep \in {"filled", "unpriced"} : Reported(w, b, rep, TRUE)
      BY <1>8 DEF FetchFees
    <2>2. Supported(e, rep)
      BY <1>2, <1>8 DEF FetchFees, Supported
    <2> QED
      BY <1>3, <2>1, <2>2
  <1>9. CASE ReplyLost(w, b)
    <2>1. PICK knowing \in BOOLEAN : Reported(w, b, "unknown", knowing)
      BY <1>9 DEF ReplyLost
    <2>2. Supported(e, "unknown")
      BY DEF Supported
    <2> QED
      BY <1>3, <2>1, <2>2
  <1>10. CASE ReplySuccess(w, b)
    <2>1. PICK rep \in {"filled", "unpriced"} : Reported(w, b, rep, TRUE)
      BY <1>10 DEF ReplySuccess
    <2>2. Supported(e, rep)
      BY <1>10 DEF ReplySuccess, Supported
    <2> QED
      BY <1>3, <2>1, <2>2
  <1>11. CASE ReplyReverted(w, b)
    <2>1. Reported(w, b, Downgrade(h.unc, "failed"), TRUE)
      BY <1>11 DEF ReplyReverted
    <2>2. Supported(e, Downgrade(h.unc, "failed"))
      BY <1>11 DEF ReplyReverted, Supported, Downgrade
    <2> QED
      BY <1>3, <2>1, <2>2
  <1> QED
    BY <1>4, <1>5, <1>6, <1>7, <1>8, <1>9, <1>10, <1>11

LEMMA ChainProvesNothingSettles ==
    ASSUME TypeOK, SettleInv, NEW w \in Workers, NEW b \in Bots, ChainProvesNothing(w, b)
    PROVE  SettleInv'
  <1>1. /\ pc[w][b] = "check" /\ Goto(w, b, "send")
        /\ UNCHANGED <<books, attempts, chain, lock, view, held, resuming>>
    BY DEF ChainProvesNothing
  <1>2. Carries(w, b, held[w][b].exec)
    BY <1>1, MarkedRow
  <1>3. LocalStep(w, b, "send") /\ pc'[w][b] = "send"
    BY <1>1, GotoMoves DEF LocalStep, RunMoves, books
  <1>4. OwnOK(w, b)' /\ ViewOK(w, b)'
    BY <1>1, <1>2, CarriesView DEF Carries, OwnOK, books
  <1>5. CarryOK(w, b)
    BY DEF SettleInv, RunOK
  <1>6. CarryOK(w, b)'
    BY <1>1, <1>3, <1>5 DEF CarryOK, Carrying, attempts
  <1> QED
    BY <1>1, <1>3, <1>4, <1>6, LocalStepSettles DEF RunOK

\* A simulated order has its result at once.
LEMMA SimulateFillSettles ==
    ASSUME TypeOK, SettleInv, NEW w \in Workers, NEW b \in Bots, SimulateFill(w, b)
    PROVE  SettleInv'
  <1>0. PICK e : e = held[w][b].exec
    OBVIOUS
  <1>1. /\ pc[w][b] = "send" /\ Reported(w, b, "filled", FALSE)
        /\ chain' = [chain EXCEPT ![e] = "success"]
        /\ UNCHANGED <<books, attempts, lock, view, resuming>>
    BY <1>0 DEF SimulateFill
  <1>2. Carries(w, b, e) /\ result[e] \in Unresolved /\ uncertain[e]
    BY <1>0, <1>1, MarkedRow
  <1>3. chain'[e] = "success" /\ \A f \in Execs \ {e} : chain'[f] = chain[f]
    BY <1>1, <1>2 DEF Carries, TypeOK
  <1>4. pc'[w][b] = "save" /\ RunMoves(w, b, "save") /\ CarryOK(w, b)'
    <2>1. Supported(e, "filled")'
      BY <1>3 DEF Supported
    <2>2. RunMoves(w, b, "save") /\ CarryOK(w, b)'
      BY <1>0, <1>1, <2>1, ReportedMoves DEF attempts
    <2> QED
      BY <1>1, <2>2, RunMovesKeeps DEF books
  <1>5. RowStep(w, b, e, "save")
    BY <1>1, <1>3, <1>4 DEF RowStep, SameRow, books, attempts
  <1>6. Proven(e)'
    BY <1>1, <1>2, <1>3 DEF Proven, attempts
  <1>7. ViewOK(w, b)'
    BY <1>1, <1>2, CarriesView DEF books
  <1> QED
    BY <1>1, <1>2, <1>4, <1>5, <1>6, <1>7, RowStepSettles

\* The bytes are out: whatever becomes of them, the marker was there before.
LEMMA SendAcceptedSettles ==
    ASSUME TypeOK, SettleInv, NEW w \in Workers, NEW b \in Bots, SendAccepted(w, b)
    PROVE  SettleInv'
  <1>0. PICK e : e = held[w][b].exec
    OBVIOUS
  <1>1. /\ pc[w][b] = "send" /\ held[w][b].prev # "unpriced" /\ Goto(w, b, "await")
        /\ chain' = [chain EXCEPT ![e] = IF @ = "unsent" THEN "inflight" ELSE @]
        /\ UNCHANGED <<books, attempts, lock, view, held, resuming>>
    BY <1>0 DEF SendAccepted, Submits
  <1>2. /\ Carries(w, b, e) /\ result[e] = "unknown" /\ uncertain[e]
    BY <1>0, <1>1, MarkedRow
  <1>3. \A f \in Execs \ {e} : chain'[f] = chain[f]
    BY <1>1 DEF TypeOK
  <1>4. pc'[w][b] = "await"
    BY <1>1, GotoMoves
  <1>5. CarryOK(w, b)
    BY DEF SettleInv, RunOK
  <1>6. CarryOK(w, b)'
    BY <1>0, <1>1, <1>4, <1>5 DEF CarryOK, Carrying, attempts
  <1>7. RowStep(w, b, e, "await")
    BY <1>1, <1>3 DEF RowStep, RunMoves, SameRow, books, attempts
  <1>8. Proven(e)'
    BY <1>1, <1>2 DEF Proven, attempts
  <1>9. ViewOK(w, b)'
    BY <1>1, <1>2, CarriesView DEF books
  <1> QED
    BY <1>1, <1>2, <1>6, <1>7, <1>8, <1>9, RowStepSettles

\* What a save does to the row of an attempt that has no outcome yet.
LEMMA SaveWrites ==
    ASSUME TypeOK, NEW e \in Execs, NEW rep, NEW unc \in BOOLEAN, NEW known,
           result[e] \notin Terminal, saveExecutionResult(e, rep, unc, known)
    PROVE  /\ result'[e] = rep
           /\ uncertain'[e] <=> unc \/ rep \notin Terminal
           /\ \A f \in Execs \ {e} : result'[f] = result[f] /\ uncertain'[f] = uncertain[f]
  <1> DEFINE u == unc \/ rep \notin Terminal
  <1>1. result' = [result EXCEPT ![e] = rep] /\ uncertain' = [uncertain EXCEPT ![e] = u]
    BY DEF saveExecutionResult
  <1>2. u \in BOOLEAN
    OBVIOUS
  <1>3. /\ result'[e] = rep
        /\ \A f \in Execs \ {e} : result'[f] = result[f]
    BY <1>1 DEF TypeOK
  <1> HIDE DEF u
  <1>4. /\ uncertain'[e] = u
        /\ \A f \in Execs \ {e} : uncertain'[f] = uncertain[f]
    BY <1>1 DEF TypeOK
  <1>5. uncertain'[e] <=> unc \/ rep \notin Terminal
    BY <1>4 DEF u
  <1> QED
    BY <1>3, <1>4, <1>5

\* The marker is in the row before the bytes may leave the process.
LEMMA SaveMarkerSettles ==
    ASSUME TypeOK, SettleInv, NEW w \in Workers, NEW b \in Bots, SaveMarker(w, b)
    PROVE  SettleInv'
  <1>0. PICK e : e = held[w][b].exec
    OBVIOUS
  <1> DEFINE h == held[w][b]
             m == Marker(h.prev)
             l == IF NeedsCheck(h) THEN "check" ELSE "send"
  <1>1. /\ pc[w][b] = "mark"
        /\ UNCHANGED <<status, books, attempt, owner, ledger, chain, lock, resuming>>
    BY DEF SaveMarker
  <1>2. Carries(w, b, e)
    BY <1>0, <1>1, CarriedRow DEF Carrying
  <1>3. h.prev = result[e] /\ h.unc = uncertain[e] /\ result[e] \notin Terminal
    BY <1>0, <1>1 DEF SettleInv, RunOK, CarryOK
  <1>4. m \in Unresolved /\ (m = "unpriced" <=> result[e] = "unpriced")
    BY <1>3 DEF Marker
  <1>5. CASE ~ Accepts(b, e, m)
    <2>1. Leave(w, b, "catch") /\ UNCHANGED <<result, uncertain, txid>>
      BY <1>0, <1>5 DEF SaveMarker
    <2> QED
      BY <1>1, <2>1, LeavingSettles DEF books, attempts
  <1>6. CASE Accepts(b, e, m)
    <2> DEFINE x == [h EXCEPT !.rep = m]
    <2>1. /\ saveExecutionResult(e, m, TRUE, h.txid) /\ Goto(w, b, l)
          /\ HeldBecomes(w, b, x) /\ view' = view
      BY <1>0, <1>6 DEF SaveMarker, HeldBecomes
    <2>2. h \in Attempts
      BY DEF TypeOK
    <2>3. /\ x \in Attempts /\ x.exec = e /\ x.prev = h.prev /\ x.unc = h.unc /\ x.rep = m
      BY <1>0, <1>4, <2>2 DEF Attempts
    <2>4. /\ result'[e] = m /\ uncertain'[e]
          /\ \A f \in Execs \ {e} : result'[f] = result[f] /\ uncertain'[f] = uncertain[f]
      BY <1>2, <1>3, <2>1, SaveWrites DEF Carries
    <2> HIDE DEF x
    <2>5. pc'[w][b] = l /\ held'[w][b] = x
      <3>1. pc'[w][b] = l
        BY <2>1, GotoMoves
      <3> QED
        BY <2>1, <3>1, HeldMoves
    <2>6. RowStep(w, b, e, l)
      BY <1>1, <2>1, <2>3, <2>4 DEF RowStep, RunMoves, SameRow, books
    <2>7. Proven(e)'
      BY <1>1, <1>2, <1>4, <2>4 DEF Carries, RowOK, Proven
    <2>8. ~ h.unc => chain[e] \in {"unsent", "expired"}
      BY <1>2, <1>3 DEF Carries, RowOK, Proven, TypeOK
    <2>9. CarryOK(w, b)'
      BY <1>0, <1>1, <1>2, <1>3, <2>3, <2>4, <2>5, <2>8 DEF CarryOK, Carrying, Carries, NeedsCheck
    <2>10. ViewOK(w, b)'
      BY <1>1, <1>2, <2>1, CarriesView DEF books
    <2> QED
      BY <1>1, <1>2, <2>6, <2>7, <2>9, <2>10, RowStepSettles
  <1> QED
    BY <1>5, <1>6

LEMMA SaveReportSettles ==
    ASSUME TypeOK, SettleInv, NEW w \in Workers, NEW b \in Bots, SaveReport(w, b)
    PROVE  SettleInv'
  <1>0. PICK e : e = held[w][b].exec
    OBVIOUS
  <1> DEFINE h == held[w][b]
             l == IF h.rep \in Terminal THEN "commit" ELSE "release"
  <1>1. /\ pc[w][b] = "save"
        /\ UNCHANGED <<status, books, attempt, owner, ledger, chain, lock, resuming>>
    BY DEF SaveReport
  <1>2. Carries(w, b, e) /\ h \in Attempts /\ result[e] \in Unresolved
    BY <1>0, <1>1, MarkedRow
  <1>3. Supported(e, h.rep)
    BY <1>0, <1>1, <1>2, AttemptFields DEF SettleInv, RunOK, CarryOK, Supported
  <1>4. CASE ~ Accepts(b, e, h.rep)
    <2>1. Leave(w, b, "catch") /\ UNCHANGED <<result, uncertain, txid>>
      BY <1>0, <1>4 DEF SaveReport
    <2> QED
      BY <1>1, <2>1, LeavingSettles DEF books, attempts
  <1>5. CASE Accepts(b, e, h.rep)
    <2> DEFINE u == h.rep \notin Terminal
    <2>1. /\ saveExecutionResult(e, h.rep, u, h.txid) /\ u \in BOOLEAN
          /\ IF h.rep \in Terminal THEN Goto(w, b, "commit") /\ UNCHANGED <<view, held>>
                                   ELSE Leave(w, b, "release")
      BY <1>0, <1>5 DEF SaveReport
    <2> HIDE DEF u
    <2>2. /\ result'[e] = h.rep
          /\ uncertain'[e] <=> u \/ h.rep \notin Terminal
          /\ \A f \in Execs \ {e} : result'[f] = result[f] /\ uncertain'[f] = uncertain[f]
      BY <1>2, <2>1, SaveWrites DEF Carries
    <2>3. RunMoves(w, b, l)
      BY <2>1, NullTypes DEF RunMoves, Leave, ViewBecomes, HeldBecomes
    <2>4. RowStep(w, b, e, l)
      BY <1>1, <2>2, <2>3 DEF RowStep, SameRow, books
    <2>5. Proven(e)'
      BY <1>1, <1>3, <2>2 DEF Proven, Supported
    <2>6. pc'[w][b] = l
      BY <1>1, <2>3, RunMovesKeeps DEF books
    <2>7. CarryOK(w, b)' /\ ViewOK(w, b)'
      <3>1. CASE h.rep \in Terminal
        <4>1. UNCHANGED <<view, held>> /\ l = "commit"
          BY <2>1, <3>1
        <4>2. CarryOK(w, b)'
          BY <1>0, <1>1, <1>2, <2>2, <2>6, <4>1 DEF CarryOK, Carrying, Carries
        <4>3. ViewOK(w, b)'
          BY <1>1, <1>2, <4>1, CarriesView DEF books
        <4> QED
          BY <4>2, <4>3
      <3>2. CASE h.rep \notin Terminal
        <4>1. pc'[w][b] = "release" /\ ViewBecomes(w, b, NullView)
          BY <2>1, <2>6, <3>2 DEF Leave, ViewBecomes
        <4>2. view'[w][b] = NullView
          BY <4>1, ViewMoves
        <4> QED
          BY <4>1, <4>2, NotCarrying DEF ViewOK, LotsRead, BalancesRead, Carrying, NullView
      <3> QED
        BY <3>1, <3>2
    <2> QED
      BY <1>1, <1>2, <2>4, <2>5, <2>7, RowStepSettles
  <1> QED
    BY <1>4, <1>5


\* A new attempt is a row nobody used before, for a bot that has none open.
LEMMA PrepareSettles ==
    ASSUME TypeOK, SettleInv, NEW w \in Workers, NEW b \in Bots, Prepare(w, b)
    PROVE  SettleInv'
  <1>1. PICK e \in Execs, signed \in BOOLEAN :
          /\ ledger[e] = "none"
          /\ attempt' = [attempt EXCEPT ![b] = e]
          /\ owner' = [owner EXCEPT ![e] = b]
          /\ ledger' = [ledger EXCEPT ![e] = "open"]
          /\ held' = [held EXCEPT ![w][b] = [NullAttempt EXCEPT !.exec = e, !.txid = signed]]
    BY DEF Prepare
  <1>2. /\ pc[w][b] = "prepare" /\ Goto(w, b, "mark") /\ attempt[b] = NoExec
        /\ UNCHANGED <<books, result, uncertain, chain, lock, view, resuming>>
    BY DEF Prepare, MayPrepare
  <1> DEFINE x == [NullAttempt EXCEPT !.exec = e, !.txid = signed]
  <1>3. x \in Attempts /\ x.exec = e /\ x.prev = "none" /\ x.unc = FALSE
    BY DEF NullAttempt, Attempts
  <1>4. HeldBecomes(w, b, x)
    BY <1>1 DEF HeldBecomes
  <1> HIDE DEF x
  <1>5. /\ RowOK(e) /\ owner[e] = NoBot /\ result[e] = "none" /\ ~ uncertain[e]
        /\ chain[e] = "unsent" /\ e # NoExec
    BY <1>1, NullsAssumption DEF SettleInv, RowOK, Recorded
  <1>6. /\ attempt'[b] = e /\ owner'[e] = b /\ ledger'[e] = "open"
        /\ \A c \in Bots \ {b} : attempt'[c] = attempt[c]
        /\ \A f \in Execs \ {e} : SameRow(f)
    BY <1>1, <1>2 DEF TypeOK, SameRow
  <1>7. pc'[w][b] = "mark" /\ held'[w][b] = x
    <2>1. pc'[w][b] = "mark"
      BY <1>2, GotoMoves
    <2> QED
      BY <1>4, <2>1, HeldMoves
  <1>8. OtherRunsKept(w, b)
    <2>1. RunMoves(w, b, "mark") /\ snap' = snap
      BY <1>2, <1>3, <1>4 DEF RunMoves, books
    <2> QED
      BY <2>1, RunMovesKeeps
  <1>9. OtherBotsKept(b) /\ OtherRowsKept(b)
    BY <1>2, <1>5, <1>6 DEF OtherBotsKept, OtherRowsKept, SameRow, books
  <1>10. ASSUME NEW f \in Execs, owner[f] \in {b, NoBot} PROVE RowOK(f)'
    <2>1. CASE f = e
      BY <1>2, <1>5, <1>6, <2>1 DEF RowOK, Recorded, Proven
    <2>2. CASE f # e
      <3>1. RowOK(f) /\ SameRow(f)
        BY <1>6, <2>2 DEF SettleInv
      <3>2. ledger[f] # "open"
        BY <1>2, <1>10, <3>1, NullsAssumption DEF RowOK, Recorded
      <3> QED
        BY <3>1, <3>2, SameRowOK
    <2> QED
      BY <2>1, <2>2
  <1>11. BotOK(b) /\ RunOK(w, b)
    BY DEF SettleInv
  <1>12. BotOK(b)'
    <2>1. Booked(b)' = Booked(b)
      BY <1>1, <1>5, <1>6 DEF Booked, SameRow
    <2> QED
      BY <1>2, <1>6, <1>11, <2>1 DEF BotOK, books
  <1>13. CarryOK(w, b)'
    <2>1. uncertain'[e] = FALSE /\ result'[e] = "none"
      BY <1>2, <1>5 DEF TypeOK
    <2>2. /\ held'[w][b].exec = e /\ held'[w][b].prev = result'[e]
          /\ held'[w][b].unc = uncertain'[e]
      BY <1>3, <1>7, <2>1
    <2> QED
      BY <1>5, <1>6, <1>7, <2>1, <2>2 DEF CarryOK, Carrying
  <1>14. OwnOK(w, b)' /\ ViewOK(w, b)'
    BY <1>2, <1>7, <1>11 DEF RunOK, OwnOK, ViewOK, LotsRead, BalancesRead, books
  <1> QED
    BY <1>2, <1>8, <1>9, <1>10, <1>12, <1>13, <1>14, StepSettles DEF RunOK, OthersKept

\* A commit settles the attempt it carries and adds its fill, if there is one,
\* to books that still are what the run read.
CommitsRow(w, b, e) ==
    /\ Carries(w, b, e) /\ held[w][b].rep \in Terminal /\ result[e] = held[w][b].rep
    /\ ledger' = [ledger EXCEPT ![e] = held[w][b].rep]
    /\ attempt' = [attempt EXCEPT ![b] = NoExec]
    /\ lots' = [lots EXCEPT ![b] = WithFill(lots[b], held[w][b])]
    /\ UNCHANGED <<owner, result, uncertain, chain, lock, resuming>>

LEMMA CommitWrites ==
    ASSUME TypeInv, SettleInv, NEW w \in Workers, NEW b \in Bots, Commit(w, b)
    PROVE  CommitsRow(w, b, held[w][b].exec)
  <1>1. pc[w][b] = "commit"
    BY DEF Commit
  <1>2. Carries(w, b, held[w][b].exec)
    BY <1>1, CarriedRow DEF TypeInv, Carrying
  <1>3. held[w][b].rep \in Terminal
    BY <1>1 DEF TypeInv, CarriesAttempt
  <1>4. view[w][b].lots = lots[b]
    BY <1>2 DEF Carries
  <1> QED
    BY <1>2, <1>3, <1>4 DEF Commit, CommitsRow

LEMMA CommitBooks ==
    ASSUME TypeOK, SettleInv, NEW w \in Workers, NEW b \in Bots, NEW e, CommitsRow(w, b, e)
    PROVE  /\ \A f \in Execs \ {e} : SameRow(f)
           /\ RowOK(e)' /\ owner'[e] = b /\ attempt'[b] = NoExec
           /\ \A c \in Bots \ {b} : attempt'[c] = attempt[c] /\ lots'[c] = lots[c]
           /\ Booked(b)' = WithFill(Booked(b), held[w][b])
           /\ lots'[b] = Booked(b)'
  <1> DEFINE h == held[w][b]
  <1>1. e \in Execs /\ e = h.exec /\ owner[e] = b /\ ledger[e] = "open" /\ RowOK(e)
    BY DEF CommitsRow, Carries
  <1>2. ledger'[e] = h.rep /\ \A f \in Execs \ {e} : ledger'[f] = ledger[f]
    BY <1>1 DEF CommitsRow, TypeOK
  <1>3. \A f \in Execs \ {e} : SameRow(f)
    BY <1>2 DEF CommitsRow, SameRow
  <1>4. /\ attempt'[b] = NoExec /\ lots'[b] = WithFill(lots[b], h)
        /\ \A c \in Bots \ {b} : attempt'[c] = attempt[c] /\ lots'[c] = lots[c]
    BY DEF CommitsRow, TypeOK
  <1>5. RowOK(e)'
    BY <1>1, <1>2 DEF CommitsRow, RowOK, Recorded, Proven
  <1>6. Booked(b)' = WithFill(Booked(b), h)
    <2>1. CASE h.rep = "filled"
      BY <1>1, <1>2, <2>1 DEF CommitsRow, Booked, WithFill
    <2>2. CASE h.rep # "filled"
      BY <1>1, <1>2, <2>2 DEF CommitsRow, Booked, WithFill
    <2> QED
      BY <2>1, <2>2
  <1>7. lots[b] = Booked(b)
    BY DEF SettleInv, BotOK
  <1> QED
    BY <1>1, <1>3, <1>4, <1>5, <1>6, <1>7 DEF CommitsRow

LEMMA CommitSettles ==
    ASSUME TypeInv, SettleInv, NEW w \in Workers, NEW b \in Bots, Commit(w, b)
    PROVE  SettleInv'
  <1>0. PICK e : e = held[w][b].exec
    OBVIOUS
  <1> DEFINE h == held[w][b]
             vs == [view EXCEPT ![w][b] = NullView]
  <1>1. CommitsRow(w, b, e) /\ TypeOK
    BY <1>0, CommitWrites DEF TypeInv
  <1>2. /\ \A f \in Execs \ {e} : SameRow(f)
        /\ RowOK(e)' /\ owner'[e] = b /\ attempt'[b] = NoExec
        /\ \A c \in Bots \ {b} : attempt'[c] = attempt[c] /\ lots'[c] = lots[c]
        /\ Booked(b)' = WithFill(Booked(b), h)
        /\ lots'[b] = Booked(b)'
    BY <1>1, CommitBooks
  <1>3. vs \in [Workers -> [Bots -> Views]]
    BY <1>1, ForgottenView
  <1>4. \A v \in Workers, c \in Bots : v # w \/ c # b => vs[v][c] = view[v][c]
    BY <1>1 DEF TypeOK
  <1>5. createSnapshot(b, WithFill(view[w][b].snap, h), vs)
    BY DEF Commit
  <1> HIDE DEF vs
  <1>6. /\ snap'[b] = WithFill(view[w][b].snap, h)
        /\ \A c \in Bots \ {b} : snap'[c] = snap[c]
        /\ \A v \in Workers :
             /\ view'[v][b].fresh = FALSE
             /\ view'[v][b].lots = vs[v][b].lots /\ view'[v][b].snap = vs[v][b].snap
             /\ \A c \in Bots \ {b} : view'[v][c] = vs[v][c]
    BY <1>1, <1>3, <1>5, SnapshotMoves
  <1>7. PICK next \in {"reread", "release"} : Goto(w, b, next)
    BY DEF Commit
  <1>8. /\ pc'[w][b] = next
        /\ \A v \in Workers, c \in Bots : v # w \/ c # b => pc'[v][c] = pc[v][c]
    BY <1>1, <1>7, GotoMoves
  <1>9. \A v \in Workers, c \in Bots : v # w \/ c # b => held'[v][c] = held[v][c]
    <2>1. HeldBecomes(w, b, NullAttempt)
      BY DEF Commit, HeldBecomes
    <2> QED
      BY <1>1, <2>1, HeldMoves
  <1>10. OtherRunsKept(w, b)
    BY <1>4, <1>6, <1>8, <1>9 DEF OtherRunsKept
  <1>11. OtherBotsKept(b) /\ OtherRowsKept(b)
    BY <1>1, <1>2, <1>6 DEF OtherBotsKept, OtherRowsKept, CommitsRow, Carries, SameRow
  <1>12. ASSUME NEW f \in Execs, owner[f] \in {b, NoBot} PROVE RowOK(f)'
    <2>1. CASE f # e
      <3>1. RowOK(f) /\ SameRow(f)
        BY <1>2, <2>1 DEF SettleInv
      <3>2. ledger[f] # "open"
        BY <1>1, <1>12, <2>1, <3>1, NullsAssumption DEF RowOK, Recorded, CommitsRow, Carries
      <3> QED
        BY <3>1, <3>2, SameRowOK
    <2> QED
      BY <1>2, <2>1
  <1>13. BotOK(b)'
    <2>1. BotOK(b) /\ (b \in BandBots => view[w][b].snap = snap[b])
      BY <1>1 DEF SettleInv, CommitsRow, Carries
    <2> QED
      BY <1>1, <1>2, <1>6, <2>1 DEF BotOK, CommitsRow
  <1>14. RunOK(w, b)'
    BY <1>1, <1>6, <1>8, IdlingRunOK DEF CommitsRow, Carries, Idling
  <1>15. pc[w][b] # "idle"
    BY DEF Commit
  <1> QED
    BY <1>1, <1>10, <1>11, <1>12, <1>13, <1>14, <1>15, StepSettles DEF OthersKept

\* The steps that end a run without a commit.
LEMMA EndingSettles ==
    ASSUME TypeOK, SettleInv, NEW w \in Workers, NEW b \in Bots,
           \/ CommitIgnored(w, b) \/ CommitThrows(w, b)
           \/ Catch(w, b) \/ Release(w, b)
    PROVE  SettleInv'
  <1>1. CASE CommitIgnored(w, b) \/ CommitThrows(w, b)
    <2>1. PICK l \in {"release", "catch"} : Leave(w, b, l)
      BY <1>1 DEF CommitIgnored, CommitThrows
    <2>2. pc[w][b] # "idle" /\ UNCHANGED <<books, attempts, chain, lock, resuming>>
      BY <1>1 DEF CommitIgnored, CommitThrows
    <2> QED
      BY <2>1, <2>2, LeavingSettles DEF books
  <1>2. CASE Catch(w, b)
    BY <1>2, WanderingSettles DEF Catch, LotsRead, BalancesRead, Carrying
  <1>3. CASE Release(w, b)
    <2>1. \A c \in Bots \ {b} : lock'[c] = lock[c]
      BY <1>3 DEF Release, TypeOK
    <2> QED
      BY <1>3, <2>1, LeavingSettles DEF Release, books
  <1> QED
    BY <1>1, <1>2, <1>3

LEMMA RunStepSettles ==
    ASSUME TypeInv, SettleInv, NEW w \in Workers, NEW b \in Bots,
           StartRun(w, b) \/ RunStep(w, b)
    PROVE  SettleInv'
  <1>0. TypeOK
    BY DEF TypeInv
  <1>1. CASE StartRun(w, b)
    BY <1>0, <1>1, StartRunSettles
  <1>2. CASE Deciding(w, b)
    BY <1>0, <1>2, ReadBotSettles, ReadSnapshotSettles, WaitingSettles, PassiveSnapshotSettles,
       PrepareSettles
       DEF Deciding
  <1>3. CASE Submitting(w, b)
    BY <1>0, <1>3, RestoreSettles, SaveMarkerSettles, AnswersSettle, ChainProvesNothingSettles,
       SimulateFillSettles, SendAcceptedSettles, SaveReportSettles
       DEF Submitting
  <1>4. CASE Settling(w, b)
    BY <1>0, <1>4, CommitSettles, EndingSettles, ReadSnapshotSettles DEF Settling
  <1> QED
    BY <1>1, <1>2, <1>3, <1>4 DEF RunStep


-----------------------------------------------------------------------------
(* The chain, crashes and the operator                                     *)

\* The network changes the fate of one transaction and nothing in the database.
LEMMA NetworkSettles ==
    ASSUME TypeOK, SettleInv, Network
    PROVE  SettleInv'
  <1>1. PICK e \in Execs : Land(e) \/ Expire(e)
    BY DEF Network
  <1>2. UNCHANGED <<status, books, attempts, lock, locals, resuming>>
    BY <1>1 DEF Land, Expire
  <1>3. /\ \A f \in Execs \ {e} : chain'[f] = chain[f]
        /\ \/ chain[e] = "inflight" /\ chain'[e] \in {"success", "reverted", "expired"}
           \/ chain[e] = "unsent" /\ chain'[e] = "expired"
    BY <1>1 DEF Land, Expire, TypeOK
  <1>4. chain[e] = "unsent" => ledger[e] = "open"
    BY <1>1 DEF Land, Expire
  <1>5. ASSUME NEW f \in Execs PROVE RowOK(f)'
    <2>1. RowOK(f)
      BY DEF SettleInv
    <2>2. CASE f # e
      BY <1>2, <1>3, <2>1, <2>2, SameRowOK DEF SameRow, attempts
    <2>3. CASE f = e
      BY <1>2, <1>3, <1>4, <2>1, <2>3 DEF RowOK, Recorded, Proven, attempts
    <2> QED
      BY <2>2, <2>3
  <1>6. ASSUME NEW b \in Bots PROVE BotOK(b)'
    BY <1>2 DEF SettleInv, BotOK, Booked, books, attempts
  <1>7. ASSUME NEW w \in Workers, NEW b \in Bots PROVE RunOK(w, b)'
    <2>1. RunOK(w, b)
      BY DEF SettleInv
    <2>2. OwnOK(w, b)' /\ ViewOK(w, b)'
      BY <1>2, <2>1 DEF RunOK, OwnOK, ViewOK, locals, books
    <2>3. CarryOK(w, b)'
      <3> DEFINE own == held[w][b].exec
      <3>1. CASE own # e
        <4>1. pc[w][b] \in Carrying => own \in Execs
          BY CarriedRow DEF Carries
        <4> QED
          BY <1>2, <1>3, <2>1, <3>1, <4>1
             DEF RunOK, CarryOK, Carrying, Marker, locals, attempts
      <3>2. CASE own = e
        BY <1>2, <1>3, <2>1, <3>2 DEF RunOK, CarryOK, Carrying, Marker, locals, attempts
      <3> QED
        BY <3>1, <3>2
    <2> QED
      BY <2>2, <2>3 DEF RunOK
  <1> QED
    BY <1>5, <1>6, <1>7 DEF SettleInv

\* A crash leaves the database as it is and every run of the process idle.
LEMMA CrashSettles ==
    ASSUME TypeOK, SettleInv, NEW v \in Workers, Crash(v)
    PROVE  SettleInv'
  <1>1. UNCHANGED <<status, books, attempts, chain, resuming>>
    BY DEF Crash
  <1>2. ASSUME NEW e \in Execs PROVE RowOK(e)'
    BY <1>1, SameRowOK DEF SettleInv, SameRow, attempts
  <1>3. ASSUME NEW b \in Bots PROVE BotOK(b)'
    BY <1>1 DEF SettleInv, BotOK, Booked, books, attempts
  <1>4. ASSUME NEW w \in Workers, NEW b \in Bots PROVE RunOK(w, b)'
    <2>1. CASE w = v
      <3>1. pc'[w][b] = "idle" /\ view'[w][b] = NullView
        BY <2>1 DEF Crash, TypeOK
      <3> QED
        BY <3>1, NotCarrying
           DEF RunOK, OwnOK, ViewOK, LotsRead, BalancesRead, Carrying, NullView
    <2>2. CASE w # v
      <3>1. /\ pc'[w][b] = pc[w][b] /\ view'[w][b] = view[w][b] /\ held'[w][b] = held[w][b]
        BY <2>2 DEF Crash, TypeOK
      <3>2. lock[b] = w => lock'[b] = w
        BY <2>2 DEF Crash
      <3>3. RunOK(w, b)
        BY DEF SettleInv
      <3>4. OwnOK(w, b)' /\ ViewOK(w, b)'
        BY <1>1, <3>1, <3>2, <3>3 DEF RunOK, OwnOK, ViewOK, books
      <3>5. CarryOK(w, b)'
        BY <1>1, <3>1, <3>3 DEF RunOK, CarryOK, Carrying, attempts
      <3> QED
        BY <3>4, <3>5 DEF RunOK
    <2> QED
      BY <2>1, <2>2
  <1> QED
    BY <1>2, <1>3, <1>4 DEF SettleInv

\* What every step of the operator has in common: balances of one bot may be
\* rewritten, but for a band with what they were.
OperatorStep(b) ==
    /\ \A c \in Bots : c # b \/ c \in BandBots => snap'[c] = snap[c] /\ resuming'[c] = resuming[c]
    /\ \A w \in Workers, c \in Bots :
         /\ view'[w][c].lots = view[w][c].lots /\ view'[w][c].snap = view[w][c].snap
         /\ view'[w][c].fresh => view[w][c].fresh /\ snap'[c] = snap[c]
    /\ UNCHANGED <<lots, attempts, chain, lock, pc, held>>

LEMMA SnapshotKeeps ==
    ASSUME TypeOK, NEW b \in Bots, NEW s, createSnapshot(b, s, view),
           b \in BandBots => s = snap[b] /\ resuming'[b] = resuming[b],
           \A c \in Bots \ {b} : resuming'[c] = resuming[c],
           UNCHANGED <<lots, attempts, chain, lock, pc, held>>
    PROVE  OperatorStep(b)
  <1>1. view \in [Workers -> [Bots -> Views]]
    BY DEF TypeOK
  <1>2. /\ snap'[b] = s
        /\ \A c \in Bots \ {b} : snap'[c] = snap[c]
        /\ \A v \in Workers :
             /\ view'[v][b].fresh = FALSE
             /\ view'[v][b].lots = view[v][b].lots /\ view'[v][b].snap = view[v][b].snap
             /\ \A c \in Bots \ {b} : view'[v][c] = view[v][c]
    BY <1>1, SnapshotMoves
  <1>3. ASSUME NEW w \in Workers, NEW c \in Bots
        PROVE  /\ view'[w][c].lots = view[w][c].lots /\ view'[w][c].snap = view[w][c].snap
               /\ view'[w][c].fresh => view[w][c].fresh /\ snap'[c] = snap[c]
    <2>1. CASE c = b
      BY <1>2, <2>1
    <2>2. CASE c # b
      BY <1>2, <2>2
    <2> QED
      BY <2>1, <2>2
  <1> QED
    BY <1>2, <1>3 DEF OperatorStep

LEMMA OperatorSteps ==
    ASSUME TypeOK, SettleInv, Operator
    PROVE  \E b \in Bots : OperatorStep(b)
  <1>1. PICK b \in Bots : \/ Pause(b) \/ Stop(b) \/ ResumeBand(b)
                          \/ ResumeRead(b) \/ ResumeWrite(b)
    BY DEF Operator
  <1>2. CASE Pause(b) \/ Stop(b) \/ ResumeBand(b)
    BY <1>2, SnapshotKeeps DEF Pause, Stop, Halt, ResumeBand
  <1>3. CASE ResumeRead(b)
    <2>1. b \notin BandBots /\ \A c \in Bots \ {b} : resuming'[c] = resuming[c]
      BY <1>3 DEF ResumeRead, TypeOK
    <2> QED
      BY <1>3, <2>1 DEF ResumeRead, OperatorStep, books, locals
  <1>4. CASE ResumeWrite(b)
    <2>1. PICK s \in resuming[b] : createSnapshot(b, s, view)
      BY <1>4 DEF ResumeWrite
    <2>2. b \notin BandBots
      BY <2>1 DEF SettleInv, BotOK
    <2>3. \A c \in Bots \ {b} : resuming'[c] = resuming[c]
      BY <1>4 DEF ResumeWrite, TypeOK
    <2> QED
      BY <1>4, <2>1, <2>2, <2>3, SnapshotKeeps DEF ResumeWrite
  <1> QED
    BY <1>1, <1>2, <1>3, <1>4

LEMMA OperatorSettles ==
    ASSUME TypeOK, SettleInv, Operator
    PROVE  SettleInv'
  <1>1. PICK b \in Bots : OperatorStep(b)
    BY OperatorSteps
  <1>2. UNCHANGED <<lots, attempts, chain, lock, pc, held>>
    BY <1>1 DEF OperatorStep
  <1>3. ASSUME NEW e \in Execs PROVE RowOK(e)'
    BY <1>2, SameRowOK DEF SettleInv, SameRow, attempts
  <1>4. ASSUME NEW c \in Bots PROVE BotOK(c)'
    <2>1. BotOK(c)
      BY DEF SettleInv
    <2> QED
      BY <1>1, <1>2, <2>1 DEF OperatorStep, BotOK, Booked, attempts
  <1>5. ASSUME NEW w \in Workers, NEW c \in Bots PROVE RunOK(w, c)'
    <2>1. RunOK(w, c)
      BY DEF SettleInv
    <2>2. CarryOK(w, c)' /\ OwnOK(w, c)'
      BY <1>2, <2>1 DEF RunOK, OwnOK, CarryOK, attempts
    <2>3. ViewOK(w, c)'
      BY <1>1, <1>2, <2>1 DEF OperatorStep, RunOK, ViewOK
    <2> QED
      BY <2>2, <2>3 DEF RunOK
  <1> QED
    BY <1>3, <1>4, <1>5 DEF SettleInv

\* While the lock sessions live, the invariant is kept by every step.
LEMMA NextSettles ==
    ASSUME ~ MayLoseLock, TypeInv, SettleInv, [Next]_vars
    PROVE  SettleInv'
  <1>0. TypeOK
    BY DEF TypeInv
  <1>1. CASE UNCHANGED vars
    <2>1. UNCHANGED <<lots, snap, attempt, owner, ledger, result, uncertain, chain, lock,
                      pc, view, held, resuming>>
      BY <1>1 DEF vars, books, attempts, locals
    <2> QED
      BY <2>1
         DEF SettleInv, RowOK, Recorded, Proven, BotOK, Booked, RunOK, OwnOK, CarryOK, ViewOK
  <1>2. CASE \E w \in Workers, b \in Bots : StartRun(w, b) \/ RunStep(w, b)
    BY <1>2, RunStepSettles
  <1>3. CASE Network
    BY <1>0, <1>3, NetworkSettles
  <1>4. CASE Failure
    BY <1>0, <1>4, CrashSettles DEF Failure, LoseLock
  <1>5. CASE Operator
    BY <1>0, <1>5, OperatorSettles
  <1> QED
    BY <1>1, <1>2, <1>3, <1>4, <1>5 DEF Next

\* Rows, bots and runs agree with one another in every reachable state.
THEOREM SettleInvariant == ASSUME ~ MayLoseLock PROVE Spec => []SettleInv
  <1>1. TypeInv /\ SettleInv /\ [Next]_vars => SettleInv'
    BY NextSettles
  <1> QED
    BY <1>1, InitSettles, TypeInvariant, PTL DEF Spec


-----------------------------------------------------------------------------
(* What follows for the books                                              *)

\* The ledger says of every swap what the chain did with it, for ever, whatever
\* was rejected, lost, repeated or answered late on the way
\* (resumeExecutionAttempt, executePreparedSwap).
THEOREM BooksMatchChainAlways == ASSUME ~ MayLoseLock PROVE Spec => []BooksMatchChain
  <1>1. SettleInv => BooksMatchChain
    BY DEF SettleInv, RowOK, Recorded, Proven, BooksMatchChain
  <1> QED
    BY <1>1, SettleInvariant, PTL

\* A swap that may be on its way is found by whoever looks for it: there is no
\* crash after which a signed transaction is forgotten (saveExecutionResult
\* before executePreparedSwap, findPendingExecutionAttempt).
THEOREM SubmittedIsRecordedAlways == ASSUME ~ MayLoseLock PROVE Spec => []SubmittedIsRecorded
  <1>1. ASSUME TypeOK, SettleInv PROVE SubmittedIsRecorded
    <2> SUFFICES ASSUME NEW e \in Execs, ledger[e] = "open", chain[e] \in Submitted
                 PROVE  /\ attempt[owner[e]] = e /\ result[e] # "none"
                        /\ uncertain[e] \/ result[e] \in Terminal
      BY DEF SubmittedIsRecorded
    <2>1. RowOK(e) /\ result[e] \in Results
      BY <1>1 DEF SettleInv, TypeOK
    <2>2. attempt[owner[e]] = e /\ result[e] # "none"
      BY <2>1 DEF RowOK, Proven, Submitted
    <2>3. uncertain[e] \/ result[e] \in Terminal
      BY <2>1, <2>2 DEF RowOK, Proven
    <2> QED
      BY <2>2, <2>3
  <1> QED
    BY <1>1, SettleInvariant, TypeCorrect, PTL

\* Every completed fill is in the lots of its bot, once, although a commit
\* rewrites them all from what its run read (commitExecution).
THEOREM EveryFillBookedOnceAlways == ASSUME ~ MayLoseLock PROVE Spec => []EveryFillBookedOnce
  <1>1. SettleInv => EveryFillBookedOnce
    BY DEF SettleInv, BotOK, EveryFillBookedOnce
  <1> QED
    BY <1>1, SettleInvariant, PTL

\* For bots of portfolio bands the balances account for the same fills, whoever
\* wrote the newest snapshot.  The resume route of a legacy bot does not keep
\* this (the violation run "resume"), hence the second assumption.
THEOREM BalancesIncludeFillsAlways ==
    ASSUME ~ MayLoseLock, BandBots = Bots
    PROVE  Spec => []BalancesIncludeFills
  <1>1. SettleInv => BalancesIncludeFills
    BY DEF SettleInv, BotOK, BalancesIncludeFills
  <1> QED
    BY <1>1, SettleInvariant, PTL

\* No step but Prepare gives a bot an attempt.
LEMMA AttemptsCome ==
    ASSUME TypeOK, Next, NEW b \in Bots, attempt[b] = NoExec, attempt'[b] # NoExec
    PROVE  \E w \in Workers : Prepare(w, b)
  <1>1. CASE Network \/ Failure \/ Operator
    BY <1>1 DEF Network, Land, Expire, Failure, Crash, LoseLock, Operator, Pause, Stop, Halt,
                ResumeBand, ResumeRead, ResumeWrite, attempts
  <1>2. ASSUME NEW w \in Workers, NEW c \in Bots, StartRun(w, c) \/ RunStep(w, c)
        PROVE  Prepare(w, b)
    <2>1. Prepare(w, c) \/ Commit(w, c)
      BY <1>2, AttemptsKept DEF RunStep
    <2>2. CASE Commit(w, c)
      BY <2>2 DEF Commit, TypeOK
    <2>3. CASE Prepare(w, c)
      <3>1. PICK e \in Execs : attempt' = [attempt EXCEPT ![c] = e]
        BY <2>3 DEF Prepare
      <3>2. c = b
        BY <3>1 DEF TypeOK
      <3> QED
        BY <2>3, <3>2
    <2> QED
      BY <2>1, <2>2, <2>3
  <1> QED
    BY <1>1, <1>2 DEF Next

\* An order is authorised only from the newest balances and the current lots,
\* and never after an operator halted the bot (prepareExecutionAttempt).
THEOREM NoStalePreparationEver == ASSUME ~ MayLoseLock PROVE Spec => NoStalePreparation
  <1> DEFINE Current ==
        \A b \in Bots : attempt[b] = NoExec /\ attempt'[b] # NoExec =>
          /\ status[b] \notin OperatorStatuses
          /\ \E w \in Workers : /\ pc[w][b] = "prepare" /\ pc'[w][b] # "prepare"
                                /\ view[w][b].snap = snap[b]
                                /\ view[w][b].lots = lots[b]
  <1>1. TypeInv /\ SettleInv /\ [Next]_vars => [Current]_vars
    <2> SUFFICES ASSUME TypeOK, SettleInv, Next, NEW b \in Bots,
                        attempt[b] = NoExec, attempt'[b] # NoExec
                 PROVE  /\ status[b] \notin OperatorStatuses
                        /\ \E w \in Workers : /\ pc[w][b] = "prepare" /\ pc'[w][b] # "prepare"
                                              /\ view[w][b].snap = snap[b]
                                              /\ view[w][b].lots = lots[b]
      BY DEF TypeInv
    <2>1. PICK w \in Workers : Prepare(w, b)
      BY AttemptsCome
    <2>2. /\ pc[w][b] = "prepare" /\ Goto(w, b, "mark")
          /\ view[w][b].fresh /\ status[b] \notin OperatorStatuses
      BY <2>1 DEF Prepare, MayPrepare
    <2>3. pc'[w][b] = "mark"
      BY <2>2, GotoMoves
    <2>4. view[w][b].snap = snap[b] /\ view[w][b].lots = lots[b]
      BY <2>2 DEF SettleInv, RunOK, ViewOK, LotsRead
    <2> QED
      BY <2>2, <2>3, <2>4
  <1> QED
    BY <1>1, SettleInvariant, TypeInvariant, PTL DEF Spec, NoStalePreparation

-----------------------------------------------------------------------------
(* Durable execution implements exactly-once settlement                    *)

Executed == {e \in Execs : chain[e] = "success"}

\* Nothing the abstract specification speaks of has changed.
LEMMA SettlementStutters ==
    ASSUME UNCHANGED <<owner, ledger, lots>>, Executed' = Executed
    PROVE  UNCHANGED Settlement!vars
  BY DEF Settlement!vars, Executed

LEMMA SettlementExecutes ==
    ASSUME UNCHANGED <<owner, ledger, lots>>, NEW e \in Execs, ledger[e] = "open",
           e \notin Executed, Executed' = Executed \cup {e}
    PROVE  Settlement!Next
  <1>1. Settlement!Execute(e)
    BY DEF Settlement!Execute, Executed
  <1> QED
    BY <1>1 DEF Settlement!Next

\* A new attempt is an authorisation: the bot has no other open.
LEMMA PrepareAuthorises ==
    ASSUME TypeOK, SettleInv, NEW w \in Workers, NEW b \in Bots, Prepare(w, b)
    PROVE  Settlement!Next
  <1>1. PICK e \in Execs : /\ ledger[e] = "none"
                           /\ owner' = [owner EXCEPT ![e] = b]
                           /\ ledger' = [ledger EXCEPT ![e] = "open"]
    BY DEF Prepare
  <1>2. attempt[b] = NoExec /\ UNCHANGED <<books, chain>>
    BY DEF Prepare, MayPrepare
  <1>3. ASSUME NEW other \in Execs, owner[other] = b PROVE ledger[other] # "open"
    BY <1>2, <1>3, NullsAssumption DEF SettleInv, RowOK
  <1>4. Settlement!Authorise(b, e)
    BY <1>1, <1>2, <1>3 DEF Settlement!Authorise, books
  <1> QED
    BY <1>4 DEF Settlement!Next

\* A commit books the fill, or the failure, that the chain has decided.
LEMMA CommitBooksOutcome ==
    ASSUME TypeInv, SettleInv, NEW w \in Workers, NEW b \in Bots, Commit(w, b)
    PROVE  Settlement!Next
  <1>0. PICK e : e = held[w][b].exec
    OBVIOUS
  <1> DEFINE h == held[w][b]
  <1>1. CommitsRow(w, b, e)
    BY <1>0, CommitWrites
  <1>2. /\ e \in Execs /\ owner[e] = b /\ ledger[e] = "open" /\ h.exec = e
        /\ h.rep \in Terminal /\ result[e] = h.rep /\ RowOK(e)
        /\ ledger' = [ledger EXCEPT ![e] = h.rep]
        /\ lots' = [lots EXCEPT ![b] = WithFill(lots[b], h)]
        /\ UNCHANGED <<owner, chain>>
    BY <1>0, <1>1 DEF CommitsRow, Carries
  <1>3. CASE h.rep = "filled"
    <2>1. e \in Executed
      BY <1>2, <1>3 DEF RowOK, Proven, Executed
    <2>2. lots' = [lots EXCEPT ![owner[e]] = @ \cup {e}]
      BY <1>2, <1>3 DEF WithFill
    <2>3. Settlement!BookFill(e)
      BY <1>2, <1>3, <2>1, <2>2 DEF Settlement!BookFill, Executed
    <2> QED
      BY <1>2, <2>3 DEF Settlement!Next
  <1>4. CASE h.rep = "failed"
    <2>1. e \notin Executed
      BY <1>2, <1>4 DEF RowOK, Proven, Executed
    <2>2. lots' = lots
      BY <1>2, <1>4 DEF WithFill, TypeInv, TypeOK
    <2>3. Settlement!BookFailure(e)
      BY <1>2, <1>4, <2>1, <2>2 DEF Settlement!BookFailure, Executed
    <2> QED
      BY <1>2, <2>3 DEF Settlement!Next
  <1> QED
    BY <1>2, <1>3, <1>4

\* The other steps of a run leave the abstract state alone, except that a
\* simulated order is executed where a real one is only sent.
LEMMA RunStepSettlement ==
    ASSUME TypeInv, SettleInv, NEW w \in Workers, NEW b \in Bots,
           StartRun(w, b) \/ RunStep(w, b)
    PROVE  [Settlement!Next]_(Settlement!vars)
  <1>0. TypeOK
    BY DEF TypeInv
  <1>1. CASE Prepare(w, b)
    BY <1>0, <1>1, PrepareAuthorises
  <1>2. CASE Commit(w, b)
    BY <1>2, CommitBooksOutcome
  <1>3. CASE SimulateFill(w, b)
    <2> DEFINE e == held[w][b].exec
    <2>1. /\ pc[w][b] = "send" /\ chain' = [chain EXCEPT ![e] = "success"]
          /\ UNCHANGED <<owner, ledger, lots>>
      BY <1>3 DEF SimulateFill, books, attempts
    <2>2. e \in Execs /\ ledger[e] = "open"
      BY <1>0, <2>1, MarkedRow DEF Carries
    <2>3. Executed' = Executed \cup {e}
      BY <1>0, <2>1, <2>2 DEF Executed, TypeOK
    <2>4. CASE e \in Executed
      BY <2>1, <2>3, <2>4, SettlementStutters
    <2>5. CASE e \notin Executed
      <3>1. PICK f \in Execs : f = e
        BY <2>2
      <3> QED
        BY <2>1, <2>2, <2>3, <2>5, <3>1, SettlementExecutes
    <2> QED
      BY <2>4, <2>5
  <1>4. CASE SendAccepted(w, b)
    <2>1. /\ UNCHANGED <<owner, ledger, lots>>
          /\ chain' = [chain EXCEPT ![held[w][b].exec] = IF @ = "unsent" THEN "inflight" ELSE @]
      BY <1>4 DEF SendAccepted, books, attempts
    <2>2. Executed' = Executed
      BY <1>0, <2>1 DEF Executed, TypeOK
    <2> QED
      BY <2>1, <2>2, SettlementStutters
  <1>5. CASE ~ (Prepare(w, b) \/ Commit(w, b) \/ SimulateFill(w, b) \/ SendAccepted(w, b))
    <2>1. UNCHANGED <<owner, ledger, lots, chain>>
      <3>1. CASE StartRun(w, b) \/ Deciding(w, b)
        BY <1>5, <3>1
           DEF StartRun, Deciding, ReadBot, ReadSnapshot, Decide, RecoverStatus, PassiveSnapshot,
               PassiveSkipped, RiskBlocks, RecenterRefused, PrepareRefused, books, attempts
      <3>2. CASE Submitting(w, b)
        BY <1>5, <3>2
           DEF Submitting, ResumePending, PrepareExisting, SaveMarker, ChainProvesFailure,
               ChainLookupThrows, ChainProvesNothing, SendLost, SendRejected, FetchFees,
               ReplyLost, ReplySuccess, ReplyReverted, SaveReport, books, attempts
      <3>3. CASE Settling(w, b)
        BY <1>5, <3>3
           DEF Settling, CommitIgnored, CommitThrows, RereadSnapshot, Catch, Release, books, attempts
      <3> QED
        BY <3>1, <3>2, <3>3 DEF RunStep
    <2> QED
      BY <2>1, SettlementStutters DEF Executed
  <1> QED
    BY <1>1, <1>2, <1>3, <1>4, <1>5

\* The network executes what is on its way, and only that; what is on its way
\* is authorised.
LEMMA NetworkSettlement ==
    ASSUME TypeOK, SettleInv, Network
    PROVE  [Settlement!Next]_(Settlement!vars)
  <1>1. PICK e \in Execs : Land(e) \/ Expire(e)
    BY DEF Network
  <1>2. UNCHANGED <<owner, ledger, lots>>
    BY <1>1 DEF Land, Expire, books, attempts
  <1>3. CASE chain'[e] # "success"
    <2>1. Executed' = Executed
      BY <1>1, <1>3 DEF Executed, Land, Expire, TypeOK
    <2> QED
      BY <1>2, <2>1, SettlementStutters
  <1>4. CASE chain'[e] = "success"
    <2>1. chain[e] = "inflight" /\ Executed' = Executed \cup {e}
      BY <1>1, <1>4 DEF Executed, Land, Expire, TypeOK
    <2>2. RowOK(e)
      BY DEF SettleInv
    <2>3. ledger[e] = "open"
      BY <2>1, <2>2 DEF RowOK, Recorded, Proven, TypeOK
    <2> QED
      BY <1>2, <2>1, <2>3, SettlementExecutes DEF Executed
  <1> QED
    BY <1>3, <1>4

LEMMA InitSettlement == Init => Settlement!Init
  BY DEF Init, Settlement!Init

\* Workers, locks, markers, replies and crashes together do what the abstract
\* specification says: a bot authorises one swap at a time, the chain executes
\* it at most once, and the step that ends the authorisation books what the
\* chain did.
THEOREM SettlesExactlyOnceAlways == ASSUME ~ MayLoseLock PROVE Spec => SettlesExactlyOnce
  <1>1. TypeInv /\ SettleInv /\ [Next]_vars => [Settlement!Next]_(Settlement!vars)
    <2> SUFFICES ASSUME TypeInv, SettleInv, [Next]_vars
                 PROVE  [Settlement!Next]_(Settlement!vars)
      OBVIOUS
    <2>1. CASE UNCHANGED vars
      BY <2>1, SettlementStutters DEF vars, books, attempts, Executed
    <2>2. CASE \E w \in Workers, b \in Bots : StartRun(w, b) \/ RunStep(w, b)
      BY <2>2, RunStepSettlement
    <2>3. CASE Network
      BY <2>3, NetworkSettlement DEF TypeInv
    <2>4. CASE Failure \/ Operator
      <3>1. UNCHANGED <<owner, ledger, lots, chain>>
        BY <2>4 DEF Failure, Crash, LoseLock, Operator, Pause, Stop, Halt, ResumeBand,
                    ResumeRead, ResumeWrite, books, attempts
      <3> QED
        BY <3>1, SettlementStutters DEF Executed
    <2> QED
      BY <2>1, <2>2, <2>3, <2>4 DEF Next
  <1> QED
    BY <1>1, InitSettlement, SettleInvariant, TypeInvariant, PTL
       DEF Spec, SettlesExactlyOnce, Settlement!Spec


=============================================================================
