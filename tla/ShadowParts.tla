---------------------------- MODULE ShadowParts ------------------------------
(*****************************************************************************)
(* The parts of the shadow suite that are proved about: the outbox, whose     *)
(* variables are this module's own, the evidence that is frozen of every hour *)
(* and the quotes that are taken.  ShadowMC adds the choices, the replays and *)
(* the suite's specification.                                                *)
(*****************************************************************************)
EXTENDS ShadowOutbox

CONSTANTS
  Absent, NoValue,   \* the value of a variable the component at work does not have, and no value
  Bands, AutoBands, Reports, Window, MinSamples, MaxHour, MaxFills, MaxTasks, MaxFailures,   \* of the evidence
  Bots, SymbolOf, BadMint, SizesOf, HasTaker, Gap, Timeout, Cadence, Period, Lag   \* of the quotes

VARIABLES
  part,   \* the component at work
  x1, x2, x3, x4, x5, x6, x7, x8, x9, x10   \* its variables, in the order of its module

\* Fills and observations of bands that act and bands that are watched.
Evidence == INSTANCE ShadowEvidence WITH
  Auto <- AutoBands, MaxFaults <- MaxFailures, NoTask <- Absent, Nothing <- NoValue,
  hour <- x1, fills <- x2, version <- x3, applied <- x4, recorded <- x5, manager <- x6, task <- x7,
  conn <- x8, obs <- x9, faults <- x10

\* Sweeps over the bots of a portfolio.
Quotes == INSTANCE ShadowQuotes WITH
  sweep <- x1, due <- x2, compare <- x3, flight <- x4, wake <- x5, phase <- x6, pace <- x7,
  cooldown <- x8, age <- x9

\* Two bounds of the evidence: one capture after fills, and several captures.
EvidenceParts == {"evidence", "outcomes"}

recordVars == <<part, vars, x1, x2, x3, x4, x5, x6, x7, x8, x9, x10>>

ASSUME RecordsAssumption ==
  /\ Evidence!EvidenceAssumption
  /\ Quotes!QuotesAssumption
-----------------------------------------------------------------------------
\* What is recorded stands for what happened: an attempt for every claim of a job and
\* one answer, profiles of fills that were complete, one view of a band, outcomes that
\* were real; and the collector's timers are never later than they may be.
RecordsHold ==
  /\ part = "outbox" => OutboxHolds
  /\ part \in EvidenceParts =>
       Evidence!TypeOK /\ Evidence!ProfileIsCausal /\ Evidence!SnapshotIsOneView /\ Evidence!OutcomeWasReal
  /\ part = "quotes" => Quotes!TypeOK

\* What no step may do: change evidence, call Jupiter too early, end a sweep short.
RecordsStand ==
  [][/\ part \in EvidenceParts => Evidence!EvidenceIsFrozen
     /\ part = "quotes" => Quotes!CallsAreSpaced /\ Quotes!SweepTriesEveryDueBot]_recordVars
=============================================================================
