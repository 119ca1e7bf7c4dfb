----------------------------- MODULE LabConsole -----------------------------
(***************************************************************************)
(* The Lab page (backtest-lab-console.tsx) over its three routes: one      *)
(* operator changes the inputs, asks for recommendations, replays,         *)
(* comparisons and stress checks, and opens a result as a bot draft, while *)
(* answers to earlier questions are still on their way. A result is told   *)
(* apart by the inputs it was computed for and by its configuration: whose *)
(* range it has and which changes were made to it.                         *)
(***************************************************************************)
EXTENDS Integers, FiniteSets

CONSTANTS
    Inputs,         \* pair, budget, lookback, ... taken together
    MaxGeneration,  \* bound: invalidations
    MaxFlights,     \* bound: questions on their way
    Questions            \* bound: the kinds of question the operator asks

ConsoleAssumption ==
    /\ Inputs # {} /\ {MaxGeneration, MaxFlights} \subseteq Nat
    /\ Questions \subseteq {"recommend", "compare", "replay", "stress"}

VARIABLES
    inputs,
    generation,     \* requestGenerationRef
    busy,           \* isPending
    flights,        \* questions on their way: [kind, generation, inputs, config, stage]
    recommendation, \* NoResult or [inputs, fit], of the configuration Best
    active,         \* activeReplay: NoResult or [inputs, config]
    rows, stress,   \* scenarioComparison and stressRows: sets of [inputs, config]
    opened          \* the last draft opened: NoResult or [config, fit]

results == <<recommendation, active, rows, stress>>
vars == <<inputs, generation, busy, flights, results, opened>>

NoResult == [inputs |-> "none"]
Fits == {"paper_candidate", "no_launch"}
Own == [range |-> "own", with |-> {}]
Best == [range |-> "best", with |-> {}]
RunnerUp == [range |-> "second", with |-> {}]
With(config, changes) == [config EXCEPT !.with = @ \cup changes]

\* getConfigSignature has no confirmation window and no rail lock.
Signature(config) == [config EXCEPT !.with = @ \ {"slow"}]

Displayed ==
    IF active # NoResult \/ recommendation = NoResult THEN active
    ELSE [inputs |-> recommendation.inputs, config |-> Best]

Init ==
    /\ inputs \in Inputs /\ generation = 0 /\ busy = FALSE /\ flights = {}
    /\ recommendation = NoResult /\ active = NoResult /\ rows = {} /\ stress = {}
    /\ opened = NoResult

Cleared ==
    /\ recommendation' = NoResult /\ active' = NoResult
    /\ rows' = {} /\ stress' = {}

-----------------------------------------------------------------------------
(* The operator. *)

\* Every input's handler invalidates; the effect on a changed input clears as well.
Change(next) ==
    /\ generation < MaxGeneration
    /\ generation' = generation + 1 /\ busy' = FALSE
    /\ inputs' = next
    /\ \/ next = inputs /\ UNCHANGED results
       \/ next # inputs /\ Cleared
    /\ UNCHANGED <<flights, opened>>

Ask(kind, config) ==
    /\ kind \in Questions /\ ~busy /\ Cardinality(flights) < MaxFlights
    /\ busy' = TRUE
    /\ flights' = flights \cup {[kind |-> kind, generation |-> generation, inputs |-> inputs,
                                 config |-> config, stage |-> 1]}
    /\ UNCHANGED <<inputs, generation, results, opened>>

Replayable ==
    {Own, With(Own, {"auto"})}
    \cup (IF recommendation # NoResult THEN {Best, RunnerUp} ELSE {})
    \cup (IF Displayed # NoResult THEN {[range |-> "plan", with |-> Displayed.config.with \cup {"adaptive"}]} ELSE {})

\* buildStressScenarioDefinitions without the base, which is the replay shown.
Harsher(config) == <<With(config, {"costly"}), With(config, {"slow"})>>

Select(row) ==
    /\ row \in rows \cup stress
    /\ active' = row
    /\ UNCHANGED <<inputs, generation, busy, flights, recommendation, rows, stress, opened>>

PromotionRefused ==
    \/ rows # {} /\ recommendation = NoResult
    \/ /\ recommendation # NoResult /\ recommendation.fit # "paper_candidate"
       /\ Signature(Displayed.config) = Signature(Best)

\* Opening a draft leaves the page; coming back starts it anew.
OpenDraft ==
    /\ ~busy /\ Displayed # NoResult /\ ~PromotionRefused
    /\ opened' = [config |-> Displayed.config,
                  fit |-> IF recommendation = NoResult THEN "unknown" ELSE recommendation.fit]
    /\ generation' = 0 /\ flights' = {} /\ Cleared
    /\ UNCHANGED <<inputs, busy>>

-----------------------------------------------------------------------------
(* Answers. A stale one changes nothing, and leaves the busy mark to the     *)
(* question that is current.                                                 *)

Fresh(f) == f.generation = generation
SettleAlways(f) == busy' = FALSE
Settle(f) == busy' = (busy /\ ~Fresh(f))
Landed(f) ==
    /\ flights' = flights \ {f}
    /\ Settle(f)
    /\ UNCHANGED <<inputs, generation, opened>>

Of(f, config) == [inputs |-> f.inputs, config |-> config]

Dropped(f) == ~Fresh(f) /\ (f.kind # "stress" \/ f.stage = 1) /\ UNCHANGED results

Recommended(f) ==
    /\ f.kind = "recommend" /\ Fresh(f)
    /\ \E fit \in Fits : recommendation' = [inputs |-> f.inputs, fit |-> fit]
    /\ active' = Of(f, Best) /\ rows' = {} /\ stress' = {}

Replayed(f) ==
    /\ f.kind = "replay" /\ Fresh(f)
    /\ active' = Of(f, f.config) /\ stress' = {}
    /\ UNCHANGED <<recommendation, rows>>

OwnRows(f) == {Of(f, Own), Of(f, With(Own, {"auto"}))}
BestRows(f) == {Of(f, Best), Of(f, With(Best, {"adaptive"})), Of(f, With(Best, {"adaptive", "auto"}))}
Compared(f) ==
    /\ f.kind = "compare" /\ Fresh(f)
    /\ \/ recommendation' = NoResult /\ rows' = OwnRows(f)
       \/ /\ \E fit \in Fits : recommendation' = [inputs |-> f.inputs, fit |-> fit]
          /\ rows' = OwnRows(f) \cup BestRows(f)
    /\ active' \in rows'                    \* the winner of rankScenarioRows
    /\ stress' = {}

\* The last answer of a stress check is not looked at again before its rows are shown.
Stressed(f) ==
    /\ f.kind = "stress" /\ f.stage = 2
    /\ stress' = {Of(f, f.config)} \cup {Of(f, Harsher(f.config)[i]) : i \in 1..2}
    /\ UNCHANGED <<recommendation, active, rows>>

Failed(f) ==
    /\ Fresh(f)
    /\ \/ f.kind = "replay" /\ UNCHANGED results
       \/ f.kind # "replay" /\ Cleared

Answer(f) ==
    \/ /\ Dropped(f) \/ Recommended(f) \/ Replayed(f) \/ Compared(f) \/ Stressed(f) \/ Failed(f)
       /\ Landed(f)
    \/ ~Fresh(f) /\ UNCHANGED results /\ Landed(f)          \* a stale failure
    \/ /\ f.kind = "stress" /\ f.stage = 1 /\ Fresh(f)      \* the first harsher replay is in
       /\ flights' = (flights \ {f}) \cup {[f EXCEPT !.stage = 2]}
       /\ UNCHANGED <<inputs, generation, busy, results, opened>>

Answers == \E f \in flights : Answer(f)

Next ==
    \/ \E next \in Inputs : Change(next)
    \/ Ask("recommend", Best)
    \/ Ask("compare", Own)
    \/ \E config \in Replayable : Ask("replay", config)
    \/ Displayed # NoResult /\ Ask("stress", Displayed.config)
    \/ \E row \in rows \cup stress : Select(row)
    \/ OpenDraft
    \/ Answers

Spec == Init /\ [][Next]_vars

-----------------------------------------------------------------------------
Configs ==
    [range : {"own", "best", "second", "plan"}, with : SUBSET {"auto", "adaptive", "costly", "slow"}]
Flights ==
    [kind : Questions, generation : 0..MaxGeneration, inputs : Inputs, config : Configs, stage : 1..2]
Rows == [inputs : Inputs, config : Configs]

\* Every variable has its type, and no answer is of a generation to come.
TypeOK ==
    /\ inputs \in Inputs /\ generation \in 0..MaxGeneration /\ busy \in BOOLEAN
    /\ flights \subseteq Flights /\ Cardinality(flights) <= MaxFlights
    /\ \A f \in flights : f.generation <= generation
    /\ recommendation \in {NoResult} \cup [inputs : Inputs, fit : Fits]
    /\ active \in {NoResult} \cup Rows /\ rows \subseteq Rows /\ stress \subseteq Rows

(* The page is busy exactly while one question of the current generation is  *)
(* on its way: late answers to older questions neither free the buttons      *)
(* early nor leave them locked.                                              *)
BusyIsAsked == Cardinality({f \in flights : Fresh(f)}) = (IF busy THEN 1 ELSE 0)

(* Whatever the page shows, and may open as a draft, was computed for the    *)
(* inputs now set, however late the answers to earlier ones come.            *)
ShownIsOfInputs ==
    /\ recommendation # NoResult => recommendation.inputs = inputs
    /\ active # NoResult => active.inputs = inputs
    /\ \A row \in rows : row.inputs = inputs

\* The questions whose answers the page still waits for.
Asked == {f \in flights : Fresh(f)}

(* Between two steps: at most the one question that made the page busy is    *)
(* fresh, and it was asked of the inputs now set.                            *)
LabInv ==
    /\ TypeOK /\ IsFiniteSet(flights)
    /\ ~busy => Asked = {}
    /\ busy => \E f \in flights : Asked = {f} /\ f.inputs = inputs

=============================================================================
