------------------------------ MODULE DeskParts ------------------------------
(*****************************************************************************)
(* The state that the parts of the desk suite share, and its pages: the form *)
(* a bot is typed into, the console and the stream of the list, and the lab. *)
(* DeskMC adds the admission of their requests and the suite's specification. *)
(*****************************************************************************)
EXTENDS Integers

CONSTANTS
  Pair, BudgetTyped, OrderTyped, RailsTyped, LabConfigs,         \* of the form
  Listed, Askable, MaxTyped, MaxCalls, MaxAsked,                 \* of the console
  Streamed, BotStatuses, Outcomes, MaxExecutions, MaxChanges,    \* of the stream
  MaxDrops, MaxFailures, MaxTurns, Kept, Delays, Overtaking,
  Inputs, MaxGeneration, MaxFlights, Questions                   \* of the lab

VARIABLES
  part,   \* the component at work
  x1, x2, x3, x4, x5, x6, x7, x8, x9, x10, x11, x12, x13, x14, x15, x16, x17   \* its variables, in the order of its module

Form == INSTANCE BotForm WITH
  draft <- x1, mode <- x2, panel <- x3, focus <- x4, stored <- x5, answer <- x6

\* The console, whose bots are edited or ended.
Console == INSTANCE DeskConsole WITH
  Bots <- Listed, Kinds <- Askable,
  server <- x1, props <- x2, seen <- x3, archived <- x4, selected <- x5, hydrated <- x6,
  draft <- x7, typed <- x8, busy <- x9, calls <- x10, asked <- x11, refreshing <- x12,
  crossed <- x13

\* The stream, which tells of executions or of changes of status.
Stream == INSTANCE DeskStream WITH
  Bots <- Streamed, Statuses <- BotStatuses,
  world <- x1, changes <- x2, drops <- x3, failures <- x4, reads <- x5, primed <- x6, sent <- x7,
  wire <- x8, telemetry <- x9, statusOf <- x10, keyOf <- x11, seen <- x12, toasts <- x13,
  board <- x14, due <- x15, asked <- x16, missed <- x17

\* The lab, with and without a check under stress.
Lab == INSTANCE LabConsole WITH
  inputs <- x1, generation <- x2, busy <- x3, flights <- x4, recommendation <- x5, active <- x6,
  rows <- x7, stress <- x8, opened <- x9

ASSUME DeskAssumption ==
  /\ Form!FormAssumption
  /\ Console!ConsoleAssumption
  /\ Stream!DeskStreamAssumption
  /\ Lab!ConsoleAssumption
-----------------------------------------------------------------------------
\* What the desk shows and takes is its operator's and true of the bots: a draft
\* fits its budget and is the shown bot's, results are announced, and the lab's
\* page is busy with the one question asked for the inputs now set and, but for a
\* check under stress, shows what is of them.
DeskHolds ==
  /\ part = "form" =>
       /\ Form!TypeOK /\ Form!DraftFitsBudget /\ Form!AutoFollows
       /\ Form!NothingHeldBack /\ Form!UnwarnedGridArms
  /\ part \in {"editing", "ending"} => Console!TypeOK /\ Console!DraftIsOfShown
  /\ part \in {"stream", "status"} => Stream!TypeOK /\ Stream!ShownIsAnnounced
  /\ part \in {"lab", "stressed"} => Lab!TypeOK /\ Lab!BusyIsAsked
  /\ part = "lab" => Lab!ShownIsOfInputs

\* What no step may do: propose a change by opening a panel, take away what was
\* typed, save to a bot that runs, take back what was heard or tell it twice.
DeskStands ==
  [][/\ part = "form" => Form!OpeningProposesNothing
     /\ part \in {"editing", "ending"} => Console!TypedStays /\ Console!SavesHaltedBot
     /\ part \in {"stream", "status"} => Stream!HeardMovesForward /\ Stream!ToldOnce]_<<
    part, x1, x2, x3, x4, x5, x6, x7, x8, x9, x10, x11, x12, x13, x14, x15, x16, x17>>
=============================================================================
