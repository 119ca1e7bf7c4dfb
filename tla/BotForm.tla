------------------------------ MODULE BotForm ------------------------------
(***************************************************************************)
(* The capital part of the bot form (bot-management-console.tsx and        *)
(* bot-management.ts): what the operator types, the normalisation and the  *)
(* minimum order that follows it, the panel's analysis, the server's       *)
(* reading of the payload, and the cycles the engine can then buy.         *)
(*                                                                         *)
(* Amounts are in cents.  The fields report every number that can be read  *)
(* while it is typed (bot-console-primitives.tsx:184), so a keystroke is a *)
(* step; leaving the field clamps it.                                      *)
(***************************************************************************)
EXTENDS Integers

CONSTANTS
  Pair,          \* which preset the desk opens with
  BudgetTyped, OrderTyped, RailsTyped,   \* what a field may read while it is typed
  LabConfigs     \* drafts the Lab may hand over

FormAssumption ==
  /\ Pair \in {"SOL_USDC", "BTC_USDC", "HYPE_USDC"}
  /\ BudgetTyped \subseteq Nat /\ OrderTyped \subseteq Nat /\ RailsTyped \subseteq Nat
  /\ LabConfigs \subseteq [budget : Nat, reserve : Nat, deploy : Nat, min : Nat, rails : Nat]

VARIABLES
  draft,    \* createDraft or editDraft
  mode,     \* createMinOrderMode or editMinOrderMode
  panel,    \* panelKind: "create" or "edit"
  focus,    \* the field being typed in
  stored,   \* bot_configs of the bot, once there is one
  answer    \* what the submit of this draft met

vars == <<draft, mode, panel, focus, stored, answer>>

Fields == {"budget", "min", "rails"}
Drafts == [budget : Nat, reserve : Nat, deploy : Nat, min : Nat, rails : Nat]
NoBot == [budget |-> 0, reserve |-> 0, deploy |-> 0, min |-> 0, rails |-> 0]

TypeOK ==
  /\ draft \in Drafts /\ stored \in Drafts
  /\ mode \in {"auto", "manual"} /\ panel \in {"create", "edit"}
  /\ focus \in Fields \cup {"none"} /\ answer \in {"none", "stored", "refused"}
-----------------------------------------------------------------------------
\* bot-management.ts

Least(a, b) == IF a < b THEN a ELSE b
Greatest(a, b) == IF a > b THEN a ELSE b
Cycles(d) == IF d.rails > 0 THEN d.rails - 1 ELSE 0

\* Math.round(n / m / step) * step, for a positive quotient.
RoundedTo(step, n, m) == ((2 * n + m * step) \div (2 * m * step)) * step

\* Whole dollars from 100, dimes from 25, cents below.
SuggestedMin(d) ==
  IF Cycles(d) = 0 THEN 0
  ELSE IF d.deploy >= 10000 * Cycles(d) THEN RoundedTo(100, d.deploy, Cycles(d))
  ELSE IF d.deploy >= 2500 * Cycles(d) THEN RoundedTo(10, d.deploy, Cycles(d))
  ELSE RoundedTo(1, d.deploy, Cycles(d))

\* The reserve gives way to the budget, the deployable part to both.
Normalized(d) ==
  LET reserve == Least(d.budget, d.reserve)
  IN [d EXCEPT !.reserve = reserve, !.deploy = Least(d.budget - reserve, @)]

\* analyzeBotDraft: the one blocking issue about capital, and the warning.
CanSubmit(d) == d.min <= d.deploy
WarnsOfSmallCycles(d) == d.deploy < d.min * Cycles(d)

\* parseBotDraft with readNumber's bounds.
Accepted(d) ==
  /\ d.budget >= 100 /\ d.deploy >= 100 /\ d.min >= 100 /\ d.rails \in 2 .. 64
  /\ d.reserve <= d.budget /\ d.deploy <= d.budget - d.reserve
  /\ d.min <= d.deploy

\* createDraftFromPreset and the levelCountByPair of the three behaviours.
Preset ==
  CASE Pair = "SOL_USDC" -> [budget |-> 200000, reserve |-> 0, deploy |-> 200000, min |-> 5000, rails |-> 14]
    [] Pair = "BTC_USDC" -> [budget |-> 200000, reserve |-> 0, deploy |-> 200000, min |-> 5000, rails |-> 12]
    [] OTHER -> [budget |-> 80000, reserve |-> 0, deploy |-> 80000, min |-> 3000, rails |-> 18]
BehaviorRails ==
  CASE Pair = "BTC_USDC" -> {10, 14, 18} [] Pair = "SOL_USDC" -> {12, 16, 24} [] OTHER -> {12, 16, 22}
TurboRails == CASE Pair = "BTC_USDC" -> 16 [] Pair = "SOL_USDC" -> 18 [] OTHER -> 20
-----------------------------------------------------------------------------
\* The panel

Synced(d, m) == LET n == Normalized(d) IN IF m = "manual" THEN n ELSE [n EXCEPT !.min = SuggestedMin(n)]
InferredMode(d) == IF Normalized(d).min = SuggestedMin(Normalized(d)) THEN "auto" ELSE "manual"

Init ==
  /\ draft = Synced(Preset, "auto") /\ mode = "auto" /\ panel = "create"
  /\ focus = "none" /\ stored = NoBot /\ answer = "none"

Written(d) == draft' = Synced(d, mode)

\* updateCreateDraft and updateEditDraft; the minimum is disabled in auto mode.
Type(field) ==
  /\ focus' = field /\ (field = "min" => mode = "manual")
  /\ \/ field = "budget" /\ \E v \in BudgetTyped : Written([draft EXCEPT !.budget = v])
     \/ field = "min" /\ \E v \in OrderTyped : Written([draft EXCEPT !.min = v])
     \/ field = "rails" /\ \E v \in RailsTyped : Written([draft EXCEPT !.rails = v])
  /\ answer' = "none" /\ UNCHANGED <<mode, panel, stored>>

\* onBlur clamps to what the field declares.
Leave ==
  /\ focus # "none" /\ focus' = "none"
  /\ Written(CASE focus = "budget" -> [draft EXCEPT !.budget = Greatest(@, 100)]
               [] focus = "min" -> [draft EXCEPT !.min = Greatest(@, 100)]
               [] focus = "rails" -> [draft EXCEPT !.rails = Least(Greatest(@, 2), 120)])
  /\ answer' = "none" /\ UNCHANGED <<mode, panel, stored>>

\* handleCreateMinOrderModeChange and its twin.
SetMode ==
  /\ focus = "none" /\ mode' \in {"auto", "manual"} /\ draft' = Synced(draft, mode')
  /\ answer' = "none" /\ UNCHANGED <<panel, focus, stored>>

\* applyBehaviorPreset and applyPaperTurbo.
RailsFollow(n) == Written([draft EXCEPT !.rails = n])
ApplyStyle ==
  /\ focus = "none" /\ \E n \in BehaviorRails \cup {TurboRails} : RailsFollow(n)
  /\ answer' = "none" /\ UNCHANGED <<mode, panel, focus, stored>>

\* resetCreateDraftToPreset keeps the style's rails; picking a pair does the same.
ResetToPreset ==
  /\ focus = "none" /\ panel = "create" /\ mode' = "auto"
  /\ \E n \in BehaviorRails : draft' = Synced([Preset EXCEPT !.rails = n], "auto")
  /\ answer' = "none" /\ UNCHANGED <<panel, focus, stored>>

\* buildBotDraftFromLabTransfer
TakeLabDraft ==
  /\ focus = "none" /\ panel = "create" /\ stored = NoBot
  /\ \E d \in LabConfigs, m \in {"auto", "manual"} : mode' = m /\ draft' = Synced(Normalized(d), m)
  /\ answer' = "none" /\ UNCHANGED <<panel, focus, stored>>

\* The submit button is disabled while a blocking issue stands; Enter sends a
\* field that is still being typed.
Submit ==
  /\ CanSubmit(draft)
  /\ IF Accepted(draft) THEN answer' = "stored" /\ stored' = draft ELSE answer' = "refused" /\ UNCHANGED stored
  /\ panel' = IF Accepted(draft) THEN "edit" ELSE panel
  /\ UNCHANGED <<draft, mode, focus>>

\* The hydrating effect and resetEditDraft: cloneDraft of the stored config.
OpenEdit ==
  /\ stored # NoBot /\ panel' = "edit" /\ focus' = "none"
  /\ draft' = Normalized(stored) /\ mode' = InferredMode(stored)
  /\ answer' = "none" /\ UNCHANGED stored

Next ==
  \/ \E field \in Fields : Type(field)
  \/ Leave \/ SetMode \/ ApplyStyle \/ ResetToPreset \/ TakeLabDraft \/ Submit \/ OpenEdit
Spec == Init /\ [][Next]_vars
-----------------------------------------------------------------------------
\* buildOrderIntent, buying cycle after cycle from the whole budget.
Requested(d) == Greatest(RoundedTo(1, d.deploy, Cycles(d)), d.min)

\* However the fields were typed, the draft fits its budget, so the server's two
\* checks of it (bot-management.ts:885-891) can only meet payloads of others.
DraftFitsBudget == draft.reserve + draft.deploy <= draft.budget

\* "Auto tracks budget and rails" (bot-config-fields.tsx:210).
AutoFollows == panel = "create" /\ mode = "auto" => draft.min = SuggestedMin(draft)

\* The panel never holds back a draft that the server would take.
NothingHeldBack == Accepted(draft) => CanSubmit(draft)

\* "Budget per cycle is below the minimum order size. Parts of the grid may never
\* arm." (bot-management.ts:521): a stored bot that came without this warning can
\* buy each of its cycles, but for the half cent by which each order is rounded.
UnwarnedGridArms ==
  stored # NoBot /\ ~WarnsOfSmallCycles(stored) =>
    2 * (stored.budget - stored.reserve - (Cycles(stored) - 1) * Requested(stored) - stored.min)
      + Cycles(stored) >= 0

\* Opening the panel on a stored bot proposes no change of its own.
OpeningProposesNothing ==
  OpenEdit => draft' = stored

\* Between two steps: the draft fits as the last keystroke left it, and a bot was
\* stored only as the server takes it.
FormInv ==
  /\ TypeOK /\ DraftFitsBudget /\ AutoFollows /\ NothingHeldBack /\ UnwarnedGridArms
  /\ stored # NoBot => Accepted(stored)
=============================================================================
