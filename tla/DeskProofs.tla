----------------------------- MODULE DeskProofs -----------------------------
(*****************************************************************************)
(* What is proved of the desk suite: the admission to the live wallet, the   *)
(* form, the console and the stream of the desk, and the Lab's page.         *)
(*                                                                           *)
(* The form, for any amounts: a draft fits its budget because every change   *)
(* goes through the normalisation.  The console, for any list of bots: the   *)
(* panel was hydrated for the bot it shows.  The stream, for any bots: the   *)
(* page is behind what is on the wire, that behind the read under way, and   *)
(* all behind the rows; what a payload shows was announced, is announced     *)
(* behind it, or was the first a connection showed.  The Lab, for any        *)
(* inputs: at most one question is fresh, and it is of the inputs now set.   *)
(*                                                                           *)
(* The admission, for any number of bots and requests: claims the wallet     *)
(* covers, one model per wallet, distinct keys, and books that keep their    *)
(* budget.  The properties speak of rows; the invariant adds what every      *)
(* request in flight knows.  Above all, who holds the wallet's lock has seen *)
(* it without an unsettled execution and nothing was prepared since, which   *)
(* is why staging the portfolio catches no bot half way; and a request still *)
(* fresh has read the newest snapshot, which is why a top-up invents no      *)
(* money.  That the wallet covers the claims takes a second invariant, of    *)
(* what every bot owns of it before its books know.                          *)
(*****************************************************************************)
EXTENDS DeskParts, WalletAdmission, SumProofs, FiniteSetTheorems, SequenceTheorems,
        NaturalsInduction, TLAPS

-----------------------------------------------------------------------------
\* The form.  Its variables are the suite's, in the order of its module: x1 is draft,
\* x2 mode, x3 panel, x4 focus, x5 stored and x6 answer.

\* A quotient of naturals lies within its bounds.
LEMMA QuotientFacts ==
  ASSUME NEW n \in Nat, NEW d \in Nat \ {0}
  PROVE  n \div d \in Nat /\ d * (n \div d) <= n
  OBVIOUS

LEMMA RoundedFacts ==
  ASSUME NEW n \in Nat, NEW m \in Nat \ {0}
  PROVE  /\ Form!RoundedTo(1, n, m) \in Nat /\ Form!RoundedTo(10, n, m) \in Nat /\ Form!RoundedTo(100, n, m) \in Nat
         /\ 2 * (m * Form!RoundedTo(1, n, m)) <= 2 * n + m
  <1>1. ASSUME NEW step \in {1, 10, 100}
        PROVE  Form!RoundedTo(step, n, m) \in Nat
    <2> DEFINE d == 2 * m * step
               s == 2 * n + m * step
               q == s \div d
    <2>1. d \in Nat \ {0} /\ s \in Nat
      <3>1. CASE step = 1
        BY <3>1
      <3>2. CASE step = 10
        BY <3>2
      <3>3. CASE step = 100
        BY <3>3
      <3> QED
        BY <3>1, <3>2, <3>3
    <2>2. q \in Nat
      <3> HIDE DEF d, s
      <3> QED
        BY <2>1, QuotientFacts
    <2>3. q * step \in Nat
      <3> HIDE DEF q
      <3> QED
        BY <2>2
    <2> QED
      BY <2>3 DEF Form!RoundedTo
  <1>2. 2 * (m * Form!RoundedTo(1, n, m)) <= 2 * n + m
    <2> DEFINE d == 2 * m
               s == 2 * n + m
               q == s \div d
    <2>1. d \in Nat \ {0} /\ s \in Nat
      OBVIOUS
    <2>2. q \in Nat /\ d * q <= s
      <3> HIDE DEF d, s
      <3> QED
        BY <2>1, QuotientFacts
    <2>3. Form!RoundedTo(1, n, m) = q
      BY <2>1, <2>2 DEF Form!RoundedTo
    <2>4. d * q = 2 * (m * q)
      <3> HIDE DEF q
      <3> QED
        BY <2>2
    <2> HIDE DEF d, q
    <2> QED
      BY <2>2, <2>3, <2>4
  <1> QED
    BY <1>1, <1>2

LEMMA SuggestedNat ==
  ASSUME NEW d \in Form!Drafts
  PROVE  Form!SuggestedMin(d) \in Nat
  <1>1. CASE Form!Cycles(d) = 0
    BY <1>1 DEF Form!SuggestedMin
  <1>2. CASE Form!Cycles(d) # 0
    <2> DEFINE n == d.deploy
               m == Form!Cycles(d)
    <2>1. m \in Nat \ {0} /\ n \in Nat
      BY <1>2 DEF Form!Cycles, Form!Drafts
    <2>2. Form!SuggestedMin(d) \in {Form!RoundedTo(1, n, m), Form!RoundedTo(10, n, m), Form!RoundedTo(100, n, m)}
      BY <1>2 DEF Form!SuggestedMin
    <2> HIDE DEF n, m
    <2> QED
      BY <2>1, <2>2, RoundedFacts
  <1> QED
    BY <1>1, <1>2

\* What the panel writes after every change.
LEMMA NormalizedFacts ==
  ASSUME NEW d \in Form!Drafts
  PROVE  /\ Form!Normalized(d) \in Form!Drafts /\ Form!Normalized(d).reserve + Form!Normalized(d).deploy <= Form!Normalized(d).budget
         /\ d.reserve + d.deploy <= d.budget => Form!Normalized(d) = d
  <1> DEFINE reserve == Form!Least(d.budget, d.reserve)
             deploy == Form!Least(d.budget - reserve, d.deploy)
  <1>1. reserve \in Nat /\ reserve <= d.budget
    BY DEF Form!Least, Form!Drafts
  <1>2. deploy \in Nat /\ reserve + deploy <= d.budget
    BY <1>1 DEF Form!Least, Form!Drafts
  <1>3. Form!Normalized(d) = [d EXCEPT !.reserve = reserve, !.deploy = deploy]
    BY DEF Form!Normalized
  <1>4. d.reserve + d.deploy <= d.budget => reserve = d.reserve /\ deploy = d.deploy
    BY DEF Form!Least, Form!Drafts
  <1> HIDE DEF reserve, deploy
  <1> QED
    BY <1>1, <1>2, <1>3, <1>4 DEF Form!Drafts

LEMMA SyncedFacts ==
  ASSUME NEW d \in Form!Drafts, NEW m \in {"auto", "manual"}
  PROVE  /\ Form!Synced(d, m) \in Form!Drafts /\ Form!Synced(d, m).reserve + Form!Synced(d, m).deploy <= Form!Synced(d, m).budget
         /\ m = "auto" => Form!Synced(d, m).min = Form!SuggestedMin(Form!Synced(d, m))
  <1> DEFINE n == Form!Normalized(d)
             s == Form!SuggestedMin(n)
             a == [n EXCEPT !.min = s]
  <1>1. n \in Form!Drafts /\ n.reserve + n.deploy <= n.budget /\ s \in Nat
    BY NormalizedFacts, SuggestedNat
  <1>2. Form!Synced(d, m) = IF m = "manual" THEN n ELSE a
    BY DEF Form!Synced
  <1> HIDE DEF n
  <1>3. /\ a \in Form!Drafts /\ a.reserve = n.reserve /\ a.deploy = n.deploy /\ a.budget = n.budget
        /\ a.rails = n.rails /\ a.min = s
    BY <1>1 DEF Form!Drafts
  <1>4. Form!SuggestedMin(a) = s
    BY <1>3 DEF Form!SuggestedMin, Form!Cycles
  <1> HIDE DEF a, s
  <1> QED
    BY <1>1, <1>2, <1>3, <1>4

\* A stored bot that came without the warning buys each of its cycles.
LEMMA UnwarnedArms ==
  ASSUME NEW d \in Form!Drafts, Form!Accepted(d), ~Form!WarnsOfSmallCycles(d)
  PROVE  2 * (d.budget - d.reserve - (Form!Cycles(d) - 1) * Form!Requested(d) - d.min) + Form!Cycles(d) >= 0
  <1> DEFINE c == Form!Cycles(d)
             r == Form!RoundedTo(1, d.deploy, c)
             q == Form!Requested(d)
  <1>1. c \in Nat \ {0} /\ d.deploy \in Nat /\ d.min \in Nat /\ d.budget \in Nat /\ d.reserve \in Nat
    BY DEF Form!Accepted, Form!Cycles, Form!Drafts
  <1>2. d.deploy <= d.budget - d.reserve
    BY DEF Form!Accepted
  <1>3. d.min * c <= d.deploy
    <2> DEFINE p == d.min * c
    <2>1. p \in Nat
      BY <1>1
    <2>2. ~ (d.deploy < p)
      BY DEF Form!WarnsOfSmallCycles
    <2> HIDE DEF p
    <2>3. p <= d.deploy
      BY <1>1, <2>1, <2>2
    <2> QED
      BY <2>3 DEF p
  <1>4. r \in Nat /\ 2 * (c * r) <= 2 * d.deploy + c
    BY <1>1, RoundedFacts
  <1>5. q \in {r, d.min} /\ q >= d.min
    BY <1>1, <1>4 DEF Form!Requested, Form!Greatest
  <1>6. 2 * (c * q) <= 2 * d.deploy + c
    <2>1. CASE q = r
      BY <1>4, <2>1
    <2>2. CASE q = d.min
      <3> DEFINE p == d.min * c
      <3>1. c * q = p /\ p \in Nat /\ p <= d.deploy
        BY <1>1, <1>3, <2>2
      <3> HIDE DEF c, q, p
      <3> QED
        BY <1>1, <3>1
    <2> QED
      BY <1>5, <2>1, <2>2
  <1>7. q \in Nat /\ (c - 1) * q = c * q - q /\ c * q \in Nat
    <2>1. q \in Nat
      BY <1>1, <1>4, <1>5
    <2> HIDE DEF c, q
    <2> QED
      BY <1>1, <2>1
  <1> DEFINE p == c * q
             o == (c - 1) * q
  <1>8. p \in Nat /\ o = p - q /\ 2 * p <= 2 * d.deploy + c
    BY <1>6, <1>7
  <1> HIDE DEF c, q, p, o, r
  <1>9. 2 * (d.budget - d.reserve - o - d.min) + c >= 0
    BY <1>1, <1>2, <1>5, <1>7, <1>8
  <1> QED
    BY <1>9 DEF o, c, q

\* A step that writes a synchronised draft and stores nothing.
LEMMA WrittenStep ==
  ASSUME Form!FormInv, NEW d \in Form!Drafts, x2' \in {"auto", "manual"}, x1' = Form!Synced(d, x2'),
         x3' = x3, x4' \in Form!Fields \cup {"none"}, x5' = x5, x6' = "none"
  PROVE  Form!FormInv'
  <1>1. /\ x1' \in Form!Drafts /\ x1'.reserve + x1'.deploy <= x1'.budget
        /\ x2' = "auto" => x1'.min = Form!SuggestedMin(x1')
    BY SyncedFacts
  <1>2. Form!TypeOK'
    BY <1>1 DEF Form!FormInv, Form!TypeOK
  <1>3. Form!DraftFitsBudget' /\ Form!AutoFollows' /\ Form!NothingHeldBack'
    BY <1>1 DEF Form!DraftFitsBudget, Form!AutoFollows, Form!NothingHeldBack, Form!Accepted, Form!CanSubmit
  <1>4. Form!UnwarnedGridArms' /\ (x5' # Form!NoBot => Form!Accepted(x5'))
    BY DEF Form!FormInv, Form!UnwarnedGridArms
  <1> QED
    BY <1>2, <1>3, <1>4 DEF Form!FormInv

LEMMA PresetTyped ==
  /\ Form!Preset \in Form!Drafts /\ Form!BehaviorRails \subseteq Nat /\ Form!TurboRails \in Nat
  /\ \A n \in Nat : [Form!Preset EXCEPT !.rails = n] \in Form!Drafts
  <1>1. CASE Pair = "SOL_USDC"
    BY <1>1 DEF Form!Preset, Form!BehaviorRails, Form!TurboRails, Form!Drafts
  <1>2. CASE Pair = "BTC_USDC"
    BY <1>2 DEF Form!Preset, Form!BehaviorRails, Form!TurboRails, Form!Drafts
  <1>3. CASE Pair = "HYPE_USDC"
    BY <1>3 DEF Form!Preset, Form!BehaviorRails, Form!TurboRails, Form!Drafts
  <1> QED
    BY <1>1, <1>2, <1>3, DeskAssumption DEF Form!FormAssumption

LEMMA ChangeStep ==
  ASSUME Form!FormInv, (\E field \in Form!Fields : Form!Type(field)) \/ Form!Leave \/ Form!SetMode \/ Form!ApplyStyle
  PROVE  Form!FormInv'
  <1>1. /\ x1 \in Form!Drafts /\ x2 \in {"auto", "manual"} /\ x4 \in Form!Fields \cup {"none"}
        /\ BudgetTyped \subseteq Nat /\ OrderTyped \subseteq Nat /\ RailsTyped \subseteq Nat
    BY DeskAssumption DEF Form!FormInv, Form!TypeOK, Form!FormAssumption
  <1>2. /\ \A n \in Nat : [x1 EXCEPT !.budget = n] \in Form!Drafts
        /\ \A n \in Nat : [x1 EXCEPT !.min = n] \in Form!Drafts
        /\ \A n \in Nat : [x1 EXCEPT !.rails = n] \in Form!Drafts
    BY <1>1 DEF Form!Drafts
  <1>3. ASSUME NEW field \in Form!Fields, Form!Type(field)
        PROVE  \E d \in Form!Drafts : x1' = Form!Synced(d, x2')
    BY <1>1, <1>2, <1>3 DEF Form!Type, Form!Written
  <1>4. ASSUME Form!Leave
        PROVE  \E d \in Form!Drafts : x1' = Form!Synced(d, x2')
    <2>1. /\ Form!Greatest(x1.budget, 100) \in Nat /\ Form!Greatest(x1.min, 100) \in Nat
          /\ Form!Least(Form!Greatest(x1.rails, 2), 120) \in Nat
      BY <1>1 DEF Form!Greatest, Form!Least, Form!Drafts
    <2>2. /\ [x1 EXCEPT !.budget = Form!Greatest(@, 100)] \in Form!Drafts
          /\ [x1 EXCEPT !.min = Form!Greatest(@, 100)] \in Form!Drafts
          /\ [x1 EXCEPT !.rails = Form!Least(Form!Greatest(@, 2), 120)] \in Form!Drafts
      BY <1>2, <2>1
    <2>3. x4 \in {"budget", "min", "rails"} /\ x2' = x2
      BY <1>1, <1>4 DEF Form!Leave, Form!Fields
    <2> QED
      BY <1>4, <2>2, <2>3 DEF Form!Leave, Form!Written
  <1>5. ASSUME Form!SetMode
        PROVE  \E d \in Form!Drafts : x1' = Form!Synced(d, x2')
    BY <1>1, <1>5 DEF Form!SetMode
  <1>6. ASSUME Form!ApplyStyle
        PROVE  \E d \in Form!Drafts : x1' = Form!Synced(d, x2')
    BY <1>1, <1>2, <1>6, PresetTyped DEF Form!ApplyStyle, Form!RailsFollow, Form!Written
  <1>7. \E d \in Form!Drafts : x1' = Form!Synced(d, x2')
    BY <1>3, <1>4, <1>5, <1>6
  <1>8. /\ x2' \in {"auto", "manual"} /\ x3' = x3 /\ x4' \in Form!Fields \cup {"none"}
        /\ x5' = x5 /\ x6' = "none"
    BY <1>1 DEF Form!Type, Form!Leave, Form!SetMode, Form!ApplyStyle
  <1> QED
    BY <1>7, <1>8, WrittenStep

LEMMA PresetStep ==
  ASSUME Form!FormInv, Form!ResetToPreset \/ Form!TakeLabDraft
  PROVE  Form!FormInv'
  <1>1. CASE Form!ResetToPreset
    <2>1. PICK n \in Form!BehaviorRails : x1' = Form!Synced([Form!Preset EXCEPT !.rails = n], "auto")
      BY <1>1 DEF Form!ResetToPreset
    <2>2. [Form!Preset EXCEPT !.rails = n] \in Form!Drafts /\ x2' = "auto"
      BY <1>1, PresetTyped DEF Form!ResetToPreset
    <2>3. x3' = x3 /\ x4' \in Form!Fields \cup {"none"} /\ x5' = x5 /\ x6' = "none"
      BY <1>1 DEF Form!ResetToPreset, Form!FormInv, Form!TypeOK
    <2> QED
      BY <2>1, <2>2, <2>3, WrittenStep
  <1>2. CASE Form!TakeLabDraft
    <2>1. PICK d \in LabConfigs, m \in {"auto", "manual"} : x2' = m /\ x1' = Form!Synced(Form!Normalized(d), m)
      BY <1>2 DEF Form!TakeLabDraft
    <2>2. d \in Form!Drafts
      BY DeskAssumption DEF Form!FormAssumption, Form!Drafts
    <2>3. Form!Normalized(d) \in Form!Drafts
      BY <2>2, NormalizedFacts
    <2>4. x3' = x3 /\ x4' \in Form!Fields \cup {"none"} /\ x5' = x5 /\ x6' = "none"
      BY <1>2 DEF Form!TakeLabDraft, Form!FormInv, Form!TypeOK
    <2> QED
      BY <2>1, <2>3, <2>4, WrittenStep
  <1> QED
    BY <1>1, <1>2

LEMMA SubmitStep ==
  ASSUME Form!FormInv, Form!Submit
  PROVE  Form!FormInv'
  <1>1. x1' = x1 /\ x2' = x2 /\ x4' = x4 /\ x1 \in Form!Drafts
    BY DEF Form!Submit, Form!FormInv, Form!TypeOK
  <1>2. CASE Form!Accepted(x1)
    <2>1. x6' = "stored" /\ x5' = x1 /\ x3' = "edit"
      BY <1>2 DEF Form!Submit
    <2>2. Form!TypeOK' /\ Form!DraftFitsBudget' /\ Form!AutoFollows' /\ Form!NothingHeldBack'
      BY <1>1, <2>1 DEF Form!FormInv, Form!TypeOK, Form!DraftFitsBudget, Form!AutoFollows, Form!NothingHeldBack, Form!Accepted, Form!CanSubmit
    <2>3. Form!UnwarnedGridArms'
      BY <1>1, <1>2, <2>1, UnwarnedArms DEF Form!UnwarnedGridArms
    <2> QED
      BY <1>2, <2>1, <2>2, <2>3 DEF Form!FormInv
  <1>3. CASE ~Form!Accepted(x1)
    <2>1. x6' = "refused" /\ x5' = x5 /\ x3' = x3
      BY <1>3 DEF Form!Submit
    <2>2. Form!TypeOK' /\ Form!DraftFitsBudget' /\ Form!AutoFollows' /\ Form!NothingHeldBack'
      BY <1>1, <2>1 DEF Form!FormInv, Form!TypeOK, Form!DraftFitsBudget, Form!AutoFollows, Form!NothingHeldBack
    <2> QED
      BY <2>1, <2>2 DEF Form!FormInv, Form!UnwarnedGridArms
  <1> QED
    BY <1>2, <1>3

LEMMA FormOpenStep ==
  ASSUME Form!FormInv, Form!OpenEdit
  PROVE  Form!FormInv' /\ x1' = x5
  <1>1. x5 \in Form!Drafts /\ Form!Accepted(x5) /\ x5.reserve + x5.deploy <= x5.budget
    BY DEF Form!OpenEdit, Form!FormInv, Form!TypeOK, Form!Accepted, Form!Drafts
  <1>2. /\ x1' = x5 /\ x2' \in {"auto", "manual"} /\ x3' = "edit" /\ x4' = "none"
        /\ x6' = "none" /\ x5' = x5
    BY <1>1, NormalizedFacts DEF Form!OpenEdit, Form!InferredMode
  <1>3. Form!TypeOK' /\ Form!DraftFitsBudget' /\ Form!AutoFollows' /\ Form!NothingHeldBack'
    BY <1>1, <1>2 DEF Form!FormInv, Form!TypeOK, Form!DraftFitsBudget, Form!AutoFollows, Form!NothingHeldBack, Form!Accepted, Form!CanSubmit
  <1> QED
    BY <1>2, <1>3 DEF Form!FormInv, Form!UnwarnedGridArms

LEMMA FormStarts == Form!Init => Form!FormInv
  <1> SUFFICES ASSUME Form!Init PROVE Form!FormInv
    OBVIOUS
  <1>1. /\ x1 \in Form!Drafts /\ x1.reserve + x1.deploy <= x1.budget
        /\ x1.min = Form!SuggestedMin(x1)
    BY PresetTyped, SyncedFacts DEF Form!Init
  <1>2. Form!TypeOK
    BY <1>1 DEF Form!Init, Form!TypeOK, Form!NoBot, Form!Drafts
  <1> QED
    BY <1>1, <1>2 DEF Form!Init, Form!FormInv, Form!DraftFitsBudget, Form!AutoFollows, Form!NothingHeldBack, Form!UnwarnedGridArms, Form!Accepted, Form!CanSubmit

LEMMA FormStays == Form!FormInv /\ UNCHANGED Form!vars => Form!FormInv'
  BY DEF Form!vars, Form!FormInv, Form!TypeOK, Form!DraftFitsBudget, Form!AutoFollows, Form!NothingHeldBack, Form!UnwarnedGridArms

\* Every draft of the form fits its budget and keeps what its mode and its warnings say
\* (normalizeBotDraftCapital, syncDraftMinOrder), whatever is typed, for any presets and drafts.
THEOREM DraftsAlwaysFit == Form!Spec => []Form!FormInv
  <1>1. Form!FormInv /\ [Form!Next]_Form!vars => Form!FormInv'
    BY ChangeStep, PresetStep, SubmitStep, FormOpenStep, FormStays DEF Form!Next
  <1> QED
    BY <1>1, FormStarts, PTL DEF Form!Spec

\* Opening the panel of a stored bot proposes no change to it (openEditPanel, createDraftFromConfig).
THEOREM OpenProposesNothing == Form!Spec => [][Form!OpeningProposesNothing]_Form!vars
  <1>1. Form!FormInv /\ [Form!Next]_Form!vars => Form!OpeningProposesNothing
    BY FormOpenStep DEF Form!OpeningProposesNothing
  <1> QED
    BY <1>1, DraftsAlwaysFit, PTL DEF Form!Spec

-----------------------------------------------------------------------------
\* The console: x1 is server, x2 props, x3 seen, x4 archived, x5 selected, x6 hydrated,
\* x7 draft, x8 typed, x9 busy, x10 calls, x11 asked, x12 refreshing and x13 crossed.

LEMMA LeastNatural == ASSUME NEW S, S \subseteq Nat, S # {} PROVE \E x \in S : \A y \in S : x <= y
  <1>1. PICK x \in S : \A y \in S : ~ (<<y, x>> \in OpToRel(<, Nat))
    BY NatLessThanWellFounded, WFMin
  <1>2. \A y \in S : <<y, x>> \in OpToRel(<, Nat) <=> y < x
    BY DEF OpToRel
  <1>3. \A y \in S : y \in Nat /\ ~ (y < x)
    BY <1>1, <1>2
  <1>4. \A y \in S : x <= y
    BY <1>3
  <1> QED
    BY <1>4

\* The panel shows a bot of the list, or none.
LEMMA ShownFacts ==
  ASSUME NEW sel, NEW list, list \subseteq Listed
  PROVE  /\ Console!ShownOf(sel, list) \in list \cup {Console!NoOne}
         /\ sel \in list => Console!ShownOf(sel, list) = sel
         /\ list # {} => Console!ShownOf(sel, list) \in list
         /\ Console!NoOne \notin Listed
  <1>1. Listed \subseteq Nat /\ Console!NoOne \notin Nat
    BY DeskAssumption DEF Console!ConsoleAssumption, Console!NoOne
  <1>2. CASE list = {}
    BY <1>1, <1>2 DEF Console!ShownOf
  <1>3. CASE list # {}
    <2>1. \E b \in list : \A c \in list : b <= c
      BY <1>1, <1>3, LeastNatural
    <2> QED
      BY <1>1, <2>1 DEF Console!ShownOf
  <1> QED
    BY <1>2, <1>3

LEMMA NextBelow ==
  ASSUME NEW m \in Nat, NEW n \in 0 .. m, n < m
  PROVE  n + 1 \in 0 .. m /\ n + 1 \in 1 .. m
  OBVIOUS

DraftTypes == [of : Listed \cup {Console!NoOne}, config : Console!Configs, dirty : BOOLEAN]

\* A step that leaves the panel's bot and draft alone.
LEMMA OthersStep ==
  ASSUME Console!ConsoleInv, UNCHANGED <<x4, x5, x6, x7>>, x13 => x13',
         Console!TypeOK'
  PROVE  Console!ConsoleInv'
  BY DEF Console!ConsoleInv, Console!DraftIsOfShown, Console!Shown, Console!Visible

\* The effect hydrates the panel for the bot that is shown then.
LEMMA HydrateStep ==
  ASSUME Console!ConsoleInv, Console!Hydrate, x2' \in [Listed -> Console!Configs], x4' \subseteq Listed
  PROVE  /\ x6' = Console!Shown' /\ x6' \in Listed \cup {Console!NoOne} /\ x7' \in DraftTypes
         /\ ~x13 => Console!DraftIsOfShown' \/ x13'
         /\ ~x13 => x7'.of = Console!Shown'
         /\ x7'.dirty => x7'.of # Console!NoOne
         /\ x7' = x7 \/ ~x7'.dirty
  <1> DEFINE b == Console!ShownOf(x5', Listed \ x4')
  <1>1. b \in Listed \cup {Console!NoOne} /\ b = Console!Shown'
    BY ShownFacts DEF Console!Shown, Console!Visible
  <1>2. x7 \in DraftTypes /\ (x7.dirty => x7.of # Console!NoOne)
    BY DEF Console!ConsoleInv, Console!TypeOK, DraftTypes
  <1>3. ~x13 => x6 = Console!Shown /\ x7.of = Console!Shown
    BY DEF Console!ConsoleInv, Console!DraftIsOfShown
  <1>4. CASE b = Console!NoOne
    <2>1. x6' = Console!NoOne /\ x7' = Console!NoDraft
      BY <1>4 DEF Console!Hydrate
    <2>2. Console!NoDraft \in DraftTypes /\ Console!NoDraft.of = Console!NoOne /\ ~Console!NoDraft.dirty
      <3>1. [entry |-> "normal", fields |-> 0] \in Console!Configs
        BY DeskAssumption DEF Console!ConsoleAssumption, Console!Configs
      <3> QED
        BY <3>1 DEF Console!NoDraft, DraftTypes
    <2> QED
      BY <1>1, <1>4, <2>1, <2>2 DEF Console!DraftIsOfShown
  <1>5. CASE b # Console!NoOne /\ x6 = b
    <2>1. x6' = x6 /\ x7' = x7
      BY <1>5 DEF Console!Hydrate
    <2> QED
      BY <1>1, <1>2, <1>3, <1>5, <2>1 DEF Console!DraftIsOfShown
  <1>6. CASE b # Console!NoOne /\ x6 # b
    <2>1. x6' = b /\ x7' = Console!Clone(b)
      BY <1>6 DEF Console!Hydrate
    <2>2. b \in Listed /\ x2'[b] \in Console!Configs
      BY <1>1, <1>6
    <2>3. Console!Clone(b) \in DraftTypes /\ Console!Clone(b).of = b /\ ~Console!Clone(b).dirty
      BY <2>2 DEF Console!Clone, DraftTypes
    <2> QED
      BY <1>1, <1>6, <2>1, <2>3 DEF Console!DraftIsOfShown
  <1> QED
    BY <1>4, <1>5, <1>6

LEMMA ConsoleTyped ==
  ASSUME Console!ConsoleInv
  PROVE  /\ x1 \in [Listed -> [status : Console!Statuses, config : Console!Configs]]
         /\ x2 \in [Listed -> Console!Configs]
         /\ x3 \in [Listed -> [status : Console!Statuses, entry : {"normal", "sell_only"}]]
         /\ x4 \subseteq Listed /\ x5 \in Listed \cup {Console!NoOne} /\ x6 \in Listed \cup {Console!NoOne}
         /\ x7 \in DraftTypes /\ x7.config \in Console!Configs
         /\ x8 \in 0 .. MaxTyped /\ x10 \subseteq Console!Calls /\ x11 \in 0 .. MaxAsked
         /\ x12 \in BOOLEAN /\ x13 \in BOOLEAN
         /\ Console!Shown \in Listed \cup {Console!NoOne} /\ Console!Visible \subseteq Listed
  <1>1. Console!Visible \subseteq Listed
    BY DEF Console!Visible
  <1>2. x7 \in DraftTypes /\ x7.config \in Console!Configs
    BY DEF Console!ConsoleInv, Console!TypeOK, DraftTypes
  <1> QED
    BY <1>1, <1>2, ShownFacts DEF Console!ConsoleInv, Console!TypeOK, Console!Shown

LEMMA PanelStep ==
  ASSUME Console!ConsoleInv, NEW b \in Listed, Console!Open(b)
  PROVE  Console!ConsoleInv'
  <1>1. /\ b \in Console!Visible /\ x5' = b /\ x4' = x4 /\ Console!Visible' = Console!Visible
        /\ UNCHANGED <<x1, x2, x3, x4, x8, x9, x10, x11, x12>>
        /\ x13' = (x13 \/ x7.dirty \/ b = Console!Shown)
    BY DEF Console!Open, Console!Visible
  <1>2. Console!Shown' = b
    BY <1>1, ShownFacts, ConsoleTyped DEF Console!Shown
  <1>3. CASE b = Console!Shown
    <2>1. x13' /\ x6' = Console!NoOne /\ x7' = x7 /\ x13' \in BOOLEAN
      BY <1>1, <1>3 DEF Console!Open
    <2>2. Console!TypeOK'
      BY <1>1, <2>1 DEF Console!ConsoleInv, Console!TypeOK
    <2> QED
      BY <2>1, <2>2 DEF Console!ConsoleInv, Console!DraftIsOfShown
  <1>4. CASE b # Console!Shown
    <2>1. x6' = b /\ x7' = [of |-> b, config |-> x2[b], dirty |-> FALSE]
      BY <1>4 DEF Console!Open
    <2>2. x7' \in [of : Listed \cup {Console!NoOne}, config : Console!Configs, dirty : BOOLEAN] /\ x7'.of = b /\ ~x7'.dirty
      BY <2>1, ConsoleTyped
    <2>3. x13' \in BOOLEAN
      BY <1>1, ConsoleTyped DEF DraftTypes
    <2>4. Console!TypeOK'
      BY <1>1, <2>1, <2>2, <2>3 DEF Console!ConsoleInv, Console!TypeOK
    <2> QED
      BY <1>2, <2>1, <2>2, <2>4 DEF Console!ConsoleInv, Console!DraftIsOfShown
  <1> QED
    BY <1>3, <1>4

LEMMA EditStep ==
  ASSUME Console!ConsoleInv, Console!Edit \/ Console!Revert
  PROVE  Console!ConsoleInv'
  <1>1. UNCHANGED <<x1, x2, x3, x4, x5, x6, x9, x10, x11, x12, x13>>
    BY DEF Console!Edit, Console!Revert
  <1>2. Console!Shown' = Console!Shown
    BY <1>1 DEF Console!Shown, Console!Visible
  <1>3. CASE Console!Edit
    <2>1. x8' = x8 + 1 /\ x8' \in 0 .. MaxTyped /\ x7.of # Console!NoOne
      BY <1>3, ConsoleTyped, DeskAssumption DEF Console!Edit, Console!ConsoleAssumption
    <2>2. x7' = [x7 EXCEPT !.config.fields = x8 + 1, !.dirty = TRUE]
      BY <1>3 DEF Console!Edit
    <2>3. [x7.config EXCEPT !.fields = x8 + 1] \in Console!Configs
      BY <2>1, ConsoleTyped DEF Console!Configs
    <2>4. x7' \in DraftTypes /\ x7'.of = x7.of
      BY <2>2, <2>3, ConsoleTyped DEF DraftTypes
    <2>5. Console!TypeOK'
      BY <1>1, <2>1, <2>4 DEF Console!ConsoleInv, Console!TypeOK, DraftTypes
    <2> QED
      BY <1>1, <1>2, <2>1, <2>4, <2>5 DEF Console!ConsoleInv, Console!DraftIsOfShown
  <1>4. CASE Console!Revert
    <2>1. x7' = [of |-> Console!Shown, config |-> x2[Console!Shown], dirty |-> FALSE] /\ Console!Shown \in Listed /\ x8' = x8
      BY <1>4, ConsoleTyped DEF Console!Revert
    <2>2. x7' \in DraftTypes /\ x7'.of = Console!Shown /\ ~x7'.dirty
      BY <2>1, ConsoleTyped DEF DraftTypes
    <2>3. Console!TypeOK'
      BY <1>1, <2>1, <2>2 DEF Console!ConsoleInv, Console!TypeOK, DraftTypes
    <2> QED
      BY <1>1, <1>2, <2>2, <2>3 DEF Console!ConsoleInv, Console!DraftIsOfShown
  <1> QED
    BY <1>3, <1>4

LEMMA SendStep ==
  ASSUME Console!ConsoleInv, NEW kind \in Console!AllKinds \cup {"pause and save"}, NEW key, NEW b \in Listed,
         NEW next \in Listed \cup {Console!NoOne}, Console!Send(kind, key, b, x7.config, next)
  PROVE  Console!ConsoleInv'
  <1> DEFINE c == [id |-> x11 + 1, kind |-> kind, bot |-> b, config |-> x7.config, next |-> next, at |-> "sent"]
  <1>1. x11' = x11 + 1 /\ x11 + 1 \in 1 .. MaxAsked /\ x10' = x10 \cup {c}
    <2>1. x11 < MaxAsked /\ x11' = x11 + 1 /\ x10' = x10 \cup {c}
      BY DEF Console!Send
    <2>2. x11 \in 0 .. MaxAsked /\ MaxAsked \in Nat
      BY ConsoleTyped, DeskAssumption DEF Console!ConsoleAssumption
    <2>3. x11 < MaxAsked
      BY <2>1
    <2>4. x11 + 1 \in 1 .. MaxAsked
      BY <2>2, <2>3, NextBelow
    <2> HIDE DEF c
    <2> QED
      BY <2>1, <2>4
  <1>2. c \in Console!Calls
    BY <1>1, ConsoleTyped DEF Console!Calls
  <1>3. /\ UNCHANGED <<x1, x2, x3, x4, x5, x6, x7, x8, x12>>
        /\ x13' = (x13 \/ x10 # {})
    BY DEF Console!Send
  <1>4. x13' \in BOOLEAN
    BY <1>3, ConsoleTyped
  <1> HIDE DEF c
  <1>6. x10' \subseteq Console!Calls /\ x11' \in 0 .. MaxAsked
    <2>1. x10 \subseteq Console!Calls /\ MaxAsked \in Nat /\ x11 \in 0 .. MaxAsked /\ x11 < MaxAsked
      BY ConsoleTyped, DeskAssumption DEF Console!ConsoleAssumption, Console!Send
    <2>2. x11 + 1 \in 0 .. MaxAsked
      BY <2>1, NextBelow
    <2> QED
      BY <1>1, <1>2, <2>1, <2>2
  <1>5. Console!TypeOK'
    BY <1>3, <1>4, <1>6 DEF Console!ConsoleInv, Console!TypeOK
  <1> QED
    BY <1>3, <1>5, OthersStep

LEMMA AskCallStep ==
  ASSUME Console!ConsoleInv, (\E b \in Listed : Console!AskStatus(b) \/ Console!AskEntryMode(b) \/ Console!AskArchive(b)) \/ Console!AskSave
  PROVE  Console!ConsoleInv'
  <1>1. Askable \subseteq Console!AllKinds
    BY DeskAssumption DEF Console!ConsoleAssumption
  <1>2. ASSUME NEW b \in Listed, Console!AskStatus(b)
        PROVE  Console!ConsoleInv'
    BY <1>2, SendStep DEF Console!AskStatus, Console!AllKinds
  <1>3. ASSUME NEW b \in Listed, Console!AskEntryMode(b)
        PROVE  Console!ConsoleInv'
    BY <1>1, <1>3, SendStep DEF Console!AskEntryMode
  <1>4. ASSUME NEW b \in Listed, Console!AskArchive(b)
        PROVE  Console!ConsoleInv'
    <2>1. Console!ShownOf(Console!NoOne, Console!Visible \ {b}) \in Listed \cup {Console!NoOne}
      <3>1. Console!Visible \ {b} \subseteq Listed
        BY ConsoleTyped
      <3> QED
        BY <3>1, ShownFacts
    <2> QED
      BY <1>4, <2>1, SendStep DEF Console!AskArchive, Console!AllKinds
  <1>5. ASSUME Console!AskSave
        PROVE  Console!ConsoleInv'
    <2>1. Console!Shown \in Listed
      BY <1>5, ConsoleTyped DEF Console!AskSave
    <2> QED
      BY <1>5, <2>1, SendStep DEF Console!AskSave, Console!AllKinds
  <1> QED
    BY <1>2, <1>3, <1>4, <1>5

\* A request that has been served or refused is one still.
LEMMA ReplacedTyped ==
  ASSUME Console!ConsoleInv, NEW c \in x10, NEW d, Console!Replace(c, d),
         d = [c EXCEPT !.at = "ok"] \/ d = [c EXCEPT !.at = "refused"] \/ d = [c EXCEPT !.kind = "save", !.at = "sent"]
  PROVE  x10' \subseteq Console!Calls
  <1>1. c \in Console!Calls /\ x10 \subseteq Console!Calls
    BY ConsoleTyped
  <1>2. d \in Console!Calls
    BY <1>1 DEF Console!Calls, Console!AllKinds
  <1> QED
    BY <1>1, <1>2 DEF Console!Replace

LEMMA StatusTyped ==
  ASSUME Console!ConsoleInv, NEW b \in Listed, NEW s \in Console!Statuses, Console!SetStatus(b, s)
  PROVE  /\ x1' \in [Listed -> [status : Console!Statuses, config : Console!Configs]]
         /\ \A o \in Listed : x1'[o].config = x1[o].config
  <1>1. x1' = [x1 EXCEPT ![b].status = s] /\ x1 \in [Listed -> [status : Console!Statuses, config : Console!Configs]]
    BY ConsoleTyped DEF Console!SetStatus
  <1>2. [x1[b] EXCEPT !.status = s] \in [status : Console!Statuses, config : Console!Configs]
    BY <1>1
  <1> QED
    BY <1>1, <1>2

LEMMA ServedTyped ==
  ASSUME Console!ConsoleInv, NEW c \in x10,
         Console!ServeStatus(c) \/ Console!ServeEntryMode(c) \/ Console!ServeArchive(c) \/ Console!ServeSave(c) \/ Console!Refuse(c)
  PROVE  /\ x1' \in [Listed -> [status : Console!Statuses, config : Console!Configs]] /\ x10' \subseteq Console!Calls
         /\ \A b \in Listed : x1'[b].config.fields # x1[b].config.fields => x1[b].status \in {"paused", "stopped"}
  <1>1. c \in Console!Calls /\ c.bot \in Listed /\ c.config \in Console!Configs
    BY ConsoleTyped DEF Console!Calls
  <1>2. x1[c.bot] \in [status : Console!Statuses, config : Console!Configs] /\ x1 \in [Listed -> [status : Console!Statuses, config : Console!Configs]]
    BY <1>1, ConsoleTyped
  <1>3. CASE Console!ServeStatus(c)
    <2> DEFINE s == CASE c.kind = "resume" -> "running" [] c.kind = "stop" -> "stopped" [] OTHER -> "paused"
    <2>1. s \in Console!Statuses /\ Console!SetStatus(c.bot, s) /\ Console!Took(c)
      BY <1>3 DEF Console!ServeStatus, Console!Statuses
    <2> HIDE DEF s
    <2> QED
      BY <1>1, <2>1, StatusTyped, ReplacedTyped DEF Console!Took
  <1>4. CASE Console!ServeEntryMode(c)
    <2> DEFINE e == IF c.kind = "sell_only" THEN "sell_only" ELSE "normal"
    <2>1. x1' = [x1 EXCEPT ![c.bot].config.entry = e] /\ Console!Took(c) /\ e \in {"normal", "sell_only"}
      BY <1>4 DEF Console!ServeEntryMode
    <2> HIDE DEF e
    <2>2. /\ [x1[c.bot].config EXCEPT !.entry = e] \in Console!Configs
          /\ [x1[c.bot].config EXCEPT !.entry = e].fields = x1[c.bot].config.fields
      BY <1>2, <2>1 DEF Console!Configs
    <2>3. x1'[c.bot].config.fields = x1[c.bot].config.fields
      BY <1>1, <1>2, <2>1, <2>2
    <2>4. x1' \in [Listed -> [status : Console!Statuses, config : Console!Configs]]
      BY <1>1, <1>2, <2>1, <2>2
    <2>5. \A b \in Listed : x1'[b].config.fields = x1[b].config.fields
      BY <1>1, <1>2, <2>1, <2>3
    <2> QED
      BY <2>1, <2>4, <2>5, ReplacedTyped DEF Console!Took
  <1>5. CASE Console!ServeArchive(c)
    BY <1>1, <1>5, StatusTyped, ReplacedTyped DEF Console!ServeArchive, Console!Took, Console!Statuses
  <1>6. CASE Console!ServeSave(c)
    <2>1. /\ x1' = [x1 EXCEPT ![c.bot].config = c.config] /\ Console!Took(c)
          /\ x1[c.bot].status \in {"paused", "stopped"}
      BY <1>6 DEF Console!ServeSave, Console!MaySave
    <2>2. x1' \in [Listed -> [status : Console!Statuses, config : Console!Configs]]
      BY <1>1, <1>2, <2>1
    <2>3. \A b \in Listed : b = c.bot \/ x1'[b] = x1[b]
      BY <1>1, <1>2, <2>1
    <2> QED
      BY <2>1, <2>2, <2>3, ReplacedTyped DEF Console!Took
  <1>7. CASE Console!Refuse(c)
    BY <1>2, <1>7, ReplacedTyped DEF Console!Refuse
  <1> QED
    BY <1>3, <1>4, <1>5, <1>6, <1>7

LEMMA ServeStep ==
  ASSUME Console!ConsoleInv, Console!Serve
  PROVE  Console!ConsoleInv' /\ Console!SavesHaltedBot
  <1>1. UNCHANGED <<Console!page, x11, x13>>
    BY DEF Console!Serve
  <1>2. /\ x1' \in [Listed -> [status : Console!Statuses, config : Console!Configs]] /\ x10' \subseteq Console!Calls
        /\ \A b \in Listed : x1'[b].config.fields # x1[b].config.fields => x1[b].status \in {"paused", "stopped"}
    BY ServedTyped DEF Console!Serve
  <1>3. Console!TypeOK'
    BY <1>1, <1>2 DEF Console!ConsoleInv, Console!TypeOK, Console!page
  <1> QED
    BY <1>1, <1>2, <1>3, OthersStep DEF Console!page, Console!SavesHaltedBot

LEMMA WorldStep ==
  ASSUME Console!ConsoleInv, NEW b \in Listed, Console!World(b)
  PROVE  Console!ConsoleInv' /\ Console!SavesHaltedBot
  <1>1. UNCHANGED <<Console!page, x10, x13>>
    BY DEF Console!World
  <1>2. x11' \in 0 .. MaxAsked
    BY ConsoleTyped, DeskAssumption DEF Console!World, Console!ConsoleAssumption
  <1>3. /\ x1' \in [Listed -> [status : Console!Statuses, config : Console!Configs]]
        /\ \A o \in Listed : x1'[o].config = x1[o].config
    BY StatusTyped DEF Console!World, Console!Statuses
  <1>4. Console!TypeOK'
    BY <1>1, <1>2, <1>3 DEF Console!ConsoleInv, Console!TypeOK, Console!page
  <1> QED
    BY <1>1, <1>3, <1>4, OthersStep DEF Console!page, Console!SavesHaltedBot

LEMMA AnswerStep ==
  ASSUME Console!ConsoleInv, Console!Answer
  PROVE  /\ Console!ConsoleInv'
         /\ x7.dirty /\ ~x13' => x7'.of = x7.of /\ x7'.config = x7.config
  <1>1. PICK c \in x10 : Console!AnswerBad(c) \/ Console!AnswerPlain(c) \/ Console!AnswerPause(c) \/ Console!AnswerSave(c) \/ Console!AnswerArchive(c)
    BY DEF Console!Answer
  <1>2. c \in Console!Calls /\ c.bot \in Listed /\ c.config \in Console!Configs /\ c.next \in Listed \cup {Console!NoOne}
    BY ConsoleTyped DEF Console!Calls
  <1>3. CASE Console!AnswerBad(c) \/ Console!AnswerPlain(c)
    <2>1. /\ UNCHANGED <<x1, x2, x3, x4, x5, x6, x7, x8, x11, x13>>
          /\ x12' \in BOOLEAN /\ x10' \subseteq Console!Calls
      BY <1>3, ConsoleTyped DEF Console!AnswerBad, Console!AnswerPlain, Console!Settled
    <2>2. Console!TypeOK'
      BY <2>1 DEF Console!ConsoleInv, Console!TypeOK
    <2> QED
      BY <2>1, <2>2, OthersStep
  <1>4. CASE Console!AnswerPause(c)
    <2>1. UNCHANGED <<x1, Console!page, x11, x13>> /\ x10' \subseteq Console!Calls
      BY <1>4, ReplacedTyped DEF Console!AnswerPause
    <2>2. Console!TypeOK'
      BY <2>1 DEF Console!ConsoleInv, Console!TypeOK, Console!page
    <2> QED
      BY <2>1, <2>2, OthersStep DEF Console!page
  <1>5. CASE Console!AnswerSave(c)
    <2>1. /\ UNCHANGED <<x1, x2, x3, x4, x5, x6, x8, x11>> /\ x12' = TRUE
          /\ x10' \subseteq Console!Calls
          /\ x7' = [x7 EXCEPT !.config = c.config, !.of = c.bot, !.dirty = FALSE]
          /\ x13' = (x13 \/ x7 # [of |-> c.bot, config |-> c.config, dirty |-> TRUE])
      BY <1>5, ConsoleTyped DEF Console!AnswerSave, Console!Settled
    <2>2. x7' \in DraftTypes /\ x7'.of = c.bot /\ x7'.config = c.config /\ ~x7'.dirty
      BY <1>2, <2>1, ConsoleTyped DEF DraftTypes
    <2>3. x13' \in BOOLEAN /\ Console!Shown' = Console!Shown
      BY <2>1, ConsoleTyped DEF Console!Shown, Console!Visible
    <2>4. Console!TypeOK'
      BY <2>1, <2>2, <2>3 DEF Console!ConsoleInv, Console!TypeOK, DraftTypes
    <2>5. ~x13' => ~x13 /\ x7.of = c.bot /\ x7.config = c.config
      <3>1. ~x13' => ~x13 /\ x7 = [of |-> c.bot, config |-> c.config, dirty |-> TRUE]
        BY <2>1
      <3> QED
        BY <3>1
    <2> QED
      BY <2>1, <2>2, <2>3, <2>4, <2>5 DEF Console!ConsoleInv, Console!DraftIsOfShown
  <1>6. CASE Console!AnswerArchive(c)
    <2>1. /\ UNCHANGED <<x1, x3, x8, x11, x2>> /\ x12' = TRUE /\ x10' \subseteq Console!Calls
          /\ x4' = x4 \cup {c.bot} /\ x5' = c.next /\ Console!Hydrate
          /\ x13' = (x13 \/ x7.dirty)
      BY <1>6, ConsoleTyped DEF Console!AnswerArchive, Console!Settled
    <2>2. x4' \subseteq Listed /\ x2' \in [Listed -> Console!Configs] /\ x13' \in BOOLEAN /\ x5' \in Listed \cup {Console!NoOne}
      BY <1>2, <2>1, ConsoleTyped DEF DraftTypes
    <2>3. /\ x6' = Console!Shown' /\ x6' \in Listed \cup {Console!NoOne} /\ x7' \in DraftTypes
          /\ ~x13 => x7'.of = Console!Shown'
          /\ x7'.dirty => x7'.of # Console!NoOne
      BY <2>1, <2>2, HydrateStep
    <2>4. Console!TypeOK'
      BY <2>1, <2>2, <2>3 DEF Console!ConsoleInv, Console!TypeOK, DraftTypes
    <2> QED
      BY <2>1, <2>3, <2>4 DEF Console!ConsoleInv, Console!DraftIsOfShown
  <1> QED
    BY <1>1, <1>3, <1>4, <1>5, <1>6

LEMMA RefreshStep ==
  ASSUME Console!ConsoleInv, Console!Refresh
  PROVE  /\ Console!ConsoleInv'
         /\ x7.dirty /\ ~x13' => x7' = x7
  <1>1. /\ UNCHANGED <<x1, x3, x8, x9, x10, x11, x5>> /\ x12' = FALSE /\ Console!Hydrate
        /\ x2' = [b \in Listed |-> IF x1[b].status = "gone" THEN x2[b] ELSE x1[b].config]
        /\ x4' = x4 \cup {b \in Listed : x1[b].status = "gone"}
        /\ x13' = (x13 \/ (x7.dirty /\ x7' # x7))
    BY DEF Console!Refresh
  <1>2. x4' \subseteq Listed /\ x2' \in [Listed -> Console!Configs] /\ x13' \in BOOLEAN
    BY <1>1, ConsoleTyped DEF DraftTypes
  <1>3. /\ x6' = Console!Shown' /\ x6' \in Listed \cup {Console!NoOne} /\ x7' \in DraftTypes
        /\ ~x13 => x7'.of = Console!Shown'
        /\ x7'.dirty => x7'.of # Console!NoOne
    BY <1>1, <1>2, HydrateStep
  <1>4. Console!TypeOK'
    BY <1>1, <1>2, <1>3 DEF Console!ConsoleInv, Console!TypeOK, DraftTypes
  <1> QED
    BY <1>1, <1>3, <1>4 DEF Console!ConsoleInv, Console!DraftIsOfShown

LEMMA TickStep ==
  ASSUME Console!ConsoleInv, Console!Tick
  PROVE  /\ Console!ConsoleInv'
         /\ x7.dirty /\ ~x13' => x7' = x7
  <1>1. /\ UNCHANGED <<x1, x2, x4, x5, x8, x9, x10, x11, x12, x13>> /\ Console!Hydrate
        /\ x3' = [b \in Listed |-> [status |-> x1[b].status, entry |-> x1[b].config.entry]]
    BY DEF Console!Tick
  <1>2. x3' \in [Listed -> [status : Console!Statuses, entry : {"normal", "sell_only"}]]
    <2>1. \A b \in Listed : x1[b].status \in Console!Statuses /\ x1[b].config.entry \in {"normal", "sell_only"}
      BY ConsoleTyped DEF Console!Configs
    <2> QED
      BY <1>1, <2>1
  <1>3. x4' \subseteq Listed /\ x2' \in [Listed -> Console!Configs] /\ x13' = x13
    BY <1>1, ConsoleTyped
  <1>4. /\ x6' = Console!Shown' /\ x6' \in Listed \cup {Console!NoOne} /\ x7' \in DraftTypes
        /\ ~x13 => x7'.of = Console!Shown'
        /\ x7'.dirty => x7'.of # Console!NoOne
    BY <1>1, <1>3, HydrateStep
  <1>5. Console!TypeOK'
    BY <1>1, <1>2, <1>4 DEF Console!ConsoleInv, Console!TypeOK, DraftTypes
  <1>6. Console!ConsoleInv'
    BY <1>1, <1>4, <1>5 DEF Console!ConsoleInv, Console!DraftIsOfShown
  <1>7. ASSUME x7.dirty, ~x13'
        PROVE  x7' = x7
    <2>1. x6 = Console!Shown /\ x7.of = Console!Shown /\ Console!Shown # Console!NoOne
      BY <1>1, <1>7 DEF Console!ConsoleInv, Console!DraftIsOfShown
    <2>2. Console!ShownOf(x5', Listed \ x4') = Console!Shown
      BY <1>1 DEF Console!Shown, Console!Visible
    <2> QED
      BY <1>1, <2>1, <2>2 DEF Console!Hydrate
  <1> QED
    BY <1>6, <1>7

LEMMA ConsoleStarts == Console!Init => Console!ConsoleInv
  <1> SUFFICES ASSUME Console!Init PROVE Console!ConsoleInv
    OBVIOUS
  <1>1. Listed # {} /\ [entry |-> "normal", fields |-> 0] \in Console!Configs /\ MaxTyped \in Nat /\ MaxAsked \in Nat
    BY DeskAssumption DEF Console!ConsoleAssumption, Console!Configs
  <1>2. x5 \in Listed /\ Console!Shown = x5 /\ x6 = x5
    <2>1. x5 \in Listed /\ Console!Visible = Listed
      BY <1>1, ShownFacts DEF Console!Init, Console!Visible
    <2> QED
      BY <2>1, ShownFacts DEF Console!Init, Console!Shown
  <1>3. /\ x1 \in [Listed -> [status : Console!Statuses, config : Console!Configs]] /\ x2 \in [Listed -> Console!Configs]
        /\ x3 \in [Listed -> [status : Console!Statuses, entry : {"normal", "sell_only"}]]
    BY <1>1 DEF Console!Init, Console!Statuses
  <1>4. x7 \in DraftTypes /\ x7.of = x5 /\ ~x7.dirty
    BY <1>2, <1>3 DEF Console!Init, DraftTypes
  <1>5. Console!TypeOK
    <2>1. x4 = {} /\ x8 = 0 /\ x10 = {} /\ x11 = 0 /\ x12 = FALSE /\ x13 = FALSE
      BY DEF Console!Init
    <2>2. x8 \in 0 .. MaxTyped /\ x11 \in 0 .. MaxAsked
      BY <1>1, <2>1
    <2> QED
      BY <1>2, <1>3, <1>4, <2>1, <2>2 DEF Console!TypeOK, DraftTypes
  <1> QED
    BY <1>2, <1>4, <1>5 DEF Console!ConsoleInv, Console!DraftIsOfShown

LEMMA ConsoleStays == Console!ConsoleInv /\ UNCHANGED Console!vars => Console!ConsoleInv'
  BY DEF Console!vars, Console!page, Console!ConsoleInv, Console!TypeOK, Console!DraftIsOfShown, Console!Shown, Console!Visible

LEMMA ConsoleSteps == Console!ConsoleInv /\ [Console!Next]_Console!vars => Console!ConsoleInv'
  BY PanelStep, EditStep, AskCallStep, ServeStep, WorldStep, AnswerStep, RefreshStep, TickStep, ConsoleStays
  DEF Console!Next, Console!Operator

\* The draft under the panel's title stays the shown bot's own, for any list of bots and
\* requests, until what the draft or a request was about changed under it (the hydrating
\* effect, openEditPanel and afterSuccess).
THEOREM DraftsStayOfShown == Console!Spec => []Console!ConsoleInv
  BY ConsoleSteps, ConsoleStarts, PTL DEF Console!Spec

LEMMA ServerStands ==
  ASSUME Console!Operator \/ Console!Answer \/ Console!Refresh \/ Console!Tick \/ UNCHANGED Console!vars
  PROVE  x1' = x1
  <1>1. Console!Operator => x1' = x1
    BY DEF Console!Operator, Console!Open, Console!AskStatus, Console!AskEntryMode, Console!AskArchive, Console!AskSave, Console!Send, Console!Edit, Console!Revert
  <1>2. Console!Answer => x1' = x1
    BY DEF Console!Answer, Console!AnswerBad, Console!AnswerPlain, Console!AnswerPause, Console!AnswerSave, Console!AnswerArchive
  <1> QED
    BY <1>1, <1>2 DEF Console!Refresh, Console!Tick, Console!vars

LEMMA ConsoleActions == Console!ConsoleInv /\ [Console!Next]_Console!vars => Console!TypedStays /\ Console!SavesHaltedBot
  <1> SUFFICES ASSUME Console!ConsoleInv, [Console!Next]_Console!vars PROVE Console!TypedStays /\ Console!SavesHaltedBot
    OBVIOUS
  <1>1. Console!TypedStays
    BY AnswerStep, RefreshStep, TickStep DEF Console!TypedStays
  <1>2. Console!SavesHaltedBot
    BY ServeStep, WorldStep, ServerStands DEF Console!Next, Console!SavesHaltedBot
  <1> QED
    BY <1>1, <1>2

-----------------------------------------------------------------------------
\* The stream: x1 is world, x2 changes, x3 drops, x4 failures, x5 reads, x6 primed,
\* x7 sent, x8 wire, x9 telemetry, x10 statusOf, x11 keyOf, x12 seen, x13 toasts, x14 board,
\* x15 due, x16 asked and x17 missed.

\* Its finite sets are those the library's theorems speak of.
LEMMA SameStreamSets ==
  \A S : (Stream!IsFiniteSet(S) <=> IsFiniteSet(S)) /\ Stream!Cardinality(S) = Cardinality(S)
  BY DEF Stream!IsFiniteSet, IsFiniteSet, Stream!Cardinality, Cardinality

LEMMA NothingRead == Stream!None \notin Stream!Rows
  <1>1. DOMAIN Stream!None = {"row"}
    BY DEF Stream!None
  <1>2. ASSUME NEW r \in Stream!Rows PROVE DOMAIN r = {"status", "execution"}
    BY DEF Stream!Rows
  <1> QED
    BY <1>1, <1>2

LEMMA LaterOrders ==
  /\ \A e : Stream!Later(e, e)
  /\ \A e, f, g \in Stream!Executions : Stream!Later(e, f) /\ Stream!Later(f, g) => Stream!Later(e, g)
  <1>1. \A e \in Stream!Executions : e.n \in Nat
    BY DeskAssumption DEF Stream!Executions, Stream!NoExecution, Stream!DeskStreamAssumption
  <1> QED
    BY <1>1 DEF Stream!Later

LEMMA FollowsOrders ==
  ASSUME NEW p \in [Streamed -> Stream!Rows \cup {Stream!None}], NEW q \in [Streamed -> Stream!Rows \cup {Stream!None}],
         NEW r \in [Streamed -> Stream!Rows \cup {Stream!None}]
  PROVE  /\ Stream!Follows(p, q) /\ Stream!Follows(q, r) => Stream!Follows(p, r)
         /\ Stream!Follows(p, p)
  <1>1. \A b \in Streamed : /\ p[b] # Stream!None => p[b].execution \in Stream!Executions
                            /\ q[b] # Stream!None => q[b].execution \in Stream!Executions
                            /\ r[b] # Stream!None => r[b].execution \in Stream!Executions
    BY DEF Stream!Rows
  <1>2. Stream!Follows(p, p)
    BY LaterOrders DEF Stream!Follows
  <1>3. ASSUME Stream!Follows(p, q), Stream!Follows(q, r), NEW b \in Streamed, p[b] # Stream!None
        PROVE  r[b] # Stream!None /\ Stream!Later(p[b].execution, r[b].execution)
    <2>1. q[b] # Stream!None /\ Stream!Later(p[b].execution, q[b].execution)
      BY <1>3 DEF Stream!Follows
    <2>2. r[b] # Stream!None /\ Stream!Later(q[b].execution, r[b].execution)
      BY <1>3, <2>1 DEF Stream!Follows
    <2> QED
      BY <1>1, <1>3, <2>1, <2>2, LaterOrders
  <1> QED
    BY <1>2, <1>3 DEF Stream!Follows

\* A sequence without one of its elements.
LEMMA Removal ==
  ASSUME NEW S, NEW s \in Seq(S), NEW i \in 1 .. Len(s)
  PROVE  /\ Stream!RemoveAt(s, i) \in Seq(S)
         /\ Len(Stream!RemoveAt(s, i)) = Len(s) - 1
         /\ \A k \in 1 .. Len(Stream!RemoveAt(s, i)) : \E j \in 1 .. Len(s) : Stream!RemoveAt(s, i)[k] = s[j]
  <1> DEFINE a == SubSeq(s, 1, i - 1)  z == SubSeq(s, i + 1, Len(s))
  <1>1. a \in Seq(S) /\ Len(a) = i - 1 /\ \A k \in 1 .. i - 1 : a[k] = s[k]
    <2>1. 1 \in Int /\ i - 1 \in Int /\ \A k \in 1 .. i - 1 : s[k] \in S
      OBVIOUS
    <2>2. /\ a \in Seq(S) /\ Len(a) = IF 1 <= i - 1 THEN i - 1 - 1 + 1 ELSE 0
          /\ \A k \in 1 .. i - 1 - 1 + 1 : a[k] = s[1 + k - 1]
      BY <2>1, SubSeqProperties
    <2> HIDE DEF a
    <2> QED
      BY <2>2
  <1>2. z \in Seq(S) /\ Len(z) = Len(s) - i /\ \A k \in 1 .. Len(s) - i : z[k] = s[i + k]
    <2>1. i + 1 \in Int /\ Len(s) \in Int /\ \A k \in i + 1 .. Len(s) : s[k] \in S
      OBVIOUS
    <2>2. /\ z \in Seq(S) /\ Len(z) = IF i + 1 <= Len(s) THEN Len(s) - (i + 1) + 1 ELSE 0
          /\ \A k \in 1 .. Len(s) - (i + 1) + 1 : z[k] = s[(i + 1) + k - 1]
      BY <2>1, SubSeqProperties
    <2> HIDE DEF z
    <2> QED
      BY <2>2
  <1>3. Stream!RemoveAt(s, i) = a \o z
    BY DEF Stream!RemoveAt
  <1> HIDE DEF a, z
  <1>4. /\ a \o z \in Seq(S) /\ Len(a \o z) = Len(a) + Len(z)
        /\ \A k \in 1 .. Len(a) + Len(z) : (a \o z)[k] = IF k <= Len(a) THEN a[k] ELSE z[k - Len(a)]
    BY <1>1, <1>2, ConcatProperties
  <1>5. Len(a \o z) = Len(s) - 1
    BY <1>1, <1>2, <1>4
  <1>6. ASSUME NEW k \in 1 .. Len(s) - 1 PROVE \E j \in 1 .. Len(s) : (a \o z)[k] = s[j]
    <2>1. k \in Int /\ i \in Int /\ Len(s) \in Nat
      OBVIOUS
    <2>2. CASE k <= i - 1
      BY <1>1, <1>2, <1>4, <2>2
    <2>3. CASE ~ (k <= i - 1)
      <3>1. k - (i - 1) \in 1 .. Len(s) - i /\ k + 1 \in 1 .. Len(s) /\ i + (k - (i - 1)) = k + 1
        BY <2>1, <2>3
      <3>2. (a \o z)[k] = z[k - (i - 1)]
        BY <1>1, <1>2, <1>4, <2>3
      <3>3. z[k - (i - 1)] = s[i + (k - (i - 1))]
        BY <1>2, <3>1
      <3>4. (a \o z)[k] = s[k + 1]
        BY <3>1, <3>2, <3>3
      <3> QED
        BY <3>1, <3>4
    <2> QED
      BY <2>2, <2>3
  <1> QED
    BY <1>3, <1>4, <1>5, <1>6

\* A finite set laid out in a sequence, and nothing else.
LEMMA LaidOut ==
  ASSUME NEW S, IsFiniteSet(S)
  PROVE  /\ Stream!SetToSeq(S) \in Seq(S)
         /\ \A x \in S : \E i \in 1 .. Len(Stream!SetToSeq(S)) : Stream!SetToSeq(S)[i] = x
  <1> DEFINE n == Cardinality(S)  f == Stream!SetToSeq(S)
  <1>1. n \in Nat /\ ExistsBijection(1 .. n, S)
    BY FS_CardinalityType
  <1>2. PICK g : g \in Bijection(1 .. n, S)
    BY <1>1 DEF ExistsBijection
  <1>3. g \in [1 .. n -> S] /\ IsInjective(g)
    BY <1>2 DEF Bijection, Injection
  <1>4. f \in [1 .. n -> S] /\ IsInjective(f)
    BY <1>3, SameStreamSets DEF Stream!SetToSeq, Stream!IsInjective, IsInjective
  <1> HIDE DEF n, f
  <1>5. f \in Injection(1 .. n, S)
    BY <1>4 DEF Injection
  <1>6. Cardinality(1 .. n) = n
    BY <1>1, FS_Interval
  <1>7. f \in Surjection(1 .. n, S)
    BY <1>5, <1>6, FS_Injection DEF n
  <1>8. \A x \in S : \E i \in 1 .. n : f[i] = x
    BY <1>7 DEF Surjection
  <1>9. f \in Seq(S) /\ Len(f) = n
    BY <1>1, <1>4, SeqDef
  <1> QED
    BY <1>8, <1>9 DEF f


LEMMA ImageFinite ==
  ASSUME NEW S, IsFiniteSet(S), NEW f, DOMAIN f = S, NEW T, T = {f[x] : x \in S}, f = [x \in S |-> f[x]]
  PROVE  IsFiniteSet(T)
  <1>1. f \in Surjection(S, T)
    BY DEF Surjection
  <1> QED
    BY <1>1, FS_Surjection

LEMMA EventsFinite ==
  ASSUME NEW p \in Stream!Payloads
  PROVE  Stream!DeskEvents(p) \subseteq Stream!Events /\ IsFiniteSet(Stream!DeskEvents(p))
  <1> DEFINE C == {c \in Streamed : p[c].execution.status \in Stream!Announced}
             f == [b \in C |-> Stream!Toast("execution", b, p[b].execution)]
  <1>1. Stream!DeskEvents(p) = {f[x] : x \in C}
    BY DEF Stream!DeskEvents
  <1>2. IsFiniteSet(C)
    BY DeskAssumption, SameStreamSets, FS_Subset DEF Stream!DeskStreamAssumption
  <1>3. IsFiniteSet(Stream!DeskEvents(p))
    <2>1. DOMAIN f = C /\ f = [x \in C |-> f[x]]
      OBVIOUS
    <2> HIDE DEF C, f
    <2> QED
      BY <1>1, <1>2, <2>1, ImageFinite
  <1>4. Stream!DeskEvents(p) \subseteq Stream!Events
    BY DEF Stream!DeskEvents, Stream!Toast, Stream!Events, Stream!Payloads, Stream!Rows
  <1> QED
    BY <1>3, <1>4

LEMMA ToldFinite ==
  ASSUME NEW p \in Stream!Payloads, NEW of \in [Streamed -> BotStatuses], NEW old
  PROVE  LET told == {Stream!Toast("status", b, p[b].status) : b \in {c \in Streamed : p[c].status # of[c]}} \ old
         IN  told \subseteq Stream!Toasts /\ IsFiniteSet(told)
  <1> DEFINE C == {c \in Streamed : p[c].status # of[c]}
             f == [b \in C |-> Stream!Toast("status", b, p[b].status)]
             all == {Stream!Toast("status", b, p[b].status) : b \in {c \in Streamed : p[c].status # of[c]}}
  <1>1. all = {f[x] : x \in C}
    OBVIOUS
  <1>2. IsFiniteSet(C)
    BY DeskAssumption, SameStreamSets, FS_Subset DEF Stream!DeskStreamAssumption
  <1>3. IsFiniteSet(all)
    <2>1. DOMAIN f = C /\ f = [x \in C |-> f[x]]
      OBVIOUS
    <2> HIDE DEF C, f, all
    <2> QED
      BY <1>1, <1>2, <2>1, ImageFinite
  <1>4. all \subseteq Stream!Toasts
    BY DEF Stream!Toast, Stream!Toasts, Stream!Payloads, Stream!Rows
  <1> HIDE DEF all
  <1>5. all \ old \subseteq Stream!Toasts /\ IsFiniteSet(all \ old)
    BY <1>3, <1>4, FS_Subset
  <1> QED
    BY <1>5 DEF all

\* The toasts that stay on the page.
LEMMA KeptToasts ==
  ASSUME x13 \in Seq(Stream!Toasts), NEW new \in SUBSET Stream!Toasts, IsFiniteSet(new)
  PROVE  /\ Stream!PushToasts(new) \in Seq(Stream!Toasts) /\ Len(Stream!PushToasts(new)) <= Kept
         /\ \A i \in DOMAIN Stream!PushToasts(new) :
              Stream!PushToasts(new)[i] \in new \/ Stream!Contains(x13, Stream!PushToasts(new)[i])
  <1> DEFINE fresh == {t \in new : ~Stream!Contains(x13, t)}
             q == Stream!SetToSeq(fresh)
             all == x13 \o q
             from == IF Len(all) > Kept THEN Len(all) - Kept + 1 ELSE 1
  <1>1. IsFiniteSet(fresh) /\ fresh \subseteq Stream!Toasts
    BY FS_Subset
  <1>2. q \in Seq(fresh)
    <2> HIDE DEF fresh
    <2> QED
      BY <1>1, LaidOut
  <1>3. q \in Seq(Stream!Toasts) /\ \A i \in 1 .. Len(q) : q[i] \in new
    <2>1. fresh \subseteq new /\ fresh \subseteq Stream!Toasts
      OBVIOUS
    <2> HIDE DEF fresh, q
    <2>2. \A i \in 1 .. Len(q) : q[i] \in fresh
      BY <1>2
    <2>3. q \in Seq(Stream!Toasts)
      BY <1>2, <2>1, SeqMonotonic
    <2> QED
      BY <2>1, <2>2, <2>3
  <1> HIDE DEF q
  <1>4. /\ all \in Seq(Stream!Toasts) /\ Len(all) = Len(x13) + Len(q)
        /\ \A i \in 1 .. Len(all) : all[i] = IF i <= Len(x13) THEN x13[i] ELSE q[i - Len(x13)]
    BY <1>3, ConcatProperties
  <1> HIDE DEF all
  <1>5. ASSUME NEW i \in 1 .. Len(all) PROVE all[i] \in new \/ Stream!Contains(x13, all[i])
    <2>1. CASE i <= Len(x13)
      BY <1>4, <2>1 DEF Stream!Contains
    <2>2. CASE ~ (i <= Len(x13))
      <3>1. i - Len(x13) \in 1 .. Len(q)
        BY <1>3, <1>4, <2>2
      <3> QED
        BY <1>3, <1>4, <2>2, <3>1
    <2> QED
      BY <2>1, <2>2
  <1>6. Len(all) \in Nat /\ Kept \in Nat \ {0} /\ from \in Int
        /\ 1 <= from
        /\ IF from <= Len(all) THEN Len(all) - from + 1 <= Kept ELSE 0 <= Kept
    BY <1>4, DeskAssumption DEF Stream!DeskStreamAssumption
  <1> HIDE DEF from
  <1>7. \A i \in from .. Len(all) : i \in 1 .. Len(all) /\ all[i] \in Stream!Toasts
    BY <1>4, <1>6
  <1>8. /\ SubSeq(all, from, Len(all)) \in Seq(Stream!Toasts)
        /\ Len(SubSeq(all, from, Len(all))) = IF from <= Len(all) THEN Len(all) - from + 1 ELSE 0
        /\ \A i \in 1 .. Len(all) - from + 1 : SubSeq(all, from, Len(all))[i] = all[from + i - 1]
    BY <1>6, <1>7, SubSeqProperties
  <1>9. Stream!PushToasts(new) = SubSeq(all, from, Len(all))
    BY DEF Stream!PushToasts, all, from, q
  <1> DEFINE r == SubSeq(all, from, Len(all))
  <1>10. r \in Seq(Stream!Toasts) /\ Len(r) <= Kept
    BY <1>6, <1>8
  <1>11. ASSUME NEW i \in 1 .. Len(r) PROVE r[i] \in new \/ Stream!Contains(x13, r[i])
    <2>1. i \in 1 .. Len(all) - from + 1
      BY <1>6, <1>8
    <2>2. from + i - 1 \in 1 .. Len(all)
      BY <1>6, <2>1
    <2>3. r[i] = all[from + i - 1]
      BY <1>8, <2>1
    <2> QED
      BY <1>5, <2>2, <2>3
  <1> HIDE DEF r
  <1>12. DOMAIN r = 1 .. Len(r)
    BY <1>10
  <1> QED
    BY <1>9, <1>10, <1>11, <1>12 DEF r

\* What a push puts on the wire: the payload and then the announcements.
LEMMA PutOnWire ==
  ASSUME NEW w \in Seq(Stream!Messages), NEW p \in Stream!Payloads, NEW e \in Seq(Stream!Events)
  PROVE  LET w2 == w \o <<Stream!Message("runtime", p)>> \o [k \in DOMAIN e |-> Stream!Message("event", e[k])]
         IN  /\ w2 \in Seq(Stream!Messages) /\ Len(w2) = Len(w) + 1 + Len(e)
             /\ \A i \in 1 .. Len(w) : w2[i] = w[i]
             /\ w2[Len(w) + 1] = Stream!Message("runtime", p)
             /\ \A k \in 1 .. Len(e) : w2[Len(w) + 1 + k] = Stream!Message("event", e[k])
  <1> DEFINE one == <<Stream!Message("runtime", p)>>
             told == [k \in DOMAIN e |-> Stream!Message("event", e[k])]
             half == w \o one
  <1>1. Stream!Message("runtime", p) \in Stream!Messages /\ \A k \in DOMAIN e : Stream!Message("event", e[k]) \in Stream!Messages
    BY DEF Stream!Messages, Stream!Message
  <1>2. one \in Seq(Stream!Messages) /\ Len(one) = 1 /\ one[1] = Stream!Message("runtime", p)
    BY <1>1
  <1>3. told \in Seq(Stream!Messages) /\ Len(told) = Len(e) /\ \A k \in 1 .. Len(e) : told[k] = Stream!Message("event", e[k])
    BY <1>1
  <1> HIDE DEF one, told
  <1>4. /\ half \in Seq(Stream!Messages) /\ Len(half) = Len(w) + 1
        /\ \A i \in 1 .. Len(w) + 1 : half[i] = IF i <= Len(w) THEN w[i] ELSE one[i - Len(w)]
    <2>1. /\ half \in Seq(Stream!Messages) /\ Len(half) = Len(w) + Len(one)
          /\ \A i \in 1 .. Len(w) + Len(one) :
               half[i] = IF i <= Len(w) THEN w[i] ELSE one[i - Len(w)]
      BY <1>2, ConcatProperties
    <2> HIDE DEF half
    <2> QED
      BY <1>2, <2>1
  <1> HIDE DEF half
  <1>5. /\ half \o told \in Seq(Stream!Messages) /\ Len(half \o told) = Len(w) + 1 + Len(e)
        /\ \A i \in 1 .. Len(w) + 1 + Len(e) :
             (half \o told)[i] = IF i <= Len(w) + 1 THEN half[i] ELSE told[i - (Len(w) + 1)]
    <2>0. half \in Seq(Stream!Messages) /\ told \in Seq(Stream!Messages)
      BY <1>3, <1>4
    <2>1. /\ half \o told \in Seq(Stream!Messages) /\ Len(half \o told) = Len(half) + Len(told)
          /\ \A i \in 1 .. Len(half) + Len(told) :
               (half \o told)[i] = IF i <= Len(half) THEN half[i] ELSE told[i - Len(half)]
      BY <2>0, ConcatProperties
    <2>2. Len(half) = Len(w) + 1 /\ Len(told) = Len(e)
      BY <1>3, <1>4
    <2> DEFINE both == half \o told
    <2> HIDE DEF both
    <2>3. /\ both \in Seq(Stream!Messages) /\ Len(both) = Len(half) + Len(told)
          /\ \A i \in 1 .. Len(half) + Len(told) :
               both[i] = IF i <= Len(half) THEN half[i] ELSE told[i - Len(half)]
      BY <2>1 DEF both
    <2>4. /\ both \in Seq(Stream!Messages) /\ Len(both) = Len(w) + 1 + Len(e)
          /\ \A i \in 1 .. Len(w) + 1 + Len(e) :
               both[i] = IF i <= Len(w) + 1 THEN half[i] ELSE told[i - (Len(w) + 1)]
      BY <2>2, <2>3
    <2> QED
      BY <2>4 DEF both
  <1> DEFINE w2 == half \o told
  <1> HIDE DEF w2
  <1>6. \A i \in 1 .. Len(w) : w2[i] = w[i]
    BY <1>4, <1>5 DEF w2
  <1>7. w2[Len(w) + 1] = Stream!Message("runtime", p)
    <2>1. Len(w) + 1 \in 1 .. Len(w) + 1 + Len(e) /\ Len(w) + 1 \in 1 .. Len(w) + 1 /\ Len(w) + 1 - Len(w) = 1
      OBVIOUS
    <2>2. w2[Len(w) + 1] = half[Len(w) + 1]
      BY <1>5, <2>1 DEF w2
    <2>3. half[Len(w) + 1] = one[1]
      BY <1>4, <2>1
    <2> QED
      BY <1>2, <2>2, <2>3
  <1>8. ASSUME NEW k \in 1 .. Len(e) PROVE w2[Len(w) + 1 + k] = Stream!Message("event", e[k])
    <2>1. /\ Len(w) + 1 + k \in 1 .. Len(w) + 1 + Len(e) /\ ~ (Len(w) + 1 + k <= Len(w) + 1)
          /\ Len(w) + 1 + k - (Len(w) + 1) = k
      OBVIOUS
    <2>2. w2[Len(w) + 1 + k] = told[k]
      BY <1>5, <2>1 DEF w2
    <2> QED
      BY <1>3, <2>2
  <1>9. w2 = w \o <<Stream!Message("runtime", p)>> \o [k \in DOMAIN e |-> Stream!Message("event", e[k])]
    BY DEF w2, half, one, told
  <1> QED
    BY <1>5, <1>6, <1>7, <1>8, <1>9 DEF w2

\* What the invariant says of the rows.
LEMMA StreamTyped ==
  ASSUME Stream!TypeOK, Stream!Shapes
  PROVE  /\ x1 \in [Streamed -> Stream!Rows \cup {Stream!None}] /\ x9 \in [Streamed -> Stream!Rows \cup {Stream!None}]
         /\ \A i \in DOMAIN x8 : Stream!IsPayload(i) => x8[i].what \in Stream!Payloads
         /\ \A i \in DOMAIN x8 : x8[i].kind = "event" => x8[i].what \in Stream!Events
         /\ \A k \in DOMAIN x5 : Stream!Answered(k) => x5[k] \in Stream!Payloads
         /\ Stream!Payloads \subseteq [Streamed -> Stream!Rows \cup {Stream!None}]
  <1>1. \A i \in DOMAIN x8 : x8[i] \in Stream!Messages
    BY DEF Stream!Shapes
  <1>2. \A m \in Stream!Messages : /\ m.kind = "runtime" => m.what \in Stream!Payloads
                                   /\ m.kind = "event" => m.what \in Stream!Events
    BY DEF Stream!Messages
  <1>3. \A k \in DOMAIN x5 : x5[k] \in Stream!Payloads \cup {Stream!NotRead}
    BY DEF Stream!Shapes
  <1> QED
    BY <1>1, <1>2, <1>3 DEF Stream!TypeOK, Stream!IsPayload, Stream!Answered, Stream!Payloads

LEMMA StreamStarts == Stream!Init => Stream!StreamInv
  <1> SUFFICES ASSUME Stream!Init PROVE Stream!StreamInv
    OBVIOUS
  <1>1. \A s \in BotStatuses : [status |-> s, execution |-> Stream!NoExecution] \in Stream!Rows
    BY DEF Stream!Rows, Stream!Executions
  <1>2. x1 \in [Streamed -> Stream!Rows]
    BY <1>1 DEF Stream!Init
  <1>3. x9 \in [Streamed -> Stream!Rows \cup {Stream!None}] /\ \A b \in Streamed : x9[b] = Stream!None
    BY DEF Stream!Init
  <1>4. x10 \in [Streamed -> BotStatuses] /\ x11 \in [Streamed -> Stream!Executions]
    BY <1>2 DEF Stream!Init, Stream!Executions, Stream!Rows
  <1>5. x15 \in [Streamed -> 0 .. Delays] /\ \A b \in Streamed : x15[b] = 0
    BY DeskAssumption DEF Stream!Init, Stream!DeskStreamAssumption
  <1>6. /\ x8 = <<>> /\ x13 = <<>> /\ x16 = <<>> /\ x5 = <<Stream!NotRead>>
        /\ x6 \in BOOLEAN /\ x7 = {} /\ x14 \in [Streamed -> Stream!Rows \cup {Stream!None}]
    BY DEF Stream!Init
  <1>7. Stream!TypeOK
    BY <1>2, <1>3, <1>4, <1>5, <1>6, DeskAssumption DEF Stream!TypeOK, Stream!DeskStreamAssumption
  <1>8. Stream!Shapes
    BY <1>5, <1>6 DEF Stream!Shapes
  <1>9. Stream!AllTold
    BY <1>3, <1>6 DEF Stream!AllTold, Stream!ResultsTold
  <1>10. Stream!InOrder
    BY <1>3, <1>6 DEF Stream!InOrder, Stream!Follows, Stream!Answered
  <1> QED
    BY <1>7, <1>8, <1>9, <1>10 DEF Stream!StreamInv

\* A step of the worker: the rows move forward.
LEMMA OthersStill ==
  ASSUME Stream!StreamInv, x1' \in Stream!Payloads, Stream!Follows(x1, x1'),
         UNCHANGED <<Stream!stream, x8, Stream!page, x14, x16, x17>>
  PROVE  Stream!StreamInv'
  <1> USE DEF Stream!StreamInv
  <1>1. Stream!TypeOK' /\ Stream!Shapes'
    BY DEF Stream!TypeOK, Stream!Shapes, Stream!stream, Stream!page, Stream!Payloads
  <1>2. Stream!AllTold'
    BY DEF Stream!AllTold, Stream!ResultsTold, Stream!Told, Stream!IsPayload, Stream!stream, Stream!page
  <1>3. Stream!InOrder'
    <2>1. /\ x9 \in [Streamed -> Stream!Rows \cup {Stream!None}] /\ x1 \in [Streamed -> Stream!Rows \cup {Stream!None}]
          /\ x1' \in [Streamed -> Stream!Rows \cup {Stream!None}]
      BY StreamTyped DEF Stream!Payloads
    <2>2. Stream!Follows(x9, x1')
      BY <2>1, FollowsOrders DEF Stream!InOrder
    <2>3. ASSUME NEW i \in DOMAIN x8, Stream!IsPayload(i) PROVE Stream!Follows(x8[i].what, x1')
      BY <2>1, <2>3, FollowsOrders, StreamTyped DEF Stream!InOrder
    <2>4. ASSUME NEW k \in DOMAIN x5, Stream!Answered(k) PROVE Stream!Follows(x5[k], x1')
      BY <2>1, <2>4, FollowsOrders, StreamTyped DEF Stream!InOrder
    <2> QED
      BY <2>2, <2>3, <2>4 DEF Stream!InOrder, Stream!IsPayload, Stream!Answered, Stream!stream, Stream!page
  <1> QED
    BY <1>1, <1>2, <1>3

LEMMA WorkerSteps ==
  ASSUME Stream!StreamInv, NEW b \in Streamed, Stream!Execute(b) \/ Stream!Settle(b) \/ Stream!ChangeStatus(b)
  PROVE  Stream!StreamInv'
  <1> DEFINE r == x1[b]
  <1>1. x1 \in [Streamed -> Stream!Rows] /\ r \in Stream!Rows /\ r.execution \in Stream!Executions
    BY DEF Stream!StreamInv, Stream!TypeOK, Stream!Rows
  <1>2. PICK r2 \in Stream!Rows : x1' = [x1 EXCEPT ![b] = r2] /\ Stream!Later(r.execution, r2.execution)
    <2>1. CASE Stream!Execute(b)
      <3>1. r.execution.n \in Nat /\ r.execution.n < MaxExecutions
        BY <1>1, <2>1, DeskAssumption DEF Stream!Execute, Stream!Executions, Stream!NoExecution, Stream!DeskStreamAssumption
      <3> DEFINE x == [n |-> r.execution.n + 1, status |-> "pending"]
                 r2 == [r EXCEPT !.execution = x]
      <3>2. r.execution.n + 1 \in 1 .. MaxExecutions /\ r.execution.n + 1 > r.execution.n
        BY <3>1, DeskAssumption DEF Stream!DeskStreamAssumption
      <3>3. x \in Stream!Executions /\ Stream!Later(r.execution, x)
        BY <3>2 DEF Stream!Executions, Stream!Later
      <3>4. r2 \in Stream!Rows /\ r2.execution = x
        BY <1>1, <3>3 DEF Stream!Rows
      <3>5. x1' = [x1 EXCEPT ![b] = r2]
        BY <1>1, <2>1 DEF Stream!Execute, Stream!Rows
      <3> QED
        BY <3>3, <3>4, <3>5
    <2>2. CASE Stream!Settle(b)
      <3>1. PICK s \in Outcomes : x1' = [x1 EXCEPT ![b].execution.status = s]
        BY <2>2 DEF Stream!Settle
      <3>2. r.execution.status \notin Stream!Terminal
        BY <2>2 DEF Stream!Settle
      <3> DEFINE x == [r.execution EXCEPT !.status = s]
                 r2 == [r EXCEPT !.execution = x]
      <3>3. r.execution \in [n : 1 .. MaxExecutions, status : Outcomes \cup {"pending"}]
        BY <1>1, <3>2 DEF Stream!Executions, Stream!NoExecution, Stream!Terminal
      <3>4. x \in Stream!Executions /\ x.n = r.execution.n
        BY <3>3 DEF Stream!Executions
      <3>5. Stream!Later(r.execution, x)
        BY <3>2, <3>4 DEF Stream!Later
      <3>6. r2 \in Stream!Rows /\ r2.execution = x
        BY <1>1, <3>4 DEF Stream!Rows
      <3>7. x1' = [x1 EXCEPT ![b] = r2]
        BY <1>1, <3>1 DEF Stream!Rows
      <3> QED
        BY <3>5, <3>6, <3>7
    <2>3. CASE Stream!ChangeStatus(b)
      <3>1. PICK s \in BotStatuses : x1' = [x1 EXCEPT ![b].status = s]
        BY <2>3 DEF Stream!ChangeStatus
      <3> DEFINE r2 == [r EXCEPT !.status = s]
      <3>2. r2 \in Stream!Rows /\ r2.execution = r.execution
        BY <1>1 DEF Stream!Rows
      <3>3. x1' = [x1 EXCEPT ![b] = r2]
        BY <1>1, <3>1 DEF Stream!Rows
      <3> QED
        BY <3>2, <3>3, LaterOrders
    <2> QED
      BY <2>1, <2>2, <2>3
  <1>3. x1' \in Stream!Payloads
    BY <1>1, <1>2 DEF Stream!Payloads
  <1>4. Stream!Follows(x1, x1')
    <2>1. ASSUME NEW c \in Streamed PROVE x1'[c] # Stream!None /\ Stream!Later(x1[c].execution, x1'[c].execution)
      BY <1>1, <1>2, <1>3, LaterOrders, NothingRead DEF Stream!Payloads
    <2> QED
      BY <2>1 DEF Stream!Follows
  <1>5. UNCHANGED <<Stream!stream, x8, Stream!page, x14, x16, x17>>
    BY DEF Stream!Execute, Stream!Settle, Stream!ChangeStatus
  <1> QED
    BY <1>3, <1>4, <1>5, OthersStill

LEMMA ReadSteps ==
  ASSUME Stream!StreamInv, Stream!Tick \/ \E i \in DOMAIN x5 : Stream!Read(i) \/ Stream!PushFails(i)
  PROVE  Stream!StreamInv'
  <1> USE DEF Stream!StreamInv
  <1>1. UNCHANGED <<x1, x6, x7, x3, x8, Stream!page, x14, x16, x17>>
    BY DEF Stream!Tick, Stream!Read, Stream!PushFails
  <1>2. /\ x5' \in Seq(Stream!Payloads \cup {Stream!NotRead}) /\ Len(x5') <= 1
        /\ \A k \in DOMAIN x5' : x5'[k] \in {Stream!NotRead, x1} \/ \E j \in DOMAIN x5 : x5'[k] = x5[j]
    <2>1. CASE Stream!Tick
      BY <2>1 DEF Stream!Tick
    <2>2. CASE \E i \in DOMAIN x5 : Stream!Read(i)
      <3>1. PICK i \in DOMAIN x5 : x5' = [x5 EXCEPT ![i] = x1]
        BY <2>2 DEF Stream!Read
      <3>2. x1 \in Stream!Payloads /\ x5 \in Seq(Stream!Payloads \cup {Stream!NotRead}) /\ Len(x5) <= 1
        BY DEF Stream!TypeOK, Stream!Shapes, Stream!Payloads
      <3>3. x5' \in Seq(Stream!Payloads \cup {Stream!NotRead}) /\ Len(x5') = Len(x5)
        BY <3>1, <3>2
      <3>4. \A k \in DOMAIN x5' : x5'[k] = x1 \/ x5'[k] = x5[k]
        BY <3>1, <3>2
      <3> QED
        BY <3>1, <3>2, <3>3, <3>4
    <2>3. CASE \E i \in DOMAIN x5 : Stream!PushFails(i)
      <3>1. PICK i \in DOMAIN x5 : x5' = Stream!RemoveAt(x5, i)
        BY <2>3 DEF Stream!PushFails
      <3>2. x5 \in Seq(Stream!Payloads \cup {Stream!NotRead}) /\ Len(x5) <= 1 /\ i \in 1 .. Len(x5)
        BY DEF Stream!Shapes
      <3>3. /\ x5' \in Seq(Stream!Payloads \cup {Stream!NotRead}) /\ Len(x5') = Len(x5) - 1
            /\ \A k \in 1 .. Len(x5') : \E j \in 1 .. Len(x5) : x5'[k] = x5[j]
        BY <3>1, <3>2, Removal
      <3> QED
        BY <3>2, <3>3
    <2> QED
      BY <2>1, <2>2, <2>3
  <1>3. Stream!TypeOK' /\ Stream!Shapes'
    BY <1>1, <1>2 DEF Stream!TypeOK, Stream!Shapes, Stream!page
  <1>4. Stream!AllTold'
    BY <1>1 DEF Stream!AllTold, Stream!ResultsTold, Stream!Told, Stream!IsPayload, Stream!page
  <1>5. Stream!InOrder'
    <2>1. Stream!Follows(x1, x1)
      BY StreamTyped, FollowsOrders
    <2>2. ASSUME NEW k \in DOMAIN x5', x5'[k] # Stream!NotRead
          PROVE  /\ Stream!Follows(x9, x5'[k]) /\ Stream!Follows(x5'[k], x1)
                 /\ \A i \in DOMAIN x8 : Stream!IsPayload(i) => Stream!Follows(x8[i].what, x5'[k])
      <3>1. CASE x5'[k] = x1
        BY <2>1, <3>1 DEF Stream!InOrder
      <3>2. CASE \E j \in DOMAIN x5 : x5'[k] = x5[j]
        BY <2>2, <3>2 DEF Stream!InOrder, Stream!Answered
      <3> QED
        BY <1>2, <2>2, <3>1, <3>2
    <2> QED
      BY <1>1, <2>2 DEF Stream!InOrder, Stream!IsPayload, Stream!Answered, Stream!page
  <1> QED
    BY <1>3, <1>4, <1>5

\* A payload goes out behind those before it, and every result it shows was
\* announced, is announced with it, or is the first thing a connection shows.
LEMMA PushStep ==
  ASSUME Stream!StreamInv, NEW i \in DOMAIN x5, Stream!Push(i)
  PROVE  Stream!StreamInv'
  <1> USE DEF Stream!StreamInv
  <1> DEFINE p == x5[i]
             new == IF x6 THEN Stream!SetToSeq(Stream!DeskEvents(p) \ x7) ELSE <<>>
             n == Len(x8)
  <1>1. /\ x5 \in Seq(Stream!Payloads \cup {Stream!NotRead}) /\ Len(x5) <= 1 /\ i \in 1 .. Len(x5)
        /\ x8 \in Seq(Stream!Messages) /\ n \in Nat
    BY DEF Stream!Shapes
  <1>2. p \in Stream!Payloads /\ Stream!Answered(i)
    BY <1>1 DEF Stream!Push, Stream!Answered
  <1>3. x5' \in Seq(Stream!Payloads \cup {Stream!NotRead}) /\ Len(x5') = 0
    <2>1. x5' = Stream!RemoveAt(x5, i)
      BY DEF Stream!Push
    <2>2. x5' \in Seq(Stream!Payloads \cup {Stream!NotRead}) /\ Len(x5') = Len(x5) - 1
      BY <1>1, <2>1, Removal
    <2> QED
      BY <1>1, <2>2
  <1>4. /\ new \in Seq(Stream!Events)
        /\ x6 => \A t \in Stream!DeskEvents(p) \ x7 : \E k \in 1 .. Len(new) : new[k] = t
    <2>1. CASE x6
      <3> DEFINE S == Stream!DeskEvents(p) \ x7
      <3>1. IsFiniteSet(S) /\ S \subseteq Stream!Events
        BY <1>2, EventsFinite, FS_Subset
      <3> HIDE DEF S
      <3>2. Stream!SetToSeq(S) \in Seq(S) /\ \A x \in S : \E k \in 1 .. Len(Stream!SetToSeq(S)) : Stream!SetToSeq(S)[k] = x
        BY <3>1, LaidOut
      <3>3. Stream!SetToSeq(S) \in Seq(Stream!Events)
        BY <3>1, <3>2, SeqMonotonic
      <3>4. new = Stream!SetToSeq(S)
        BY <2>1 DEF S
      <3> HIDE DEF new
      <3> QED
        BY <3>2, <3>3, <3>4 DEF S
    <2>2. CASE ~x6
      BY <2>2
    <2> QED
      BY <2>1, <2>2
  <1>5. /\ x8' = x8 \o <<Stream!Message("runtime", p)>> \o [k \in DOMAIN new |-> Stream!Message("event", new[k])]
        /\ x7' = x7 \cup Stream!DeskEvents(p) /\ x6' = TRUE
        /\ x17' = IF x6 THEN x17 ELSE x17 \cup Stream!Shown(p)
        /\ UNCHANGED <<x1, x2, x4, x3, Stream!page, x14, x16>>
    BY DEF Stream!Push
  <1> HIDE DEF new, p, n
  <1>6. /\ x8' \in Seq(Stream!Messages) /\ Len(x8') = n + 1 + Len(new)
        /\ \A j \in 1 .. n : x8'[j] = x8[j]
        /\ x8'[n + 1] = Stream!Message("runtime", p)
        /\ \A k \in 1 .. Len(new) : x8'[n + 1 + k] = Stream!Message("event", new[k])
    BY <1>1, <1>2, <1>4, <1>5, PutOnWire DEF n
  <1>7. DOMAIN x8' = 1 .. n + 1 + Len(new) /\ DOMAIN x8 = 1 .. n /\ DOMAIN x5' = {} /\ Len(new) \in Nat
    BY <1>1, <1>3, <1>4, <1>6 DEF n
  <1>8. /\ Stream!Message("runtime", p).kind = "runtime" /\ Stream!Message("runtime", p).what = p
        /\ \A t : Stream!Message("event", t).kind = "event" /\ Stream!Message("event", t).what = t
    BY DEF Stream!Message
  <1>9. ASSUME NEW j \in DOMAIN x8', x8'[j].kind = "runtime"
        PROVE  \/ j \in DOMAIN x8 /\ Stream!IsPayload(j) /\ x8'[j] = x8[j]
               \/ j = n + 1 /\ x8'[j].what = p
    <2>1. CASE j \in 1 .. n
      BY <1>6, <1>7, <1>9, <2>1 DEF Stream!IsPayload
    <2>2. CASE j = n + 1
      BY <1>6, <1>8, <2>2
    <2>3. CASE ~ (j \in 1 .. n \/ j = n + 1)
      <3>1. j - (n + 1) \in 1 .. Len(new) /\ n + 1 + (j - (n + 1)) = j
        BY <1>1, <1>7, <2>3
      <3>2. x8'[j] = Stream!Message("event", new[j - (n + 1)])
        BY <1>6, <3>1
      <3> QED
        BY <1>8, <1>9, <3>2
    <2> QED
      BY <2>1, <2>2, <2>3
  <1>10. Stream!Told \subseteq Stream!Told'
    <2>1. \A j \in DOMAIN x8 : j \in DOMAIN x8' /\ x8'[j] = x8[j]
      BY <1>1, <1>6, <1>7
    <2> QED
      BY <1>5, <2>1 DEF Stream!Told, Stream!page
  <1>11. Stream!DeskEvents(p) \subseteq Stream!Told'
    <2>1. CASE x6
      <3>1. ASSUME NEW t \in Stream!DeskEvents(p) \ x7 PROVE t \in Stream!Told'
        <4>1. PICK k \in 1 .. Len(new) : new[k] = t
          BY <1>4, <2>1
        <4>2. n + 1 + k \in DOMAIN x8'
          BY <1>1, <1>7
        <4>3. x8'[n + 1 + k].kind = "event" /\ x8'[n + 1 + k].what = t
          BY <1>6, <1>8, <4>1
        <4> QED
          BY <4>2, <4>3 DEF Stream!Told
      <3>2. x7 \subseteq Stream!Told'
        BY <1>10 DEF Stream!AllTold
      <3> QED
        BY <3>1, <3>2
    <2>2. CASE ~x6
      <3>1. Stream!DeskEvents(p) \subseteq Stream!Shown(p)
        BY DEF Stream!DeskEvents, Stream!Shown, Stream!NoExecution, Stream!Announced
      <3> QED
        BY <1>5, <2>2, <3>1 DEF Stream!Told
    <2> QED
      BY <2>1, <2>2
  <1>12. \A b \in Streamed :
           p[b].execution.status \in Stream!Announced
             => Stream!Toast("execution", b, p[b].execution) \in Stream!Told'
    <2>1. ASSUME NEW b \in Streamed, p[b].execution.status \in Stream!Announced
          PROVE  Stream!Toast("execution", b, p[b].execution) \in Stream!DeskEvents(p)
      BY <2>1 DEF Stream!DeskEvents
    <2> QED
      BY <1>11, <2>1
  <1>13. Stream!TypeOK' /\ Stream!Shapes'
    BY <1>3, <1>5, <1>6 DEF Stream!TypeOK, Stream!Shapes, Stream!page
  <1>14. Stream!AllTold'
    <2>1. x7' \subseteq Stream!Told'
      BY <1>5, <1>10, <1>11 DEF Stream!AllTold
    <2>2. Stream!ResultsTold(x9)'
      BY <1>5, <1>10 DEF Stream!AllTold, Stream!ResultsTold, Stream!page
    <2>3. ASSUME NEW j \in DOMAIN x8', x8'[j].kind = "runtime" PROVE Stream!ResultsTold(x8[j].what)'
      BY <1>9, <1>10, <1>12, <2>3 DEF Stream!AllTold, Stream!ResultsTold
    <2> QED
      BY <2>1, <2>2, <2>3 DEF Stream!AllTold, Stream!IsPayload
  <1>15. Stream!InOrder'
    <2>1. /\ Stream!Follows(x9, p) /\ Stream!Follows(p, x1)
          /\ \A j \in DOMAIN x8 : Stream!IsPayload(j) => Stream!Follows(x8[j].what, p)
      BY <1>2 DEF Stream!InOrder, p
    <2>2. ASSUME NEW j \in DOMAIN x8', x8'[j].kind = "runtime"
          PROVE  /\ Stream!Follows(x9, x8'[j].what) /\ Stream!Follows(x8'[j].what, x1)
                 /\ \A k \in DOMAIN x8' : x8'[k].kind = "runtime" /\ j < k => Stream!Follows(x8'[j].what, x8'[k].what)
      <3>1. Stream!Follows(x9, x8'[j].what) /\ Stream!Follows(x8'[j].what, x1)
        BY <1>9, <2>1, <2>2 DEF Stream!InOrder
      <3>2. ASSUME NEW k \in DOMAIN x8', x8'[k].kind = "runtime", j < k
            PROVE  Stream!Follows(x8'[j].what, x8'[k].what)
        <4>1. j \in DOMAIN x8 /\ Stream!IsPayload(j) /\ x8'[j] = x8[j]
          BY <1>1, <1>7, <1>9, <2>2, <3>2
        <4> QED
          BY <1>9, <2>1, <3>2, <4>1 DEF Stream!InOrder
      <3> QED
        BY <3>1, <3>2
    <2>3. Stream!Follows(x9, x1)
      BY DEF Stream!InOrder
    <2> QED
      BY <1>5, <1>7, <2>2, <2>3 DEF Stream!InOrder, Stream!IsPayload, Stream!Answered, Stream!page
  <1> QED
    BY <1>13, <1>14, <1>15

LEMMA ReconnectStep ==
  ASSUME Stream!StreamInv, Stream!Reconnect PROVE Stream!StreamInv'
  <1> USE DEF Stream!StreamInv
  <1>1. /\ x5' = <<Stream!NotRead>> /\ x8' = <<>> /\ x7' = {} /\ x6' = FALSE
        /\ UNCHANGED <<x1, Stream!page, x14, x16>>
    BY DEF Stream!Reconnect
  <1>2. Stream!Told \subseteq Stream!Told'
    <2> DEFINE lost == {x8[i].what : i \in {j \in DOMAIN x8 : x8[j].kind = "event"}}
    <2>1. x17' = x17 \cup lost /\ x12' = x12
      BY <1>1 DEF Stream!Reconnect, Stream!page
    <2>2. Stream!Told = x12 \cup x17 \cup lost
      BY DEF Stream!Told
    <2> HIDE DEF lost
    <2>3. x12' \cup x17' \subseteq Stream!Told'
      BY DEF Stream!Told
    <2> QED
      BY <2>1, <2>2, <2>3
  <1>3. Stream!TypeOK' /\ Stream!Shapes'
    <2>1. Stream!TypeOK'
      BY <1>1 DEF Stream!TypeOK, Stream!page
    <2>2. x5' \in Seq(Stream!Payloads \cup {Stream!NotRead}) /\ Len(x5') <= 1 /\ x8' \in Seq(Stream!Messages)
      BY <1>1
    <2> QED
      BY <1>1, <2>1, <2>2 DEF Stream!Shapes, Stream!page
  <1>4. Stream!AllTold'
    BY <1>1, <1>2 DEF Stream!AllTold, Stream!ResultsTold, Stream!page
  <1>5. Stream!InOrder'
    BY <1>1 DEF Stream!InOrder, Stream!Answered, Stream!page
  <1> QED
    BY <1>3, <1>4, <1>5

LEMMA TimersStart ==
  ASSUME Stream!TypeOK, Stream!Shapes, NEW S
  PROVE  /\ Stream!Scheduled(S) \in [Streamed -> 0 .. Delays]
         /\ \A b \in Streamed : Stream!Scheduled(S)[b] > 0 => x14[b] # Stream!None
  BY DeskAssumption DEF Stream!TypeOK, Stream!Shapes, Stream!Scheduled, Stream!DeskStreamAssumption

\* What the page takes off the wire.
LEMMA TakenOff ==
  ASSUME x8 \in Seq(Stream!Messages), x8 # <<>>, x8' = Tail(x8)
  PROVE  /\ 1 \in DOMAIN x8 /\ Head(x8) = x8[1] /\ x8' \in Seq(Stream!Messages)
         /\ \A j \in DOMAIN x8' : j + 1 \in DOMAIN x8 /\ x8'[j] = x8[j + 1] /\ j + 1 > 1
         /\ \A j \in DOMAIN x8 : j = 1 \/ (j - 1 \in DOMAIN x8' /\ x8'[j - 1] = x8[j])
  <1>1. /\ x8' \in Seq(Stream!Messages) /\ Len(x8') = Len(x8) - 1
        /\ \A i \in 1 .. Len(x8') : x8'[i] = x8[i + 1]
    BY HeadTailProperties
  <1>2. Len(x8) \in Nat \ {0} /\ DOMAIN x8 = 1 .. Len(x8) /\ DOMAIN x8' = 1 .. Len(x8')
    BY <1>1, EmptySeq
  <1>3. Head(x8) = x8[1]
    OBVIOUS
  <1> QED
    BY <1>1, <1>2, <1>3

LEMMA RuntimeStep ==
  ASSUME Stream!StreamInv, Stream!Receive, Head(x8).kind = "runtime", Stream!HandleRuntime(Head(x8).what)
  PROVE  Stream!StreamInv'
  <1> USE DEF Stream!StreamInv
  <1> DEFINE p == Head(x8).what
             told == {Stream!Toast("status", b, p[b].status) : b \in {c \in Streamed : p[c].status # x10[c]}} \ x12
  <1>1. x8 \in Seq(Stream!Messages) /\ x8 # <<>> /\ x8' = Tail(x8)
    BY DEF Stream!Receive, Stream!Shapes
  <1>2. /\ 1 \in DOMAIN x8 /\ Head(x8) = x8[1] /\ x8' \in Seq(Stream!Messages)
        /\ \A j \in DOMAIN x8' : j + 1 \in DOMAIN x8 /\ x8'[j] = x8[j + 1] /\ j + 1 > 1
        /\ \A j \in DOMAIN x8 : j = 1 \/ (j - 1 \in DOMAIN x8' /\ x8'[j - 1] = x8[j])
    BY <1>1, TakenOff
  <1>3. Stream!IsPayload(1) /\ p = x8[1].what /\ p \in Stream!Payloads
    BY <1>2, StreamTyped DEF Stream!IsPayload
  <1>4. told \subseteq Stream!Toasts /\ IsFiniteSet(told)
    BY <1>3, ToldFinite DEF Stream!TypeOK
  <1> DEFINE moved == {b \in Streamed : p[b].execution \notin {Stream!NoExecution, x11[b]}}
  <1>5. /\ x9' = p /\ x12' = x12 \cup told /\ x13' = Stream!PushToasts(told)
        /\ x10' = [b \in Streamed |-> p[b].status]
        /\ x11' = [b \in Streamed |-> IF b \in moved THEN p[b].execution ELSE x11[b]]
        /\ x15' = Stream!Scheduled(moved)
        /\ UNCHANGED <<x1, x2, x4, Stream!stream, x14, x16, x17>>
    BY DEF Stream!Receive, Stream!HandleRuntime
  <1> HIDE DEF p, told, moved
  <1>6. x13' \in Seq(Stream!Toasts) /\ Len(x13') <= Kept
    <2>1. x13 \in Seq(Stream!Toasts) /\ told \in SUBSET Stream!Toasts
      BY <1>4 DEF Stream!Shapes
    <2> QED
      BY <1>4, <1>5, <2>1, KeptToasts
  <1>7. x15' \in [Streamed -> 0 .. Delays] /\ \A b \in Streamed : x15'[b] > 0 => x14[b] # Stream!None
    BY <1>5, TimersStart
  <1>8. /\ x9' \in [Streamed -> Stream!Rows \cup {Stream!None}] /\ x10' \in [Streamed -> BotStatuses]
        /\ x11' \in [Streamed -> Stream!Executions]
    BY <1>3, <1>5 DEF Stream!TypeOK, Stream!Payloads, Stream!Rows
  <1>9. Stream!TypeOK' /\ Stream!Shapes'
    BY <1>2, <1>5, <1>6, <1>7, <1>8 DEF Stream!TypeOK, Stream!Shapes, Stream!stream
  <1>10. Stream!Told \subseteq Stream!Told'
    <2>1. ASSUME NEW j \in DOMAIN x8, x8[j].kind = "event"
          PROVE  \E k \in DOMAIN x8' : x8'[k].kind = "event" /\ x8'[k].what = x8[j].what
      <3>1. j # 1
        BY <1>3, <2>1 DEF Stream!IsPayload
      <3> QED
        BY <1>2, <2>1, <3>1
    <2> QED
      BY <1>5, <2>1 DEF Stream!Told
  <1>11. Stream!AllTold'
    <2>1. \A b \in Streamed : x9'[b] # Stream!None /\ x9'[b].execution.status \in Stream!Announced
             => Stream!Toast("execution", b, x9'[b].execution) \in Stream!Told'
      <3>1. Stream!ResultsTold(p)
        BY <1>2, <1>3 DEF Stream!AllTold
      <3> QED
        BY <1>5, <1>10, <3>1 DEF Stream!ResultsTold
    <2>2. ASSUME NEW j \in DOMAIN x8', x8'[j].kind = "runtime" PROVE Stream!ResultsTold(x8[j].what)'
      <3>1. Stream!IsPayload(j + 1) /\ x8'[j].what = x8[j + 1].what /\ j + 1 \in DOMAIN x8
        BY <1>2, <2>2 DEF Stream!IsPayload
      <3>2. Stream!ResultsTold(x8[j + 1].what)
        BY <3>1 DEF Stream!AllTold
      <3> QED
        BY <1>10, <3>1, <3>2 DEF Stream!ResultsTold
    <2>3. x7' \subseteq Stream!Told'
      BY <1>5, <1>10 DEF Stream!AllTold, Stream!stream
    <2> QED
      BY <2>1, <2>2, <2>3 DEF Stream!AllTold, Stream!ResultsTold, Stream!IsPayload
  <1>12. Stream!InOrder'
    <2>1. Stream!Follows(p, x1)
      BY <1>2, <1>3 DEF Stream!InOrder
    <2>2. ASSUME NEW j \in DOMAIN x8', x8'[j].kind = "runtime"
          PROVE  /\ Stream!Follows(p, x8'[j].what) /\ Stream!Follows(x8'[j].what, x1)
                 /\ \A k \in DOMAIN x8' : x8'[k].kind = "runtime" /\ j < k => Stream!Follows(x8'[j].what, x8'[k].what)
                 /\ \A k \in DOMAIN x5 : Stream!Answered(k) => Stream!Follows(x8'[j].what, x5[k])
      <3>1. Stream!IsPayload(j + 1) /\ x8'[j].what = x8[j + 1].what /\ j + 1 \in DOMAIN x8 /\ 1 < j + 1
        BY <1>2, <2>2 DEF Stream!IsPayload
      <3>2. Stream!Follows(p, x8'[j].what) /\ Stream!Follows(x8'[j].what, x1)
        BY <1>2, <1>3, <3>1 DEF Stream!InOrder
      <3>3. ASSUME NEW k \in DOMAIN x8', x8'[k].kind = "runtime", j < k
            PROVE  Stream!Follows(x8'[j].what, x8'[k].what)
        <4>1. Stream!IsPayload(k + 1) /\ x8'[k].what = x8[k + 1].what /\ k + 1 \in DOMAIN x8
          BY <1>2, <3>3 DEF Stream!IsPayload
        <4>2. j + 1 < k + 1
          BY <1>2, <3>3
        <4> QED
          BY <3>1, <4>1, <4>2 DEF Stream!InOrder
      <3>4. ASSUME NEW k \in DOMAIN x5, Stream!Answered(k) PROVE Stream!Follows(x8'[j].what, x5[k])
        BY <3>1, <3>4 DEF Stream!InOrder
      <3> QED
        BY <3>2, <3>3, <3>4
    <2>3. ASSUME NEW k \in DOMAIN x5, Stream!Answered(k) PROVE Stream!Follows(p, x5[k]) /\ Stream!Follows(x5[k], x1)
      BY <1>2, <1>3, <2>3 DEF Stream!InOrder
    <2> QED
      BY <1>5, <2>1, <2>2, <2>3 DEF Stream!InOrder, Stream!IsPayload, Stream!Answered, Stream!stream
  <1> QED
    BY <1>9, <1>11, <1>12

LEMMA EventStep ==
  ASSUME Stream!StreamInv, Stream!Receive, Head(x8).kind = "event", Stream!HandleDeskEvent(Head(x8).what)
  PROVE  Stream!StreamInv'
  <1> USE DEF Stream!StreamInv
  <1> DEFINE t == Head(x8).what
  <1>1. x8 \in Seq(Stream!Messages) /\ x8 # <<>> /\ x8' = Tail(x8)
    BY DEF Stream!Receive, Stream!Shapes
  <1>2. /\ 1 \in DOMAIN x8 /\ Head(x8) = x8[1] /\ x8' \in Seq(Stream!Messages)
        /\ \A j \in DOMAIN x8' : j + 1 \in DOMAIN x8 /\ x8'[j] = x8[j + 1] /\ j + 1 > 1
        /\ \A j \in DOMAIN x8 : j = 1 \/ (j - 1 \in DOMAIN x8' /\ x8'[j - 1] = x8[j])
    BY <1>1, TakenOff
  <1>3. t \in Stream!Events /\ t = x8[1].what /\ t.bot \in Streamed
    <2>1. t \in Stream!Events /\ t = x8[1].what
      BY <1>2, StreamTyped
    <2> QED
      BY <2>1 DEF Stream!Events
  <1>4. /\ IF t \in x12 THEN UNCHANGED <<x12, x13, x15>>
           ELSE x12' = x12 \cup {t} /\ x13' = Stream!PushToasts({t}) /\ x15' = Stream!Scheduled({t.bot})
        /\ UNCHANGED <<x9, x10, x11>>
        /\ UNCHANGED <<x1, x2, x4, Stream!stream, x14, x16, x17>>
    BY DEF Stream!Receive, Stream!HandleDeskEvent
  <1> HIDE DEF t
  <1>5. x13' \in Seq(Stream!Toasts) /\ Len(x13') <= Kept
    <2>1. CASE t \in x12
      BY <1>4, <2>1 DEF Stream!TypeOK, Stream!Shapes
    <2>2. CASE t \notin x12
      <3>1. x13 \in Seq(Stream!Toasts) /\ {t} \in SUBSET Stream!Toasts /\ IsFiniteSet({t})
        BY <1>3, FS_Singleton DEF Stream!Shapes, Stream!Toasts
      <3> QED
        BY <1>4, <2>2, <3>1, KeptToasts
    <2> QED
      BY <2>1, <2>2
  <1>6. x15' \in [Streamed -> 0 .. Delays] /\ \A b \in Streamed : x15'[b] > 0 => x14[b] # Stream!None
    BY <1>4, TimersStart DEF Stream!TypeOK, Stream!Shapes
  <1>7. Stream!TypeOK' /\ Stream!Shapes'
    BY <1>2, <1>4, <1>5, <1>6 DEF Stream!TypeOK, Stream!Shapes, Stream!stream
  <1>8. Stream!Told \subseteq Stream!Told'
    <2>1. x12 \cup x17 \cup {t} \subseteq Stream!Told'
      BY <1>4 DEF Stream!Told
    <2>2. ASSUME NEW j \in DOMAIN x8, x8[j].kind = "event" PROVE x8[j].what \in Stream!Told'
      <3>1. CASE j = 1
        BY <1>3, <2>1, <3>1
      <3>2. CASE j # 1
        <4>1. j - 1 \in DOMAIN x8' /\ x8'[j - 1].kind = "event" /\ x8'[j - 1].what = x8[j].what
          BY <1>2, <2>2, <3>2
        <4> QED
          BY <4>1 DEF Stream!Told
      <3> QED
        BY <3>1, <3>2
    <2> QED
      BY <2>1, <2>2 DEF Stream!Told
  <1>9. ASSUME NEW j \in DOMAIN x8', x8'[j].kind = "runtime"
        PROVE  Stream!IsPayload(j + 1) /\ x8'[j].what = x8[j + 1].what /\ j + 1 \in DOMAIN x8
    BY <1>2, <1>9 DEF Stream!IsPayload
  <1>10. Stream!AllTold'
    <2>1. \A b \in Streamed : x9'[b] # Stream!None /\ x9'[b].execution.status \in Stream!Announced
             => Stream!Toast("execution", b, x9'[b].execution) \in Stream!Told'
      BY <1>4, <1>8 DEF Stream!AllTold, Stream!ResultsTold
    <2>2. ASSUME NEW j \in DOMAIN x8', x8'[j].kind = "runtime" PROVE Stream!ResultsTold(x8[j].what)'
      <3>1. Stream!ResultsTold(x8[j + 1].what)
        BY <1>9, <2>2 DEF Stream!AllTold
      <3> QED
        BY <1>8, <1>9, <2>2, <3>1 DEF Stream!ResultsTold
    <2>3. x7' \subseteq Stream!Told'
      BY <1>4, <1>8 DEF Stream!AllTold, Stream!stream
    <2> QED
      BY <2>1, <2>2, <2>3 DEF Stream!AllTold, Stream!ResultsTold, Stream!IsPayload
  <1>11. Stream!InOrder'
    <2>1. Stream!Follows(x9, x1)
      BY DEF Stream!InOrder
    <2>2. ASSUME NEW j \in DOMAIN x8', x8'[j].kind = "runtime"
          PROVE  /\ Stream!Follows(x9, x8'[j].what) /\ Stream!Follows(x8'[j].what, x1)
                 /\ \A k \in DOMAIN x8' : x8'[k].kind = "runtime" /\ j < k => Stream!Follows(x8'[j].what, x8'[k].what)
                 /\ \A k \in DOMAIN x5 : Stream!Answered(k) => Stream!Follows(x8'[j].what, x5[k])
      <3>1. Stream!IsPayload(j + 1) /\ x8'[j].what = x8[j + 1].what /\ j + 1 \in DOMAIN x8
        BY <1>9, <2>2
      <3>2. Stream!Follows(x9, x8'[j].what) /\ Stream!Follows(x8'[j].what, x1)
        BY <3>1 DEF Stream!InOrder
      <3>3. ASSUME NEW k \in DOMAIN x8', x8'[k].kind = "runtime", j < k
            PROVE  Stream!Follows(x8'[j].what, x8'[k].what)
        <4>1. Stream!IsPayload(k + 1) /\ x8'[k].what = x8[k + 1].what /\ k + 1 \in DOMAIN x8
          BY <1>9, <3>3
        <4>2. j + 1 < k + 1
          BY <1>2, <3>3
        <4> QED
          BY <3>1, <4>1, <4>2 DEF Stream!InOrder
      <3>4. ASSUME NEW k \in DOMAIN x5, Stream!Answered(k) PROVE Stream!Follows(x8'[j].what, x5[k])
        BY <3>1, <3>4 DEF Stream!InOrder
      <3> QED
        BY <3>2, <3>3, <3>4
    <2>3. ASSUME NEW k \in DOMAIN x5, Stream!Answered(k) PROVE Stream!Follows(x9, x5[k]) /\ Stream!Follows(x5[k], x1)
      BY <2>3 DEF Stream!InOrder
    <2> QED
      BY <1>4, <2>1, <2>2, <2>3 DEF Stream!InOrder, Stream!IsPayload, Stream!Answered, Stream!stream
  <1> QED
    BY <1>7, <1>10, <1>11

Refreshing(a, f, d) ==
  /\ a \in Seq([bot : Streamed, row : Stream!Rows \cup {Stream!None}])
  /\ f \in [Streamed -> Stream!Rows \cup {Stream!None}] /\ d \in [Streamed -> 0 .. Delays]
  /\ \A b \in Streamed : d[b] > 0 => f[b] # Stream!None
  /\ \A k \in 1 .. Len(a) : f[a[k].bot] # Stream!None

LEMMA BoardSteps ==
  ASSUME Stream!StreamInv,
         \/ \E b \in Streamed : Stream!RefreshBotDetail(b)
         \/ \E i \in DOMAIN x16 : Stream!DetailRead(i) \/ Stream!DetailAnswer(i) \/ Stream!DetailFails(i)
  PROVE  Refreshing(x16', x14', x15')
  <1> DEFINE Asked == [bot : Streamed, row : Stream!Rows \cup {Stream!None}]
  <1>1. /\ x16 \in Seq(Asked) /\ DOMAIN x16 = 1 .. Len(x16) /\ Len(x16) \in Nat
        /\ x14 \in [Streamed -> Stream!Rows \cup {Stream!None}] /\ x15 \in [Streamed -> 0 .. Delays]
        /\ \A b \in Streamed : x15[b] > 0 => x14[b] # Stream!None
        /\ \A k \in 1 .. Len(x16) : x14[x16[k].bot] # Stream!None
        /\ \A k \in 1 .. Len(x16) : x16[k] \in Asked
        /\ x1 \in [Streamed -> Stream!Rows]
    <2>1. x16 \in Seq(Asked)
      BY DEF Stream!StreamInv, Stream!Shapes
    <2>2. /\ x14 \in [Streamed -> Stream!Rows \cup {Stream!None}] /\ x15 \in [Streamed -> 0 .. Delays]
          /\ \A b \in Streamed : x15[b] > 0 => x14[b] # Stream!None
          /\ \A k \in DOMAIN x16 : x14[x16[k].bot] # Stream!None
          /\ x1 \in [Streamed -> Stream!Rows]
      BY DEF Stream!StreamInv, Stream!TypeOK, Stream!Shapes
    <2> HIDE DEF Asked
    <2>3. DOMAIN x16 = 1 .. Len(x16) /\ Len(x16) \in Nat /\ \A k \in 1 .. Len(x16) : x16[k] \in Asked
      BY <2>1
    <2> QED
      BY <2>1, <2>2, <2>3
  <1>2. ASSUME NEW b \in Streamed, Stream!RefreshBotDetail(b) PROVE Refreshing(x16', x14', x15')
    <2> DEFINE one == [bot |-> b, row |-> Stream!None]
    <2>1. x15[b] > 0 /\ x14' = x14 /\ x15' = [x15 EXCEPT ![b] = @ - 1] /\ x16' = Append(x16, one)
      BY <1>2 DEF Stream!RefreshBotDetail
    <2>2. one \in Asked /\ one.bot = b
      OBVIOUS
    <2> HIDE DEF one
    <2>3. /\ x16' \in Seq(Asked) /\ Len(x16') = Len(x16) + 1
          /\ \A k \in 1 .. Len(x16) : x16'[k] = x16[k]
          /\ x16'[Len(x16) + 1] = one
      BY <1>1, <2>1, <2>2, AppendProperties
    <2>4. \A k \in 1 .. Len(x16') : x14'[x16'[k].bot] # Stream!None
      <3>1. ASSUME NEW k \in 1 .. Len(x16') PROVE k \in 1 .. Len(x16) \/ k = Len(x16) + 1
        BY <1>1, <2>3
      <3> QED
        BY <1>1, <2>1, <2>2, <2>3, <3>1
    <2>5. x15' \in [Streamed -> 0 .. Delays] /\ \A c \in Streamed : x15'[c] > 0 => x15[c] > 0
      BY <1>1, <2>1, DeskAssumption DEF Stream!DeskStreamAssumption
    <2> QED
      BY <1>1, <2>1, <2>3, <2>4, <2>5 DEF Refreshing
  <1>3. ASSUME NEW i \in DOMAIN x16, Stream!DetailRead(i) PROVE Refreshing(x16', x14', x15')
    <2> DEFINE one == [x16[i] EXCEPT !.row = x1[x16[i].bot]]
    <2>1. x14' = x14 /\ x15' = x15 /\ x16' = [x16 EXCEPT ![i] = one]
      BY <1>3 DEF Stream!DetailRead, Stream!page
    <2>2. one \in Asked /\ one.bot = x16[i].bot
      BY <1>1
    <2> HIDE DEF one
    <2>3. /\ x16' \in Seq(Asked) /\ Len(x16') = Len(x16)
          /\ \A k \in 1 .. Len(x16) : x16'[k].bot = x16[k].bot
      BY <1>1, <2>1, <2>2, ExceptSeq
    <2> QED
      BY <1>1, <2>1, <2>3 DEF Refreshing
  <1>4. ASSUME NEW i \in DOMAIN x16, x16' = Stream!RemoveAt(x16, i), x15' = x15,
               \/ x14' = x14
               \/ /\ x16[i].row # Stream!None
                  /\ x14' = [x14 EXCEPT ![x16[i].bot] = x16[i].row]
        PROVE  Refreshing(x16', x14', x15')
    <2>1. /\ x16' \in Seq(Asked)
          /\ \A k \in 1 .. Len(x16') : \E j \in 1 .. Len(x16) : x16'[k] = x16[j]
      <3>1. x16 \in Seq(Asked) /\ i \in 1 .. Len(x16)
        BY <1>1
      <3> HIDE DEF Asked
      <3>2. /\ Stream!RemoveAt(x16, i) \in Seq(Asked)
            /\ \A k \in 1 .. Len(Stream!RemoveAt(x16, i)) : \E j \in 1 .. Len(x16) : Stream!RemoveAt(x16, i)[k] = x16[j]
        BY <3>1, Removal
      <3>3. x16' = Stream!RemoveAt(x16, i)
        BY <1>4
      <3> QED
        BY <3>2, <3>3
    <2>2. x14' \in [Streamed -> Stream!Rows \cup {Stream!None}] /\ \A b \in Streamed : x14[b] # Stream!None => x14'[b] # Stream!None
      BY <1>1, <1>4
    <2> QED
      BY <1>1, <1>4, <2>1, <2>2 DEF Refreshing
  <1>5. ASSUME NEW i \in DOMAIN x16, Stream!DetailAnswer(i) \/ Stream!DetailFails(i)
        PROVE  Refreshing(x16', x14', x15')
    BY <1>4, <1>5 DEF Stream!DetailAnswer, Stream!DetailFails, Stream!page
  <1> QED
    BY <1>2, <1>3, <1>5

\* What the page does to its toasts and boards leaves the stream alone.
LEMMA PageSteps ==
  ASSUME Stream!StreamInv, \/ Stream!Dismiss \/ Stream!Rerender \/ \E b \in Streamed : Stream!RefreshBotDetail(b)
                           \/ \E i \in DOMAIN x16 : Stream!DetailRead(i) \/ Stream!DetailAnswer(i) \/ Stream!DetailFails(i)
  PROVE  Stream!StreamInv'
  <1> USE DEF Stream!StreamInv
  <1>1. UNCHANGED <<x1, x2, Stream!stream, x8, x9, x11, x12, x17>>
    BY DEF Stream!Dismiss, Stream!Rerender, Stream!RefreshBotDetail, Stream!DetailRead, Stream!DetailAnswer, Stream!DetailFails, Stream!page
  <1>2. Stream!AllTold'
    BY <1>1 DEF Stream!AllTold, Stream!ResultsTold, Stream!Told, Stream!IsPayload, Stream!stream
  <1>3. Stream!InOrder'
    BY <1>1 DEF Stream!InOrder, Stream!IsPayload, Stream!Answered, Stream!stream
  <1> DEFINE Asked == [bot : Streamed, row : Stream!Rows \cup {Stream!None}]
  <1>4. x16 \in Seq(Asked) /\ x13 \in Seq(Stream!Toasts) /\ Len(x13) \in Nat /\ Kept \in Nat
    BY DeskAssumption DEF Stream!Shapes, Stream!DeskStreamAssumption
  <1>5. x13' \in Seq(Stream!Toasts) /\ Len(x13') <= Kept
    <2>1. CASE Stream!Dismiss
      <3>1. PICK i \in DOMAIN x13 : x13' = Stream!RemoveAt(x13, i)
        BY <2>1 DEF Stream!Dismiss
      <3>2. x13' \in Seq(Stream!Toasts) /\ Len(x13') = Len(x13) - 1
        BY <1>4, <3>1, Removal
      <3> QED
        BY <1>4, <3>2 DEF Stream!TypeOK
    <2>2. CASE ~Stream!Dismiss
      BY <1>4, <2>2 DEF Stream!TypeOK, Stream!Rerender, Stream!RefreshBotDetail, Stream!DetailRead, Stream!DetailAnswer, Stream!DetailFails, Stream!page
    <2> QED
      BY <2>1, <2>2
  <1>6. x10' \in [Streamed -> BotStatuses]
    BY DEF Stream!TypeOK, Stream!Rows, Stream!Dismiss, Stream!Rerender, Stream!RefreshBotDetail, Stream!DetailRead, Stream!DetailAnswer, Stream!DetailFails, Stream!page
  <1>7. Refreshing(x16', x14', x15')
    <2>1. CASE Stream!Dismiss \/ Stream!Rerender
      BY <2>1 DEF Stream!TypeOK, Stream!Shapes, Stream!Dismiss, Stream!Rerender, Refreshing
    <2>2. CASE ~ (Stream!Dismiss \/ Stream!Rerender)
      BY <2>2, BoardSteps
    <2> QED
      BY <2>1, <2>2
  <1>8. Stream!TypeOK' /\ Stream!Shapes'
    <2>1. /\ x16' \in Seq(Asked) /\ \A k \in 1 .. Len(x16') : x14'[x16'[k].bot] # Stream!None
          /\ x14' \in [Streamed -> Stream!Rows \cup {Stream!None}] /\ x15' \in [Streamed -> 0 .. Delays]
          /\ \A b \in Streamed : x15'[b] > 0 => x14'[b] # Stream!None
      BY <1>7 DEF Refreshing
    <2>2. \A k \in DOMAIN x16' : x16'[k].bot \in Streamed /\ x14'[x16'[k].bot] # Stream!None
      <3> \A a \in Asked : a.bot \in Streamed
        OBVIOUS
      <3> HIDE DEF Asked
      <3>1. \A k \in DOMAIN x16' : k \in 1 .. Len(x16') /\ x16'[k] \in Asked
        BY <2>1
      <3> QED
        BY <2>1, <3>1
    <2>3. Stream!TypeOK'
      BY <1>1, <1>5, <1>6, <2>1, <2>2 DEF Stream!TypeOK, Stream!stream
    <2>4. Stream!Shapes'
      BY <1>1, <1>5, <2>1 DEF Stream!Shapes, Stream!stream
    <2> QED
      BY <2>3, <2>4
  <1> QED
    BY <1>2, <1>3, <1>8

LEMMA ReceiveStep ==
  ASSUME Stream!StreamInv, Stream!Receive PROVE Stream!StreamInv'
  BY RuntimeStep, EventStep DEF Stream!Receive

LEMMA StreamSteps ==
  ASSUME Stream!StreamInv, [Stream!Next]_Stream!vars PROVE Stream!StreamInv'
  <1>1. CASE UNCHANGED Stream!vars
    <2>1. UNCHANGED <<Stream!stream, x8, Stream!page, x14, x16, x17>> /\ x1' = x1
      BY <1>1 DEF Stream!vars
    <2>2. x1' \in Stream!Payloads /\ Stream!Follows(x1, x1)
      BY <2>1, StreamTyped, FollowsOrders DEF Stream!StreamInv, Stream!TypeOK, Stream!Payloads
    <2> QED
      BY <2>1, <2>2, OthersStill
  <1>2. CASE Stream!Next
    BY <1>2, WorkerSteps, ReadSteps, PushStep, ReconnectStep, ReceiveStep, PageSteps DEF Stream!Next
  <1> QED
    BY <1>1, <1>2

\* With nothing on its way the page was told, or cannot be any more.
LEMMA ShownFollows == Stream!StreamInv => Stream!ShownIsAnnounced
  BY DEF Stream!StreamInv, Stream!AllTold, Stream!ResultsTold, Stream!Told, Stream!ShownIsAnnounced

LEMMA HeardSteps ==
  ASSUME Stream!StreamInv, [Stream!Next]_Stream!vars PROVE Stream!HeardMovesForward
  <1>1. CASE Stream!Receive /\ Stream!HandleRuntime(Head(x8).what) /\ Head(x8).kind = "runtime"
    <2>1. x8 \in Seq(Stream!Messages) /\ x8 # <<>> /\ x8' = Tail(x8)
      BY <1>1 DEF Stream!Receive, Stream!StreamInv, Stream!Shapes
    <2>2. 1 \in DOMAIN x8 /\ Head(x8) = x8[1]
      BY <2>1, TakenOff
    <2>3. Stream!Follows(x9, x8[1].what)
      BY <1>1, <2>2 DEF Stream!StreamInv, Stream!InOrder, Stream!IsPayload
    <2>4. x9' = x8[1].what
      BY <1>1, <2>2 DEF Stream!HandleRuntime
    <2> QED
      BY <2>3, <2>4 DEF Stream!Follows, Stream!HeardMovesForward
  <1>2. CASE x9' = x9
    BY <1>2, LaterOrders DEF Stream!HeardMovesForward
  <1>3. \/ x9' = x9
        \/ Stream!Receive /\ Stream!HandleRuntime(Head(x8).what) /\ Head(x8).kind = "runtime"
    BY DEF Stream!Next, Stream!vars, Stream!page, Stream!Execute, Stream!Settle, Stream!ChangeStatus, Stream!RefreshBotDetail, Stream!Read, Stream!Push, Stream!PushFails,
           Stream!DetailRead, Stream!DetailAnswer, Stream!DetailFails, Stream!Tick, Stream!Reconnect, Stream!Receive, Stream!HandleDeskEvent, Stream!Dismiss, Stream!Rerender
  <1> QED
    BY <1>1, <1>2, <1>3

LEMMA ToldSteps ==
  ASSUME Stream!StreamInv, [Stream!Next]_Stream!vars PROVE Stream!ToldOnce
  <1>1. x13 \in Seq(Stream!Toasts) /\ x8 \in Seq(Stream!Messages)
    BY DEF Stream!StreamInv, Stream!Shapes
  <1>2. CASE x13' = x13
    BY <1>1, <1>2 DEF Stream!ToldOnce, Stream!Contains
  <1>3. CASE Stream!Dismiss
    <2>1. PICK i \in 1 .. Len(x13) : x13' = Stream!RemoveAt(x13, i)
      BY <1>1, <1>3 DEF Stream!Dismiss
    <2>2. /\ x13' \in Seq(Stream!Toasts)
          /\ \A k \in 1 .. Len(x13') : \E j \in 1 .. Len(x13) : x13'[k] = x13[j]
      <3> DEFINE T == Stream!Toasts
      <3>1. x13 \in Seq(T)
        BY <1>1
      <3> HIDE DEF T
      <3>2. /\ Stream!RemoveAt(x13, i) \in Seq(T)
            /\ \A k \in 1 .. Len(Stream!RemoveAt(x13, i)) : \E j \in 1 .. Len(x13) : Stream!RemoveAt(x13, i)[k] = x13[j]
        BY <3>1, Removal
      <3> QED
        BY <2>1, <3>2 DEF T
    <2> QED
      BY <2>2 DEF Stream!ToldOnce, Stream!Contains
  <1>4. ASSUME NEW new \in SUBSET Stream!Toasts, IsFiniteSet(new), new \cap x12 = {}, x13' = Stream!PushToasts(new)
        PROVE  Stream!ToldOnce
    <2>1. \A i \in DOMAIN x13' : x13'[i] \in new \/ Stream!Contains(x13, x13'[i])
      BY <1>1, <1>4, KeptToasts
    <2> QED
      BY <1>4, <2>1 DEF Stream!ToldOnce
  <1>5. CASE Stream!Receive
    <2>1. x8 # <<>> /\ x8' = Tail(x8)
      BY <1>5 DEF Stream!Receive
    <2>2. 1 \in DOMAIN x8 /\ Head(x8) = x8[1]
      BY <1>1, <2>1, TakenOff
    <2>3. CASE Head(x8).kind = "runtime" /\ Stream!HandleRuntime(Head(x8).what)
      <3> DEFINE p == Head(x8).what
                 told == {Stream!Toast("status", b, p[b].status) : b \in {c \in Streamed : p[c].status # x10[c]}} \ x12
      <3>1. p \in Stream!Payloads
        BY <2>2, <2>3, StreamTyped DEF Stream!StreamInv, Stream!IsPayload
      <3>2. told \in SUBSET Stream!Toasts /\ IsFiniteSet(told)
        BY <3>1, ToldFinite DEF Stream!StreamInv, Stream!TypeOK
      <3>3. told \cap x12 = {} /\ x13' = Stream!PushToasts(told)
        BY <2>3 DEF Stream!HandleRuntime
      <3> HIDE DEF told
      <3>4. told \in SUBSET Stream!Toasts /\ IsFiniteSet(told) /\ told \cap x12 = {} /\ x13' = Stream!PushToasts(told)
        BY <3>2, <3>3
      <3> HIDE DEF p
      <3> QED
        BY <1>4, <3>4, Zenon
    <2>4. CASE Head(x8).kind = "event" /\ Stream!HandleDeskEvent(Head(x8).what)
      <3> DEFINE t == Head(x8).what
      <3>1. {t} \in SUBSET Stream!Toasts /\ IsFiniteSet({t})
        BY <2>2, <2>4, StreamTyped, FS_Singleton DEF Stream!StreamInv, Stream!Toasts
      <3>2. CASE t \in x12
        BY <1>2, <2>4, <3>2 DEF Stream!HandleDeskEvent
      <3>3. CASE t \notin x12
        <4>1. {t} \cap x12 = {} /\ x13' = Stream!PushToasts({t})
          BY <2>4, <3>3 DEF Stream!HandleDeskEvent
        <4> QED
          BY <1>4, <3>1, <4>1
      <3> QED
        BY <3>2, <3>3
    <2> QED
      BY <1>5, <2>3, <2>4 DEF Stream!Receive
  <1>6. x13' = x13 \/ Stream!Dismiss \/ Stream!Receive
    BY DEF Stream!Next, Stream!vars, Stream!page, Stream!Execute, Stream!Settle, Stream!ChangeStatus, Stream!RefreshBotDetail, Stream!Read, Stream!Push, Stream!PushFails,
           Stream!DetailRead, Stream!DetailAnswer, Stream!DetailFails, Stream!Tick, Stream!Reconnect, Stream!Rerender
  <1> QED
    BY <1>2, <1>3, <1>5, <1>6

\* The page hears of the bots in the order of their executions and is told of every
\* result it shows that is announced (createSseResponse, handleRuntime), whatever
\* statuses executions go through ("unknown" is one that is not announced).
THEOREM StreamStaysInOrder == Stream!Spec => []Stream!StreamInv
  <1>1. Stream!StreamInv /\ [Stream!Next]_Stream!vars => Stream!StreamInv'
    BY StreamSteps
  <1> QED
    BY StreamStarts, <1>1, PTL DEF Stream!Spec

-----------------------------------------------------------------------------
\* The Lab: x1 is inputs, x2 generation, x3 busy, x4 flights, x5 recommendation,
\* x6 active, x7 rows, x8 stress and x9 opened.

LEMMA SameLabSets ==
  \A S : (Lab!IsFiniteSet(S) <=> IsFiniteSet(S)) /\ Lab!Cardinality(S) = Cardinality(S)
  BY DEF Lab!IsFiniteSet, IsFiniteSet, Lab!Cardinality, Cardinality

LEMMA AskedFacts ==
  ASSUME Lab!LabInv
  PROVE  /\ ~x3 => Lab!Asked = {} /\ Cardinality(Lab!Asked) = 0
         /\ x3 => Cardinality(Lab!Asked) = 1
         /\ \A f \in x4 : Lab!Fresh(f) => x3 /\ Lab!Asked = {f} /\ f.inputs = x1
  <1>1. CASE x3
    <2>1. PICK f \in x4 : Lab!Asked = {f} /\ f.inputs = x1
      BY <1>1, SameLabSets DEF Lab!LabInv
    <2>2. Cardinality(Lab!Asked) = 1
      BY <2>1, FS_Singleton
    <2>3. \A g \in x4 : Lab!Fresh(g) => g = f
      BY <2>1 DEF Lab!Asked
    <2> QED
      BY <1>1, <2>1, <2>2, <2>3
  <1>2. CASE ~x3
    <2>1. Lab!Asked = {}
      BY <1>2, SameLabSets DEF Lab!LabInv
    <2>2. Cardinality(Lab!Asked) = 0
      BY <2>1, FS_EmptySet
    <2> QED
      BY <1>2, <2>1, <2>2 DEF Lab!Asked
  <1> QED
    BY <1>1, <1>2

LEMMA BusyFollows == Lab!LabInv => Lab!BusyIsAsked
  BY AskedFacts, SameLabSets DEF Lab!BusyIsAsked, Lab!Asked, Lab!LabInv, Lab!TypeOK

LEMMA ConfigFacts ==
  ASSUME Lab!LabInv
  PROVE  /\ Lab!Own \in Lab!Configs /\ Lab!Best \in Lab!Configs /\ Lab!RunnerUp \in Lab!Configs
         /\ \A c \in Lab!Configs : /\ Lab!With(c, {"auto"}) \in Lab!Configs /\ Lab!With(c, {"adaptive"}) \in Lab!Configs
                                   /\ Lab!With(c, {"adaptive", "auto"}) \in Lab!Configs
                                   /\ Lab!With(c, {"costly"}) \in Lab!Configs /\ Lab!With(c, {"slow"}) \in Lab!Configs
         /\ Lab!Displayed # Lab!NoResult => Lab!Displayed \in Lab!Rows /\ Lab!Displayed.config \in Lab!Configs
         /\ Lab!Replayable \subseteq Lab!Configs
  <1>1. Lab!Own \in Lab!Configs /\ Lab!Best \in Lab!Configs /\ Lab!RunnerUp \in Lab!Configs
    BY DEF Lab!Own, Lab!Best, Lab!RunnerUp, Lab!Configs
  <1>2. ASSUME NEW c \in Lab!Configs
        PROVE  /\ Lab!With(c, {"auto"}) \in Lab!Configs /\ Lab!With(c, {"adaptive"}) \in Lab!Configs
               /\ Lab!With(c, {"adaptive", "auto"}) \in Lab!Configs
               /\ Lab!With(c, {"costly"}) \in Lab!Configs /\ Lab!With(c, {"slow"}) \in Lab!Configs
    BY DEF Lab!With, Lab!Configs
  <1>3. Lab!Displayed # Lab!NoResult => Lab!Displayed \in Lab!Rows /\ Lab!Displayed.config \in Lab!Configs
    <2>1. CASE x6 # Lab!NoResult
      BY <2>1, SameLabSets DEF Lab!Displayed, Lab!LabInv, Lab!TypeOK, Lab!Rows
    <2>2. CASE x6 = Lab!NoResult /\ x5 # Lab!NoResult
      BY <1>1, <2>2, SameLabSets DEF Lab!Displayed, Lab!LabInv, Lab!TypeOK, Lab!Rows
    <2> QED
      BY <2>1, <2>2 DEF Lab!Displayed
  <1>4. Lab!Replayable \subseteq Lab!Configs
    <2>1. {Lab!Own, Lab!With(Lab!Own, {"auto"}), Lab!Best, Lab!RunnerUp} \subseteq Lab!Configs
      BY <1>1, <1>2
    <2>2. Lab!Displayed # Lab!NoResult => [range |-> "plan", with |-> Lab!Displayed.config.with \cup {"adaptive"}] \in Lab!Configs
      BY <1>3 DEF Lab!Configs
    <2> QED
      BY <2>1, <2>2 DEF Lab!Replayable
  <1> QED
    BY <1>1, <1>2, <1>3, <1>4

ResultsTyped ==
  /\ x5 \in {Lab!NoResult} \cup [inputs : Inputs, fit : Lab!Fits]
  /\ x6 \in {Lab!NoResult} \cup Lab!Rows /\ x7 \subseteq Lab!Rows /\ x8 \subseteq Lab!Rows

\* A step of the operator that asks nothing leaves the questions or forgets them.
LEMMA ChangeKeeps ==
  ASSUME Lab!LabInv, NEW next \in Inputs, Lab!Change(next)
  PROVE  Lab!LabInv' /\ (Lab!ShownIsOfInputs => Lab!ShownIsOfInputs')
  <1>1. /\ x2' = x2 + 1 /\ x3' = FALSE /\ x1' = next /\ x4' = x4
        /\ x2 < MaxGeneration
        /\ (next = x1 /\ UNCHANGED Lab!results) \/ Lab!Cleared
    BY DEF Lab!Change
  <1>2. x2 \in 0..MaxGeneration /\ MaxGeneration \in Nat
    BY DeskAssumption, SameLabSets DEF Lab!LabInv, Lab!TypeOK, Lab!ConsoleAssumption
  <1> DEFINE later == x2 + 1
  <1>3. later \in 0..MaxGeneration /\ \A n \in 0..MaxGeneration : n <= x2 => n <= later /\ n # later
    BY <1>1, <1>2
  <1>4. \A f \in x4 : f.generation \in 0..MaxGeneration /\ f.generation <= x2
    BY SameLabSets DEF Lab!LabInv, Lab!TypeOK, Lab!Flights
  <1>5. \A f \in x4 : f.generation <= later /\ f.generation # later
    BY <1>3, <1>4
  <1>6. x2' = later
    BY <1>1
  <1> HIDE DEF later
  <1>7. Lab!Asked' = {}
    BY <1>1, <1>5, <1>6 DEF Lab!Asked, Lab!Fresh
  <1>8. ResultsTyped'
    BY <1>1, SameLabSets DEF Lab!LabInv, Lab!TypeOK, Lab!results, Lab!Cleared, ResultsTyped
  <1>9. Lab!TypeOK'
    BY <1>1, <1>3, <1>5, <1>6, <1>8, SameLabSets DEF Lab!LabInv, Lab!TypeOK, ResultsTyped
  <1>10. IsFiniteSet(x4')
    BY <1>1, SameLabSets DEF Lab!LabInv
  <1>11. Lab!ShownIsOfInputs => Lab!ShownIsOfInputs'
    BY <1>1 DEF Lab!ShownIsOfInputs, Lab!Cleared, Lab!results
  <1> QED
    BY <1>1, <1>7, <1>9, <1>10, <1>11, SameLabSets DEF Lab!LabInv

LEMMA AskKeeps ==
  ASSUME Lab!LabInv, NEW kind, NEW config \in Lab!Configs, Lab!Ask(kind, config)
  PROVE  Lab!LabInv' /\ UNCHANGED <<Lab!results, x1>>
  <1> DEFINE q == [kind |-> kind, generation |-> x2, inputs |-> x1, config |-> config, stage |-> 1]
  <1>1. /\ kind \in Questions /\ ~x3 /\ Cardinality(x4) < MaxFlights /\ x3' = TRUE
        /\ x4' = x4 \cup {q} /\ UNCHANGED <<x1, x2, Lab!results, x9>>
    BY SameLabSets DEF Lab!Ask
  <1>2. q \in Lab!Flights /\ q.generation = x2 /\ q.inputs = x1
    BY <1>1, SameLabSets DEF Lab!LabInv, Lab!TypeOK, Lab!Flights
  <1> HIDE DEF q
  <1>3. x2 \in 0..MaxGeneration /\ MaxFlights \in Nat
    BY DeskAssumption, SameLabSets DEF Lab!LabInv, Lab!TypeOK, Lab!ConsoleAssumption
  <1>4. Lab!Asked' = {q}
    BY <1>1, <1>2, AskedFacts DEF Lab!Asked, Lab!Fresh
  <1>5. IsFiniteSet(x4') /\ Cardinality(x4') <= MaxFlights
    <2>1. IsFiniteSet(x4) /\ Cardinality(x4) \in Nat
      BY FS_CardinalityType, SameLabSets DEF Lab!LabInv
    <2>2. IsFiniteSet(x4 \cup {q}) /\ Cardinality(x4 \cup {q}) \in {Cardinality(x4), Cardinality(x4) + 1}
      BY <2>1, FS_AddElement
    <2> QED
      BY <1>1, <1>3, <2>1, <2>2
  <1>6. Lab!TypeOK'
    <2>1. \A f \in x4' : f \in Lab!Flights /\ f.generation <= x2
      BY <1>1, <1>2, <1>3, SameLabSets DEF Lab!LabInv, Lab!TypeOK
    <2> QED
      BY <1>1, <1>5, <2>1, SameLabSets DEF Lab!LabInv, Lab!TypeOK, Lab!results
  <1> QED
    BY <1>1, <1>2, <1>4, <1>5, <1>6, SameLabSets DEF Lab!LabInv

LEMMA SelectKeeps ==
  ASSUME Lab!LabInv, NEW held \in x7 \cup x8, Lab!Select(held)
  PROVE  Lab!LabInv' /\ (Lab!ShownIsOfInputs /\ x8 = {} => Lab!ShownIsOfInputs' /\ x8' = {})
  <1>1. x6' = held /\ UNCHANGED <<x1, x2, x3, x4, x5, x7, x8, x9>>
    BY DEF Lab!Select
  <1>2. Lab!TypeOK'
    BY <1>1, SameLabSets DEF Lab!LabInv, Lab!TypeOK
  <1>3. Lab!Asked' = Lab!Asked
    BY <1>1 DEF Lab!Asked, Lab!Fresh
  <1> QED
    BY <1>1, <1>2, <1>3, SameLabSets DEF Lab!LabInv, Lab!ShownIsOfInputs

LEMMA OpenKeeps ==
  ASSUME Lab!LabInv, Lab!OpenDraft
  PROVE  Lab!LabInv' /\ Lab!ShownIsOfInputs' /\ x8' = {}
  <1>1. ~x3 /\ x2' = 0 /\ x4' = {} /\ Lab!Cleared /\ UNCHANGED <<x1, x3>>
    BY DEF Lab!OpenDraft
  <1>2. IsFiniteSet({}) /\ Cardinality({}) = 0
    BY FS_EmptySet
  <1>3. Lab!Asked' = {}
    BY <1>1 DEF Lab!Asked
  <1>4. MaxGeneration \in Nat /\ MaxFlights \in Nat
    BY DeskAssumption, SameLabSets DEF Lab!ConsoleAssumption
  <1>5. Lab!TypeOK'
    BY <1>1, <1>2, <1>4, SameLabSets DEF Lab!LabInv, Lab!TypeOK, Lab!Cleared
  <1> QED
    BY <1>1, <1>2, <1>3, <1>5, SameLabSets DEF Lab!LabInv, Lab!ShownIsOfInputs, Lab!Cleared

\* What an answer shows is of the question's inputs, and a stale one shows nothing
\* but the rows of a stress check.
LEMMA AnswerShows ==
  ASSUME Lab!LabInv, NEW f \in x4,
         Lab!Dropped(f) \/ Lab!Recommended(f) \/ Lab!Replayed(f) \/ Lab!Compared(f) \/ Lab!Stressed(f) \/ Lab!Failed(f)
  PROVE  /\ ResultsTyped'
         /\ UNCHANGED Lab!results \/ Lab!Fresh(f) \/ f.kind = "stress"
         /\ f.kind # "stress" /\ x8 = {} => x8' = {}
         /\ f.kind # "stress" =>
              /\ x5' \in {x5, Lab!NoResult} \/ x5'.inputs = f.inputs
              /\ x6' \in {x6, Lab!NoResult} \/ x6'.inputs = f.inputs
              /\ x7' = x7 \/ \A held \in x7' : held.inputs = f.inputs
  <1>1. f.inputs \in Inputs /\ f.config \in Lab!Configs
    BY SameLabSets DEF Lab!LabInv, Lab!TypeOK, Lab!Flights
  <1>2. \A c \in Lab!Configs : Lab!Of(f, c) \in Lab!Rows /\ Lab!Of(f, c).inputs = f.inputs
    BY <1>1 DEF Lab!Of, Lab!Rows
  <1>3. \A fit \in Lab!Fits : [inputs |-> f.inputs, fit |-> fit] \in [inputs : Inputs, fit : Lab!Fits]
    BY <1>1
  <1>4. CASE Lab!Dropped(f)
    BY <1>4, SameLabSets DEF Lab!Dropped, Lab!results, Lab!LabInv, Lab!TypeOK, ResultsTyped
  <1>5. CASE Lab!Recommended(f)
    <2>1. PICK fit \in Lab!Fits : x5' = [inputs |-> f.inputs, fit |-> fit]
      BY <1>5 DEF Lab!Recommended
    <2>2. Lab!Fresh(f) /\ x6' = Lab!Of(f, Lab!Best) /\ x7' = {} /\ x8' = {}
      BY <1>5 DEF Lab!Recommended
    <2>3. x6' \in Lab!Rows /\ x6'.inputs = f.inputs
      BY <1>2, <2>2, ConfigFacts
    <2> QED
      BY <1>3, <2>1, <2>2, <2>3 DEF ResultsTyped
  <1>6. CASE Lab!Replayed(f)
    <2>1. Lab!Fresh(f) /\ x6' = Lab!Of(f, f.config) /\ x8' = {} /\ UNCHANGED <<x5, x7>>
      BY <1>6 DEF Lab!Replayed
    <2>2. x6' \in Lab!Rows /\ x6'.inputs = f.inputs
      BY <1>1, <1>2, <2>1
    <2> QED
      BY <2>1, <2>2, SameLabSets DEF Lab!LabInv, Lab!TypeOK, ResultsTyped
  <1>7. CASE Lab!Compared(f)
    <2>1. \A held \in Lab!OwnRows(f) \cup Lab!BestRows(f) : held \in Lab!Rows /\ held.inputs = f.inputs
      BY <1>2, ConfigFacts DEF Lab!OwnRows, Lab!BestRows
    <2>2. Lab!Fresh(f) /\ x6' \in x7' /\ x8' = {} /\ x7' \subseteq Lab!OwnRows(f) \cup Lab!BestRows(f)
      BY <1>7 DEF Lab!Compared
    <2>3. x5' = Lab!NoResult \/ \E fit \in Lab!Fits : x5' = [inputs |-> f.inputs, fit |-> fit]
      BY <1>7 DEF Lab!Compared
    <2>4. /\ x5' = Lab!NoResult \/ x5'.inputs = f.inputs
          /\ x5' \in {Lab!NoResult} \cup [inputs : Inputs, fit : Lab!Fits]
      BY <1>3, <2>3
    <2>5. /\ x6' \in Lab!Rows /\ x6'.inputs = f.inputs /\ x7' \subseteq Lab!Rows
          /\ \A held \in x7' : held.inputs = f.inputs
      BY <2>1, <2>2
    <2> QED
      BY <2>2, <2>4, <2>5 DEF ResultsTyped
  <1>8. CASE Lab!Stressed(f)
    <2>1. /\ f.kind = "stress" /\ UNCHANGED <<x5, x6, x7>>
          /\ x8' = {Lab!Of(f, f.config)} \cup {Lab!Of(f, Lab!Harsher(f.config)[i]) : i \in 1..2}
      BY <1>8 DEF Lab!Stressed
    <2>2. \A i \in 1..2 : Lab!Harsher(f.config)[i] \in Lab!Configs
      BY <1>1, ConfigFacts DEF Lab!Harsher
    <2>3. x8' \subseteq Lab!Rows
      BY <1>1, <1>2, <2>1, <2>2
    <2> QED
      BY <2>1, <2>3, SameLabSets DEF Lab!LabInv, Lab!TypeOK, ResultsTyped
  <1>9. CASE Lab!Failed(f)
    <2>1. Lab!Fresh(f) /\ (UNCHANGED Lab!results \/ Lab!Cleared)
      BY <1>9 DEF Lab!Failed
    <2> QED
      BY <2>1, SameLabSets DEF Lab!Cleared, Lab!results, Lab!LabInv, Lab!TypeOK, ResultsTyped
  <1> QED
    BY <1>4, <1>5, <1>6, <1>7, <1>8, <1>9

LEMMA LandedKeeps ==
  ASSUME Lab!LabInv, NEW f \in x4, Lab!Landed(f), ResultsTyped'
  PROVE  Lab!LabInv'
  <1>1. /\ x4' = x4 \ {f} /\ x3' = (x3 /\ ~Lab!Fresh(f)) /\ UNCHANGED <<x1, x2, x9>>
    BY DEF Lab!Landed, Lab!Settle
  <1>2. Lab!Asked' = Lab!Asked \ {f}
    BY <1>1 DEF Lab!Asked, Lab!Fresh
  <1>3. ~x3' => Lab!Asked' = {}
    BY <1>1, <1>2, AskedFacts
  <1>4. ASSUME x3' PROVE \E g \in x4' : Lab!Asked' = {g} /\ g.inputs = x1'
    <2>1. x3 /\ ~Lab!Fresh(f)
      BY <1>1, <1>4
    <2>2. PICK g \in x4 : Lab!Asked = {g} /\ g.inputs = x1
      BY <2>1, SameLabSets DEF Lab!LabInv
    <2>3. g # f
      BY <2>1, <2>2 DEF Lab!Asked
    <2> QED
      BY <1>1, <1>2, <2>2, <2>3
  <1>5. IsFiniteSet(x4') /\ Cardinality(x4') <= MaxFlights
    <2>1. IsFiniteSet(x4) /\ Cardinality(x4) \in Nat /\ Cardinality(x4) <= MaxFlights /\ MaxFlights \in Nat
      BY FS_CardinalityType, DeskAssumption, SameLabSets DEF Lab!LabInv, Lab!TypeOK, Lab!ConsoleAssumption
    <2>2. IsFiniteSet(x4 \ {f}) /\ Cardinality(x4 \ {f}) = Cardinality(x4) - 1
      BY <2>1, FS_RemoveElement
    <2> QED
      BY <1>1, <2>1, <2>2
  <1>6. Lab!TypeOK'
    BY <1>1, <1>5, SameLabSets DEF Lab!LabInv, Lab!TypeOK, ResultsTyped
  <1> QED
    BY <1>3, <1>4, <1>5, <1>6, SameLabSets DEF Lab!LabInv

LEMMA AnswerKeeps ==
  ASSUME Lab!LabInv, NEW f \in x4, Lab!Answer(f)
  PROVE  /\ Lab!LabInv'
         /\ f.kind # "stress" /\ Lab!ShownIsOfInputs /\ x8 = {} => Lab!ShownIsOfInputs' /\ x8' = {}
  <1>1. CASE /\ Lab!Dropped(f) \/ Lab!Recommended(f) \/ Lab!Replayed(f) \/ Lab!Compared(f) \/ Lab!Stressed(f) \/ Lab!Failed(f)
             /\ Lab!Landed(f)
    <2>1. ResultsTyped'
      BY <1>1, AnswerShows
    <2>2. Lab!LabInv'
      BY <1>1, <2>1, LandedKeeps
    <2>3. ASSUME f.kind # "stress", Lab!ShownIsOfInputs, x8 = {}
          PROVE  Lab!ShownIsOfInputs' /\ x8' = {}
      <3>1. x1' = x1
        BY <1>1 DEF Lab!Landed
      <3>2. CASE UNCHANGED Lab!results
        BY <2>3, <3>1, <3>2 DEF Lab!results, Lab!ShownIsOfInputs
      <3>3. CASE Lab!Fresh(f)
        <4>1. f.inputs = x1
          BY <3>3, AskedFacts
        <4>2. /\ x5' \in {x5, Lab!NoResult} \/ x5'.inputs = f.inputs
              /\ x6' \in {x6, Lab!NoResult} \/ x6'.inputs = f.inputs
              /\ x7' = x7 \/ \A held \in x7' : held.inputs = f.inputs
              /\ x8' = {}
          BY <1>1, <2>3, AnswerShows
        <4> QED
          BY <2>3, <3>1, <4>1, <4>2 DEF Lab!ShownIsOfInputs
      <3> QED
        BY <1>1, <2>3, <3>2, <3>3, AnswerShows
    <2> QED
      BY <2>2, <2>3
  <1>2. CASE ~Lab!Fresh(f) /\ UNCHANGED Lab!results /\ Lab!Landed(f)
    <2>1. ResultsTyped' /\ x1' = x1
      BY <1>2, SameLabSets DEF Lab!results, Lab!LabInv, Lab!TypeOK, ResultsTyped, Lab!Landed
    <2> QED
      BY <1>2, <2>1, LandedKeeps DEF Lab!results, Lab!ShownIsOfInputs
  <1>3. CASE /\ f.kind = "stress" /\ f.stage = 1 /\ Lab!Fresh(f)
             /\ x4' = (x4 \ {f}) \cup {[f EXCEPT !.stage = 2]}
             /\ UNCHANGED <<x1, x2, x3, Lab!results, x9>>
    <2> DEFINE g == [f EXCEPT !.stage = 2]
    <2>1. f \in Lab!Flights
      BY SameLabSets DEF Lab!LabInv, Lab!TypeOK
    <2>2. g \in Lab!Flights /\ g.generation = f.generation /\ g.inputs = f.inputs
      BY <2>1 DEF Lab!Flights
    <2>3. x4' = (x4 \ {f}) \cup {g} /\ UNCHANGED <<x1, x2, x3, Lab!results, x9>>
      BY <1>3
    <2> HIDE DEF g
    <2>4. x3 /\ Lab!Asked = {f} /\ f.inputs = x1
      BY <1>3, AskedFacts
    <2>5. Lab!Asked' = {g}
      BY <1>3, <2>2, <2>3, <2>4 DEF Lab!Asked, Lab!Fresh
    <2>6. IsFiniteSet(x4') /\ Cardinality(x4') <= MaxFlights
      <3>1. IsFiniteSet(x4) /\ Cardinality(x4) \in Nat /\ Cardinality(x4) <= MaxFlights /\ MaxFlights \in Nat
        BY FS_CardinalityType, DeskAssumption, SameLabSets DEF Lab!LabInv, Lab!TypeOK, Lab!ConsoleAssumption
      <3>2. IsFiniteSet(x4 \ {f}) /\ Cardinality(x4 \ {f}) = Cardinality(x4) - 1
        BY <3>1, FS_RemoveElement
      <3> DEFINE rest == x4 \ {f}
      <3>3. IsFiniteSet(rest \cup {g}) /\ Cardinality(rest \cup {g}) \in {Cardinality(rest), Cardinality(rest) + 1}
        BY <3>2, FS_AddElement
      <3> QED
        BY <2>3, <3>1, <3>2, <3>3
    <2>7. Lab!TypeOK'
      <3>1. \A h \in x4' : h \in Lab!Flights /\ h.generation <= x2
        BY <2>2, <2>3, SameLabSets DEF Lab!LabInv, Lab!TypeOK
      <3> QED
        BY <2>3, <2>6, <3>1, SameLabSets DEF Lab!LabInv, Lab!TypeOK, Lab!results
    <2>8. g \in x4' /\ g.inputs = x1'
      BY <2>2, <2>3, <2>4
    <2> QED
      BY <1>3, <2>3, <2>4, <2>5, <2>6, <2>7, <2>8, SameLabSets DEF Lab!LabInv
  <1> QED
    BY <1>1, <1>2, <1>3 DEF Lab!Answer

LEMMA LabStarts == Lab!Init => Lab!LabInv /\ Lab!ShownIsOfInputs /\ x8 = {}
  <1> SUFFICES ASSUME Lab!Init PROVE Lab!LabInv /\ Lab!ShownIsOfInputs /\ x8 = {}
    OBVIOUS
  <1>1. IsFiniteSet({}) /\ Cardinality({}) = 0
    BY FS_EmptySet
  <1>4. /\ x1 \in Inputs /\ x2 = 0 /\ x4 = {} /\ x3 = FALSE
        /\ x5 = Lab!NoResult /\ x6 = Lab!NoResult /\ x7 = {} /\ x8 = {}
    BY DEF Lab!Init
  <1>2. x2 \in 0..MaxGeneration /\ Cardinality(x4) <= MaxFlights
    BY <1>1, <1>4, DeskAssumption, SameLabSets DEF Lab!ConsoleAssumption
  <1>3. Lab!TypeOK
    BY <1>2, <1>4, SameLabSets DEF Lab!TypeOK
  <1>5. Lab!Asked = {}
    BY <1>4 DEF Lab!Asked
  <1> QED
    BY <1>1, <1>3, <1>4, <1>5, SameLabSets DEF Lab!LabInv, Lab!ShownIsOfInputs

NoStress == \A f \in x4 : f.kind # "stress"

LEMMA LabSteps ==
  ASSUME Lab!LabInv, [Lab!Next]_Lab!vars
  PROVE  /\ Lab!LabInv'
         /\ NoStress /\ Lab!ShownIsOfInputs /\ x8 = {} => Lab!ShownIsOfInputs' /\ x8' = {}
  <1>1. ASSUME NEW next \in Inputs, Lab!Change(next)
        PROVE  Lab!LabInv' /\ (Lab!ShownIsOfInputs /\ x8 = {} => Lab!ShownIsOfInputs' /\ x8' = {})
    BY <1>1, ChangeKeeps DEF Lab!Change, Lab!Cleared, Lab!results
  <1>2. ASSUME Lab!Ask("recommend", Lab!Best) \/ Lab!Ask("compare", Lab!Own) \/ (\E config \in Lab!Replayable : Lab!Ask("replay", config))
                 \/ (Lab!Displayed # Lab!NoResult /\ Lab!Ask("stress", Lab!Displayed.config))
        PROVE  Lab!LabInv' /\ (Lab!ShownIsOfInputs /\ x8 = {} => Lab!ShownIsOfInputs' /\ x8' = {})
    <2>1. Lab!LabInv' /\ UNCHANGED <<Lab!results, x1>>
      BY <1>2, ConfigFacts, AskKeeps
    <2> QED
      BY <2>1 DEF Lab!results, Lab!ShownIsOfInputs
  <1>3. ASSUME NEW held \in x7 \cup x8, Lab!Select(held)
        PROVE  Lab!LabInv' /\ (Lab!ShownIsOfInputs /\ x8 = {} => Lab!ShownIsOfInputs' /\ x8' = {})
    BY <1>3, SelectKeeps
  <1>4. ASSUME Lab!OpenDraft
        PROVE  Lab!LabInv' /\ Lab!ShownIsOfInputs' /\ x8' = {}
    BY <1>4, OpenKeeps
  <1>5. ASSUME NEW f \in x4, Lab!Answer(f)
        PROVE  Lab!LabInv' /\ (NoStress /\ Lab!ShownIsOfInputs /\ x8 = {} => Lab!ShownIsOfInputs' /\ x8' = {})
    BY <1>5, AnswerKeeps DEF NoStress
  <1>6. CASE UNCHANGED Lab!vars
    BY <1>6, SameLabSets DEF Lab!vars, Lab!results, Lab!LabInv, Lab!TypeOK, Lab!Asked, Lab!Fresh, Lab!ShownIsOfInputs
  <1> QED
    BY <1>1, <1>2, <1>3, <1>4, <1>5, <1>6 DEF Lab!Next, Lab!Answers

\* The Lab's page is busy with at most one question, the fresh one, asked of the inputs now
\* set, whatever answers to older ones still come (requestGenerationRef).
THEOREM LabIsAsked == Lab!Spec => []Lab!LabInv
  <1>1. Lab!LabInv /\ [Lab!Next]_Lab!vars => Lab!LabInv'
    BY LabSteps
  <1> QED
    BY <1>1, LabStarts, PTL DEF Lab!Spec

\* Without a check under stress, whose last answer is not looked at again, all the page
\* shows is of the inputs now set.
THEOREM LabShowsItsOwn == Lab!Spec /\ []NoStress => []Lab!ShownIsOfInputs
  <1>1. Lab!Init => Lab!ShownIsOfInputs /\ x8 = {}
    BY LabStarts
  <1>2. Lab!LabInv /\ NoStress /\ [Lab!Next]_Lab!vars /\ Lab!ShownIsOfInputs /\ x8 = {} => (Lab!ShownIsOfInputs /\ x8 = {})'
    BY LabSteps
  <1> QED
    BY <1>1, <1>2, LabIsAsked, PTL DEF Lab!Spec

-----------------------------------------------------------------------------
\* Whichever page is at work: what it shows and takes is its operator's and true of
\* the bots.  The Lab shows what is of its inputs while no check under stress is on its
\* way.
THEOREM DeskAlwaysHolds ==
         \/ Form!Spec /\ [](part = "form")
         \/ Console!Spec /\ [](part \in {"editing", "ending"})
         \/ Stream!Spec /\ [](part \in {"stream", "status"})
         \/ Lab!Spec /\ [](part = "lab") /\ []NoStress
         \/ Lab!Spec /\ [](part = "stressed")
         => []DeskHolds
  <1>1. Form!FormInv /\ part = "form" => DeskHolds
    BY DEF Form!FormInv, DeskHolds
  <1>2. Console!ConsoleInv /\ part \in {"editing", "ending"} => DeskHolds
    BY DEF Console!ConsoleInv, DeskHolds
  <1>3. Stream!StreamInv /\ part \in {"stream", "status"} => DeskHolds
    BY ShownFollows DEF Stream!StreamInv, DeskHolds
  <1>4. Lab!LabInv /\ Lab!ShownIsOfInputs /\ part = "lab" => DeskHolds
    BY BusyFollows DEF Lab!LabInv, DeskHolds
  <1>5. Lab!LabInv /\ part = "stressed" => DeskHolds
    BY BusyFollows DEF Lab!LabInv, DeskHolds
  <1>6. Stream!Spec => []Stream!StreamInv
    BY StreamStaysInOrder
  <1> QED
    BY <1>1, <1>2, <1>3, <1>4, <1>5, <1>6, DraftsAlwaysFit, DraftsStayOfShown, LabIsAsked, LabShowsItsOwn, PTL

\* What a step of the desk may not do.
DeskStep ==
  /\ part = "form" => Form!OpeningProposesNothing
  /\ part \in {"editing", "ending"} => Console!TypedStays /\ Console!SavesHaltedBot
  /\ part \in {"stream", "status"} => Stream!HeardMovesForward /\ Stream!ToldOnce

\* No step proposes a change by opening a panel, takes away what was typed, saves to a
\* bot that runs, takes back what was heard or tells it twice.
THEOREM DeskAlwaysStands ==
         \/ Form!Spec /\ [](part = "form")
         \/ Console!Spec /\ [](part \in {"editing", "ending"})
         \/ Stream!Spec /\ [](part \in {"stream", "status"})
         \/ Lab!Spec /\ [](part \in {"lab", "stressed"})
         => DeskStands
  <1>1. Form!FormInv /\ [Form!Next]_Form!vars /\ part = "form" => DeskStep
    BY FormOpenStep DEF DeskStep, Form!OpeningProposesNothing
  <1>2. Console!ConsoleInv /\ [Console!Next]_Console!vars /\ part \in {"editing", "ending"} => DeskStep
    BY ConsoleActions DEF DeskStep
  <1>3. Stream!StreamInv /\ [Stream!Next]_Stream!vars /\ part \in {"stream", "status"} => DeskStep
    BY HeardSteps, ToldSteps DEF DeskStep
  <1>4. part \in {"lab", "stressed"} => DeskStep
    BY DEF DeskStep
  <1>5. Stream!Spec => []Stream!StreamInv
    BY StreamStaysInOrder
  <1> QED
    BY <1>1, <1>2, <1>3, <1>4, <1>5, DraftsAlwaysFit, DraftsStayOfShown, PTL
    DEF DeskStands, DeskStep, Form!Spec, Console!Spec, Stream!Spec

-----------------------------------------------------------------------------
\* The admission to the live wallet

Stages == {"none", "open", "archived"}
States == {"running", "paused", "stopped"}
Points == {"off", "validate", "key", "lock", "observe", "commit"}
BookRow == [stage : Stages, status : States, cash : Int, profit : Int, held : Int, budget : Int, key : Nat]
AttemptRow == [at : {"none", "prepared", "moved", "failed"}, side : {"buy", "sell"}, gain : 0 .. 1]
Request == [at : Points, kind : AllKinds, of : Owners, amount : Nat, key : Nat, cash : Int, profit : Int,
            seen : Int, fresh : BOOLEAN]

Typed ==
  /\ wallet \in Int /\ row \in [Owners -> BookRow] /\ attempt \in [Owners -> AttemptRow]
  /\ lock \in Reqs \cup {NoReq} /\ req \in [Reqs -> Request] /\ stale \subseteq Bots

\* What a request is about, and what the lock tells of its holder.
RequestOK(r) ==
  /\ req[r].at # "off" => (req[r].of = V2 <=> req[r].kind \in {"stage", "activate"})
  /\ req[r].at # "off" /\ req[r].kind = "archive" => req[r].at = "commit" /\ row[req[r].of].stage # "none"
  /\ lock = r => req[r].at \in {"observe", "commit"} /\ req[r].kind \notin {"archive", "resume"}
  /\ req[r].fresh => req[r].cash = row[req[r].of].cash /\ req[r].profit = row[req[r].of].profit

LockIsAlone == lock # NoReq => \A o \in Owners : attempt[o].at = "none"

Balanced(b) == row[b].cash + row[b].held = row[b].budget + row[b].profit
Calm(b) == row[b].stage = "open" => row[b].status \in {"paused", "stopped"} /\ attempt[b].at = "none"

IInv ==
  /\ Typed
  /\ \A r \in Reqs : RequestOK(r)
  /\ LockIsAlone
  /\ row[V2].stage = "open" => \A b \in Bots : Calm(b)
  /\ row[V2].stage \in {"none", "open"}
  /\ \A b \in Bots \ stale : Balanced(b)
  /\ KeysDistinct

LEMMA Constants ==
  /\ V2 \notin Bots /\ NoReq \notin Reqs /\ Amounts \subseteq Nat /\ SourceBudget \in Nat /\ Funds \in Nat
  /\ Owners = Bots \cup {V2}
BY AdmissionAssumption DEF Owners

USE Constants
-----------------------------------------------------------------------------
\* Changing fields of a record, whatever the sets of their values.
LEMMA BookStatus ==
  ASSUME NEW r \in BookRow, NEW t \in States
  PROVE  LET y == [r EXCEPT !.status = t]
         IN  /\ y \in BookRow /\ y.stage = r.stage /\ y.status = t /\ y.cash = r.cash
             /\ y.profit = r.profit /\ y.held = r.held /\ y.budget = r.budget /\ y.key = r.key
<1>1. ASSUME NEW S, NEW T, NEW C, NEW P, NEW H, NEW B, NEW K, t \in T,
             r \in [stage : S, status : T, cash : C, profit : P, held : H, budget : B, key : K],
             BookRow = [stage : S, status : T, cash : C, profit : P, held : H, budget : B, key : K]
      PROVE  LET y == [r EXCEPT !.status = t]
             IN  /\ y \in BookRow /\ y.stage = r.stage /\ y.status = t /\ y.cash = r.cash
                 /\ y.profit = r.profit /\ y.held = r.held /\ y.budget = r.budget /\ y.key = r.key
  BY <1>1
<1>2. BookRow = [stage : Stages, status : States, cash : Int, profit : Int, held : Int, budget : Int, key : Nat]
  BY DEF BookRow
<1> QED BY <1>1, <1>2

LEMMA BookStage ==
  ASSUME NEW r \in BookRow, NEW t \in Stages
  PROVE  LET y == [r EXCEPT !.stage = t]
         IN  /\ y \in BookRow /\ y.stage = t /\ y.status = r.status /\ y.cash = r.cash
             /\ y.profit = r.profit /\ y.held = r.held /\ y.budget = r.budget /\ y.key = r.key
<1>1. ASSUME NEW S, NEW T, NEW C, NEW P, NEW H, NEW B, NEW K, t \in S,
             r \in [stage : S, status : T, cash : C, profit : P, held : H, budget : B, key : K],
             BookRow = [stage : S, status : T, cash : C, profit : P, held : H, budget : B, key : K]
      PROVE  LET y == [r EXCEPT !.stage = t]
             IN  /\ y \in BookRow /\ y.stage = t /\ y.status = r.status /\ y.cash = r.cash
                 /\ y.profit = r.profit /\ y.held = r.held /\ y.budget = r.budget /\ y.key = r.key
  BY <1>1
<1>2. BookRow = [stage : Stages, status : States, cash : Int, profit : Int, held : Int, budget : Int, key : Nat]
  BY DEF BookRow
<1> QED BY <1>1, <1>2

Resumed(r, t, c, p) == [r EXCEPT !.status = t, !.cash = c, !.profit = p]
LEMMA BookResumed ==
  ASSUME NEW r \in BookRow, NEW y, NEW t \in States, NEW c \in Int, NEW p \in Int,
         y = Resumed(r, t, c, p)
  PROVE  /\ y \in BookRow /\ y.stage = r.stage /\ y.status = t /\ y.cash = c
         /\ y.profit = p /\ y.held = r.held /\ y.budget = r.budget /\ y.key = r.key
<1>1. ASSUME NEW S, NEW T, NEW C, NEW P, NEW H, NEW B, NEW K, t \in T, c \in C, p \in P,
             r \in [stage : S, status : T, cash : C, profit : P, held : H, budget : B, key : K],
             BookRow = [stage : S, status : T, cash : C, profit : P, held : H, budget : B, key : K]
      PROVE  /\ y \in BookRow /\ y.stage = r.stage /\ y.status = t /\ y.cash = c
             /\ y.profit = p /\ y.held = r.held /\ y.budget = r.budget /\ y.key = r.key
  BY <1>1 DEF Resumed
<1>2. BookRow = [stage : Stages, status : States, cash : Int, profit : Int, held : Int, budget : Int, key : Nat]
  BY DEF BookRow
<1> QED BY <1>1, <1>2

MoreBudget(r, c, p, n) == [r EXCEPT !.cash = c, !.profit = p, !.budget = n]
LEMMA BookToppedUp ==
  ASSUME NEW r \in BookRow, NEW y, NEW c \in Int, NEW p \in Int, NEW n \in Int,
         y = MoreBudget(r, c, p, n)
  PROVE  /\ y \in BookRow /\ y.stage = r.stage /\ y.status = r.status /\ y.cash = c
         /\ y.profit = p /\ y.held = r.held /\ y.budget = n /\ y.key = r.key
<1>1. ASSUME NEW S, NEW T, NEW C, NEW P, NEW H, NEW B, NEW K, c \in C, p \in P, n \in B,
             r \in [stage : S, status : T, cash : C, profit : P, held : H, budget : B, key : K],
             BookRow = [stage : S, status : T, cash : C, profit : P, held : H, budget : B, key : K]
      PROVE  /\ y \in BookRow /\ y.stage = r.stage /\ y.status = r.status /\ y.cash = c
             /\ y.profit = p /\ y.held = r.held /\ y.budget = n /\ y.key = r.key
  BY <1>1 DEF MoreBudget
<1>2. BookRow = [stage : Stages, status : States, cash : Int, profit : Int, held : Int, budget : Int, key : Nat]
  BY DEF BookRow
<1> QED BY <1>1, <1>2

Bought(r, c, h) == [r EXCEPT !.cash = c, !.held = h]
LEMMA BookBought ==
  ASSUME NEW r \in BookRow, NEW y, NEW c \in Int, NEW h \in Int,
         y = Bought(r, c, h)
  PROVE  /\ y \in BookRow /\ y.stage = r.stage /\ y.status = r.status /\ y.cash = c
         /\ y.profit = r.profit /\ y.held = h /\ y.budget = r.budget /\ y.key = r.key
<1>1. ASSUME NEW S, NEW T, NEW C, NEW P, NEW H, NEW B, NEW K, c \in C, h \in H,
             r \in [stage : S, status : T, cash : C, profit : P, held : H, budget : B, key : K],
             BookRow = [stage : S, status : T, cash : C, profit : P, held : H, budget : B, key : K]
      PROVE  /\ y \in BookRow /\ y.stage = r.stage /\ y.status = r.status /\ y.cash = c
             /\ y.profit = r.profit /\ y.held = h /\ y.budget = r.budget /\ y.key = r.key
  BY <1>1 DEF Bought
<1>2. BookRow = [stage : Stages, status : States, cash : Int, profit : Int, held : Int, budget : Int, key : Nat]
  BY DEF BookRow
<1> QED BY <1>1, <1>2

Sold(r, c, h, p) == [r EXCEPT !.cash = c, !.held = h, !.profit = p]
LEMMA BookSold ==
  ASSUME NEW r \in BookRow, NEW y, NEW c \in Int, NEW h \in Int, NEW p \in Int,
         y = Sold(r, c, h, p)
  PROVE  /\ y \in BookRow /\ y.stage = r.stage /\ y.status = r.status /\ y.cash = c
         /\ y.profit = p /\ y.held = h /\ y.budget = r.budget /\ y.key = r.key
<1>1. ASSUME NEW S, NEW T, NEW C, NEW P, NEW H, NEW B, NEW K, c \in C, h \in H, p \in P,
             r \in [stage : S, status : T, cash : C, profit : P, held : H, budget : B, key : K],
             BookRow = [stage : S, status : T, cash : C, profit : P, held : H, budget : B, key : K]
      PROVE  /\ y \in BookRow /\ y.stage = r.stage /\ y.status = r.status /\ y.cash = c
             /\ y.profit = p /\ y.held = h /\ y.budget = r.budget /\ y.key = r.key
  BY <1>1 DEF Sold
<1>2. BookRow = [stage : Stages, status : States, cash : Int, profit : Int, held : Int, budget : Int, key : Nat]
  BY DEF BookRow
<1> QED BY <1>1, <1>2

\* The steps of a request from a point to the next keep what it asked and read.
Requested(q, y) ==
  /\ y \in Request
  /\ y.kind = q.kind /\ y.of = q.of /\ y.cash = q.cash /\ y.profit = q.profit /\ y.fresh = q.fresh

LEMMA RequestMoves ==
  ASSUME NEW q \in Request, NEW a \in Points
  PROVE  LET y == [q EXCEPT !.at = a] IN Requested(q, y) /\ y.at = a
<1>1. ASSUME NEW A, NEW L, NEW O, NEW N, NEW K, NEW C, NEW P, NEW S, NEW B,
             q \in [at : A, kind : L, of : O, amount : N, key : K, cash : C, profit : P, seen : S, fresh : B],
             a \in A,
             Request = [at : A, kind : L, of : O, amount : N, key : K, cash : C, profit : P, seen : S, fresh : B]
      PROVE  LET y == [q EXCEPT !.at = a] IN Requested(q, y) /\ y.at = a
  BY <1>1 DEF Requested
<1>2. Request = [at : Points, kind : AllKinds, of : Owners, amount : Nat, key : Nat, cash : Int, profit : Int,
                 seen : Int, fresh : BOOLEAN]
  BY DEF Request
<1> QED BY <1>1, <1>2

LEMMA RequestFinds ==
  ASSUME NEW q \in Request, NEW a \in Points, NEW k \in Nat
  PROVE  LET y == [q EXCEPT !.at = a, !.key = k] IN Requested(q, y) /\ y.at = a
<1>1. ASSUME NEW A, NEW L, NEW O, NEW N, NEW K, NEW C, NEW P, NEW S, NEW B,
             q \in [at : A, kind : L, of : O, amount : N, key : K, cash : C, profit : P, seen : S, fresh : B],
             a \in A, k \in K,
             Request = [at : A, kind : L, of : O, amount : N, key : K, cash : C, profit : P, seen : S, fresh : B]
      PROVE  LET y == [q EXCEPT !.at = a, !.key = k] IN Requested(q, y) /\ y.at = a
  BY <1>1 DEF Requested
<1>2. Request = [at : Points, kind : AllKinds, of : Owners, amount : Nat, key : Nat, cash : Int, profit : Int,
                 seen : Int, fresh : BOOLEAN]
  BY DEF Request
<1> QED BY <1>1, <1>2

LEMMA RequestSees ==
  ASSUME NEW q \in Request, NEW a \in Points, NEW s \in Int
  PROVE  LET y == [q EXCEPT !.at = a, !.seen = s] IN Requested(q, y) /\ y.at = a
<1>1. ASSUME NEW A, NEW L, NEW O, NEW N, NEW K, NEW C, NEW P, NEW S, NEW B,
             q \in [at : A, kind : L, of : O, amount : N, key : K, cash : C, profit : P, seen : S, fresh : B],
             a \in A, s \in S,
             Request = [at : A, kind : L, of : O, amount : N, key : K, cash : C, profit : P, seen : S, fresh : B]
      PROVE  LET y == [q EXCEPT !.at = a, !.seen = s] IN Requested(q, y) /\ y.at = a
  BY <1>1 DEF Requested
<1>2. Request = [at : Points, kind : AllKinds, of : Owners, amount : Nat, key : Nat, cash : Int, profit : Int,
                 seen : Int, fresh : BOOLEAN]
  BY DEF Request
<1> QED BY <1>1, <1>2

LEMMA RequestOutdated ==
  ASSUME NEW A, NEW L, NEW O, NEW N, NEW K, NEW C, NEW P, NEW S, NEW B,
         NEW q \in [at : A, kind : L, of : O, amount : N, key : K, cash : C, profit : P, seen : S, fresh : B],
         NEW f \in B
  PROVE  LET y == [q EXCEPT !.fresh = f]
         IN /\ y \in [at : A, kind : L, of : O, amount : N, key : K, cash : C, profit : P, seen : S, fresh : B]
            /\ y.at = q.at /\ y.kind = q.kind /\ y.of = q.of /\ y.cash = q.cash /\ y.profit = q.profit /\ y.fresh = f
OBVIOUS

LEMMA RequestAsked ==
  ASSUME NEW A, NEW L, NEW O, NEW N, NEW K, NEW C, NEW P, NEW S, NEW B,
         NEW q \in [at : A, kind : L, of : O, amount : N, key : K, cash : C, profit : P, seen : S, fresh : B],
         NEW a \in A, NEW l \in L, NEW o \in O, NEW n \in N, NEW c \in C, NEW p \in P, NEW f \in B
  PROVE  LET y == [q EXCEPT !.at = a, !.kind = l, !.of = o, !.amount = n, !.cash = c, !.profit = p, !.fresh = f]
         IN /\ y \in [at : A, kind : L, of : O, amount : N, key : K, cash : C, profit : P, seen : S, fresh : B]
            /\ y.at = a /\ y.kind = l /\ y.of = o /\ y.cash = c /\ y.profit = p /\ y.fresh = f
OBVIOUS

LEMMA IdleShape == Idle \in Request /\ Idle.at = "off" /\ Idle.fresh = FALSE
BY DEF Idle, Request, Points, AllKinds

LEMMA InitInv == Init => IInv
<1> SUFFICES ASSUME Init PROVE IInv
  OBVIOUS
<1>1. NoRow \in BookRow /\ NoRow.stage = "none" /\ NoRow.cash + NoRow.held = NoRow.budget + NoRow.profit
  BY DEF NoRow, BookRow, Stages, States
<1>2. NoAttempt \in AttemptRow /\ NoAttempt.at = "none"
  BY DEF NoAttempt, AttemptRow
<1>3. Typed
  BY <1>1, <1>2, IdleShape DEF Init, Typed
<1>4. \A r \in Reqs : RequestOK(r)
  BY IdleShape DEF Init, RequestOK
<1>5. LockIsAlone /\ \A b \in Bots \ stale : Balanced(b)
  BY <1>1, <1>2 DEF Init, LockIsAlone, Balanced
<1>6. row[V2].stage = "none" /\ KeysDistinct
  BY <1>1 DEF Init, KeysDistinct
<1> QED BY <1>3, <1>4, <1>5, <1>6 DEF IInv
-----------------------------------------------------------------------------
\* One request changes; rows and attempts stay.
LEMMA OneRequest ==
  ASSUME IInv, NEW u \in Reqs, NEW y \in Request, req' = [req EXCEPT ![u] = y],
         UNCHANGED <<wallet, row, attempt, stale>>, lock' \in Reqs \cup {NoReq},
         lock' # lock /\ lock' # NoReq => \A o \in Owners : attempt[o].at = "none",
         \A r \in Reqs : r # u /\ lock' = r => lock = r,
         y.at # "off" => (y.of = V2 <=> y.kind \in {"stage", "activate"}),
         y.at # "off" /\ y.kind = "archive" => y.at = "commit" /\ row[y.of].stage # "none",
         lock' = u => y.at \in {"observe", "commit"} /\ y.kind \notin {"archive", "resume"},
         y.fresh => y.cash = row[y.of].cash /\ y.profit = row[y.of].profit
  PROVE  IInv'
<1>1. req' \in [Reqs -> Request] /\ req'[u] = y /\ \A r \in Reqs : r # u => req'[r] = req[r]
  BY DEF IInv, Typed
<1>2. Typed'
  BY <1>1 DEF IInv, Typed
<1>3. ASSUME NEW r \in Reqs PROVE RequestOK(r)'
  <2>1. CASE r = u
    BY <1>1, <2>1 DEF RequestOK
  <2>2. CASE r # u
    <3>1. req'[r] = req[r] /\ RequestOK(r)
      BY <1>1, <2>2 DEF IInv
    <3> QED BY <2>2, <3>1 DEF RequestOK
  <2> QED BY <2>1, <2>2
<1>4. LockIsAlone'
  BY DEF IInv, LockIsAlone
<1>5. (row[V2].stage = "open" => \A b \in Bots : Calm(b))' /\ (row[V2].stage \in {"none", "open"})'
  BY DEF IInv, Calm
<1>6. (\A b \in Bots \ stale : Balanced(b))'
  BY DEF IInv, Balanced
<1>7. KeysDistinct'
  BY DEF IInv, KeysDistinct
<1> QED BY <1>2, <1>3, <1>4, <1>5, <1>6, <1>7 DEF IInv

\* A new request: what it has read is the newest there is.
LEMMA AskInv ==
  ASSUME IInv, NEW u \in Reqs, NEW kind \in AllKinds, NEW o \in Owners, NEW at \in Points, NEW amount \in Nat,
         Ask(u, kind, o, at, amount), o = V2 <=> kind \in {"stage", "activate"},
         kind = "archive" => at = "commit" /\ row[o].stage # "none"
  PROVE  IInv'
<1> DEFINE y == [Idle EXCEPT !.at = at, !.kind = kind, !.of = o, !.amount = amount,
                             !.cash = row[o].cash, !.profit = row[o].profit, !.fresh = TRUE]
           B == BOOLEAN
           t == TRUE
<1>1. /\ req' = [req EXCEPT ![u] = y] /\ UNCHANGED <<wallet, row, attempt, stale, lock>>
      /\ req[u].at = "off"
  BY DEF Ask
<1>2. row[o] \in BookRow
  BY DEF IInv, Typed
<1>3. row[o].cash \in Int /\ row[o].profit \in Int
  BY <1>2 DEF BookRow
<1>4. y = [Idle EXCEPT !.at = at, !.kind = kind, !.of = o, !.amount = amount,
                       !.cash = row[o].cash, !.profit = row[o].profit, !.fresh = t] /\ t \in B
  OBVIOUS
<1>5. Request = [at : Points, kind : AllKinds, of : Owners, amount : Nat, key : Nat, cash : Int, profit : Int,
                 seen : Int, fresh : B]
  BY DEF Request
<1> HIDE DEF B, t, y
<1>6. y \in Request /\ y.at = at /\ y.kind = kind /\ y.of = o /\ y.cash = row[o].cash /\ y.profit = row[o].profit
  BY <1>3, <1>4, <1>5, IdleShape, RequestAsked
<1>7. lock # u
  BY <1>1 DEF IInv, RequestOK
<1> QED BY <1>1, <1>6, <1>7, OneRequest DEF IInv, Typed

LEMMA AsksInv == ASSUME IInv, NEW u \in Reqs, Asks(u) PROVE IInv'
<1> USE DEF AllKinds, Points, Open
<1>1. CASE AskCreate(u)
  BY <1>1, AskInv DEF AskCreate
<1>2. CASE AskClone(u)
  BY <1>2, AskInv DEF AskClone
<1>3. CASE AskTopUp(u)
  BY <1>3, AskInv DEF AskTopUp
<1>4. CASE AskResume(u)
  BY <1>4, AskInv DEF AskResume
<1>5. CASE AskArchive(u)
  BY <1>5, AskInv DEF AskArchive
<1>6. CASE AskStage(u)
  BY <1>6, AskInv DEF AskStage
<1>7. CASE AskActivate(u)
  BY <1>7, AskInv DEF AskActivate
<1> QED BY <1>1, <1>2, <1>3, <1>4, <1>5, <1>6, <1>7 DEF Asks

\* A request that moves on, keeping what it read.
LEMMA MoveInv ==
  ASSUME IInv, NEW u \in Reqs, NEW y, req' = [req EXCEPT ![u] = y], Requested(req[u], y), y.at # "off",
         req[u].at \in {"validate", "key", "lock", "observe"}, UNCHANGED <<wallet, row, attempt, stale>>,
         \/ UNCHANGED lock
         \/ lock' = u /\ \A o \in Owners : attempt[o].at = "none",
         lock' = u => y.at \in {"observe", "commit"} /\ req[u].kind \notin {"archive", "resume"}
  PROVE  IInv'
<1>1. req[u] \in Request /\ RequestOK(u) /\ lock \in Reqs \cup {NoReq}
  BY DEF IInv, Typed
<1> QED BY <1>1, OneRequest DEF RequestOK, Requested

\* A request that ends and leaves rows alone; the lock is free or another's.
LEMMA EndInv ==
  ASSUME IInv, NEW u \in Reqs, req' = Ends(u), UNCHANGED <<wallet, row, attempt, stale>>,
         (lock' = lock /\ lock # u) \/ lock' = NoReq
  PROVE  IInv'
<1>1. req' = [req EXCEPT ![u] = Idle]
  BY DEF Ends
<1> QED BY <1>1, IdleShape, OneRequest DEF IInv, Typed

LEMMA ValidateInv == ASSUME IInv, NEW u \in Reqs, Validate(u) PROVE IInv'
<1>1. req[u].at = "validate" /\ UNCHANGED <<wallet, row, attempt, lock, stale>> /\ lock # u
  BY DEF Validate, IInv, RequestOK
<1>2. CASE req' = Ends(u)
  BY <1>1, <1>2, EndInv
<1>3. CASE req' # Ends(u)
  <2>1. PICK a \in {"lock", "key"} : req' = [req EXCEPT ![u] = [req[u] EXCEPT !.at = a]]
    BY <1>3 DEF Validate
  <2>2. req[u] \in Request /\ a \in Points
    BY DEF IInv, Typed, Points
  <2>3. Requested(req[u], [req[u] EXCEPT !.at = a]) /\ [req[u] EXCEPT !.at = a].at = a
    BY <2>2, RequestMoves
  <2> QED BY <1>1, <2>1, <2>3, MoveInv
<1> QED BY <1>2, <1>3

LEMMA FindKeyInv == ASSUME IInv, NEW u \in Reqs, FindKey(u) PROVE IInv'
<1>1. req[u].at = "key" /\ UNCHANGED <<wallet, row, attempt, lock, stale>> /\ lock # u
  BY DEF FindKey, IInv, RequestOK
<1>2. PICK k \in 1 .. Cardinality(Bots) + 1 : req' = [req EXCEPT ![u] = [req[u] EXCEPT !.at = "lock", !.key = k]]
  BY DEF FindKey
<1>3. k \in Nat /\ req[u] \in Request /\ "lock" \in Points
  BY FS_CardinalityType, AdmissionAssumption DEF IInv, Typed, Points
<1> DEFINE y == [req[u] EXCEPT !.at = "lock", !.key = k]
<1>4. Requested(req[u], y) /\ y.at = "lock"
  BY <1>3, RequestFinds
<1> QED BY <1>1, <1>2, <1>4, MoveInv

LEMMA BeginInv == ASSUME IInv, NEW u \in Reqs, Begin(u) PROVE IInv'
<1>1. /\ req[u].at = "lock" /\ lock = NoReq /\ req[u].kind # "resume" /\ req[u].kind # "archive"
      /\ UNCHANGED <<wallet, row, attempt, stale>>
  BY DEF Begin, IInv, RequestOK
<1>2. CASE MayBegin(u)
  <2>1. lock' = u /\ req' = [req EXCEPT ![u] = [req[u] EXCEPT !.at = "observe"]]
    BY <1>2 DEF Begin, Goto
  <2>2. \A o \in Owners : attempt[o].at = "none"
    BY <1>2 DEF MayBegin, Unsettled
  <2>3. req[u] \in Request /\ "observe" \in Points
    BY DEF IInv, Typed, Points
  <2> DEFINE y == [req[u] EXCEPT !.at = "observe"]
  <2>4. Requested(req[u], y) /\ y.at = "observe"
    BY <2>3, RequestMoves
  <2> QED BY <1>1, <2>1, <2>2, <2>4, MoveInv
<1>3. CASE ~MayBegin(u)
  BY <1>1, <1>3, EndInv DEF Begin
<1> QED BY <1>2, <1>3

LEMMA ObserveInv == ASSUME IInv, NEW u \in Reqs, Observe(u) PROVE IInv'
<1> DEFINE y == [req[u] EXCEPT !.at = "commit", !.seen = wallet]
<1>1. req[u].at = "observe" /\ UNCHANGED <<wallet, row, attempt, lock, stale>> /\ req' = [req EXCEPT ![u] = y]
  BY DEF Observe
<1>2. req[u] \in Request /\ "commit" \in Points /\ wallet \in Int
  BY DEF IInv, Typed, Points
<1>3. Requested(req[u], y) /\ y.at = "commit"
  BY <1>2, RequestSees
<1>4. lock = u => req[u].kind \notin {"archive", "resume"}
  BY DEF IInv, RequestOK
<1> QED BY <1>1, <1>3, <1>4, MoveInv

LEMMA TimeOutInv == ASSUME IInv, NEW u \in Reqs, TimeOut(u) PROVE IInv'
BY EndInv DEF TimeOut
-----------------------------------------------------------------------------
\* Steps that write a row.  The requests that read it are outdated, or end.
LEMMA Outdated ==
  ASSUME NEW rs \in [Reqs -> Request], NEW o
  PROVE  /\ Outdate(rs, o) \in [Reqs -> Request]
         /\ \A r \in Reqs :
              /\ Outdate(rs, o)[r].at = rs[r].at /\ Outdate(rs, o)[r].kind = rs[r].kind
              /\ Outdate(rs, o)[r].of = rs[r].of
              /\ Outdate(rs, o)[r].cash = rs[r].cash /\ Outdate(rs, o)[r].profit = rs[r].profit
              /\ Outdate(rs, o)[r].fresh => rs[r].fresh /\ rs[r].of # o
<1>1. ASSUME NEW r \in Reqs
      PROVE  /\ Outdate(rs, o)[r] \in Request
             /\ Outdate(rs, o)[r].at = rs[r].at /\ Outdate(rs, o)[r].kind = rs[r].kind
             /\ Outdate(rs, o)[r].of = rs[r].of
             /\ Outdate(rs, o)[r].cash = rs[r].cash /\ Outdate(rs, o)[r].profit = rs[r].profit
             /\ Outdate(rs, o)[r].fresh => rs[r].fresh /\ rs[r].of # o
  <2> DEFINE B == BOOLEAN
             f == FALSE
             y == [rs[r] EXCEPT !.fresh = f]
  <2>1. rs[r] \in [at : Points, kind : AllKinds, of : Owners, amount : Nat, key : Nat, cash : Int, profit : Int,
                   seen : Int, fresh : B] /\ f \in B
    BY DEF Request
  <2>2. Request = [at : Points, kind : AllKinds, of : Owners, amount : Nat, key : Nat, cash : Int, profit : Int,
                   seen : Int, fresh : B]
    BY DEF Request
  <2>3. Outdate(rs, o)[r] = IF rs[r].of = o THEN y ELSE rs[r]
    BY DEF Outdate
  <2> HIDE DEF B, f, y
  <2>4. /\ y \in Request /\ y.at = rs[r].at /\ y.kind = rs[r].kind /\ y.of = rs[r].of /\ y.cash = rs[r].cash
        /\ y.profit = rs[r].profit /\ y.fresh = f
    BY <2>1, <2>2, RequestOutdated DEF y
  <2>5. f = FALSE
    BY DEF f
  <2> QED BY <2>3, <2>4, <2>5
<1>2. Outdate(rs, o) = [r \in Reqs |-> Outdate(rs, o)[r]]
  BY DEF Outdate
<1> QED BY <1>1, <1>2

\* Every request has ended or is as it was, and none is fresh that read row o.
Follow(o) ==
  /\ req' \in [Reqs -> Request]
  /\ \A r \in Reqs :
       \/ req'[r].at = "off" /\ ~req'[r].fresh /\ lock' # r
       \/ /\ req'[r].at = req[r].at /\ req'[r].kind = req[r].kind /\ req'[r].of = req[r].of
          /\ req'[r].cash = req[r].cash /\ req'[r].profit = req[r].profit
          /\ req'[r].fresh => req[r].fresh /\ req[r].of # o

LEMMA AllOutdated == ASSUME IInv, NEW o, req' = Outdate(req, o) PROVE Follow(o)
BY Outdated DEF Follow, IInv, Typed

LEMMA OneEnds ==
  ASSUME IInv, NEW o, NEW u \in Reqs, req' = Outdate(Ends(u), o), lock' # u
  PROVE  Follow(o)
<1> DEFINE rs == Ends(u)
<1>1. rs \in [Reqs -> Request] /\ rs[u] = Idle /\ \A r \in Reqs : r # u => rs[r] = req[r]
  BY IdleShape DEF Ends, IInv, Typed
<1> HIDE DEF rs
<1>2. req' = Outdate(rs, o)
  BY DEF rs
<1> QED BY <1>1, <1>2, IdleShape, Outdated DEF Follow

\* What may be written as row o.
Fits(o, x) ==
  /\ x \in BookRow
  /\ row[o].stage # "none" => x.stage # "none"
  /\ o \in Bots =>
       /\ o \in stale' \/ x.cash + x.held = x.budget + x.profit
       /\ x.stage # "none" =>
            \/ row[o].stage # "none" /\ x.key = row[o].key
            \/ \A b \in Bots : row[b].stage # "none" => row[b].key # x.key
       /\ x.stage = "open" /\ row[V2].stage = "open" =>
            x.status \in {"paused", "stopped"} /\ attempt'[o].at = "none"
  /\ o = V2 => x.stage \in {"none", "open"} /\ (x.stage = "open" => \A b \in Bots : Calm(b))

\* The rest of the state, when a row is written: the lock is kept or given back
\* and nothing new is unsettled.
Around ==
  /\ wallet' \in Int /\ stale \subseteq stale' /\ stale' \subseteq Bots
  /\ lock' = lock \/ lock' = NoReq
  /\ attempt' \in [Owners -> AttemptRow]
  /\ \A p \in Owners : attempt'[p].at # "none" => attempt[p].at # "none"

LEMMA RowWritten ==
  ASSUME IInv, NEW o \in Owners, NEW x, row' = [row EXCEPT ![o] = x], Fits(o, x), Follow(o), Around
  PROVE  IInv'
<1>1. row'[o] = x /\ (\A p \in Owners : p # o => row'[p] = row[p]) /\ row' \in [Owners -> BookRow]
  BY DEF IInv, Typed, Fits
<1>2. Typed'
  BY <1>1 DEF IInv, Typed, Follow, Around
<1>3. ASSUME NEW r \in Reqs PROVE RequestOK(r)'
  <2>1. RequestOK(r) /\ req[r] \in Request
    BY DEF IInv, Typed
  <2>2. req[r].of \in Owners
    BY <2>1 DEF Request
  <2>3. CASE req'[r].at = "off" /\ ~req'[r].fresh /\ lock' # r
    BY <2>3 DEF RequestOK
  <2>4. CASE ~(req'[r].at = "off" /\ ~req'[r].fresh /\ lock' # r)
    <3>1. /\ req'[r].at = req[r].at /\ req'[r].kind = req[r].kind /\ req'[r].of = req[r].of
          /\ req'[r].cash = req[r].cash /\ req'[r].profit = req[r].profit
          /\ req'[r].fresh => req[r].fresh /\ req[r].of # o
      BY <2>4 DEF Follow
    <3>2. lock' = r => lock = r
      BY DEF Around
    <3>3. row[req[r].of].stage # "none" => row'[req[r].of].stage # "none"
      BY <1>1, <2>2 DEF Fits
    <3>4. req[r].of # o => row'[req[r].of] = row[req[r].of]
      BY <1>1, <2>2
    <3> QED BY <2>1, <3>1, <3>2, <3>3, <3>4 DEF RequestOK
  <2> QED BY <2>3, <2>4
<1>4. LockIsAlone'
  BY DEF IInv, LockIsAlone, Around
<1>5. (row[V2].stage \in {"none", "open"})'
  BY <1>1 DEF IInv, Fits
<1>6. ASSUME row'[V2].stage = "open", NEW b \in Bots PROVE Calm(b)'
  <2>1. CASE o = V2
    BY <1>1, <1>6, <2>1 DEF Calm, Fits, Around
  <2>2. CASE o # V2
    <3>1. row[V2].stage = "open" /\ Calm(b)
      BY <1>1, <1>6, <2>2 DEF IInv
    <3>2. CASE b = o
      BY <1>1, <3>1, <3>2 DEF Calm, Fits
    <3>3. CASE b # o
      BY <1>1, <3>1, <3>3 DEF Calm, Around
    <3> QED BY <3>2, <3>3
  <2> QED BY <2>1, <2>2
<1>7. ASSUME NEW b \in Bots \ stale' PROVE Balanced(b)'
  <2>1. CASE b = o
    BY <1>1, <2>1 DEF Balanced, Fits
  <2>2. CASE b # o
    BY <1>1, <2>2 DEF IInv, Balanced, Around
  <2> QED BY <2>1, <2>2
<1>8. KeysDistinct'
  BY <1>1 DEF IInv, KeysDistinct, Fits
<1> QED BY <1>2, <1>3, <1>4, <1>5, <1>6, <1>7, <1>8 DEF IInv

LEMMA HaltInv == ASSUME IInv, NEW o \in Owners, Halt(o) PROVE IInv'
<1>1. PICK s \in {"paused", "stopped"} : row' = [row EXCEPT ![o] = [row[o] EXCEPT !.status = s]]
  BY DEF Halt
<1>2. row[o] \in BookRow /\ s \in States /\ row[o].cash \in Int /\ row[o].profit \in Int
  BY DEF IInv, Typed, BookRow, States
<1> DEFINE x == [row[o] EXCEPT !.status = s]
<1>3. /\ x \in BookRow /\ x.stage = row[o].stage /\ x.status = s /\ x.cash = row[o].cash
      /\ x.profit = row[o].profit /\ x.held = row[o].held /\ x.budget = row[o].budget /\ x.key = row[o].key
  BY <1>2, BookStatus
<1> HIDE DEF x
<1>4. row[o].stage = "open"
  BY DEF Halt, Open
<1>5. UNCHANGED <<wallet, attempt, lock, stale>> /\ req' = Outdate(req, o) /\ row' = [row EXCEPT ![o] = x]
  BY <1>1 DEF Halt, x
<1>6. Around /\ Follow(o)
  BY <1>5, AllOutdated DEF Around, IInv, Typed
<1>7. o = V2 => \A b \in Bots : Calm(b)
  BY <1>4 DEF IInv
<1>8. o \in Bots /\ row[V2].stage = "open" => attempt[o].at = "none"
  BY <1>4 DEF IInv, Calm
<1>9. o \in Bots => o \in stale \/ row[o].cash + row[o].held = row[o].budget + row[o].profit
  BY DEF IInv, Balanced
<1>10. Fits(o, x)
  BY <1>3, <1>4, <1>5, <1>7, <1>8, <1>9 DEF Fits
<1> QED BY <1>5, <1>6, <1>10, RowWritten

LEMMA ArchiveInv == ASSUME IInv, NEW u \in Reqs, Archive(u) PROVE IInv'
<1> DEFINE o == req[u].of
           x == [row[o] EXCEPT !.stage = "archived"]
<1>1. /\ req[u].at = "commit" /\ req[u].kind = "archive" /\ row' = [row EXCEPT ![o] = x]
      /\ req' = Outdate(Ends(u), o) /\ UNCHANGED <<wallet, attempt, lock, stale>>
  BY DEF Archive
<1>2. o \in Bots /\ row[o].stage # "none" /\ lock # u /\ row[o] \in BookRow
  BY <1>1 DEF IInv, RequestOK, Typed, Request
<1>3. /\ x \in BookRow /\ x.stage = "archived" /\ x.cash = row[o].cash /\ x.profit = row[o].profit
      /\ x.held = row[o].held /\ x.budget = row[o].budget /\ x.key = row[o].key
  BY <1>2, BookStage DEF Stages
<1> HIDE DEF x
<1>4. Around /\ Follow(o)
  BY <1>1, <1>2, OneEnds DEF Around, IInv, Typed
<1>5. Fits(o, x)
  <2>1. o \in stale' \/ x.cash + x.held = x.budget + x.profit
    BY <1>1, <1>2, <1>3 DEF IInv, Balanced
  <2> QED BY <1>2, <1>3, <2>1 DEF Fits
<1> QED BY <1>1, <1>2, <1>4, <1>5, RowWritten

LEMMA ResumeInv == ASSUME IInv, NEW u \in Reqs, Resume(u) PROVE IInv'
<1> DEFINE o == req[u].of
           x == [row[o] EXCEPT !.status = "running", !.cash = req[u].cash, !.profit = req[u].profit]
<1>1. /\ req[u].at = "lock" /\ req[u].kind = "resume" /\ lock' = NoReq /\ lock = NoReq
      /\ UNCHANGED <<wallet, attempt>>
  BY DEF Resume
<1>2. req[u] \in Request
  BY DEF IInv, Typed
<1>3. o \in Bots /\ req[u].cash \in Int /\ req[u].profit \in Int /\ row[o] \in BookRow
  BY <1>1, <1>2 DEF IInv, RequestOK, Typed, Request
<1>4. CASE MayResume
  <2>1. /\ row' = [row EXCEPT ![o] = x] /\ req' = Outdate(Ends(u), o)
        /\ stale' = IF req[u].fresh THEN stale ELSE stale \cup {o}
    BY <1>4 DEF Resume
  <2>2. x = Resumed(row[o], "running", req[u].cash, req[u].profit)
    BY DEF Resumed
  <2> HIDE DEF x
  <2>3. /\ x \in BookRow /\ x.stage = row[o].stage /\ x.cash = req[u].cash /\ x.profit = req[u].profit
        /\ x.held = row[o].held /\ x.budget = row[o].budget /\ x.key = row[o].key
    BY <1>3, <2>2, BookResumed DEF States
  <2>4. Around /\ Follow(o)
    BY <1>1, <1>3, <2>1, OneEnds DEF Around, IInv, Typed
  <2>5. o \in stale' \/ x.cash + x.held = x.budget + x.profit
    BY <1>3, <2>1, <2>3 DEF IInv, RequestOK, Balanced
  <2>6. row[V2].stage # "open"
    BY <1>4 DEF MayResume, LegacyAdmitted
  <2>7. Fits(o, x)
    BY <1>3, <2>3, <2>5, <2>6 DEF Fits
  <2> QED BY <1>3, <2>1, <2>4, <2>7, RowWritten
<1>5. CASE ~MayResume
  BY <1>1, <1>5, EndInv DEF Resume
<1> QED BY <1>4, <1>5

LEMMA CommitInv == ASSUME IInv, NEW u \in Reqs, Commit(u) PROVE IInv'
<1> DEFINE o == req[u].of
           x == Written(u)
<1>1. req[u].at = "commit" /\ lock = u /\ lock' = NoReq /\ UNCHANGED <<wallet, attempt, stale>>
  BY DEF Commit
<1>2. CASE ~Granted(u)
  BY <1>1, <1>2, EndInv DEF Commit
<1>3. CASE Granted(u)
  <2>1. row' = [row EXCEPT ![o] = x] /\ req' = Outdate(Ends(u), o)
    BY <1>3 DEF Commit
  <2>2. req[u] \in Request /\ RequestOK(u) /\ req[u].kind \notin {"archive", "resume"}
    BY <1>1 DEF IInv, Typed, RequestOK
  <2>3. /\ o \in Owners /\ (o = V2 <=> req[u].kind \in {"stage", "activate"})
        /\ req[u].amount \in Nat /\ req[u].key \in Nat /\ req[u].cash \in Int /\ req[u].profit \in Int
        /\ req[u].kind \in AllKinds
    BY <1>1, <2>2 DEF Request, RequestOK
  <2>4. row[o] \in BookRow /\ \A p \in Owners : attempt[p].at = "none"
    BY <1>1, <2>3 DEF IInv, Typed, LockIsAlone
  <2>5. row[o].budget \in Int
    BY <2>4 DEF BookRow
  <2>6. CASE req[u].kind \in {"create", "clone"}
    <3>1. /\ x = [stage |-> "open", status |-> "paused", cash |-> req[u].amount, profit |-> 0, held |-> 0,
                  budget |-> req[u].amount, key |-> req[u].key]
          /\ row[V2].stage = "none" /\ req[u].key \notin KeysTaken
      BY <1>3, <2>6 DEF Written, NewRow, Granted, MayCreate, LegacyAdmitted
    <3>2. /\ x \in BookRow /\ x.cash + x.held = x.budget + x.profit /\ x.stage = "open"
          /\ \A b \in Bots : row[b].stage # "none" => row[b].key # x.key
      BY <2>3, <3>1 DEF BookRow, Stages, States, KeysTaken
    <3>3. Fits(o, x)
      BY <2>3, <2>6, <3>1, <3>2 DEF Fits
    <3> QED BY <1>1, <2>1, <2>3, <3>3, OneEnds, RowWritten DEF Around, IInv, Typed
  <2>7. CASE req[u].kind = "top up"
    <3>1. /\ x = [row[o] EXCEPT !.cash = req[u].cash + req[u].amount, !.profit = req[u].profit,
                                !.budget = row[o].budget + req[u].amount]
          /\ row[o].stage = "open" /\ row[o].status \in {"paused", "stopped"} /\ req[u].fresh
      BY <1>3, <2>7 DEF Written, ToppedUp, Granted, MayTopUp, Halted
    <3>2. req[u].cash + req[u].amount \in Int /\ row[o].budget + req[u].amount \in Int
      BY <2>3, <2>5
    <3> DEFINE c == req[u].cash + req[u].amount
               b == row[o].budget + req[u].amount
    <3>3. x = MoreBudget(row[o], c, req[u].profit, b) /\ c \in Int /\ b \in Int
      BY <3>1, <3>2 DEF MoreBudget
    <3> HIDE DEF c, b, x
    <3>4. /\ x \in BookRow /\ x.stage = row[o].stage /\ x.status = row[o].status /\ x.cash = c
          /\ x.profit = req[u].profit /\ x.held = row[o].held /\ x.budget = b /\ x.key = row[o].key
      BY <2>3, <2>4, <3>3, BookToppedUp
    <3>5. req[u].cash = row[o].cash /\ req[u].profit = row[o].profit
      BY <2>2, <3>1 DEF RequestOK
    <3>6. row[o].held \in Int /\ row[o].cash \in Int /\ row[o].profit \in Int
      BY <2>4 DEF BookRow
    <3>7. o \in stale' \/ x.cash + x.held = x.budget + x.profit
      <4>1. o \in Bots \ stale => row[o].cash + row[o].held = row[o].budget + row[o].profit
        BY DEF IInv, Balanced
      <4>2. c = row[o].cash + req[u].amount /\ b = row[o].budget + req[u].amount
        BY <3>5 DEF c, b
      <4>3. o \in Bots /\ stale' = stale
        BY <1>1, <2>3, <2>7
      <4> QED BY <2>3, <2>5, <3>4, <3>5, <3>6, <4>1, <4>2, <4>3
    <3>8. Fits(o, x)
      BY <1>1, <2>3, <2>4, <2>7, <3>1, <3>4, <3>7 DEF Fits
    <3> QED BY <1>1, <2>1, <2>3, <3>8, OneEnds, RowWritten DEF Around, IInv, Typed
  <2>8. CASE req[u].kind = "stage"
    <3>1. /\ x = [stage |-> "open", status |-> "paused", cash |-> req[u].amount, profit |-> 0, held |-> 0,
                  budget |-> req[u].amount, key |-> req[u].key]
          /\ NoActiveLegacy
      BY <1>3, <2>8 DEF Written, NewRow, Granted, MayStage
    <3>2. x \in BookRow /\ x.stage = "open"
      BY <2>3, <3>1 DEF BookRow, Stages, States
    <3>3. \A b \in Bots : Calm(b)
      BY <2>4, <3>1 DEF NoActiveLegacy, Open, Halted, Calm
    <3>4. Fits(o, x)
      BY <2>3, <2>8, <3>2, <3>3 DEF Fits
    <3> QED BY <1>1, <2>1, <2>3, <3>4, OneEnds, RowWritten DEF Around, IInv, Typed
  <2>9. CASE req[u].kind = "activate"
    <3>1. x = [row[o] EXCEPT !.status = "running"] /\ o = V2
      BY <2>3, <2>9 DEF Written
    <3> HIDE DEF x
    <3>2. x \in BookRow /\ x.stage = row[o].stage
      BY <2>4, <3>1, BookStatus DEF States
    <3>3. Fits(o, x)
      BY <3>1, <3>2 DEF Fits, IInv
    <3> QED BY <1>1, <2>1, <2>3, <3>3, OneEnds, RowWritten DEF Around, IInv, Typed
  <2> QED BY <2>2, <2>3, <2>6, <2>7, <2>8, <2>9 DEF AllKinds
<1> QED BY <1>2, <1>3

LEMMA ServeInv == ASSUME IInv, NEW u \in Reqs, Serve(u) PROVE IInv'
BY ValidateInv, FindKeyInv, BeginInv, ObserveInv, TimeOutInv, CommitInv, ArchiveInv, ResumeInv DEF Serve
-----------------------------------------------------------------------------
\* Trades.
LEMMA TradeKeeps ==
  ASSUME IInv, UNCHANGED <<row, req, stale>>, wallet' \in Int, attempt' \in [Owners -> AttemptRow],
         UNCHANGED lock, lock # NoReq => \A p \in Owners : attempt'[p].at = "none" \/ attempt[p].at # "none",
         row[V2].stage = "open" => \A b \in Bots : row[b].stage = "open" => attempt'[b].at = "none" \/ attempt[b].at # "none"
  PROVE  IInv'
<1>1. Typed' /\ LockIsAlone'
  BY DEF IInv, Typed, LockIsAlone
<1>2. \A r \in Reqs : RequestOK(r)'
  BY DEF IInv, RequestOK
<1>3. (row[V2].stage = "open" => \A b \in Bots : Calm(b))' /\ (row[V2].stage \in {"none", "open"})'
  BY DEF IInv, Calm
<1>4. (\A b \in Bots \ stale : Balanced(b))' /\ KeysDistinct'
  BY DEF IInv, Balanced, KeysDistinct
<1> QED BY <1>1, <1>2, <1>3, <1>4 DEF IInv

LEMMA PrepareInv == ASSUME IInv, NEW o \in Owners, Prepare(o) PROVE IInv'
<1>1. PICK side \in {"buy", "sell"}, gain \in 0 .. 1 :
        attempt' = [attempt EXCEPT ![o] = [at |-> "prepared", side |-> side, gain |-> gain]]
  BY DEF Prepare
<1>2. [at |-> "prepared", side |-> side, gain |-> gain] \in AttemptRow
  BY DEF AttemptRow
<1>3. attempt' \in [Owners -> AttemptRow] /\ \A p \in Owners : p # o => attempt'[p] = attempt[p]
  BY <1>1, <1>2 DEF IInv, Typed
<1>4. /\ UNCHANGED <<wallet, row, lock, req, stale>> /\ lock = NoReq
      /\ o \in Bots => row[V2].stage # "open"
  BY DEF Prepare, MayPrepare, LegacyAdmitted
<1> QED BY <1>3, <1>4, TradeKeeps DEF IInv, Typed

LEMMA SendInv == ASSUME IInv, NEW o \in Owners, Send(o) PROVE IInv'
<1>1. PICK s \in {"moved", "failed"} : attempt' = [attempt EXCEPT ![o].at = s]
  BY DEF Send
<1>2. attempt[o] \in AttemptRow /\ attempt[o].at = "prepared" /\ UNCHANGED <<row, lock, req, stale>>
  BY DEF IInv, Typed, Send
<1>3. [attempt[o] EXCEPT !.at = s] \in AttemptRow
  BY <1>2 DEF AttemptRow
<1>4. attempt' \in [Owners -> AttemptRow] /\ \A p \in Owners : p # o => attempt'[p] = attempt[p]
  BY <1>1, <1>3 DEF IInv, Typed
<1>5. wallet' \in Int
  BY <1>2 DEF Send, IInv, Typed, AttemptRow
<1> QED BY <1>2, <1>4, <1>5, TradeKeeps

LEMMA SettleInv == ASSUME IInv, NEW o \in Owners, Settle(o) PROVE IInv'
<1> DEFINE a == attempt[o]
           x == Filled(row[o], a)
<1>1. /\ row' = [row EXCEPT ![o] = x] /\ attempt' = [attempt EXCEPT ![o] = NoAttempt]
      /\ req' = Outdate(req, o) /\ UNCHANGED <<wallet, lock, stale>> /\ a.at \in {"moved", "failed"}
  BY DEF Settle
<1>2. row[o] \in BookRow /\ a \in AttemptRow /\ NoAttempt \in AttemptRow /\ NoAttempt.at = "none"
  BY DEF IInv, Typed, NoAttempt, AttemptRow
<1>3. attempt' \in [Owners -> AttemptRow] /\ attempt'[o].at = "none" /\ \A p \in Owners : p # o => attempt'[p] = attempt[p]
  BY <1>1, <1>2 DEF IInv, Typed
<1>4. row[o].cash \in Int /\ row[o].held \in Int /\ row[o].profit \in Int /\ a.gain \in Int
  BY <1>2 DEF BookRow, AttemptRow
<1>5. PICK c \in Int, h \in Int, p \in Int :
        /\ x \in BookRow /\ x.stage = row[o].stage /\ x.status = row[o].status /\ x.cash = c /\ x.held = h
        /\ x.profit = p /\ x.budget = row[o].budget /\ x.key = row[o].key
        /\ c + h - p = row[o].cash + row[o].held - row[o].profit
  <2>1. CASE a.at = "failed"
    BY <1>2, <1>4, <2>1 DEF Filled
  <2>2. CASE a.at # "failed" /\ a.side = "buy"
    <3> DEFINE c == row[o].cash - 1
               h == row[o].held + 1
    <3>1. x = Bought(row[o], c, h) /\ c \in Int /\ h \in Int
      BY <1>4, <2>2 DEF Filled, Bought
    <3>2. c + h - row[o].profit = row[o].cash + row[o].held - row[o].profit
      BY <1>4
    <3> HIDE DEF c, h
    <3>3. /\ x \in BookRow /\ x.stage = row[o].stage /\ x.status = row[o].status /\ x.cash = c /\ x.held = h
          /\ x.profit = row[o].profit /\ x.budget = row[o].budget /\ x.key = row[o].key
      BY <1>2, <3>1, BookBought
    <3> QED BY <1>4, <3>1, <3>2, <3>3
  <2>3. CASE a.at # "failed" /\ a.side # "buy"
    <3> DEFINE c == row[o].cash + 1 + a.gain
               h == row[o].held - 1
               p == row[o].profit + a.gain
    <3>1. x = Sold(row[o], c, h, p) /\ c \in Int /\ h \in Int /\ p \in Int
      BY <1>4, <2>3 DEF Filled, Sold
    <3>2. c + h - p = row[o].cash + row[o].held - row[o].profit
      BY <1>4
    <3> HIDE DEF c, h, p
    <3>3. /\ x \in BookRow /\ x.stage = row[o].stage /\ x.status = row[o].status /\ x.cash = c /\ x.held = h
          /\ x.profit = p /\ x.budget = row[o].budget /\ x.key = row[o].key
      BY <1>2, <3>1, BookSold
    <3> QED BY <3>1, <3>2, <3>3
  <2> QED BY <2>1, <2>2, <2>3
<1> HIDE DEF x
<1>6. row[o].budget \in Int
  BY <1>2 DEF BookRow
<1>7. o \in Bots => o \in stale' \/ x.cash + x.held = x.budget + x.profit
  BY <1>1, <1>4, <1>5, <1>6 DEF IInv, Balanced
<1>8. \A u \in Owners : attempt'[u].at # "none" => attempt[u].at # "none"
  BY <1>3
<1>9. o = V2 => x.stage \in {"none", "open"} /\ (x.stage = "open" => \A b \in Bots : Calm(b))
  BY <1>5 DEF IInv
<1>10. o \in Bots /\ x.stage = "open" /\ row[V2].stage = "open" => x.status \in {"paused", "stopped"}
  BY <1>5 DEF IInv, Calm
<1>11. Fits(o, x)
  BY <1>3, <1>5, <1>7, <1>9, <1>10 DEF Fits
<1>12. Around /\ Follow(o)
  BY <1>1, <1>3, <1>8, AllOutdated DEF Around, IInv, Typed
<1> QED BY <1>1, <1>11, <1>12, RowWritten
-----------------------------------------------------------------------------
LEMMA InvHolds == Spec => []IInv
<1>1. ASSUME IInv, [Next]_vars PROVE IInv'
  <2>1. CASE \E u \in Reqs : Asks(u) \/ Serve(u)
    BY <1>1, <2>1, AsksInv, ServeInv
  <2>2. CASE \E o \in Owners : Trade(o) \/ Halt(o)
    BY <1>1, <2>2, PrepareInv, SendInv, SettleInv, HaltInv DEF Trade
  <2>3. CASE UNCHANGED vars
    BY <1>1, <2>3 DEF vars, IInv, Typed, RequestOK, LockIsAlone, Calm, Balanced, KeysDistinct
  <2> QED BY <1>1, <2>1, <2>2, <2>3 DEF Next
<1> QED BY <1>1, InitInv, PTL DEF Spec

\* While a portfolio is staged no legacy bot runs or has anything unsettled
\* (docs/portfolio-v2.md:44): the lock's holder has looked, and every later
\* creation, resumption and preparation finds the portfolio.
THEOREM OneModel == Spec => []OneModelPerWallet
<1>1. IInv => OneModelPerWallet
  BY DEF IInv, Calm, OneModelPerWallet, Open, Halted
<1> QED BY <1>1, InvHolds, PTL

\* No two bots that exist share a key, however many requests look for one at
\* once (createUniqueBotKey and the unique column).
THEOREM KeysStayDistinct == Spec => []KeysDistinct
<1>1. IInv => KeysDistinct
  BY DEF IInv
<1> QED BY <1>1, InvHolds, PTL

\* A bot's cash and lots are its budget and profits, through any order of
\* fills, top-ups and resumptions of a snapshot that is still the newest.
THEOREM BooksKeepBudget == Spec => []BooksMatchBudget
<1>1. IInv => BooksMatchBudget
  BY DEF IInv, Balanced, BooksMatchBudget
<1> QED BY <1>1, InvHolds, PTL

\* The wallet never spends what it has not, and the bounds stay bounds.
Bounds == [asks : 0 .. MaxAsks, trades : 0 .. MaxTrades, halts : 0 .. MaxHalts]
Counted == wallet \in Nat /\ left \in Bounds

LEMMA LeftCountsDown ==
  ASSUME Counted
  PROVE  /\ left.asks > 0 => [left EXCEPT !.asks = @ - 1] \in Bounds
         /\ left.trades > 0 => [left EXCEPT !.trades = @ - 1] \in Bounds
         /\ left.halts > 0 => [left EXCEPT !.halts = @ - 1] \in Bounds
BY AdmissionAssumption DEF Counted, Bounds

LEMMA CountsHold == Spec => []Counted
<1>1. Init => Counted
  BY AdmissionAssumption DEF Init, Counted, Bounds
<1>2. ASSUME IInv, Counted, [Next]_vars PROVE Counted'
  <2>1. /\ left.asks > 0 => [left EXCEPT !.asks = @ - 1] \in Bounds
        /\ left.trades > 0 => [left EXCEPT !.trades = @ - 1] \in Bounds
        /\ left.halts > 0 => [left EXCEPT !.halts = @ - 1] \in Bounds
    BY <1>2, LeftCountsDown
  <2>2. ASSUME NEW r \in Reqs, Asks(r) PROVE Counted'
    <3>1. left.asks > 0 /\ left' = [left EXCEPT !.asks = @ - 1] /\ wallet' = wallet
      BY <2>2 DEF Asks, AskCreate, AskClone, AskTopUp, AskResume, AskArchive, AskStage, AskActivate, Ask
    <3> QED BY <1>2, <2>1, <3>1 DEF Counted
  <2>3. ASSUME NEW r \in Reqs, Serve(r) PROVE Counted'
    BY <1>2, <2>3 DEF Counted, Serve, Validate, FindKey, Begin, Observe, TimeOut, Commit, Archive, Resume
  <2>4. ASSUME NEW o \in Owners, Prepare(o) \/ Halt(o) PROVE Counted'
    <3>1. /\ wallet' = wallet
          /\ \/ left.trades > 0 /\ left' = [left EXCEPT !.trades = @ - 1]
             \/ left.halts > 0 /\ left' = [left EXCEPT !.halts = @ - 1]
      BY <2>4 DEF Prepare, Halt
    <3> QED BY <1>2, <2>1, <3>1 DEF Counted
  <2>5. ASSUME NEW o \in Owners, Send(o) PROVE Counted'
    <3>1. attempt[o].gain \in 0 .. 1
      BY <1>2 DEF IInv, Typed, AttemptRow
    <3> QED BY <1>2, <2>5, <3>1 DEF Counted, Send
  <2>6. ASSUME NEW o \in Owners, Settle(o) PROVE Counted'
    BY <1>2, <2>6 DEF Counted, Settle
  <2>7. CASE UNCHANGED vars
    BY <1>2, <2>7 DEF Counted, vars
  <2> QED BY <1>2, <2>2, <2>3, <2>4, <2>5, <2>6, <2>7 DEF Next, Trade
<1> QED BY <1>1, <1>2, InvHolds, PTL DEF Spec

-----------------------------------------------------------------------------
\* What the bots claim is covered.  A bot's share of the wallet is its cash and
\* what an execution the books do not know yet has moved; an archived bot has none,
\* unless it may still send a purchase.  The shares of all bots never exceed
\* the wallet: whoever commits has seen it, with nothing unsettled.
Pending(a) == IF a.at # "moved" THEN 0 ELSE IF a.side = "buy" THEN -1 ELSE 1 + a.gain
Owed(a) == IF a.at = "prepared" /\ a.side = "buy" THEN 1 ELSE 0
ShareOf(x, a) == IF x.stage = "open" THEN x.cash + Pending(a) ELSE Owed(a)
Shares == SumFunctionOnSet([o \in Owners |-> ShareOf(row[o], attempt[o])], Owners)
CanPay(x, a) == x.cash >= 0 /\ (a.at \in {"prepared", "moved"} /\ a.side = "buy" => x.cash >= 1)

SeenIsWallet == \A r \in Reqs : lock = r /\ req[r].at = "commit" => req[r].seen = wallet
CoverInv ==
  /\ SeenIsWallet
  /\ stale = {} => (\A o \in Owners : CanPay(row[o], attempt[o])) /\ Shares <= wallet

LEMMA OwnersFinite == IsFiniteSet(Owners)
BY AdmissionAssumption, FS_AddElement DEF Owners

LEMMA ShareIsInt ==
  ASSUME NEW x \in BookRow, NEW a \in AttemptRow
  PROVE  x.cash \in Int /\ ShareOf(x, a) \in Int /\ a.gain \in 0 .. 1 /\ a.side \in {"buy", "sell"}
<1>1. x.cash \in Int /\ a.gain \in 0 .. 1 /\ a.side \in {"buy", "sell"}
  BY DEF BookRow, AttemptRow
<1>2. Pending(a) \in Int /\ Owed(a) \in Int
  BY <1>1 DEF Pending, Owed
<1> QED BY <1>1, <1>2 DEF ShareOf

LEMMA SharesAreInt == ASSUME IInv PROVE Shares \in Int
<1> DEFINE f == [o \in Owners |-> ShareOf(row[o], attempt[o])]
<1>1. \A o \in Owners : f[o] \in Int
  BY ShareIsInt DEF IInv, Typed
<1> HIDE DEF f
<1>2. SumFunctionOnSet(f, Owners) \in Int
  BY <1>1, OwnersFinite, SumIsInt
<1> QED BY <1>2 DEF Shares, f

\* One bot's row and attempt change: the shares change by its own.
LEMMA OneShare ==
  ASSUME IInv, IInv', NEW o \in Owners,
         \A p \in Owners \ {o} : row'[p] = row[p] /\ attempt'[p] = attempt[p]
  PROVE  Shares' = Shares - ShareOf(row[o], attempt[o]) + ShareOf(row'[o], attempt'[o])
<1> DEFINE f == [p \in Owners |-> ShareOf(row[p], attempt[p])]
           g == [p \in Owners |-> ShareOf(row'[p], attempt'[p])]
<1>1. \A p \in Owners : f[p] \in Int /\ g[p] \in Int
  BY ShareIsInt DEF IInv, Typed
<1>2. \A p \in Owners \ {o} : f[p] = g[p]
  OBVIOUS
<1>3. f[o] = ShareOf(row[o], attempt[o]) /\ g[o] = ShareOf(row'[o], attempt'[o])
  OBVIOUS
<1>4. Shares = SumFunctionOnSet(f, Owners) /\ Shares' = SumFunctionOnSet(g, Owners)
  BY DEF Shares
<1> HIDE DEF f, g
<1>5. SumFunctionOnSet(g, Owners) = SumFunctionOnSet(f, Owners) - f[o] + g[o]
  BY <1>1, <1>2, OwnersFinite, SumOfChange
<1> QED BY <1>3, <1>4, <1>5

\* With nothing unsettled the shares are what the bots claim.
LEMMA SharesAreClaims ==
  ASSUME IInv, \A o \in Owners : attempt[o].at = "none"
  PROVE  Shares = Claims
<1> DEFINE f == [o \in Owners |-> row[o].cash]
           g == [o \in Owners |-> ShareOf(row[o], attempt[o])]
<1>1. \A o \in Owners : f[o] \in Int
  BY DEF IInv, Typed, BookRow
<1>2. ASSUME NEW o \in Owners PROVE g[o] = IF o \in Open THEN f[o] ELSE 0
  <2>1. Pending(attempt[o]) = 0 /\ Owed(attempt[o]) = 0
    BY DEF Pending, Owed
  <2>2. row[o].cash \in Int
    BY DEF IInv, Typed, BookRow
  <2> QED BY <2>1, <2>2 DEF ShareOf, Open
<1>3. Open \subseteq Owners
  BY DEF Open
<1>4. Shares = SumFunctionOnSet(g, Owners) /\ Claims = SumFunctionOnSet(f, Open)
  BY DEF Shares, Claims
<1> HIDE DEF f, g
<1>5. SumFunctionOnSet(f, Open) = SumFunctionOnSet(g, Owners)
  BY <1>1, <1>2, <1>3, OwnersFinite, SumOfPart
<1> QED BY <1>4, <1>5

\* A step of one bot: it can still pay, and its share grows no more than leaves
\* the shares covered.
LEMMA OneCovered ==
  ASSUME IInv, IInv', CoverInv, SeenIsWallet', NEW o \in Owners, stale \subseteq stale',
         \A p \in Owners \ {o} : row'[p] = row[p] /\ attempt'[p] = attempt[p],
         stale' = {} =>
           /\ CanPay(row'[o], attempt'[o])
           /\ Shares - ShareOf(row[o], attempt[o]) + ShareOf(row'[o], attempt'[o]) <= wallet'
  PROVE  CoverInv'
<1>1. ASSUME stale' = {} PROVE (\A p \in Owners : CanPay(row[p], attempt[p]))' /\ (Shares <= wallet)'
  <2>1. (Shares <= wallet)'
    BY <1>1, OneShare
  <2>2. stale = {} /\ \A p \in Owners : CanPay(row[p], attempt[p])
    BY <1>1 DEF CoverInv
  <2> QED BY <1>1, <2>1, <2>2
<1> QED BY <1>1 DEF CoverInv

\* A step that changes neither rows nor attempts.
LEMMA QuietCovered ==
  ASSUME CoverInv, SeenIsWallet', UNCHANGED <<wallet, row, attempt, stale>>
  PROVE  CoverInv'
BY DEF CoverInv, Shares

\* The lock is free: nobody's view of the wallet matters.
LEMMA FreeSeen == ASSUME lock' = NoReq PROVE SeenIsWallet'
BY DEF SeenIsWallet

\* One request changes: the others' views stand.
LEMMA OneSeen ==
  ASSUME IInv, SeenIsWallet, NEW u \in Reqs, NEW y, req' = [req EXCEPT ![u] = y], wallet' = wallet,
         \A r \in Reqs : r # u /\ lock' = r => lock = r,
         lock' = u /\ y.at = "commit" => y.seen = wallet
  PROVE  SeenIsWallet'
<1>1. req'[u] = y /\ \A r \in Reqs : r # u => req'[r] = req[r]
  BY DEF IInv, Typed
<1> QED BY <1>1 DEF SeenIsWallet

\* Outdating keeps what a request saw.
LEMMA OutdatedSeen ==
  ASSUME NEW rs \in [Reqs -> Request], NEW o, NEW r \in Reqs
  PROVE  Outdate(rs, o)[r].seen = rs[r].seen /\ Outdate(rs, o)[r].at = rs[r].at
BY DEF Outdate, Request

LEMMA AsksCovered == ASSUME IInv, CoverInv, NEW u \in Reqs, Asks(u) PROVE CoverInv'
<1>1. PICK y : req' = [req EXCEPT ![u] = y] /\ UNCHANGED <<wallet, row, attempt, lock, stale>> /\ req[u].at = "off"
  BY DEF Asks, AskCreate, AskClone, AskTopUp, AskResume, AskArchive, AskStage, AskActivate, Ask
<1>2. lock # u
  BY <1>1 DEF IInv, RequestOK
<1> QED BY <1>1, <1>2, OneSeen, QuietCovered DEF CoverInv

\* The steps of a request on its way to its commit.
LEMMA WayCovered ==
  ASSUME IInv, CoverInv, NEW u \in Reqs, Validate(u) \/ FindKey(u) \/ Begin(u) \/ Observe(u) \/ TimeOut(u)
  PROVE  CoverInv'
<1>1. UNCHANGED <<wallet, row, attempt, stale>> /\ (lock = u => req[u].at \in {"observe", "commit"})
  BY DEF Validate, FindKey, Begin, Observe, TimeOut, IInv, RequestOK
<1>2. CASE Validate(u) \/ FindKey(u)
  <2>1. PICK y : req' = [req EXCEPT ![u] = y] /\ lock' = lock /\ req[u].at \in {"validate", "key"}
    BY <1>2 DEF Validate, FindKey, Ends
  <2> QED BY <1>1, <2>1, OneSeen, QuietCovered DEF CoverInv
<1>3. CASE Begin(u)
  <2>1. CASE MayBegin(u)
    <3> DEFINE y == [req[u] EXCEPT !.at = "observe"]
    <3>1. req' = [req EXCEPT ![u] = y] /\ lock' = u
      BY <1>3, <2>1 DEF Begin, Goto
    <3>2. req[u] \in Request /\ "observe" \in Points
      BY DEF IInv, Typed, Points
    <3>3. y.at = "observe"
      BY <3>2, RequestMoves
    <3> HIDE DEF y
    <3> QED BY <1>1, <3>1, <3>3, OneSeen, QuietCovered DEF CoverInv
  <2>2. CASE ~MayBegin(u)
    BY <1>1, <1>3, <2>2, FreeSeen, QuietCovered DEF Begin
  <2> QED BY <2>1, <2>2
<1>4. CASE Observe(u)
  <2> DEFINE y == [req[u] EXCEPT !.at = "commit", !.seen = wallet]
  <2>1. req' = [req EXCEPT ![u] = y] /\ lock' = lock
    BY <1>4 DEF Observe
  <2>2. y.seen = wallet
    BY DEF IInv, Typed, Request
  <2> HIDE DEF y
  <2> QED BY <1>1, <2>1, <2>2, OneSeen, QuietCovered DEF CoverInv
<1>5. CASE TimeOut(u)
  <2>1. req' = [req EXCEPT ![u] = Idle] /\ lock' # u /\ (lock' = lock \/ lock' = NoReq)
    BY <1>5 DEF TimeOut, Ends
  <2> QED BY <1>1, <2>1, OneSeen, QuietCovered DEF CoverInv
<1> QED BY <1>2, <1>3, <1>4, <1>5

\* What is granted under the lock was covered by the wallet, as it still is.
LEMMA CommitCovered == ASSUME IInv, IInv', CoverInv, NEW u \in Reqs, Commit(u) PROVE CoverInv'
<1> DEFINE o == req[u].of
           x == Written(u)
<1>1. req[u].at = "commit" /\ lock = u /\ lock' = NoReq /\ UNCHANGED <<wallet, attempt, stale>>
  BY DEF Commit
<1>2. SeenIsWallet'
  BY <1>1, FreeSeen
<1>3. CASE ~Granted(u)
  BY <1>1, <1>2, <1>3, QuietCovered DEF Commit
<1>4. CASE Granted(u)
  <2>1. row' = [row EXCEPT ![o] = x]
    BY <1>4 DEF Commit
  <2>2. req[u] \in Request /\ RequestOK(u) /\ o \in Owners /\ req[u].amount \in Nat /\ req[u].kind \in AllKinds
    BY DEF IInv, Typed, Request
  <2>3. /\ row'[o] = x /\ \A p \in Owners \ {o} : row'[p] = row[p]
        /\ row[o] \in BookRow /\ row'[o] \in BookRow /\ attempt[o] \in AttemptRow /\ wallet \in Int
    BY <2>1, <2>2 DEF IInv, Typed
  <2>4. \A p \in Owners : attempt[p].at = "none"
    BY <1>1 DEF IInv, LockIsAlone
  <2>5. Covered(u) /\ req[u].kind \notin {"archive", "resume"}
    BY <1>1, <1>4, <2>2 DEF Granted, MayCreate, MayTopUp, MayStage, MayActivate, RequestOK
  <2>6. Shares + req[u].amount <= wallet /\ Shares \in Int
    BY <1>1, <2>4, <2>5, SharesAreClaims, SharesAreInt DEF Covered, CoverInv, SeenIsWallet
  <2>7. row[o].cash \in Int /\ x.cash \in Int
    BY <2>3 DEF BookRow
  <2>8. ASSUME stale' = {}
        PROVE  CanPay(x, attempt[o]) /\ ShareOf(x, attempt[o]) <= ShareOf(row[o], attempt[o]) + req[u].amount
    <3>1. row[o].cash >= 0
      BY <1>1, <2>2, <2>8 DEF CoverInv, CanPay
    <3>2. \A z : CanPay(z, attempt[o]) <=> z.cash >= 0
      BY <2>2, <2>4 DEF CanPay
    <3>3. \A z : ShareOf(z, attempt[o]) = IF z.stage = "open" THEN z.cash + 0 ELSE 0
      BY <2>2, <2>4 DEF ShareOf, Pending, Owed
    <3>4. /\ x.cash >= 0
          /\ \/ x.cash <= row[o].cash + req[u].amount /\ x.stage = row[o].stage
             \/ x.cash = req[u].amount /\ x.stage = "open"
      <4>1. CASE req[u].kind \in {"create", "clone", "stage"}
        <5>1. x = [stage |-> "open", status |-> "paused", cash |-> req[u].amount, profit |-> 0, held |-> 0,
                   budget |-> req[u].amount, key |-> req[u].key]
          BY <4>1 DEF Written, NewRow
        <5>2. x.cash = req[u].amount /\ x.stage = "open"
          BY <5>1
        <5> HIDE DEF x
        <5> QED BY <2>2, <5>2
      <4>2. CASE req[u].kind = "top up"
        <5>1. x = [row[o] EXCEPT !.cash = req[u].cash + req[u].amount, !.profit = req[u].profit,
                                 !.budget = row[o].budget + req[u].amount]
              /\ req[u].fresh
          BY <1>4, <4>2 DEF Written, ToppedUp, Granted, MayTopUp
        <5>2. req[u].cash = row[o].cash
          BY <2>2, <5>1 DEF RequestOK
        <5>3. x.cash = req[u].cash + req[u].amount /\ x.stage = row[o].stage
          BY <2>3, <5>1 DEF BookRow
        <5> HIDE DEF x
        <5> QED BY <2>2, <2>7, <3>1, <5>2, <5>3
      <4>3. CASE req[u].kind = "activate"
        <5>1. o = V2
          BY <1>1, <2>2, <4>3 DEF RequestOK
        <5>2. x = [row[o] EXCEPT !.status = "running"]
          BY <4>3, <5>1 DEF Written
        <5>3. x.cash = row[o].cash /\ x.stage = row[o].stage
          BY <2>3, <5>2 DEF BookRow
        <5> HIDE DEF x
        <5> QED BY <2>2, <2>7, <3>1, <5>3
      <4> QED BY <2>2, <2>5, <4>1, <4>2, <4>3 DEF AllKinds
    <3> HIDE DEF x, o
    <3> QED BY <2>2, <2>7, <3>1, <3>2, <3>3, <3>4
  <2>9. ShareOf(row[o], attempt[o]) \in Int /\ ShareOf(x, attempt[o]) \in Int
    BY <2>3, ShareIsInt
  <2>10. stale' = {} => Shares - ShareOf(row[o], attempt[o]) + ShareOf(x, attempt[o]) <= wallet'
    <3> HIDE DEF x, o
    <3> QED BY <1>1, <2>2, <2>3, <2>6, <2>8, <2>9
  <2> HIDE DEF x, o
  <2> QED BY <1>1, <1>2, <2>2, <2>3, <2>8, <2>10, OneCovered
<1> QED BY <1>3, <1>4

\* A step of bot o alone that costs the wallet no less than the bot.
LEMMA StepCovered ==
  ASSUME IInv, IInv', CoverInv, SeenIsWallet', NEW o \in Owners, stale \subseteq stale',
         \A p \in Owners \ {o} : row'[p] = row[p] /\ attempt'[p] = attempt[p],
         stale' = {} =>
           /\ CanPay(row'[o], attempt'[o])
           /\ ShareOf(row'[o], attempt'[o]) - ShareOf(row[o], attempt[o]) <= wallet' - wallet
  PROVE  CoverInv'
<1>1. /\ Shares \in Int /\ wallet \in Int /\ wallet' \in Int
      /\ ShareOf(row[o], attempt[o]) \in Int /\ ShareOf(row'[o], attempt'[o]) \in Int
  BY ShareIsInt, SharesAreInt DEF IInv, Typed
<1>2. stale' = {} => Shares <= wallet
  BY DEF CoverInv
<1>3. stale' = {} => Shares - ShareOf(row[o], attempt[o]) + ShareOf(row'[o], attempt'[o]) <= wallet'
  BY <1>1, <1>2
<1> QED BY <1>3, OneCovered

LEMMA ArchiveCovered == ASSUME IInv, IInv', CoverInv, NEW u \in Reqs, Archive(u) PROVE CoverInv'
<1> DEFINE o == req[u].of
           x == [row[o] EXCEPT !.stage = "archived"]
<1>1. /\ row' = [row EXCEPT ![o] = x] /\ req' = Outdate(Ends(u), o)
      /\ UNCHANGED <<wallet, attempt, lock, stale>>
  BY DEF Archive
<1>2. o \in Owners /\ row[o] \in BookRow /\ attempt[o] \in AttemptRow /\ wallet \in Int
  BY DEF IInv, Typed, Request
<1>3. row'[o] = x /\ \A p \in Owners \ {o} : row'[p] = row[p]
  BY <1>1, <1>2 DEF IInv, Typed
<1>4. x.stage = "archived" /\ x.cash = row[o].cash /\ row[o].cash \in Int
  BY <1>2 DEF BookRow
<1>5. SeenIsWallet'
  <2>1. Ends(u) \in [Reqs -> Request] /\ Ends(u)[u] = Idle /\ \A r \in Reqs : r # u => Ends(u)[r] = req[r]
    BY IdleShape DEF Ends, IInv, Typed
  <2> HIDE DEF o
  <2> QED BY <1>1, <2>1, IdleShape, OutdatedSeen DEF SeenIsWallet, CoverInv
<1> HIDE DEF x, o
<1>6. ASSUME stale' = {} PROVE CanPay(x, attempt[o]) /\ ShareOf(x, attempt[o]) <= ShareOf(row[o], attempt[o])
  <2>1. CanPay(row[o], attempt[o])
    BY <1>1, <1>2, <1>6 DEF CoverInv
  <2>2. attempt[o].gain \in 0 .. 1 /\ attempt[o].side \in {"buy", "sell"}
    BY <1>2, ShareIsInt
  <2> QED BY <1>4, <2>1, <2>2 DEF CanPay, ShareOf, Pending, Owed
<1>7. ShareOf(x, attempt[o]) \in Int /\ ShareOf(row[o], attempt[o]) \in Int
  BY <1>2, <1>3, ShareIsInt DEF IInv, Typed
<1> QED BY <1>1, <1>2, <1>3, <1>5, <1>6, <1>7, StepCovered

\* A resumption writes the cash the row has, or makes its bot stale.
LEMMA ResumeCovered == ASSUME IInv, IInv', CoverInv, NEW u \in Reqs, Resume(u) PROVE CoverInv'
<1> DEFINE o == req[u].of
           x == [row[o] EXCEPT !.status = "running", !.cash = req[u].cash, !.profit = req[u].profit]
<1>1. lock' = NoReq /\ UNCHANGED <<wallet, attempt>>
  BY DEF Resume
<1>2. o \in Owners /\ row[o] \in BookRow /\ attempt[o] \in AttemptRow /\ wallet \in Int /\ RequestOK(u)
  BY DEF IInv, Typed, Request
<1>3. CASE MayResume
  <2>1. row' = [row EXCEPT ![o] = x] /\ stale' = IF req[u].fresh THEN stale ELSE stale \cup {o}
    BY <1>3 DEF Resume
  <2>2. row'[o] = x /\ \A p \in Owners \ {o} : row'[p] = row[p]
    BY <1>2, <2>1 DEF IInv, Typed
  <2>3. x.stage = row[o].stage /\ x.cash = req[u].cash /\ row[o].cash \in Int
    BY <1>2 DEF BookRow
  <2> HIDE DEF x
  <2>4. stale' = {} => stale = {} /\ x.cash = row[o].cash
    BY <1>2, <2>1, <2>3 DEF RequestOK
  <2> HIDE DEF o
  <2>5. ASSUME stale' = {} PROVE CanPay(x, attempt[o]) /\ ShareOf(x, attempt[o]) = ShareOf(row[o], attempt[o])
    BY <1>2, <2>3, <2>4, <2>5 DEF CoverInv, CanPay, ShareOf
  <2>6. ShareOf(row[o], attempt[o]) \in Int
    BY <1>2, ShareIsInt
  <2> QED BY <1>1, <1>2, <2>1, <2>2, <2>5, <2>6, FreeSeen, StepCovered
<1>4. CASE ~MayResume
  BY <1>1, <1>4, FreeSeen, QuietCovered DEF Resume
<1> QED BY <1>3, <1>4

LEMMA HaltCovered == ASSUME IInv, IInv', CoverInv, NEW o \in Owners, Halt(o) PROVE CoverInv'
<1>1. PICK s \in {"paused", "stopped"} : row' = [row EXCEPT ![o] = [row[o] EXCEPT !.status = s]]
  BY DEF Halt
<1> DEFINE x == [row[o] EXCEPT !.status = s]
<1>2. req' = Outdate(req, o) /\ UNCHANGED <<wallet, attempt, lock, stale>>
  BY DEF Halt
<1>3. row[o] \in BookRow /\ attempt[o] \in AttemptRow /\ wallet \in Int
  BY DEF IInv, Typed
<1>4. row'[o] = x /\ \A p \in Owners \ {o} : row'[p] = row[p]
  BY <1>1 DEF IInv, Typed
<1>5. x.stage = row[o].stage /\ x.cash = row[o].cash
  BY <1>3 DEF BookRow
<1> HIDE DEF x
<1>6. SeenIsWallet'
  BY <1>2, OutdatedSeen DEF SeenIsWallet, CoverInv, IInv, Typed
<1>7. ShareOf(x, attempt[o]) = ShareOf(row[o], attempt[o]) /\ ShareOf(row[o], attempt[o]) \in Int
  BY <1>3, <1>5, ShareIsInt DEF ShareOf
<1>8. stale' = {} => CanPay(x, attempt[o])
  BY <1>2, <1>5 DEF CoverInv, CanPay
<1> QED BY <1>2, <1>3, <1>4, <1>6, <1>7, <1>8, StepCovered

LEMMA PrepareCovered == ASSUME IInv, IInv', CoverInv, NEW o \in Owners, Prepare(o) PROVE CoverInv'
<1>1. PICK side \in {"buy", "sell"}, gain \in 0 .. 1 :
        /\ attempt' = [attempt EXCEPT ![o] = [at |-> "prepared", side |-> side, gain |-> gain]]
        /\ side = "buy" => row[o].cash > 0
  BY DEF Prepare
<1>2. /\ UNCHANGED <<wallet, row, lock, stale>> /\ lock = NoReq /\ row[o].stage = "open"
      /\ attempt[o].at = "none"
  BY DEF Prepare, MayPrepare, Unsettled
<1>3. row[o] \in BookRow /\ attempt[o] \in AttemptRow /\ wallet \in Int /\ row[o].cash \in Int
  BY DEF IInv, Typed, BookRow
<1>4. /\ attempt'[o] = [at |-> "prepared", side |-> side, gain |-> gain]
      /\ \A p \in Owners \ {o} : attempt'[p] = attempt[p]
  BY <1>1 DEF IInv, Typed
<1>5. ShareOf(row[o], attempt'[o]) = row[o].cash /\ ShareOf(row[o], attempt[o]) = row[o].cash
  BY <1>2, <1>3, <1>4 DEF ShareOf, Pending
<1>6. stale' = {} => CanPay(row[o], attempt'[o])
  BY <1>1, <1>2, <1>3, <1>4 DEF CoverInv, CanPay
<1> QED BY <1>2, <1>3, <1>4, <1>5, <1>6, FreeSeen, StepCovered

\* What the chain moves is the bot's, whether it is still open or not.
LEMMA SendCovered == ASSUME IInv, IInv', CoverInv, NEW o \in Owners, Send(o) PROVE CoverInv'
<1> DEFINE a == attempt[o]
           b == attempt'[o]
<1>1. UNCHANGED <<row, lock, stale>> /\ a.at = "prepared"
  BY DEF Send
<1>2. lock' = NoReq
  BY <1>1 DEF IInv, LockIsAlone
<1>3. row[o] \in BookRow /\ a \in AttemptRow /\ wallet \in Int /\ row[o].cash \in Int
  BY DEF IInv, Typed, BookRow
<1>4. a.gain \in 0 .. 1 /\ a.side \in {"buy", "sell"}
  BY <1>3, ShareIsInt
<1>5. PICK s \in {"moved", "failed"} :
        /\ attempt' = [attempt EXCEPT ![o].at = s]
        /\ wallet' = IF s = "failed" THEN wallet
                     ELSE IF a.side = "buy" THEN wallet - 1 ELSE wallet + 1 + a.gain
  BY DEF Send
<1>6. b.at = s /\ b.side = a.side /\ b.gain = a.gain /\ \A p \in Owners \ {o} : attempt'[p] = attempt[p]
  BY <1>3, <1>5 DEF IInv, Typed, AttemptRow
<1> HIDE DEF a, b
<1>7. stale' = {} => CanPay(row[o], b)
  <2>1. stale' = {} => CanPay(row[o], a)
    BY <1>1 DEF CoverInv, a
  <2> QED BY <1>1, <1>6, <2>1 DEF CanPay
<1>8. ShareOf(row[o], b) - ShareOf(row[o], a) <= wallet' - wallet
  <2>1. CASE s = "failed"
    BY <1>1, <1>3, <1>4, <1>5, <1>6, <2>1 DEF ShareOf, Pending, Owed
  <2>2. CASE s = "moved" /\ a.side = "buy"
    BY <1>1, <1>3, <1>4, <1>5, <1>6, <2>2 DEF ShareOf, Pending, Owed
  <2>3. CASE s = "moved" /\ a.side = "sell"
    BY <1>1, <1>3, <1>4, <1>5, <1>6, <2>3 DEF ShareOf, Pending, Owed
  <2> QED BY <1>4, <2>1, <2>2, <2>3
<1> QED BY <1>1, <1>2, <1>6, <1>7, <1>8, FreeSeen, StepCovered DEF a, b

\* The books come to know what the chain moved.
LEMMA SettleCovered == ASSUME IInv, IInv', CoverInv, NEW o \in Owners, Settle(o) PROVE CoverInv'
<1> DEFINE a == attempt[o]
           x == Filled(row[o], a)
<1>1. /\ row' = [row EXCEPT ![o] = x] /\ attempt' = [attempt EXCEPT ![o] = NoAttempt]
      /\ UNCHANGED <<wallet, stale>> /\ lock' = NoReq /\ a.at \in {"moved", "failed"}
  BY DEF Settle
<1>2. row[o] \in BookRow /\ a \in AttemptRow /\ wallet \in Int /\ row[o].cash \in Int
  BY DEF IInv, Typed, BookRow
<1>3. a.gain \in 0 .. 1 /\ a.side \in {"buy", "sell"}
  BY <1>2, ShareIsInt
<1>4. /\ row'[o] = x /\ attempt'[o] = NoAttempt
      /\ \A p \in Owners \ {o} : row'[p] = row[p] /\ attempt'[p] = attempt[p]
  BY <1>1 DEF IInv, Typed
<1>5. x.stage = row[o].stage /\ x.cash = row[o].cash + Pending(a)
  <2>1. CASE a.at = "failed"
    BY <1>2, <2>1 DEF Filled, Pending
  <2>2. CASE a.at = "moved" /\ a.side = "buy"
    BY <1>2, <2>2 DEF Filled, Pending, BookRow
  <2>3. CASE a.at = "moved" /\ a.side = "sell"
    <3>1. x.cash = row[o].cash + 1 + a.gain /\ x.stage = row[o].stage
      BY <1>2, <2>3 DEF Filled, BookRow
    <3> HIDE DEF x
    <3> QED BY <1>2, <1>3, <2>3, <3>1 DEF Pending
  <2> QED BY <1>1, <1>3, <2>1, <2>2, <2>3
<1> HIDE DEF a, x
<1>6. stale' = {} => CanPay(x, NoAttempt)
  <2>1. stale' = {} => CanPay(row[o], a)
    BY <1>1 DEF CoverInv, a
  <2> QED BY <1>1, <1>2, <1>3, <1>5, <2>1 DEF CanPay, Pending, NoAttempt
<1>7. ShareOf(x, NoAttempt) = ShareOf(row[o], a)
  BY <1>1, <1>2, <1>3, <1>5 DEF ShareOf, Pending, Owed, NoAttempt
<1>8. ShareOf(row[o], a) \in Int
  BY <1>2, ShareIsInt
<1> QED BY <1>1, <1>2, <1>4, <1>6, <1>7, <1>8, FreeSeen, StepCovered DEF a

LEMMA CoverHolds == Spec => []CoverInv
<1>1. Init => CoverInv
  <2> SUFFICES ASSUME Init PROVE CoverInv
    OBVIOUS
  <2>1. SeenIsWallet
    BY DEF Init, SeenIsWallet
  <2>2. \A o \in Owners : row[o] = NoRow /\ attempt[o] = NoAttempt
    BY DEF Init
  <2>3. \A o \in Owners : CanPay(row[o], attempt[o])
    BY <2>2 DEF CanPay, NoRow, NoAttempt
  <2> DEFINE f == [o \in Owners |-> ShareOf(row[o], attempt[o])]
  <2>4. \A o \in Owners : f[o] = 0
    BY <2>2 DEF ShareOf, Owed, NoRow, NoAttempt
  <2>5. Shares = SumFunctionOnSet(f, Owners)
    BY DEF Shares
  <2> HIDE DEF f
  <2>6. Shares = 0
    BY <2>4, <2>5, OwnersFinite, SumOfZeros
  <2>7. wallet = Funds /\ Funds \in Nat
    BY DEF Init
  <2> QED BY <2>1, <2>3, <2>6, <2>7 DEF CoverInv
<1>2. ASSUME IInv, IInv', CoverInv, [Next]_vars PROVE CoverInv'
  <2>1. ASSUME NEW u \in Reqs, Asks(u) \/ Serve(u) PROVE CoverInv'
    BY <1>2, <2>1, AsksCovered, WayCovered, CommitCovered, ArchiveCovered, ResumeCovered DEF Serve
  <2>2. ASSUME NEW o \in Owners, Trade(o) \/ Halt(o) PROVE CoverInv'
    BY <1>2, <2>2, PrepareCovered, SendCovered, SettleCovered, HaltCovered DEF Trade
  <2>3. CASE UNCHANGED vars
    BY <1>2, <2>3 DEF vars, CoverInv, SeenIsWallet, Shares
  <2> QED BY <1>2, <2>1, <2>2, <2>3 DEF Next
<1> QED BY <1>1, <1>2, InvHolds, PTL DEF Spec

\* The books of the bots never claim more than the wallet holds, but for what a
\* purchase on its way to the books has spent (assertLiveWalletCapital under the
\* wallet's lock), while no resumption has brought an older snapshot back.
THEOREM ClaimsStayCovered == Spec => []ClaimsCovered
<1>1. ASSUME IInv, CoverInv PROVE ClaimsCovered
  <2> SUFFICES ASSUME stale = {} PROVE Claims <= wallet + SumFunctionOnSet([o \in Owners |-> SpentUnbooked(o)], Open)
    BY DEF ClaimsCovered
  <2> DEFINE cash == [o \in Owners |-> row[o].cash]
             claim == [o \in Owners |-> IF o \in Open THEN cash[o] ELSE 0]
             spent == [o \in Owners |-> SpentUnbooked(o)]
             due == [o \in Owners |-> IF o \in Open THEN spent[o] ELSE 0]
             share == [o \in Owners |-> ShareOf(row[o], attempt[o])]
             both == [o \in Owners |-> share[o] + due[o]]
  <2>1. Open \subseteq Owners /\ wallet \in Int
    BY <1>1 DEF Open, IInv, Typed
  <2>2. ASSUME NEW o \in Owners
        PROVE  /\ cash[o] \in Int /\ spent[o] \in Int /\ share[o] \in Int /\ due[o] \in Int
               /\ claim[o] \in Int /\ both[o] \in Int /\ both[o] = share[o] + due[o]
               /\ claim[o] = IF o \in Open THEN cash[o] ELSE 0
               /\ due[o] = IF o \in Open THEN spent[o] ELSE 0
    <3>1. cash[o] \in Int /\ share[o] \in Int
      BY <1>1, ShareIsInt DEF IInv, Typed
    <3>2. spent[o] \in Int /\ due[o] \in Int
      BY DEF SpentUnbooked
    <3> QED BY <3>1, <3>2
  <2>3. ASSUME NEW o \in Owners PROVE claim[o] <= both[o]
    <3>1. attempt[o] \in AttemptRow /\ row[o] \in BookRow
      BY <1>1 DEF IInv, Typed
    <3>2. row[o].cash \in Int /\ attempt[o].gain \in 0 .. 1 /\ attempt[o].side \in {"buy", "sell"}
      BY <3>1, ShareIsInt
    <3>3. CASE o \in Open
      <4>1. claim[o] = row[o].cash /\ both[o] = row[o].cash + Pending(attempt[o]) + SpentUnbooked(o)
        BY <3>3 DEF ShareOf, Open
      <4>2. Pending(attempt[o]) \in Int /\ SpentUnbooked(o) \in Int /\ Pending(attempt[o]) + SpentUnbooked(o) >= 0
        BY <3>2 DEF Pending, SpentUnbooked
      <4> HIDE DEF claim, both
      <4> QED BY <3>2, <4>1, <4>2
    <3>4. CASE o \notin Open
      <4>1. claim[o] = 0 /\ both[o] = Owed(attempt[o]) + 0
        BY <3>4 DEF ShareOf, Open
      <4>2. Owed(attempt[o]) \in Nat
        BY DEF Owed
      <4> HIDE DEF claim, both
      <4> QED BY <4>1, <4>2
    <3> QED BY <3>3, <3>4
  <2>4. Claims = SumFunctionOnSet(cash, Open) /\ Shares = SumFunctionOnSet(share, Owners) /\ Shares <= wallet
    BY <1>1 DEF Claims, Shares, CoverInv
  <2>5. spent = [o \in Owners |-> SpentUnbooked(o)]
    OBVIOUS
  <2> HIDE DEF cash, claim, spent, due, share, both
  <2>6. SumFunctionOnSet(cash, Open) = SumFunctionOnSet(claim, Owners)
    BY <2>1, <2>2, OwnersFinite, SumOfPart
  <2>7. SumFunctionOnSet(spent, Open) = SumFunctionOnSet(due, Owners)
    BY <2>1, <2>2, OwnersFinite, SumOfPart
  <2>8. SumFunctionOnSet(both, Owners) = SumFunctionOnSet(share, Owners) + SumFunctionOnSet(due, Owners)
    BY <2>2, OwnersFinite, SumOfBoth
  <2>9. SumFunctionOnSet(claim, Owners) <= SumFunctionOnSet(both, Owners)
    BY <2>2, <2>3, OwnersFinite, SumsOrdered
  <2>10. /\ SumFunctionOnSet(claim, Owners) \in Int /\ SumFunctionOnSet(share, Owners) \in Int
         /\ SumFunctionOnSet(due, Owners) \in Int
    BY <2>2, OwnersFinite, SumIsInt
  <2> QED BY <2>1, <2>4, <2>5, <2>6, <2>7, <2>8, <2>9, <2>10
<1> QED BY <1>1, InvHolds, CoverHolds, PTL

\* Admission keeps the rows' types, claims the wallet covers, one model per
\* wallet, distinct keys and books that match their budgets.
THEOREM AdmissionAlwaysHolds == Spec => []AdmissionHolds
<1>1. IInv /\ Counted => TypeOK
  BY DEF IInv, Typed, Counted, Bounds, TypeOK, Rows, BookRow, AttemptRow, Request, Stages, States, Points
<1>2. TypeOK /\ ClaimsCovered /\ OneModelPerWallet /\ KeysDistinct /\ BooksMatchBudget => AdmissionHolds
  BY DEF AdmissionHolds
<1> QED BY <1>1, <1>2, InvHolds, CountsHold, ClaimsStayCovered, OneModel, KeysStayDistinct, BooksKeepBudget, PTL
=============================================================================
