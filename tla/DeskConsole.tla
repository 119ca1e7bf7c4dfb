---------------------------- MODULE DeskConsole ----------------------------
(***************************************************************************)
(* The operator at the desk (BotManagementConsole): which bot the panel    *)
(* shows, the draft it edits, and the requests on their way, between the   *)
(* page's list, the live telemetry and the server.                         *)
(*                                                                         *)
(* A configuration is the entry mode, which the form carries but has no    *)
(* field for, and the fields one can type, told apart by a number.         *)
(***************************************************************************)
EXTENDS Integers, FiniteSets

CONSTANTS
  Bots,       \* ids, in the order of the page's list
  Kinds,      \* what the operator may ask, a subset of AllKinds
  MaxTyped,   \* bound: edits typed
  MaxCalls,   \* bound: requests on their way
  MaxAsked    \* bound: requests and changes from elsewhere

AllKinds == {"pause", "resume", "stop", "sell_only", "resume_buys", "archive", "save"}
ConsoleAssumption ==
  /\ Bots \subseteq Nat /\ IsFiniteSet(Bots) /\ Bots # {} /\ Kinds \subseteq AllKinds
  /\ {MaxTyped, MaxCalls, MaxAsked} \subseteq Nat

VARIABLES
  server,     \* of each bot its status and configuration
  props,      \* the configurations the page was rendered with
  seen,       \* liveTelemetry: the statuses and entry modes it shows
  archived,   \* archivedBotIds, and what a render of the page no longer lists
  selected,   \* selectedBotId
  hydrated,   \* hydratedBotIdRef
  draft,      \* editDraft: of which bot it was taken, and what it says
  typed,      \* edits so far; the draft's own until it is saved or dropped
  busy,       \* busyKey
  calls,      \* requests on their way
  asked,      \* requests and changes from elsewhere, so far
  refreshing, \* isPending
  crossed     \* history: what the draft or the busy key was about changed under a request

page == <<props, seen, archived, selected, hydrated, draft, typed, busy, refreshing>>
vars == <<server, page, calls, asked, crossed>>

Statuses == {"running", "paused", "stopped", "gone"}
Configs == [entry : {"normal", "sell_only"}, fields : 0 .. MaxTyped]
NoOne == -1
NoDraft == [of |-> NoOne, config |-> [entry |-> "normal", fields |-> 0], dirty |-> FALSE]
NoKey == [act |-> "none", bot |-> NoOne]
Calls == [id : 1 .. MaxAsked, kind : AllKinds \cup {"pause and save"}, bot : Bots, config : Configs,
          next : Bots \cup {NoOne}, at : {"sent", "ok", "refused"}]

TypeOK ==
  /\ server \in [Bots -> [status : Statuses, config : Configs]]
  /\ props \in [Bots -> Configs]
  /\ seen \in [Bots -> [status : Statuses, entry : {"normal", "sell_only"}]]
  /\ archived \subseteq Bots /\ {selected, hydrated} \subseteq Bots \cup {NoOne}
  /\ draft \in [of : Bots \cup {NoOne}, config : Configs, dirty : BOOLEAN]
  /\ typed \in 0 .. MaxTyped /\ calls \subseteq Calls /\ asked \in 0 .. MaxAsked
  /\ refreshing \in BOOLEAN /\ crossed \in BOOLEAN

\* visibleBots; selectedBot falls back to the first of them.
Visible == Bots \ archived
ShownOf(sel, list) ==
  IF sel \in list THEN sel
  ELSE IF list = {} THEN NoOne ELSE CHOOSE b \in list : \A c \in list : b <= c
Shown == ShownOf(selected, Visible)

\* The hydrating effect, after a render with another selectedBot or list.
Clone(b) == [of |-> b, config |-> props'[b], dirty |-> FALSE]
HydrateAlways ==
  LET b == ShownOf(selected', Bots \ archived') IN
  IF b = NoOne THEN hydrated' = NoOne /\ draft' = NoDraft ELSE hydrated' = b /\ draft' = Clone(b)
Hydrate ==
  LET b == ShownOf(selected', Bots \ archived') IN
  IF b = NoOne THEN hydrated' = NoOne /\ draft' = NoDraft
  ELSE IF hydrated = b THEN UNCHANGED <<hydrated, draft>>
  ELSE hydrated' = b /\ draft' = Clone(b)

Init ==
  /\ server \in [Bots -> [status : {"running", "paused"}, config : {[entry |-> "normal", fields |-> 0]}]]
  /\ props = [b \in Bots |-> server[b].config]
  /\ seen = [b \in Bots |-> [status |-> server[b].status, entry |-> "normal"]]
  /\ archived = {} /\ selected = ShownOf(NoOne, Bots) /\ hydrated = selected
  /\ draft = [of |-> selected, config |-> props[selected], dirty |-> FALSE]
  /\ typed = 0 /\ busy = NoKey /\ calls = {} /\ asked = 0 /\ refreshing = FALSE /\ crossed = FALSE
-----------------------------------------------------------------------------
\* The operator

\* openEditPanel: another bot is hydrated by the render that follows; the same bot
\* only by the next one that changes it, over what was typed since.
Open(b) ==
  /\ b \in Visible /\ selected' = b
  /\ IF b = Shown
     THEN hydrated' = NoOne /\ UNCHANGED draft
     ELSE hydrated' = b /\ draft' = [of |-> b, config |-> props[b], dirty |-> FALSE]
  /\ crossed' = (crossed \/ draft.dirty \/ b = Shown)
  /\ UNCHANGED <<server, props, seen, archived, typed, busy, calls, asked, refreshing>>

\* updateEditDraft and the buttons that change the draft.
Edit ==
  /\ draft.of # NoOne /\ typed < MaxTyped /\ typed' = typed + 1
  /\ draft' = [draft EXCEPT !.config.fields = typed + 1, !.dirty = TRUE]
  /\ UNCHANGED <<server, props, seen, archived, selected, hydrated, busy, calls, asked, refreshing, crossed>>

\* resetEditDraft
Revert ==
  /\ draft.of # NoOne /\ Shown # NoOne /\ ~refreshing /\ draft.config # props[Shown]
  /\ draft' = [of |-> Shown, config |-> props[Shown], dirty |-> FALSE]
  /\ UNCHANGED <<server, props, seen, archived, selected, hydrated, typed, busy, calls, asked, refreshing, crossed>>

Send(kind, key, b, config, next) ==
  /\ asked < MaxAsked /\ Cardinality(calls) < MaxCalls /\ asked' = asked + 1
  /\ calls' = calls \cup {[id |-> asked + 1, kind |-> kind, bot |-> b, config |-> config, next |-> next, at |-> "sent"]}
  /\ busy' = key
  /\ crossed' = (crossed \/ calls # {})
  /\ UNCHANGED <<server, props, seen, archived, selected, hydrated, draft, typed, refreshing>>

Key(act, b) == [act |-> act, bot |-> b]

\* handleStatusAction, handleEntryModeAction and archiveBot from a row's menu; the
\* panel's own buttons are stricter.
AskStatus(b) ==
  /\ b \in Visible /\ busy \notin {Key(a, b) : a \in {"pause", "resume", "stop"}}
  /\ \E kind \in Kinds \cap {"pause", "resume", "stop"} :
       /\ kind # "stop" => (kind = "pause") = (seen[b].status = "running")
       /\ Send(kind, Key(kind, b), b, draft.config, NoOne)
AskEntryMode(b) ==
  /\ b \in Visible /\ busy # Key("entry mode", b)
  /\ LET kind == IF seen[b].entry = "sell_only" THEN "resume_buys" ELSE "sell_only" IN
       kind \in Kinds /\ Send(kind, Key("entry mode", b), b, draft.config, NoOne)
AskArchive(b) ==
  /\ "archive" \in Kinds /\ b \in Visible /\ busy \in {NoKey, Key("delete", b)} /\ seen[b].status = "stopped"
  /\ Send("archive", Key("delete", b), b, draft.config, ShownOf(NoOne, Visible \ {b}))

\* handleEditSubmit: what it sends was taken when it was clicked, in both legs.
AskSave ==
  /\ "save" \in Kinds /\ Shown # NoOne /\ draft.of # NoOne
  /\ draft.config # props[Shown] /\ ~refreshing /\ busy # Key("update", Shown)
  /\ Send(IF seen[Shown].status = "running" THEN "pause and save" ELSE "save", Key("update", Shown), Shown, draft.config, NoOne)

-----------------------------------------------------------------------------
\* The server takes the requests in any order

Replace(c, d) == calls' = (calls \ {c}) \cup {d}
Took(c) == Replace(c, [c EXCEPT !.at = "ok"])
SetStatus(b, s) == server' = [server EXCEPT ![b].status = s]

ServeStatus(c) ==
  /\ c.kind \in {"pause", "resume", "stop", "pause and save"} /\ server[c.bot].status # "gone"
  /\ SetStatus(c.bot, CASE c.kind = "resume" -> "running" [] c.kind = "stop" -> "stopped" [] OTHER -> "paused")
  /\ Took(c)
ServeEntryMode(c) ==
  /\ c.kind \in {"sell_only", "resume_buys"} /\ server[c.bot].status # "gone"
  /\ server' = [server EXCEPT ![c.bot].config.entry = IF c.kind = "sell_only" THEN "sell_only" ELSE "normal"]
  /\ Took(c)
ServeArchive(c) ==
  /\ c.kind = "archive" /\ server[c.bot].status = "stopped" /\ SetStatus(c.bot, "gone") /\ Took(c)
MaySave(c) == server[c.bot].status \in {"paused", "stopped"}
ServeSave(c) ==
  /\ c.kind = "save" /\ MaySave(c) /\ server' = [server EXCEPT ![c.bot].config = c.config]
  /\ Took(c)

\* Any of them may fail instead.
Refuse(c) == Replace(c, [c EXCEPT !.at = "refused"]) /\ UNCHANGED server
Serve ==
  /\ \E c \in calls :
       /\ c.at = "sent"
       /\ ServeStatus(c) \/ ServeEntryMode(c) \/ ServeArchive(c) \/ ServeSave(c) \/ Refuse(c)
  /\ UNCHANGED <<page, asked, crossed>>

\* The engine or another desk stops a bot meanwhile, or lets it run.
World(b) ==
  /\ asked < MaxAsked /\ asked' = asked + 1
  /\ server[b].status \in {"running", "paused"} /\ SetStatus(b, IF server[b].status = "running" THEN "paused" ELSE "running")
  /\ UNCHANGED <<page, calls, crossed>>
-----------------------------------------------------------------------------
\* The answers

Settled(c) == calls' = calls \ {c} /\ busy' = NoKey
AnswerBad(c) ==
  /\ c.at = "refused" /\ Settled(c)
  /\ UNCHANGED <<server, props, seen, archived, selected, hydrated, draft, typed, asked, refreshing, crossed>>
AnswerPlain(c) ==
  /\ c.at = "ok" /\ c.kind \in {"pause", "resume", "stop", "sell_only", "resume_buys"}
  /\ Settled(c) /\ refreshing' = TRUE
  /\ UNCHANGED <<server, props, seen, archived, selected, hydrated, draft, typed, asked, crossed>>
AnswerPause(c) ==
  /\ c.at = "ok" /\ c.kind = "pause and save" /\ Replace(c, [c EXCEPT !.kind = "save", !.at = "sent"])
  /\ UNCHANGED <<server, page, asked, crossed>>

\* The draft that was sent becomes the draft, whatever it has become since.
AnswerSave(c) ==
  /\ c.at = "ok" /\ c.kind = "save" /\ Settled(c) /\ refreshing' = TRUE
  /\ draft' = [draft EXCEPT !.config = c.config, !.of = c.bot, !.dirty = FALSE]
  /\ crossed' = (crossed \/ draft # [of |-> c.bot, config |-> c.config, dirty |-> TRUE])
  /\ UNCHANGED <<server, props, seen, archived, selected, hydrated, typed, asked>>

\* afterSuccess of archiveBot: on to the bot that was next when it was asked.
AnswerArchive(c) ==
  /\ c.at = "ok" /\ c.kind = "archive" /\ Settled(c) /\ refreshing' = TRUE
  /\ archived' = archived \cup {c.bot} /\ selected' = c.next /\ UNCHANGED props /\ Hydrate
  /\ crossed' = (crossed \/ draft.dirty)
  /\ UNCHANGED <<server, seen, typed, asked>>

Answer == \E c \in calls : AnswerBad(c) \/ AnswerPlain(c) \/ AnswerPause(c) \/ AnswerSave(c) \/ AnswerArchive(c)

\* router.refresh renders the page's list again.
Refresh ==
  /\ refreshing /\ refreshing' = FALSE
  /\ props' = [b \in Bots |-> IF server[b].status = "gone" THEN props[b] ELSE server[b].config]
  /\ archived' = archived \cup {b \in Bots : server[b].status = "gone"}
  /\ UNCHANGED selected /\ Hydrate
  /\ crossed' = (crossed \/ (draft.dirty /\ draft' # draft))
  /\ UNCHANGED <<server, seen, typed, busy, calls, asked>>

\* handleRuntime: new objects for every bot, so the effect runs.
Tick ==
  /\ seen' = [b \in Bots |-> [status |-> server[b].status, entry |-> server[b].config.entry]]
  /\ UNCHANGED <<props, archived, selected>> /\ Hydrate
  /\ UNCHANGED <<server, typed, busy, calls, asked, refreshing, crossed>>

Operator ==
  \/ \E b \in Bots : Open(b) \/ AskStatus(b) \/ AskEntryMode(b) \/ AskArchive(b)
  \/ Edit \/ Revert \/ AskSave
Next == Operator \/ Serve \/ (\E b \in Bots : World(b)) \/ Answer \/ Refresh \/ Tick
Spec == Init /\ [][Next]_vars
-----------------------------------------------------------------------------
\* Properties

\* The draft under the panel's title is the shown bot's own, so a save goes to the
\* bot its draft was taken from, unless a save was answered after the operator
\* had gone on to another bot.
DraftIsOfShown == ~crossed => draft.of = Shown

\* What the operator typed stays until it is saved or dropped by the operator: ticks,
\* refreshes and the answers to other requests leave it alone.
TypedStays ==
  draft.dirty /\ ~crossed' /\ (Tick \/ Refresh \/ Answer) =>
    draft'.of = draft.of /\ draft'.config = draft.config

\* A save that pauses first never reaches a bot that runs again.
SavesHaltedBot ==
  \A b \in Bots : server'[b].config.fields # server[b].config.fields => server[b].status \in {"paused", "stopped"}

\* Between two steps: the panel was hydrated for the bot it shows, and only a draft
\* of a bot holds what was typed.
ConsoleInv ==
  /\ TypeOK /\ DraftIsOfShown
  /\ ~crossed => hydrated = Shown
  /\ draft.dirty => draft.of # NoOne
=============================================================================
