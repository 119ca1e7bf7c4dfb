----------------------------- MODULE DeskStream -----------------------------
(***************************************************************************)
(* The live desk: the server's runtime stream (createSseResponse over the  *)
(* list of bots) and the page that hears it (the EventSource effect of     *)
(* BotManagementConsole and the detail refreshes it schedules).            *)
(*                                                                         *)
(* A bot is told apart by its status and by its latest execution.  The     *)
(* stream reads the bots, sends what it read and then announces executions *)
(* it has not announced; the page overlays what it hears on its list, says *)
(* every change once in a toast, and reads a cached board again after the  *)
(* latest execution changed.                                               *)
(***************************************************************************)
EXTENDS Naturals, Sequences, FiniteSets, SequencesExt

CONSTANTS Bots,          \* the bots of the desk
          Statuses,      \* the statuses a bot goes through
          Outcomes,      \* the statuses of an execution after "pending"
          MaxExecutions, \* bound: executions of a bot
          MaxChanges,    \* bound: status changes of all bots
          MaxDrops,      \* bound: lost connections
          MaxFailures,   \* bound: failed reads of the stream and of a board
          MaxTurns,      \* bound: reads of a board on their way
          Kept,          \* toasts kept on the page
          Delays,        \* detail refreshes scheduled after an execution
          Overtaking     \* whether the answer to a read of a board can overtake another

DeskStreamAssumption ==
  /\ IsFiniteSet(Bots)
  /\ {MaxExecutions, MaxChanges, MaxDrops, MaxFailures} \subseteq Nat
  /\ {MaxTurns, Kept, Delays} \subseteq Nat \ {0}
  /\ Overtaking \in BOOLEAN

VARIABLES world,     \* the row of every bot: status and latest execution
          changes,   \* status changes so far
          drops,     \* connections lost so far
          failures,  \* reads that failed so far
          reads,     \* the pushes of the stream under way
          primed,    \* eventCachePrimed
          sent,      \* seenEventKeys
          wire,      \* messages of the connection the page has not handled
          telemetry, \* liveTelemetry
          statusOf,  \* botStatusRef
          keyOf,     \* latestExecutionKeyRef
          seen,      \* liveEventSeenRef
          toasts,    \* deskToasts
          board,     \* botBoardCache, by the row a board was read from
          due,       \* timers of a bot that have not fired
          asked,     \* reads of a board on their way
          missed     \* executions the page cannot hear of any more: a connection's
                     \* first payload showed them, or they were lost with one

stream == <<reads, primed, sent, drops>>
page   == <<telemetry, statusOf, keyOf, seen, toasts, due>>
vars   == <<world, changes, failures, stream, wire, page, board, asked, missed>>

None == [row |-> "none"]
NotRead == [b \in Bots |-> None]

(* The latest execution of a bot that has none. *)
NoExecution == [n |-> 0, status |-> "none"]

Executions == [n : 1..MaxExecutions, status : Outcomes \cup {"pending"}] \cup {NoExecution}

Rows == [status : Statuses, execution : Executions]

(* The statuses the stream announces. *)

Announced == {"submitted", "filled", "simulated", "failed"}

Terminal == {"filled", "simulated", "failed", "none"}

Toast(kind, b, what) == [kind |-> kind, bot |-> b, what |-> what]

Init ==
  /\ world \in [Bots -> {[status |-> s, execution |-> NoExecution] : s \in Statuses}]
  /\ board \in [Bots -> {None} \cup Rows]
  /\ \A b \in Bots : board[b] \in {None, world[b]}
  /\ statusOf = [b \in Bots |-> world[b].status]
  /\ keyOf = [b \in Bots |-> NoExecution]
  /\ telemetry = [b \in Bots |-> None]
  /\ reads = <<NotRead>>
  /\ primed = FALSE
  /\ changes = 0 /\ drops = 0 /\ failures = 0
  /\ sent = {} /\ seen = {} /\ missed = {}
  /\ wire = <<>> /\ toasts = <<>> /\ asked = <<>>
  /\ due = [b \in Bots |-> 0]

-----------------------------------------------------------------------------
(* The worker changes the rows. *)

Execute(b) ==
  /\ world[b].execution.status \in Terminal
  /\ world[b].execution.n < MaxExecutions
  /\ world' = [world EXCEPT ![b].execution = [n |-> @.n + 1, status |-> "pending"]]
  /\ UNCHANGED <<changes, failures, stream, wire, page, board, asked, missed>>

Settle(b) ==
  /\ world[b].execution.status \notin Terminal
  /\ \E s \in Outcomes \ {world[b].execution.status} :
       world' = [world EXCEPT ![b].execution.status = s]
  /\ UNCHANGED <<changes, failures, stream, wire, page, board, asked, missed>>

ChangeStatus(b) ==
  /\ changes < MaxChanges
  /\ changes' = changes + 1
  /\ \E s \in Statuses \ {world[b].status} : world' = [world EXCEPT ![b].status = s]
  /\ UNCHANGED <<failures, stream, wire, page, board, asked, missed>>

-----------------------------------------------------------------------------
(* The stream. *)

(* The interval: nothing while a push is under way. *)

Tick ==
  /\ reads = <<>>
  /\ wire = <<>>                          \* bound: the page handles what it has got
  /\ reads' = <<NotRead>>
  /\ UNCHANGED <<world, changes, failures, primed, sent, drops, wire, page, board, asked, missed>>

Read(i) ==
  /\ reads[i] = NotRead
  /\ reads' = [reads EXCEPT ![i] = world]
  /\ UNCHANGED <<world, changes, failures, primed, sent, drops, wire, page, board, asked, missed>>

(* The executions of a payload that are announced, as the page calls them. *)
DeskEvents(p) ==
  {Toast("execution", b, p[b].execution) : b \in {c \in Bots : p[c].execution.status \in Announced}}

Message(kind, what) == [kind |-> kind, what |-> what]

Shown(p) ==
  {Toast("execution", b, p[b].execution) : b \in {c \in Bots : p[c].execution # NoExecution}}

(* The payload goes out; the first one of a connection only teaches the    *)
(* stream what is old, later ones announce what is new.                    *)
Push(i) ==
  /\ reads[i] # NotRead
  /\ reads' = RemoveAt(reads, i)
  /\ primed' = TRUE
  /\ sent' = sent \cup DeskEvents(reads[i])
  /\ LET new == IF primed THEN SetToSeq(DeskEvents(reads[i]) \ sent) ELSE <<>>
     IN  wire' = wire \o <<Message("runtime", reads[i])>> \o [k \in DOMAIN new |-> Message("event", new[k])]
  /\ missed' = IF primed THEN missed ELSE missed \cup Shown(reads[i])
  /\ UNCHANGED <<world, changes, failures, drops, page, board, asked>>

PushFails(i) ==
  /\ failures < MaxFailures
  /\ failures' = failures + 1
  /\ reads' = RemoveAt(reads, i)
  /\ UNCHANGED <<world, changes, primed, sent, drops, wire, page, board, asked, missed>>

(* The connection is lost and the browser opens another, which starts from *)
(* nothing and pushes at once.                                             *)
Reconnect ==
  /\ drops < MaxDrops
  /\ drops' = drops + 1
  /\ reads' = <<NotRead>>
  /\ primed' = FALSE
  /\ sent' = {}
  /\ wire' = <<>>
  /\ missed' = missed \cup {wire[i].what : i \in {j \in DOMAIN wire : wire[j].kind = "event"}}
  /\ UNCHANGED <<world, changes, failures, page, board, asked>>

-----------------------------------------------------------------------------
(* The page. *)

(* Toasts already on the page are not repeated; the oldest give way. *)

PushToasts(new) ==
  LET all == toasts \o SetToSeq({t \in new : ~Contains(toasts, t)})
  IN  SubSeq(all, IF Len(all) > Kept THEN Len(all) - Kept + 1 ELSE 1, Len(all))

(* The timers of a bot start again, when its board is cached. *)
Scheduled(S) == [b \in Bots |-> IF b \in S /\ board[b] # None THEN Delays ELSE due[b]]

HandleRuntime(p) ==
  LET told  == {Toast("status", b, p[b].status) : b \in {c \in Bots : p[c].status # statusOf[c]}} \ seen
      moved == {b \in Bots : p[b].execution \notin {NoExecution, keyOf[b]}}
  IN  /\ telemetry' = p
      /\ seen' = seen \cup told
      /\ toasts' = PushToasts(told)
      /\ statusOf' = [b \in Bots |-> p[b].status]
      /\ keyOf' = [b \in Bots |-> IF b \in moved THEN p[b].execution ELSE keyOf[b]]
      /\ due' = Scheduled(moved)

HandleDeskEvent(t) ==
  /\ IF t \in seen
     THEN UNCHANGED <<seen, toasts, due>>
     ELSE /\ seen' = seen \cup {t}
          /\ toasts' = PushToasts({t})
          /\ due' = Scheduled({t.bot})
  /\ UNCHANGED <<telemetry, statusOf, keyOf>>

Receive ==
  /\ wire # <<>>
  /\ wire' = Tail(wire)
  /\ \/ Head(wire).kind = "runtime" /\ HandleRuntime(Head(wire).what)
     \/ Head(wire).kind = "event" /\ HandleDeskEvent(Head(wire).what)
  /\ UNCHANGED <<world, changes, failures, stream, board, asked, missed>>

(* A toast times out or is closed. *)
Dismiss ==
  /\ \E i \in DOMAIN toasts : toasts' = RemoveAt(toasts, i)
  /\ UNCHANGED <<world, changes, failures, stream, wire, telemetry, statusOf, keyOf, seen, due, board, asked, missed>>

(* The page is rendered again from the rows as they are now. *)
Rerender ==
  /\ statusOf' = [b \in Bots |-> world[b].status]
  /\ UNCHANGED <<world, changes, failures, stream, wire, telemetry, keyOf, seen, toasts, due, board, asked, missed>>

(* A timer fires: the board is asked for when it is still cached. *)
RefreshBotDetail(b) ==
  /\ due[b] > 0
  /\ Len(asked) < MaxTurns
  /\ due' = [due EXCEPT ![b] = @ - 1]
  /\ asked' = Append(asked, [bot |-> b, row |-> None])
  /\ UNCHANGED <<world, changes, failures, stream, wire, telemetry, statusOf, keyOf, seen, toasts, board, missed>>

DetailRead(i) ==
  /\ asked[i].row = None
  /\ asked' = [asked EXCEPT ![i].row = world[asked[i].bot]]
  /\ UNCHANGED <<world, changes, failures, stream, wire, page, board, missed>>

DetailAnswer(i) ==
  /\ asked[i].row # None
  /\ Overtaking \/ i = 1
  /\ board' = [board EXCEPT ![asked[i].bot] = asked[i].row]
  /\ asked' = RemoveAt(asked, i)
  /\ UNCHANGED <<world, changes, failures, stream, wire, page, missed>>

DetailFails(i) ==
  /\ failures < MaxFailures
  /\ failures' = failures + 1
  /\ asked' = RemoveAt(asked, i)
  /\ UNCHANGED <<world, changes, stream, wire, page, board, missed>>

Next ==
  \/ \E b \in Bots : Execute(b) \/ Settle(b) \/ ChangeStatus(b) \/ RefreshBotDetail(b)
  \/ \E i \in DOMAIN reads : Read(i) \/ Push(i) \/ PushFails(i)
  \/ \E i \in DOMAIN asked : DetailRead(i) \/ DetailAnswer(i) \/ DetailFails(i)
  \/ Tick \/ Reconnect \/ Receive \/ Dismiss \/ Rerender

Spec == Init /\ [][Next]_vars

-----------------------------------------------------------------------------
(* The page's list of bots (applyTelemetry) and its drawer                 *)
(* (applyRuntimeToBoard): what was heard covers what was loaded.           *)

DrawerTop(b) ==
  IF telemetry[b] = None \/ telemetry[b].execution = NoExecution
  THEN board[b].execution ELSE telemetry[b].execution

-----------------------------------------------------------------------------
TypeOK ==
  /\ world \in [Bots -> Rows]
  /\ telemetry \in [Bots -> Rows \cup {None}]
  /\ board \in [Bots -> Rows \cup {None}]
  /\ statusOf \in [Bots -> Statuses]
  /\ keyOf \in [Bots -> Executions]
  /\ due \in [Bots -> 0..Delays]
  /\ Len(toasts) <= Kept
  /\ primed \in BOOLEAN
  /\ \A i \in DOMAIN asked : asked[i].bot \in Bots /\ board[asked[i].bot] # None

(* Another execution, or another status of one that was not finished. *)
Later(e, f) == f = e \/ f.n > e.n \/ (f.n = e.n /\ e.status \notin Terminal)

(* What the desk has heard of an execution it never takes back: the stream *)
(* has one push under way at a time, so a slow read cannot arrive after a  *)
(* later one (pushing).                                                    *)
HeardMovesForward ==
  \A b \in Bots : telemetry[b] # None =>
     telemetry'[b] # None /\ Later(telemetry[b].execution, telemetry'[b].execution)

(* A result the desk shows as sent, filled, simulated or failed was        *)
(* announced, also after it was "unknown" for a while, unless the first    *)
(* payload of a connection already showed it or its announcement was lost  *)
(* with the connection.  "unknown" itself, which every live execution is   *)
(* for a while (saveExecutionResult), is shown and never announced         *)
(* (getRuntimeListDeskEvents), although formatExecutionToast has words for *)
(* it.                                                                     *)
ShownIsAnnounced ==
  wire = <<>> =>
    \A b \in Bots :
      telemetry[b] # None /\ telemetry[b].execution.status \in Announced
        => Toast("execution", b, telemetry[b].execution) \in seen \cup missed

(* No toast is shown a second time after it went away.                     *)
ToldOnce == \A i \in DOMAIN toasts' : toasts'[i] \notin seen \/ Contains(toasts, toasts'[i])

-----------------------------------------------------------------------------
(* Between two steps.                                                      *)

Payloads == [Bots -> Rows]
Events   == [kind : {"execution"}, bot : Bots, what : Executions]
Toasts   == Events \cup [kind : {"status"}, bot : Bots, what : Statuses]
Messages == [kind : {"runtime"}, what : Payloads] \cup [kind : {"event"}, what : Events]
IsPayload(i) == i \in DOMAIN wire /\ wire[i].kind = "runtime"
Answered(i) == i \in DOMAIN reads /\ reads[i] # NotRead

Shapes ==
  /\ reads \in Seq(Payloads \cup {NotRead}) /\ Len(reads) <= 1
  /\ wire \in Seq(Messages) /\ toasts \in Seq(Toasts)
  /\ asked \in Seq([bot : Bots, row : Rows \cup {None}])
  /\ \A b \in Bots : due[b] > 0 => board[b] # None

(* What the page was told of, cannot be told of, or will be.               *)
Told == seen \cup missed \cup {wire[i].what : i \in {j \in DOMAIN wire : wire[j].kind = "event"}}
ResultsTold(p) ==
  \A b \in Bots :
    p[b] # None /\ p[b].execution.status \in Announced
      => Toast("execution", b, p[b].execution) \in Told
AllTold ==
  /\ sent \subseteq Told /\ ResultsTold(telemetry)
  /\ \A i \in DOMAIN wire : IsPayload(i) => ResultsTold(wire[i].what)

(* The page is behind what is on the wire, in its order, that behind the   *)
(* read under way, and all of them behind the rows.                        *)
Follows(p, q) ==
  \A b \in Bots : p[b] # None => q[b] # None /\ Later(p[b].execution, q[b].execution)
InOrder ==
  /\ Follows(telemetry, world)
  /\ \A i \in DOMAIN wire : IsPayload(i) =>
       /\ Follows(telemetry, wire[i].what) /\ Follows(wire[i].what, world)
       /\ \A j \in DOMAIN wire : IsPayload(j) /\ i < j => Follows(wire[i].what, wire[j].what)
  /\ \A k \in DOMAIN reads : Answered(k) =>
       /\ Follows(telemetry, reads[k]) /\ Follows(reads[k], world)
       /\ \A i \in DOMAIN wire : IsPayload(i) => Follows(wire[i].what, reads[k])

StreamInv == TypeOK /\ Shapes /\ AllTold /\ InOrder

=============================================================================
