----------------------- MODULE ExactlyOnceSettlement -----------------------
(***************************************************************************)
(* What durable execution promises, without workers, attempts, markers,    *)
(* locks, replies or crashes: a bot authorises one swap at a time, the     *)
(* chain executes it at most once and only while it is authorised, and the *)
(* books record what the chain did, in the one step that ends the          *)
(* authorisation.                                                          *)
(***************************************************************************)
CONSTANTS Bots, Execs, NoBot

VARIABLES
    owner,     \* the bot that authorised a swap
    outcome,   \* "none", "open", then "filled" or "failed" for ever
    executed,  \* the swaps the chain has executed
    book       \* the fills each bot has booked

vars == <<owner, outcome, executed, book>>

Init ==
    /\ owner = [e \in Execs |-> NoBot]
    /\ outcome = [e \in Execs |-> "none"]
    /\ executed = {}
    /\ book = [b \in Bots |-> {}]

\* A bot with an open authorisation gives no second one.
Authorise(b, e) ==
    /\ outcome[e] = "none"
    /\ \A other \in Execs : owner[other] = b => outcome[other] # "open"
    /\ owner' = [owner EXCEPT ![e] = b]
    /\ outcome' = [outcome EXCEPT ![e] = "open"]
    /\ UNCHANGED <<executed, book>>

Execute(e) ==
    /\ outcome[e] = "open"
    /\ e \notin executed
    /\ executed' = executed \cup {e}
    /\ UNCHANGED <<owner, outcome, book>>

BookFill(e) ==
    /\ outcome[e] = "open"
    /\ e \in executed
    /\ outcome' = [outcome EXCEPT ![e] = "filled"]
    /\ book' = [book EXCEPT ![owner[e]] = @ \cup {e}]
    /\ UNCHANGED <<owner, executed>>

\* From now on the chain cannot execute it any more.
BookFailure(e) ==
    /\ outcome[e] = "open"
    /\ e \notin executed
    /\ outcome' = [outcome EXCEPT ![e] = "failed"]
    /\ UNCHANGED <<owner, executed, book>>

Next ==
    \E e \in Execs :
        \/ \E b \in Bots : Authorise(b, e)
        \/ Execute(e)
        \/ BookFill(e)
        \/ BookFailure(e)

Spec == Init /\ [][Next]_vars
=============================================================================
