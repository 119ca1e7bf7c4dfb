------------------------------- MODULE DeskMC --------------------------------
(*****************************************************************************)
(* The desk for TLC: what its routes admit to a live wallet, the form a bot is *)
(* typed into, the console and the stream of the page, and the lab's page.   *)
(* They share no state: a behaviour is one of the component that "part" names. *)
(*****************************************************************************)
EXTENDS DeskParts, WalletAdmission, TLC

CONSTANTS
  Absent,         \* the value of a variable the component at work does not have
  b1, b2, r1, r2, sol, btc

\* A draft of the Lab.
LabDrafts == {[budget |-> 50000, reserve |-> 10000, deploy |-> 40000, min |-> 4000, rails |-> 7]}
-----------------------------------------------------------------------------
Parts == {"admission", "form", "editing", "ending", "stream", "status", "lab", "stressed"}

\* The variables from one on that the component at work does not need.
From14Absent == x14 = Absent /\ x15 = Absent /\ x16 = Absent /\ x17 = Absent
from14 == <<x14, x15, x16, x17>>
From10Absent == x10 = Absent /\ x11 = Absent /\ x12 = Absent /\ x13 = Absent /\ From14Absent
from10 == <<x10, x11, x12, x13, from14>>
From7Absent == x7 = Absent /\ x8 = Absent /\ x9 = Absent /\ From10Absent
from7 == <<x7, x8, x9, from10>>
From1Absent ==
  /\ x1 = Absent /\ x2 = Absent /\ x3 = Absent /\ x4 = Absent /\ x5 = Absent /\ x6 = Absent
  /\ From7Absent
from1 == <<x1, x2, x3, x4, x5, x6, from7>>

\* The parts of a page ask, and see, part of what it may.
Calls(calls, kinds) == \A c \in calls : c.kind \in kinds
OnlyExecutions ==
  /\ x2 = 0 /\ x3 + x4 <= 1
  /\ \A b \in Streamed : x1[b].status = "running" /\ (x1[b].execution.status = "failed" => x1[b].execution.n = 1)
OneFill == x4 = 0 /\ \A b \in Streamed : x1[b].execution.n <= 1 /\ x1[b].execution.status \notin {"unknown", "failed"}

DeskInit ==
  /\ part \in Parts /\ Init
  /\ \/ part = "admission" /\ From1Absent
     \/ part = "form" /\ Form!Init /\ From7Absent
     \/ part \in {"editing", "ending"} /\ Console!Init /\ From14Absent
        /\ (part = "editing" => x1[2].status = "paused")
     \/ part \in {"stream", "status"} /\ Stream!Init /\ (part = "stream" => OnlyExecutions)
     \/ part \in {"lab", "stressed"} /\ Lab!Init /\ From10Absent

DeskNext ==
  /\ \/ part = "admission" /\ Next /\ UNCHANGED from1
     \/ part = "form" /\ Form!Next /\ UNCHANGED <<vars, from7>>
     \/ part = "editing" /\ Console!Next /\ UNCHANGED <<vars, from14>>
        /\ Calls(x10', {"save", "sell_only", "pause and save"})
     \/ part = "ending" /\ Console!Next /\ UNCHANGED <<vars, from14>>
        /\ Calls(x10', (Console!AllKinds \ {"sell_only"}) \cup {"pause and save"}) /\ x11' <= 2
     \/ part = "stream" /\ Stream!Next /\ UNCHANGED vars /\ OnlyExecutions'
     \/ part = "status" /\ Stream!Next /\ UNCHANGED vars /\ OneFill'
     \/ part = "lab" /\ Lab!Next /\ UNCHANGED <<vars, from10>>
        /\ Calls(x4', Questions \ {"stress"})
     \/ part = "stressed" /\ Lab!Next /\ UNCHANGED <<vars, from10, x1>>
        /\ Calls(x4', {"recommend", "stress"})
  /\ UNCHANGED part

deskVars ==
  <<part, vars, x1, x2, x3, x4, x5, x6, x7, x8, x9, x10, x11, x12, x13, x14, x15, x16, x17>>

DeskSpec == DeskInit /\ [][DeskNext]_deskVars

\* Requests have no names, and for the lab one pair is like the other.
RequestsAndPairs == Permutations({r1, r2}) \cup Permutations({sol, btc})
=============================================================================
