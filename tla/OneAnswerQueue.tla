--------------------------- MODULE OneAnswerQueue ---------------------------
(***************************************************************************)
(* What the outbox of the shadow model promises its readers: a captured    *)
(* observation is asked one or more times, gets at most one final result,  *)
(* answered or abandoned, and never without a call; a final result never   *)
(* changes and ends the asking.                                            *)
(***************************************************************************)
EXTENDS Naturals

CONSTANT Jobs
VARIABLES result, calls

Init == result = [j \in Jobs |-> "absent"] /\ calls = [j \in Jobs |-> 0]

Enqueue(j) ==
  /\ result[j] = "absent"
  /\ result' = [result EXCEPT ![j] = "open"]
  /\ UNCHANGED calls

Ask(j) ==
  /\ result[j] = "open"
  /\ calls' = [calls EXCEPT ![j] = @ + 1]
  /\ UNCHANGED result

Finish(j, r) ==
  /\ result[j] = "open" /\ calls[j] > 0
  /\ result' = [result EXCEPT ![j] = r]
  /\ UNCHANGED calls

Next == \E j \in Jobs : Enqueue(j) \/ Ask(j) \/ (\E r \in {"answered", "abandoned"} : Finish(j, r))

Spec == Init /\ [][Next]_<<result, calls>>
=============================================================================
