----------------------------- MODULE ResultOnce -----------------------------
(***************************************************************************)
(* What the dispatcher promises its callers, with no journal, launch or    *)
(* replay in sight: a call is run by one body at a time, its result is     *)
(* recorded at most once, a recorded call is never run again, and a body   *)
(* that stops without recording may be run again later.                    *)
(***************************************************************************)

VARIABLES
  running,   \* the calls whose body is executing
  recorded   \* the calls whose result is recorded

Init == running = {} /\ recorded = {}

\* Start a body for a call that is neither running nor recorded.
Run ==
  /\ \E call \in running' :
       /\ call \notin running \cup recorded
       /\ running' = running \cup {call}
  /\ UNCHANGED recorded

Record ==
  /\ \E call \in running :
       /\ running' = running \ {call}
       /\ recorded' = recorded \cup {call}

\* Bodies stop and leave no result: a crash, or a suspend.
Abandon ==
  /\ running' \subseteq running
  /\ UNCHANGED recorded

Next == Run \/ Record \/ Abandon

Spec == Init /\ [][Next]_<<running, recorded>>

=============================================================================
