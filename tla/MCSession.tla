------------------------------ MODULE MCSession ------------------------------
(* Usages for the Session runs: a cheap request, and one that mostly re-reads  *)
(* a cached prefix, whose context is larger than its charge.                  *)
EXTENDS Session

MCUsages ==
  {[input |-> 1, written |-> 0, read |-> 0, output |-> 0],
   [input |-> 0, written |-> 1, read |-> 2, output |-> 1]}
==============================================================================
