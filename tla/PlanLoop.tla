------------------------------ MODULE PlanLoop ------------------------------
(***************************************************************************)
(* The recursive execute loop (application/kernel/execute.py, subtree.py): *)
(* one launch runs the root's plan; an entry is a leaf or is planned into  *)
(* a plan of its own, one level deeper.  Each plan's loop launches entries *)
(* whose deps landed, settles what returned, and when a condition refutes  *)
(* it stops its subtree, waits it out and has its planner plan again.  All *)
(* loops share the run's slots, its node budget and its id allocator.      *)
(*                                                                         *)
(* A plan is named by the node that planned it, 0 for the root's planner.  *)
(* What a planner writes, which condition refutes and whether done_when    *)
(* settles are free choices.  A dep on a node admitted earlier is always   *)
(* satisfied and is left out.  Crashes and replay are Dispatch's subject.  *)
(***************************************************************************)
EXTENDS Integers, FiniteSets, Sequences

CONSTANTS
  Slots,       \* policy.parallel, the run-wide bound
  MaxNodes,    \* max_nodes_per_run
  MaxReplans,  \* max_replans
  MaxDepth,    \* max_plan_depth
  MaxEntries,  \* max_nodes_per_plan
  MaxIds, MaxRounds   \* bounds, for TLC: ids minted, rounds a person grants

ASSUME PlanLoopAssumption ==
  /\ {MaxNodes, MaxReplans, MaxEntries, MaxIds, MaxRounds} \subseteq Nat
  /\ Slots \in Nat \ {0} /\ MaxDepth \in Nat \ {0}

Id == 1 .. MaxIds
Frame == 0 .. MaxIds
Op == {"leaf", "plan"}

\* An accepted plan: its entries in order, each depending on earlier ones.
Shape ==
  {s \in UNION {[1 .. k -> [op : Op, deps : SUBSET (1 .. k)]] : k \in 0 .. MaxEntries} :
     \A i \in DOMAIN s : s[i].deps \subseteq 1 .. i - 1}

VARIABLES
  minted,    \* the ids allocated so far
  spent,     \* the dispatches charged to the budget
  op, deps, owner,   \* per node: what it is, and the plan it is an entry of
  at,        \* where the task of each node is
  result,    \* how the task of a node ended
  loop,      \* where the loop of each plan is
  plan,      \* the entries of its current pass
  above,     \* the plans it runs under, itself included
  refuted, failure, stuck,   \* the current pass's _Progress
  stopping,  \* its StopScope was asked to stop
  refused,   \* a sub-plan of any pass was refused
  replans,   \* the re-plans of its current round
  granted,   \* the rounds a person granted the root
  outcome    \* how the launch ended

nodes == <<minted, op, deps, owner>>
tasks == <<at, result>>
progress == <<refuted, failure, stuck>>
ladder == <<replans, granted>>
vars == <<nodes, spent, tasks, loop, plan, above, progress, stopping, refused,
          ladder, outcome>>

Places == {"unminted", "pending", "queued", "running", "below", "returned",
           "landed", "raised", "dropped"}
Failure == {"no", "budget", "error"}
Result == {"none", "record", "refused", "budget", "error"}
LoopPlaces == {"none", "launching", "waiting", "barrier", "draining",
               "deciding", "asking", "replanning", "over"}

-----------------------------------------------------------------------------

\* The tasks of f's loop that it has not settled yet.
InFlight(f) == {n \in plan[f] : at[n] \in {"queued", "running", "below", "returned"}}

Returned(f) == {n \in plan[f] : at[n] = "returned"}

\* The nodes in f's StopScope: entered under a slot, left when the task ends.
Entered(f) == {n \in plan[f] : at[n] \in {"running", "below"}}

\* A scope is stopping by its own request or by that of any scope above it.
Stopping(f) == \E g \in above[f] : stopping[g]

\* Fault: a plan entry keeps its slot while its sub-plan runs.
UsedBelow ==
  Cardinality({n \in Id : at[n] \in {"running", "below"}})
  + Cardinality({f \in Frame : loop[f] = "replanning"})

\* The slots held: by a leaf's body or a planner, never over a recursion.
Used ==
  Cardinality({n \in Id : at[n] = "running"})
  + Cardinality({f \in Frame : loop[f] = "replanning"})

\* Fault: a dep that is merely no longer pending is taken for landed.
ReadyByPending(f) ==
  {n \in plan[f] : at[n] = "pending" /\ \A d \in deps[n] : at[d] # "pending"}

\* The pending entries whose deps have all landed.
Ready(f) ==
  {n \in plan[f] : at[n] = "pending" /\ \A d \in deps[n] : at[d] = "landed"}

-----------------------------------------------------------------------------
(* Plans.                                                                  *)

\* The coordinator mints an id for every entry of the plan planned by f.
Accept(f, shape) ==
  LET new == minted + 1 .. minted + Len(shape) IN
  /\ minted + Len(shape) <= MaxIds
  /\ minted' = minted + Len(shape)
  /\ plan' = [plan EXCEPT ![f] = new]
  /\ owner' = [n \in Id |-> IF n \in new THEN f ELSE owner[n]]
  /\ op' = [n \in Id |-> IF n \in new THEN shape[n - minted].op ELSE op[n]]
  /\ deps' = [n \in Id |->
       IF n \in new THEN {minted + i : i \in shape[n - minted].deps} ELSE deps[n]]

\* A pass begins with a fresh scope and fresh progress.
NewPass(f) ==
  /\ loop' = [loop EXCEPT ![f] = "launching"]
  /\ refuted' = [refuted EXCEPT ![f] = FALSE]
  /\ failure' = [failure EXCEPT ![f] = "no"]
  /\ stuck' = [stuck EXCEPT ![f] = FALSE]
  /\ stopping' = [stopping EXCEPT ![f] = FALSE]

\* The root's planner produced the run's first plan, which is not empty.
Start ==
  /\ loop[0] = "none"
  /\ \E shape \in Shape \ {<< >>} :
       /\ Accept(0, shape)
       /\ at' = [n \in Id |-> IF n <= Len(shape) THEN "pending" ELSE "unminted"]
  /\ NewPass(0)
  /\ UNCHANGED <<spent, result, above, refused, ladder, outcome>>

\* The task of node n ends.
End(n, r) ==
  /\ at' = [at EXCEPT ![n] = "returned"]
  /\ result' = [result EXCEPT ![n] = r]

\* A queued entry gets a slot, and enters its plan's scope.
Enter(n) ==
  /\ at[n] = "queued"
  /\ Used < Slots
  /\ at' = [at EXCEPT ![n] = "running"]
  /\ UNCHANGED <<nodes, spent, result, loop, plan, above, progress, stopping,
                 refused, ladder, outcome>>

\* A leaf's body, or a planner, ends without a plan to run: with a record, or
\* refused by the validator, or raising (a suspend, a kernel error).
Finish(n) ==
  /\ at[n] = "running"
  /\ \E r \in {"error"} \cup IF op[n] = "leaf" THEN {"record"} ELSE {"refused"} :
       End(n, r)
  /\ UNCHANGED <<nodes, spent, loop, plan, above, progress, stopping, refused,
                 ladder, outcome>>

\* A planner's plan is accepted, and run one level deeper ...
Descend(n) ==
  /\ at[n] = "running"
  /\ op[n] = "plan"
  /\ Cardinality(above[owner[n]]) < MaxDepth
  /\ \E shape \in Shape :
       /\ Accept(n, shape)
       /\ at' = [m \in Id |-> IF m = n THEN "below"
                              ELSE IF m > minted /\ m <= minted + Len(shape)
                              THEN "pending" ELSE at[m]]
  /\ above' = [above EXCEPT ![n] = above[owner[n]] \cup {n}]
  /\ NewPass(n)
  /\ UNCHANGED <<spent, result, refused, ladder, outcome>>

\* ... unless that is too deep.
TooDeep(n) ==
  /\ at[n] = "running"
  /\ op[n] = "plan"
  /\ Cardinality(above[owner[n]]) >= MaxDepth
  /\ End(n, "error")
  /\ UNCHANGED <<nodes, spent, loop, plan, above, progress, stopping, refused,
                 ladder, outcome>>

-----------------------------------------------------------------------------
(* One pass over a plan's entries.                                         *)

\* Ready entries are launched in plan order, as far as the budget goes.
Launch(f) ==
  LET ready == Ready(f)
      bought == {n \in ready : Cardinality({m \in ready : m <= n}) <= MaxNodes - spent}
  IN
  /\ loop[f] = "launching"
  /\ at' = [n \in Id |-> IF n \in bought THEN "queued" ELSE at[n]]
  /\ spent' = spent + Cardinality(bought)
  /\ failure' = [failure EXCEPT ![f] = IF bought = ready THEN @ ELSE "budget"]
  /\ loop' = [loop EXCEPT ![f] =
       IF bought # ready \/ InFlight(f) \cup bought = {} THEN "draining" ELSE "waiting"]
  /\ UNCHANGED <<nodes, result, plan, above, refuted, stuck, stopping, refused,
                 ladder, outcome>>

Raises(n) == result[n] \in {"budget", "error"}

\* Fault: only an entry's own refusal counts, not those below it.
OwnRefusal(n) == result[n] = "refused"

\* A refusal of n's sub-plan, or of any below it.
Refusal(n) == result[n] = "refused" \/ refused[n]

\* Fault: what raised is dropped.
AbsorbRecords(f, settled) ==
  /\ at' = [n \in Id |-> IF n \in settled THEN "landed" ELSE at[n]]
  /\ refused' = [refused EXCEPT ![f] = @ \/ \E n \in settled : Refusal(n)]
  /\ \E verdict \in IF ~ refuted[f] /\ settled # {} THEN BOOLEAN ELSE {refuted[f]} :
       refuted' = [refuted EXCEPT ![f] = verdict]
  /\ UNCHANGED failure

\* What settled is absorbed: the first exception stays the pass's failure, and
\* conditions are checked only while none has refuted.
Absorb(f, settled) ==
  LET landed == {n \in settled : ~ Raises(n)} IN
  /\ at' = [n \in Id |-> IF n \in landed THEN "landed"
                         ELSE IF n \in settled THEN "raised" ELSE at[n]]
  /\ refused' = [refused EXCEPT ![f] = @ \/ \E n \in landed : Refusal(n)]
  /\ \E verdict \in IF ~ refuted[f] /\ landed # {} THEN BOOLEAN ELSE {refuted[f]} :
       refuted' = [refuted EXCEPT ![f] = verdict]
  /\ IF failure[f] = "no" /\ settled # landed
     THEN \E n \in settled \ landed : failure' = [failure EXCEPT ![f] = result[n]]
     ELSE UNCHANGED failure

\* The loop wakes and settles every task that returned by then.  A refutation
\* with tasks in flight puts out the stop notice.
Settle(f) ==
  /\ loop[f] = "waiting"
  /\ Returned(f) # {}
  /\ Absorb(f, Returned(f))
  /\ LET wait == refuted'[f] /\ InFlight(f) # Returned(f) IN
     /\ stopping' = [stopping EXCEPT ![f] = wait]
     /\ loop' = [loop EXCEPT ![f] =
          IF wait THEN "barrier"
          ELSE IF refuted'[f] \/ failure'[f] # "no" THEN "draining" ELSE "launching"]
  /\ UNCHANGED <<nodes, spent, result, plan, above, stuck, ladder, outcome>>

\* The barrier waits out the scope, or gives up at its bound.
Barrier(f) ==
  /\ loop[f] = "barrier"
  /\ \/ Entered(f) = {} /\ UNCHANGED stuck
     \/ Entered(f) # {} /\ stuck' = [stuck EXCEPT ![f] = TRUE]
  /\ loop' = [loop EXCEPT ![f] = "draining"]
  /\ UNCHANGED <<nodes, spent, tasks, plan, above, refuted, failure, stopping,
                 refused, ladder, outcome>>

\* Fault: only the scope is waited out, not what still queues for a slot.
DrainScope(f) ==
  /\ loop[f] = "draining"
  /\ Entered(f) = {}
  /\ Absorb(f, Returned(f))
  /\ loop' = [loop EXCEPT ![f] = "deciding"]
  /\ UNCHANGED <<nodes, spent, result, plan, above, stuck, stopping, ladder, outcome>>

\* Every task of the pass is waited out, without a bound.
Drain(f) ==
  /\ loop[f] = "draining"
  /\ InFlight(f) = Returned(f)
  /\ Absorb(f, Returned(f))
  /\ loop' = [loop EXCEPT ![f] = "deciding"]
  /\ UNCHANGED <<nodes, spent, result, plan, above, stuck, stopping, ladder, outcome>>

-----------------------------------------------------------------------------
(* What a finished pass leads to.                                          *)

\* The plan's call returns or raises: to its entry's task, or out of the run.
Leave(f, r, how) ==
  /\ loop' = [loop EXCEPT ![f] = "over"]
  /\ IF f = 0
     THEN outcome' = how /\ UNCHANGED tasks
     ELSE End(f, r) /\ UNCHANGED outcome
  /\ UNCHANGED <<nodes, spent, plan, above, progress, stopping, refused, ladder>>

\* An exception goes up; the root asks a person about a spent budget.
Fail(f) ==
  /\ loop[f] = "deciding"
  /\ failure[f] # "no"
  /\ Leave(f, failure[f], failure[f])

\* Nothing refuted, or the subtree could not be waited out: report it.
Return(f) ==
  /\ loop[f] = "deciding"
  /\ failure[f] = "no"
  /\ ~ refuted[f] \/ stuck[f]
  /\ \E how \in {"unfinished"} \cup IF refuted[f] \/ refused[f] THEN {} ELSE {"done"} :
       Leave(f, "record", how)

Refuted(f) ==
  loop[f] = "deciding" /\ failure[f] = "no" /\ refuted[f] /\ ~ stuck[f]

\* The allowance is spent: a sub-plan is refused to its parent; the root asks,
\* and is abandoned, suspended ...
Exhaust(f) ==
  /\ Refuted(f)
  /\ replans[f] >= MaxReplans
  /\ \E how \in {"unfinished", "error"} : Leave(f, "refused", how)

\* ... or granted another round.
GrantMore ==
  /\ Refuted(0)
  /\ replans[0] >= MaxReplans
  /\ granted < MaxRounds
  /\ granted' = granted + 1
  /\ replans' = [replans EXCEPT ![0] = 0]
  /\ loop' = [loop EXCEPT ![0] = "asking"]
  /\ UNCHANGED <<nodes, spent, tasks, plan, above, progress, stopping, refused, outcome>>

AskReplan(f) ==
  /\ Refuted(f)
  /\ replans[f] < MaxReplans
  /\ loop' = [loop EXCEPT ![f] = "asking"]
  /\ UNCHANGED <<nodes, spent, tasks, plan, above, progress, stopping, refused,
                 ladder, outcome>>

\* The planner is dispatched again, under a slot and not charged.
Replan(f) ==
  /\ loop[f] = "asking"
  /\ Used < Slots
  /\ loop' = [loop EXCEPT ![f] = "replanning"]
  /\ UNCHANGED <<nodes, spent, tasks, plan, above, progress, stopping, refused,
                 ladder, outcome>>

\* Its new plan replaces what never ran; what landed keeps its record.
Replanned(f) ==
  /\ loop[f] = "replanning"
  /\ \E shape \in Shape :
       /\ Accept(f, shape)
       /\ at' = [n \in Id |->
            IF n \in plan[f] /\ at[n] = "pending" THEN "dropped"
            ELSE IF n > minted /\ n <= minted + Len(shape) THEN "pending" ELSE at[n]]
  /\ NewPass(f)
  /\ replans' = [replans EXCEPT ![f] = @ + 1]
  /\ UNCHANGED <<spent, result, above, refused, granted, outcome>>

\* It wrote nothing the validator accepts, or it raised.
NotReplanned(f) ==
  /\ loop[f] = "replanning"
  /\ \/ Leave(f, "record", "unfinished")
     \/ Leave(f, "error", "error")

-----------------------------------------------------------------------------

Init ==
  /\ minted = 0
  /\ spent = 0
  /\ op = [n \in Id |-> "leaf"]
  /\ deps = [n \in Id |-> {}]
  /\ owner = [n \in Id |-> 0]
  /\ at = [n \in Id |-> "unminted"]
  /\ result = [n \in Frame |-> "none"]
  /\ loop = [f \in Frame |-> "none"]
  /\ plan = [f \in Frame |-> {}]
  /\ above = [f \in Frame |-> IF f = 0 THEN {0} ELSE {}]
  /\ refuted = [f \in Frame |-> FALSE]
  /\ failure = [f \in Frame |-> "no"]
  /\ stuck = [f \in Frame |-> FALSE]
  /\ stopping = [f \in Frame |-> FALSE]
  /\ refused = [f \in Frame |-> FALSE]
  /\ replans = [f \in Frame |-> 0]
  /\ granted = 0
  /\ outcome = "running"

Task(n) == Enter(n) \/ Finish(n) \/ Descend(n) \/ TooDeep(n)

Loop(f) ==
  \/ Launch(f) \/ Settle(f) \/ Barrier(f) \/ Drain(f)
  \/ Fail(f) \/ Return(f) \/ Exhaust(f) \/ AskReplan(f)
  \/ Replan(f) \/ Replanned(f) \/ NotReplanned(f)

Next ==
  \/ Start \/ GrantMore
  \/ \E n \in Id : Task(n)
  \/ \E f \in Frame : Loop(f)

Spec == Init /\ [][Next]_vars

\* The event loop runs every loop that can go on, and the semaphore lets whoever
\* waits in turn have a free slot.  That a dispatch ends, an entry's or a
\* planner's, is not assumed: the executor reads its deadline only when a message
\* arrives, and a gate's command has none.
Fairness ==
  /\ \A n \in Id : WF_vars(Enter(n))
  /\ \A f \in Frame : WF_vars(loop[f] # "replanning" /\ Loop(f))

LiveSpec == Spec /\ Fairness

-----------------------------------------------------------------------------
(* Properties.                                                             *)

\* Every variable has its type, and the budget is never overdrawn.
TypeOK ==
  /\ minted \in 0 .. MaxIds
  /\ spent \in 0 .. MaxNodes
  /\ op \in [Id -> Op] /\ deps \in [Id -> SUBSET Id] /\ owner \in [Id -> Frame]
  /\ at \in [Id -> Places]
  /\ result \in [Frame -> Result]
  /\ loop \in [Frame -> LoopPlaces]
  /\ plan \in [Frame -> SUBSET Id] /\ above \in [Frame -> SUBSET Frame]
  /\ refuted \in [Frame -> BOOLEAN] /\ failure \in [Frame -> Failure]
  /\ stuck \in [Frame -> BOOLEAN] /\ stopping \in [Frame -> BOOLEAN]
  /\ refused \in [Frame -> BOOLEAN]
  /\ replans \in [Frame -> Nat] /\ granted \in Nat
  /\ outcome \in {"running", "done", "unfinished"} \cup (Failure \ {"no"})

Started(n) == at[n] \in {"queued", "running", "below", "returned", "landed", "raised"}

\* A node is launched only when every entry it depends on has landed, in
\* whatever order peers return and plans are replaced (_ready: an entry in
\* flight is not pending either).
DepsLandFirst == \A n \in Id : Started(n) => \A d \in deps[n] : at[d] = "landed"

\* The nodes of plan f and of every plan below it.
Below(f) == {n \in Id : at[n] # "unminted" /\ f \in above[owner[n]]}

\* Nothing is abandoned in flight: while a plan is decided about, planned again
\* or over, no task is queued or running anywhere below it, whatever stopped
\* it (_await_all, the barrier before a re-plan).
NothingLeftRunning ==
  \A f \in Frame : loop[f] \in {"deciding", "asking", "replanning", "over"} =>
    \A n \in Below(f) : at[n] \notin {"queued", "running", "below", "returned"}

\* An exception from any depth, also one that arrives while its plan is being
\* stopped, is how the run ends (_settle, run.failure).
FailuresSurface ==
  outcome # "running" /\ (\E n \in Id : Raises(n)) => outcome \in {"budget", "error"}

\* A run that reports done has dispatched every entry of its last plan and had
\* no sub-plan refused at any depth, in any pass (_verdict).
DoneIsWhole ==
  outcome = "done" =>
    /\ \A n \in plan[0] : at[n] = "landed"
    /\ \A n \in Id : result[n] # "refused"

\* No body and no planner is dispatched for good.
DispatchesEnd ==
  /\ \A n \in Id : []<>(at[n] # "running")
  /\ \A f \in Frame : []<>(loop[f] # "replanning")

\* Nothing but a dispatch holds a run up, nested plans under a single slot
\* included: no task holds a slot while it waits for another (_run_sub_plan), so
\* a run with a plan ends when its dispatches do.
RunEnds == DispatchesEnd => (loop[0] # "none" ~> loop[0] = "over")

\* What execute.py:23-24 says of a subtree that stops: start nothing further.
StopStartsNothing ==
  [][/\ \A n \in Id : at[n] = "queued" /\ at'[n] = "running" => ~ Stopping(owner[n])
     /\ \A f \in Frame : loop[f] = "asking" /\ loop'[f] = "replanning" => ~ Stopping(f)]_vars

\* What execute.py:909 says of a refused sub-plan: the entry's dependents never
\* become ready.
RefusedBlocksDependents ==
  \A n \in Id : Started(n) => \A d \in deps[n] : result[d] # "refused"

\* What execute.py:684 says of a subtree the barrier could not wait out: it
\* fails, so no run that reports done holds one.
StuckSubtreeFails ==
  outcome = "done" => \A f \in Frame : loop[f] = "over" => ~ stuck[f]

=============================================================================
