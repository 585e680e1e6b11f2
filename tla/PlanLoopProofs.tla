--------------------------- MODULE PlanLoopProofs ---------------------------
(***************************************************************************)
(* Theorems about PlanLoop for any limits.                                 *)
(***************************************************************************)
EXTENDS PlanLoop, FiniteSetTheorems, WellFoundedInduction, TLAPS

LEMMA LimitTypes ==
  /\ MaxNodes \in Nat /\ MaxReplans \in Nat /\ MaxDepth \in Nat /\ MaxEntries \in Nat
  /\ MaxIds \in Nat /\ MaxRounds \in Nat /\ Slots \in Nat
BY PlanLoopAssumption

\* A nonempty set of ids has a greatest one.
LEMMA GreatestId ==
  ASSUME NEW S \in SUBSET Id, S # {}
  PROVE  \E x \in S : \A y \in S : y <= x
<1> DEFINE T == {MaxIds - n : n \in S}
<1>1. T \in SUBSET Nat /\ T # {}
  <2>1. \A n \in S : MaxIds - n \in Nat
    BY LimitTypes DEF Id
  <2> QED BY <2>1
<1>2. \E t \in T : \A u \in T : ~ (u < t)
  <2> HIDE DEF T
  <2>1. \E t \in T : \A u \in T : ~ (<<u, t>> \in OpToRel(<, Nat))
    BY <1>1, NatLessThanWellFounded, WFMin, Zenon
  <2> QED BY <1>1, <2>1, Zenon DEF OpToRel
<1>3. PICK x \in S : \A y \in S : ~ (MaxIds - y < MaxIds - x)
  BY <1>2
<1> QED BY <1>3, LimitTypes DEF Id

\* What the budget buys of a set of ready entries fits the budget.
LEMMA BoughtFits ==
  ASSUME NEW ready \in SUBSET Id, NEW left \in Nat
  PROVE  LET bought == {n \in ready : Cardinality({m \in ready : m <= n}) <= left}
         IN  Cardinality(bought) \in 0 .. left
<1> DEFINE bought == {n \in ready : Cardinality({m \in ready : m <= n}) <= left}
<1>1. IsFiniteSet(Id)
  BY LimitTypes, FS_Interval DEF Id
<1>2. IsFiniteSet(bought) /\ Cardinality(bought) \in Nat
  BY <1>1, FS_Subset, FS_CardinalityType
<1>3. CASE bought = {}
  <2>1. Cardinality(bought) = 0
    <3> HIDE DEF bought
    <3> QED BY <1>3, FS_EmptySet
  <2> QED BY <2>1
<1>4. CASE bought # {}
  <2>1. PICK x \in bought : \A y \in bought : y <= x
    <3> HIDE DEF bought
    <3>1. bought \in SUBSET Id
      BY DEF bought
    <3> QED BY <1>4, <3>1, GreatestId
  <2> DEFINE below == {m \in ready : m <= x}
  <2>2. bought \subseteq below
    BY <2>1
  <2>3. IsFiniteSet(below) /\ Cardinality(below) \in Nat
    BY <1>1, FS_Subset, FS_CardinalityType
  <2>4. Cardinality(bought) <= Cardinality(below)
    BY <2>2, <2>3, FS_Subset
  <2>5. Cardinality(below) <= left
    BY <2>1
  <2> QED BY <1>2, <2>3, <2>4, <2>5
<1> QED BY <1>3, <1>4

LEMMA TypeInit == Init => TypeOK
BY LimitTypes DEF Init, TypeOK, Id, Frame, Op, Places, Result, LoopPlaces, Failure

LEMMA ShapeFacts ==
  ASSUME NEW shape \in Shape
  PROVE  /\ Len(shape) \in Nat
         /\ DOMAIN shape = 1 .. Len(shape)
         /\ \A i \in 1 .. Len(shape) :
              shape[i].op \in Op /\ shape[i].deps \subseteq 1 .. i - 1
<1>1. PICK k \in 0 .. MaxEntries : shape \in [1 .. k -> [op : Op, deps : SUBSET (1 .. k)]]
  BY DEF Shape
<1>2. DOMAIN shape = 1 .. k /\ Len(shape) = k
  BY <1>1
<1>3. \A i \in 1 .. k : shape[i].deps \subseteq 1 .. i - 1
  BY <1>2 DEF Shape
<1> QED BY <1>1, <1>2, <1>3

\* Accepting a plan keeps the types of what it writes.
LEMMA AcceptTypes ==
  ASSUME TypeOK, NEW f \in Frame, NEW shape \in Shape, Accept(f, shape)
  PROVE  /\ minted' = minted + Len(shape)
         /\ minted' \in 0 .. MaxIds
         /\ op' \in [Id -> Op]
         /\ deps' \in [Id -> SUBSET Id]
         /\ owner' \in [Id -> Frame]
         /\ plan' \in [Frame -> SUBSET Id]
<1> DEFINE new == minted + 1 .. minted + Len(shape)
<1>1. minted \in 0 .. MaxIds /\ Len(shape) \in Nat /\ minted + Len(shape) <= MaxIds
  BY ShapeFacts, LimitTypes DEF TypeOK, Accept
<1>2. new \subseteq Id
  BY <1>1, LimitTypes DEF Id
<1>3. ASSUME NEW n \in new
      PROVE  /\ n - minted \in 1 .. Len(shape)
             /\ shape[n - minted].op \in Op
             /\ {minted + i : i \in shape[n - minted].deps} \subseteq Id
  BY <1>1, ShapeFacts, LimitTypes DEF Id
<1>4. plan' \in [Frame -> SUBSET Id]
  BY <1>2 DEF TypeOK, Accept
<1>5. owner' \in [Id -> Frame]
  BY DEF TypeOK, Accept
<1>6. op' \in [Id -> Op]
  BY <1>3 DEF TypeOK, Accept
<1>7. deps' \in [Id -> SUBSET Id]
  BY <1>3 DEF TypeOK, Accept
<1> QED BY <1>1, <1>4, <1>5, <1>6, <1>7 DEF Accept

\* A pass that begins keeps the types of what it writes.
LEMMA NewPassTypes ==
  ASSUME TypeOK, NEW f \in Frame, NewPass(f)
  PROVE  /\ loop' \in [Frame -> LoopPlaces]
         /\ refuted' \in [Frame -> BOOLEAN]
         /\ failure' \in [Frame -> Failure]
         /\ stuck' \in [Frame -> BOOLEAN]
         /\ stopping' \in [Frame -> BOOLEAN]
BY DEF TypeOK, NewPass, LoopPlaces, Failure

\* Absorbing what settled keeps the types of what it writes.
LEMMA AbsorbTypes ==
  ASSUME TypeOK, NEW f \in Frame, NEW settled \in SUBSET Id, Absorb(f, settled)
  PROVE  /\ at' \in [Id -> Places]
         /\ refused' \in [Frame -> BOOLEAN]
         /\ refuted' \in [Frame -> BOOLEAN]
         /\ failure' \in [Frame -> Failure]
<1> USE DEF TypeOK, Absorb
<1>1. at' \in [Id -> Places]
  BY DEF Places
<1>2. refused' \in [Frame -> BOOLEAN]
  <2> DEFINE any == \E n \in {m \in settled : ~ Raises(m)} : Refusal(n)
  <2>1. refused[f] \in BOOLEAN /\ any \in BOOLEAN
    OBVIOUS
  <2>2. refused' = [refused EXCEPT ![f] = refused[f] \/ any]
    OBVIOUS
  <2> HIDE DEF any
  <2> QED BY <2>1, <2>2
<1>3. refuted' \in [Frame -> BOOLEAN]
  OBVIOUS
<1>4. failure' \in [Frame -> Failure]
  BY DEF Failure, Raises, Frame, Id
<1> QED BY <1>1, <1>2, <1>3, <1>4

\* Leaving a plan keeps the types of what it writes.
LEMMA LeaveTypes ==
  ASSUME TypeOK, NEW f \in Frame, NEW r \in Result,
         NEW how \in {"done", "unfinished"} \cup (Failure \ {"no"}), Leave(f, r, how)
  PROVE  TypeOK'
<1>1. /\ loop' \in [Frame -> LoopPlaces]
      /\ at' \in [Id -> Places] /\ result' \in [Frame -> Result]
      /\ outcome' \in {"running", "done", "unfinished"} \cup (Failure \ {"no"})
  BY DEF TypeOK, Leave, End, LoopPlaces, Places, tasks
<1> QED BY <1>1 DEF TypeOK, Leave, nodes, progress, ladder

LEMMA TypeStep == TypeOK /\ [Next]_vars => TypeOK'
<1> SUFFICES ASSUME TypeOK, [Next]_vars PROVE TypeOK'
  OBVIOUS
<1> USE DEF Places
<1>1. CASE Start
  <2>1. 0 \in Frame
    BY LimitTypes DEF Frame
  <2>2. PICK shape \in Shape :
          /\ Accept(0, shape)
          /\ at' = [n \in Id |-> IF n <= Len(shape) THEN "pending" ELSE "unminted"]
    BY <1>1 DEF Start
  <2>3. at' \in [Id -> Places]
    BY <2>2
  <2> QED
    BY <1>1, <2>1, <2>2, <2>3, AcceptTypes, NewPassTypes
       DEF Start, TypeOK, ladder
<1>2. CASE GrantMore
  BY <1>2, LimitTypes DEF GrantMore, Refuted, TypeOK, nodes, tasks, progress, LoopPlaces, Frame
<1>3. ASSUME NEW n \in Id, Enter(n) PROVE TypeOK'
  BY <1>3 DEF Enter, TypeOK, nodes, progress, ladder
<1>4. ASSUME NEW n \in Id, Finish(n) PROVE TypeOK'
  <2>1. at' \in [Id -> Places] /\ result' \in [Frame -> Result]
    BY <1>4 DEF Finish, End, TypeOK, Result
  <2> QED BY <1>4, <2>1 DEF Finish, TypeOK, nodes, progress, ladder
<1>5. ASSUME NEW n \in Id, Descend(n) PROVE TypeOK'
  <2>1. n \in Frame
    BY DEF Frame, Id
  <2>2. PICK shape \in Shape :
          /\ Accept(n, shape)
          /\ at' = [m \in Id |-> IF m = n THEN "below"
                                 ELSE IF m > minted /\ m <= minted + Len(shape)
                                 THEN "pending" ELSE at[m]]
    BY <1>5 DEF Descend
  <2>3. at' \in [Id -> Places]
    BY <2>2 DEF TypeOK
  <2>4. above' \in [Frame -> SUBSET Frame]
    BY <1>5, <2>1 DEF Descend, TypeOK
  <2> QED
    BY <1>5, <2>1, <2>2, <2>3, <2>4, AcceptTypes, NewPassTypes
       DEF Descend, TypeOK, ladder
<1>6. ASSUME NEW n \in Id, TooDeep(n) PROVE TypeOK'
  <2>1. at' \in [Id -> Places] /\ result' \in [Frame -> Result]
    BY <1>6 DEF TooDeep, End, TypeOK, Result
  <2> QED BY <1>6, <2>1 DEF TooDeep, TypeOK, nodes, progress, ladder
<1>7. ASSUME NEW f \in Frame, Launch(f) PROVE TypeOK'
  <2> DEFINE bought == {n \in Ready(f) :
                          Cardinality({m \in Ready(f) : m <= n}) <= MaxNodes - spent}
  <2>1. Ready(f) \in SUBSET Id /\ MaxNodes - spent \in Nat
    BY LimitTypes DEF Ready, TypeOK
  <2>2. Cardinality(bought) \in 0 .. MaxNodes - spent
    BY <2>1, BoughtFits
  <2>3. spent' = spent + Cardinality(bought)
    BY <1>7 DEF Launch
  <2>4. spent' \in 0 .. MaxNodes
    <3> HIDE DEF bought
    <3> QED BY <2>2, <2>3, LimitTypes DEF TypeOK
  <2>5. at' \in [Id -> Places] /\ failure' \in [Frame -> Failure]
        /\ loop' \in [Frame -> LoopPlaces]
    BY <1>7 DEF Launch, TypeOK, Failure, LoopPlaces
  <2> QED BY <1>7, <2>4, <2>5 DEF Launch, TypeOK, nodes, ladder
<1>8. ASSUME NEW f \in Frame, Settle(f) PROVE TypeOK'
  <2>1. Returned(f) \in SUBSET Id /\ Absorb(f, Returned(f))
    BY <1>8 DEF Settle, Returned, TypeOK
  <2>2. stopping' \in [Frame -> BOOLEAN]
    <3>1. refuted'[f] \in BOOLEAN
      BY <2>1, AbsorbTypes
    <3> DEFINE wait == refuted'[f] /\ InFlight(f) # Returned(f)
    <3>2. stopping' = [stopping EXCEPT ![f] = wait]
      BY <1>8 DEF Settle
    <3>3. wait \in BOOLEAN
      OBVIOUS
    <3> HIDE DEF wait
    <3> QED BY <3>2, <3>3 DEF TypeOK
  <2>3. loop' \in [Frame -> LoopPlaces]
    BY <1>8 DEF Settle, TypeOK, LoopPlaces
  <2> QED BY <1>8, <2>1, <2>2, <2>3, AbsorbTypes DEF Settle, TypeOK, nodes, ladder
<1>9. ASSUME NEW f \in Frame, Barrier(f) PROVE TypeOK'
  BY <1>9 DEF Barrier, TypeOK, nodes, tasks, ladder, LoopPlaces
<1>10. ASSUME NEW f \in Frame, Drain(f) PROVE TypeOK'
  <2>1. Returned(f) \in SUBSET Id /\ Absorb(f, Returned(f))
    BY <1>10 DEF Drain, Returned, TypeOK
  <2>2. loop' \in [Frame -> LoopPlaces]
    BY <1>10 DEF Drain, TypeOK, LoopPlaces
  <2> QED BY <1>10, <2>1, <2>2, AbsorbTypes DEF Drain, TypeOK, nodes, ladder
<1>11. ASSUME NEW f \in Frame, Fail(f) PROVE TypeOK'
  <2>1. failure[f] \in Failure \ {"no"}
    BY <1>11 DEF Fail, TypeOK
  <2>2. failure[f] \in Result
    BY <2>1 DEF Failure, Result
  <2> QED BY <1>11, <2>1, <2>2, LeaveTypes DEF Fail
<1>12. ASSUME NEW f \in Frame, Return(f) PROVE TypeOK'
  <2>1. PICK how \in {"done", "unfinished"} : Leave(f, "record", how)
    BY <1>12 DEF Return
  <2>2. how \in {"done", "unfinished"} \cup (Failure \ {"no"}) /\ "record" \in Result
    BY DEF Result
  <2> QED BY <2>1, <2>2, LeaveTypes
<1>13. ASSUME NEW f \in Frame, Exhaust(f) PROVE TypeOK'
  <2>1. PICK how \in {"unfinished", "error"} : Leave(f, "refused", how)
    BY <1>13 DEF Exhaust
  <2>2. how \in {"done", "unfinished"} \cup (Failure \ {"no"}) /\ "refused" \in Result
    BY DEF Result, Failure
  <2> QED BY <2>1, <2>2, LeaveTypes
<1>14. ASSUME NEW f \in Frame, AskReplan(f) PROVE TypeOK'
  BY <1>14 DEF AskReplan, TypeOK, nodes, tasks, progress, ladder, LoopPlaces
<1>15. ASSUME NEW f \in Frame, Replan(f) PROVE TypeOK'
  BY <1>15 DEF Replan, TypeOK, nodes, tasks, progress, ladder, LoopPlaces
<1>16. ASSUME NEW f \in Frame, Replanned(f) PROVE TypeOK'
  <2>1. PICK shape \in Shape :
          /\ Accept(f, shape)
          /\ at' = [n \in Id |->
               IF n \in plan[f] /\ at[n] = "pending" THEN "dropped"
               ELSE IF n > minted /\ n <= minted + Len(shape) THEN "pending" ELSE at[n]]
    BY <1>16 DEF Replanned
  <2>2. at' \in [Id -> Places]
    BY <2>1 DEF TypeOK
  <2>3. replans' \in [Frame -> Nat]
    BY <1>16 DEF Replanned, TypeOK
  <2> QED
    BY <1>16, <2>1, <2>2, <2>3, AcceptTypes, NewPassTypes DEF Replanned, TypeOK
<1>17. ASSUME NEW f \in Frame, NotReplanned(f) PROVE TypeOK'
  <2>1. \/ Leave(f, "record", "unfinished")
        \/ Leave(f, "error", "error")
    BY <1>17 DEF NotReplanned
  <2>2. {"record", "error"} \subseteq Result /\ "error" \in Failure \ {"no"}
    BY DEF Result, Failure
  <2> QED BY <2>1, <2>2, LeaveTypes
<1>18. CASE UNCHANGED vars
  BY <1>18 DEF vars, nodes, tasks, progress, ladder, TypeOK
<1> QED
  BY <1>1, <1>2, <1>3, <1>4, <1>5, <1>6, <1>7, <1>8, <1>9, <1>10, <1>11, <1>12,
     <1>13, <1>14, <1>15, <1>16, <1>17, <1>18 DEF Next, Task, Loop

\* Every reachable state is well typed, and the run-wide budget is never
\* overdrawn, however deep the plans that spend from it.
THEOREM TypeCorrect == Spec => []TypeOK
BY TypeInit, TypeStep, PTL DEF Spec

-----------------------------------------------------------------------------
(* Dependencies.                                                           *)

\* The loop of an entry's plan runs only while the entry's task waits below.
LoopsFollowTasks ==
  /\ loop[0] = "none" => minted = 0
  /\ \A f \in Id : loop[f] \notin {"none", "over"} => at[f] = "below"

\* The inductive invariant: ids not minted yet name nothing, so a plan that is
\* accepted takes nobody's record away, and a loop that leaves ends a task that
\* has not landed.
DepsInv ==
  /\ TypeOK
  /\ \A n \in Id : n > minted => at[n] = "unminted"
  /\ LoopsFollowTasks
  /\ DepsLandFirst

\* A step that mints nothing, takes no landed node back and starts nothing.
LEMMA NothingStarts ==
  ASSUME DepsInv, TypeOK', LoopsFollowTasks', UNCHANGED nodes,
         \A n \in Id : /\ at'[n] # at[n] => at[n] # "unminted"
                       /\ at[n] = "landed" => at'[n] = "landed"
                       /\ Started(n)' => Started(n)
  PROVE  DepsInv'
BY DEF DepsInv, TypeOK, nodes, DepsLandFirst, Started

\* A plan is accepted: its entries become pending, nothing landed is taken back.
LEMMA PlanAccepted ==
  ASSUME DepsInv, TypeOK', NEW f \in Frame, NEW shape \in Shape, Accept(f, shape),
         NewPass(f), loop[f] # "none" \/ f # 0,
         f # 0 => at'[f] = "below",
         \A n \in Id :
           \/ n > minted /\ n <= minted + Len(shape) /\ at'[n] = "pending"
           \/ at'[n] = at[n]
           \/ at[n] = "pending" /\ at'[n] = "dropped"
           \/ at[n] = "running" /\ at'[n] = "below"
  PROVE  DepsInv'
<1>1. minted' = minted + Len(shape) /\ minted \in Nat /\ Len(shape) \in Nat
  BY AcceptTypes, ShapeFacts DEF DepsInv, TypeOK
<1>2. \A n \in Id : n > minted' => at'[n] = "unminted"
  BY <1>1 DEF DepsInv, Id
<1>3. ASSUME NEW n \in Id, Started(n)' PROVE Started(n) /\ deps'[n] = deps[n]
  <2>1. at[n] # "unminted" /\ Started(n)
    BY <1>3, <1>1 DEF DepsInv, Started
  <2>2. ~ (n > minted)
    BY <2>1 DEF DepsInv
  <2> QED BY <2>1, <2>2, <1>1 DEF Accept, Id
<1>4. \A d \in Id : at[d] = "landed" => at'[d] = "landed"
  BY DEF DepsInv
<1>5. \A n \in Id : deps[n] \subseteq Id
  BY DEF DepsInv, TypeOK
<1>6. DepsLandFirst'
  BY <1>3, <1>4, <1>5 DEF DepsInv, DepsLandFirst
<1>7. loop'[0] # "none"
  <2>1. 0 \in Frame /\ loop' = [loop EXCEPT ![f] = "launching"] /\ loop \in [Frame -> LoopPlaces]
    BY LimitTypes DEF NewPass, DepsInv, TypeOK, Frame
  <2>2. CASE f = 0
    BY <2>1, <2>2
  <2>3. CASE f # 0
    <3>1. f \in Id /\ at'[f] = "below"
      BY <2>3 DEF Frame, Id
    <3>2. at[f] # "unminted"
      BY <3>1
    <3>3. minted # 0
      BY <3>1, <3>2 DEF DepsInv, Id
    <3>4. loop[0] # "none"
      BY <3>3 DEF DepsInv, LoopsFollowTasks
    <3> QED BY <2>1, <2>3, <3>4
  <2> QED BY <2>2, <2>3
<1>8. ASSUME NEW g \in Id, loop'[g] \notin {"none", "over"} PROVE at'[g] = "below"
  <2>1. CASE g = f
    BY <2>1 DEF Id
  <2>2. CASE g # f
    <3>1. at[g] = "below"
      BY <1>8, <2>2 DEF NewPass, DepsInv, TypeOK, LoopsFollowTasks, Frame, Id
    <3>2. ~ (g > minted)
      BY <3>1 DEF DepsInv
    <3> QED BY <3>1, <3>2
  <2> QED BY <2>1, <2>2
<1>9. LoopsFollowTasks'
  BY <1>7, <1>8 DEF LoopsFollowTasks
<1> QED BY <1>2, <1>6, <1>9 DEF DepsInv

LEMMA DepsInit == Init => DepsInv
BY TypeInit DEF Init, DepsInv, DepsLandFirst, Started, LoopsFollowTasks, Id, Frame

\* A plan's loop leaves.
LEMMA DepsLeave ==
  ASSUME DepsInv, TypeOK', NEW f \in Frame, NEW r, NEW how, Leave(f, r, how),
         loop[f] \in {"deciding", "replanning"}
  PROVE  DepsInv'
<1>1. UNCHANGED nodes
  BY DEF Leave
<1>2. ASSUME NEW m \in Id, at'[m] # at[m]
      PROVE  m = f /\ at[m] = "below" /\ at'[m] = "returned"
  BY <1>2 DEF Leave, End, tasks, DepsInv, TypeOK, LoopsFollowTasks, Id
<1>3. LoopsFollowTasks'
  <2>1. loop' = [loop EXCEPT ![f] = "over"] /\ loop \in [Frame -> LoopPlaces]
    BY DEF Leave, DepsInv, TypeOK
  <2>2. loop'[0] = "none" => minted' = 0
    BY <1>1, <2>1, LimitTypes DEF DepsInv, LoopsFollowTasks, nodes, Frame
  <2>3. \A g \in Id : loop'[g] \notin {"none", "over"} => at'[g] = "below"
    BY <1>2, <2>1 DEF DepsInv, LoopsFollowTasks, Frame, Id
  <2> QED BY <2>2, <2>3 DEF LoopsFollowTasks
<1> QED BY <1>1, <1>2, <1>3, NothingStarts DEF Started

LEMMA DepsStep == DepsInv /\ [Next]_vars => DepsInv'
<1> SUFFICES ASSUME DepsInv, [Next]_vars PROVE DepsInv'
  OBVIOUS
<1>0. TypeOK /\ TypeOK'
  BY TypeStep DEF DepsInv
<1>a. 0 \in Frame /\ Id \subseteq Frame
  BY LimitTypes DEF Frame, Id
<1>1. CASE Start
  <2>1. PICK shape \in Shape :
          /\ Accept(0, shape)
          /\ at' = [n \in Id |-> IF n <= Len(shape) THEN "pending" ELSE "unminted"]
    BY <1>1 DEF Start
  <2>2. minted' = Len(shape) /\ Len(shape) \in Nat
    <3>1. minted = 0
      BY <1>1 DEF Start, DepsInv, LoopsFollowTasks
    <3>2. minted' = minted + Len(shape)
      BY <1>0, <1>a, <2>1, AcceptTypes
    <3> QED BY <3>1, <3>2, ShapeFacts
  <2>3. \A n \in Id : n > minted' => at'[n] = "unminted"
    BY <2>1, <2>2 DEF Id
  <2>4. \A n \in Id : ~ Started(n)'
    BY <2>1 DEF Started
  <2>5. \A n \in Id : loop[n] \in {"none", "over"}
    BY <1>1 DEF Start, DepsInv, LoopsFollowTasks, Id
  <2>6. LoopsFollowTasks'
    BY <1>0, <1>1, <1>a, <2>5 DEF Start, NewPass, TypeOK, LoopsFollowTasks, Id
  <2> QED BY <1>0, <2>3, <2>4, <2>6 DEF DepsInv, DepsLandFirst
<1>2. ASSUME NEW n \in Id, Descend(n) PROVE DepsInv'
  <2>1. PICK shape \in Shape :
          /\ Accept(n, shape)
          /\ at' = [m \in Id |-> IF m = n THEN "below"
                                 ELSE IF m > minted /\ m <= minted + Len(shape)
                                 THEN "pending" ELSE at[m]]
    BY <1>2 DEF Descend
  <2>2. at[n] = "running" /\ NewPass(n) /\ n # 0 /\ at'[n] = "below"
    BY <1>2, <2>1 DEF Descend, Id
  <2> QED BY <1>0, <1>a, <2>1, <2>2, PlanAccepted
<1>3. ASSUME NEW f \in Frame, Replanned(f) PROVE DepsInv'
  <2>1. PICK shape \in Shape :
          /\ Accept(f, shape)
          /\ at' = [n \in Id |->
               IF n \in plan[f] /\ at[n] = "pending" THEN "dropped"
               ELSE IF n > minted /\ n <= minted + Len(shape) THEN "pending" ELSE at[n]]
    BY <1>3 DEF Replanned
  <2>2. loop[f] = "replanning" /\ NewPass(f)
    BY <1>3 DEF Replanned
  <2>3. f # 0 => at'[f] = "below"
    <3> SUFFICES ASSUME f # 0 PROVE at'[f] = "below"
      OBVIOUS
    <3>1. f \in Id /\ at[f] = "below"
      BY <2>2 DEF DepsInv, LoopsFollowTasks, Frame, Id
    <3>2. ~ (f > minted)
      BY <3>1 DEF DepsInv
    <3> QED BY <2>1, <3>1, <3>2
  <2> QED BY <1>0, <2>1, <2>2, <2>3, PlanAccepted
<1>4. ASSUME NEW f \in Frame, Launch(f) PROVE DepsInv'
  <2>1. \A n \in Id : \/ at'[n] = at[n]
                      \/ n \in Ready(f) /\ at'[n] = "queued"
    BY <1>0, <1>4 DEF Launch, TypeOK
  <2>2. UNCHANGED nodes
    BY <1>4 DEF Launch
  <2>3. \A n \in Id : at[n] \in {"landed", "below"} => at'[n] = at[n]
    BY <2>1 DEF Ready
  <2>4. \A n \in Id : n > minted => n \notin Ready(f)
    BY DEF DepsInv, Ready
  <2>5. \A n \in Id : n > minted' => at'[n] = "unminted"
    BY <2>1, <2>2, <2>4 DEF DepsInv, nodes
  <2>6. ASSUME NEW n \in Id, Started(n)' PROVE \A d \in deps[n] : at[d] = "landed"
    BY <1>0, <1>4, <2>1, <2>6 DEF Ready, Started, DepsInv, DepsLandFirst
  <2>7. \A n \in Id : deps[n] \subseteq Id
    BY <1>0 DEF TypeOK
  <2>8. DepsLandFirst'
    BY <2>2, <2>3, <2>6, <2>7 DEF DepsLandFirst, nodes
  <2>9. LoopsFollowTasks'
    BY <1>0, <1>4, <1>a, <2>2, <2>3
       DEF Launch, DepsInv, LoopsFollowTasks, TypeOK, nodes
  <2> QED BY <1>0, <2>5, <2>8, <2>9 DEF DepsInv
<1>5. ASSUME NEW f \in Frame, Settle(f) \/ Drain(f) PROVE DepsInv'
  <2>1. Absorb(f, Returned(f)) /\ UNCHANGED nodes
    BY <1>5 DEF Settle, Drain
  <2>2. ASSUME NEW n \in Id, at'[n] # at[n]
        PROVE  at[n] = "returned" /\ at'[n] \in {"landed", "raised"}
    BY <1>0, <2>1, <2>2 DEF Absorb, Returned, TypeOK
  <2>3. LoopsFollowTasks'
    BY <1>0, <1>5, <1>a, <2>1, <2>2
       DEF Settle, Drain, DepsInv, LoopsFollowTasks, TypeOK, nodes
  <2> QED BY <1>0, <2>1, <2>2, <2>3, NothingStarts DEF Started
<1>6. ASSUME NEW n \in Id, Enter(n) PROVE DepsInv'
  <2>1. UNCHANGED nodes /\ UNCHANGED loop
    BY <1>6 DEF Enter
  <2>2. ASSUME NEW m \in Id, at'[m] # at[m] PROVE at[m] = "queued" /\ at'[m] = "running"
    BY <1>0, <1>6, <2>2 DEF Enter, TypeOK
  <2>3. LoopsFollowTasks'
    BY <2>1, <2>2 DEF DepsInv, LoopsFollowTasks, nodes
  <2> QED BY <1>0, <2>1, <2>2, <2>3, NothingStarts DEF Started
<1>7. ASSUME NEW n \in Id, Finish(n) \/ TooDeep(n) PROVE DepsInv'
  <2>1. UNCHANGED nodes /\ UNCHANGED loop
    BY <1>7 DEF Finish, TooDeep
  <2>2. at[n] = "running" /\ at' = [at EXCEPT ![n] = "returned"]
    BY <1>7 DEF Finish, TooDeep, End
  <2>3. ASSUME NEW m \in Id, at'[m] # at[m] PROVE at[m] = "running" /\ at'[m] = "returned"
    BY <1>0, <2>2, <2>3 DEF TypeOK
  <2>4. LoopsFollowTasks'
    BY <2>1, <2>3 DEF DepsInv, LoopsFollowTasks, nodes
  <2> QED BY <1>0, <2>1, <2>3, <2>4, NothingStarts DEF Started
<1>8. ASSUME NEW f \in Frame,
             Fail(f) \/ Return(f) \/ Exhaust(f) \/ NotReplanned(f)
      PROVE  DepsInv'
  <2>1. loop[f] \in {"deciding", "replanning"}
    BY <1>8 DEF Fail, Return, Exhaust, NotReplanned, Refuted
  <2>2. \E r, how : Leave(f, r, how)
    BY <1>8 DEF Fail, Return, Exhaust, NotReplanned
  <2> QED BY <1>0, <2>1, <2>2, DepsLeave
<1>9. ASSUME NEW f \in Frame,
             \/ Barrier(f) \/ AskReplan(f) \/ Replan(f)
             \/ GrantMore /\ f = 0
      PROVE  DepsInv'
  <2>1. UNCHANGED nodes /\ UNCHANGED at
    BY <1>9 DEF Barrier, AskReplan, Replan, GrantMore, tasks
  <2>2. loop[f] \notin {"none", "over"}
    BY <1>9 DEF Barrier, AskReplan, Replan, GrantMore, Refuted
  <2>3. \E place \in LoopPlaces \ {"none"} : loop' = [loop EXCEPT ![f] = place]
    BY <1>9 DEF Barrier, AskReplan, Replan, GrantMore, LoopPlaces
  <2>4. LoopsFollowTasks'
    BY <1>0, <1>a, <2>1, <2>2, <2>3 DEF DepsInv, LoopsFollowTasks, TypeOK, nodes
  <2> QED BY <1>0, <2>1, <2>4, NothingStarts DEF Started
<1>10. CASE UNCHANGED vars
  BY <1>0, <1>10, NothingStarts DEF vars, nodes, tasks, LoopsFollowTasks, DepsInv, Started
<1> QED
  BY <1>1, <1>2, <1>3, <1>4, <1>5, <1>6, <1>7, <1>8, <1>9, <1>10, <1>a
     DEF Next, Task, Loop

\* Whatever peers return first and however often plans are replaced, a node is
\* dispatched only when everything it depends on has landed.
THEOREM DepsFirst == Spec => []DepsLandFirst
<1>1. DepsInv => DepsLandFirst
  BY DEF DepsInv
<1> QED BY DepsInit, DepsStep, <1>1, PTL DEF Spec

-----------------------------------------------------------------------------
(* The tree of plans.  A loop that has not ended runs under loops that are *)
(* still working on a pass, because each of them has the next one down as  *)
(* a task in flight.                                                       *)

Working == {"launching", "waiting", "barrier", "draining"}
Live(f) == loop[f] \notin {"none", "over"}
Active(n) == at[n] \in {"queued", "running", "below", "returned"}

\* Who is under whom, fixed when a plan is accepted.
TreeShape ==
  /\ above[0] = {0}
  /\ \A f \in Frame : /\ plan[f] \subseteq 1 .. minted
                      /\ \A n \in plan[f] : owner[n] = f
                      /\ above[f] \subseteq 0 .. minted
  /\ \A g \in Frame : \A f \in above[g] \ {g} : \E c \in above[g] \ {0} : owner[c] = f

\* Which loops and tasks may be at work together.
TreeFlow ==
  /\ \A f \in Frame : Live(f) => f \in above[f] /\ 0 \in above[f]
  /\ \A g \in Id : Live(g) <=> at[g] = "below"
  /\ \A n \in Id : Active(n) => n \in plan[owner[n]] /\ loop[owner[n]] \in Working
  /\ \A g \in Frame : Live(g) => \A f \in above[g] \ {g} : loop[f] \in Working
  /\ outcome # "running" => loop[0] = "over"

TreeInv == DepsInv /\ TreeShape /\ TreeFlow

LEMMA FrameFacts == 0 \in Frame /\ Id \subseteq Frame /\ 0 \notin Id /\ Frame = {0} \cup Id
BY LimitTypes DEF Frame, Id

LEMMA TreeInit == Init => TreeInv
<1> SUFFICES ASSUME Init PROVE TreeInv
  OBVIOUS
<1>1. TreeShape
  BY FrameFacts, LimitTypes DEF Init, TreeShape
<1>2. TreeFlow
  BY FrameFacts DEF Init, TreeFlow, Live, Active
<1> QED BY <1>1, <1>2, DepsInit DEF TreeInv

LEMMA ShapeStays ==
  ASSUME TreeShape, UNCHANGED <<nodes, plan, above>>
  PROVE  TreeShape'
BY DEF TreeShape, nodes

\* A plan is accepted for f, and n, if that is not the root's, is the planner's
\* own entry, whose place in the tree it takes.
LEMMA ShapeGrows ==
  ASSUME TypeOK, TreeShape, NEW f \in Frame, NEW shape \in Shape, Accept(f, shape),
         \/ UNCHANGED above
         \/ /\ f \in 1 .. minted
            /\ owner[f] \in Frame
            /\ above' = [above EXCEPT ![f] = above[owner[f]] \cup {f}]
            /\ owner[f] \in above[owner[f]]
  PROVE  TreeShape'
<1> DEFINE new == minted + 1 .. minted + Len(shape)
<1>1. /\ minted' = minted + Len(shape) /\ minted \in Nat /\ Len(shape) \in Nat
      /\ minted' \in 0 .. MaxIds
  BY AcceptTypes, ShapeFacts DEF TypeOK
<1>2. /\ plan' = [plan EXCEPT ![f] = new]
      /\ \A n \in Id : owner'[n] = IF n \in new THEN f ELSE owner[n]
      /\ plan \in [Frame -> SUBSET Id]
  BY DEF Accept, TypeOK
<1>3. ASSUME NEW g \in Frame
      PROVE  plan'[g] \subseteq 1 .. minted' /\ \A n \in plan'[g] : owner'[n] = g
  <2>1. CASE g = f
    <3>1. plan'[g] = new
      BY <1>2, <2>1
    <3>2. new \subseteq 1 .. minted' /\ new \subseteq Id
      BY <1>1, LimitTypes DEF Id
    <3> QED BY <1>2, <2>1, <3>1, <3>2
  <2>2. CASE g # f
    <3>1. plan'[g] = plan[g] /\ plan[g] \subseteq 1 .. minted /\ plan[g] \subseteq Id
      BY <1>2, <2>2 DEF TreeShape
    <3>2. \A n \in plan[g] : n \notin new /\ owner[n] = g
      BY <1>1, <3>1 DEF TreeShape
    <3> QED BY <1>1, <1>2, <3>1, <3>2
  <2> QED BY <2>1, <2>2
<1>4. \A c \in 1 .. minted : c \in Id /\ owner'[c] = owner[c]
  BY <1>1, <1>2, LimitTypes DEF TypeOK, Id
<1>5. \A g \in Frame : above[g] \subseteq 0 .. minted /\ above[g] \subseteq 0 .. minted'
  BY <1>1 DEF TreeShape
<1>6. ASSUME NEW g \in Frame, NEW h \in above[g] \ {g}
      PROVE  \E c \in above[g] \ {0} : owner'[c] = h
  <2>1. PICK c \in above[g] \ {0} : owner[c] = h
    BY <1>6 DEF TreeShape
  <2>2. c \in 1 .. minted
    BY <1>1, <1>5, <2>1
  <2> QED BY <1>4, <2>1, <2>2
<1>7. CASE UNCHANGED above
  BY <1>3, <1>5, <1>6, <1>7 DEF TreeShape
<1>8. CASE /\ f \in 1 .. minted
           /\ owner[f] \in Frame
           /\ above' = [above EXCEPT ![f] = above[owner[f]] \cup {f}]
           /\ owner[f] \in above[owner[f]]
  <2>1. /\ above'[f] = above[owner[f]] \cup {f}
        /\ \A g \in Frame \ {f} : above'[g] = above[g]
    BY <1>8 DEF TypeOK
  <2>2. above'[0] = {0}
    BY <1>8, <2>1, FrameFacts DEF TreeShape
  <2>3. \A g \in Frame : above'[g] \subseteq 0 .. minted'
    <3>0. minted \in Nat /\ minted' \in Nat /\ minted <= minted'
      BY <1>1
    <3>1. f \in 0 .. minted' /\ above[owner[f]] \subseteq 0 .. minted'
      <4>1. owner[f] \in Frame /\ f \in 1 .. minted
        BY <1>8
      <4>2. above[owner[f]] \subseteq 0 .. minted'
        BY <1>5, <4>1
      <4>3. f \in 0 .. minted'
        BY <3>0, <4>1
      <4> QED BY <4>2, <4>3
    <3>2. above'[f] \subseteq 0 .. minted'
      BY <2>1, <3>1
    <3> QED BY <1>5, <2>1, <3>2
  <2>4. ASSUME NEW h \in above'[f] \ {f} PROVE \E c \in above'[f] \ {0} : owner'[c] = h
    <3>1. h \in above[owner[f]]
      BY <2>1, <2>4
    <3>2. CASE h = owner[f]
      <4>1. f \in above'[f] \ {0} /\ owner'[f] = h
        BY <1>4, <1>8, <2>1, <3>2
      <4> QED BY <4>1
    <3>3. CASE h # owner[f]
      <4>1. PICK c \in above[owner[f]] \ {0} : owner'[c] = h
        BY <1>6, <1>8, <3>1, <3>3
      <4> QED BY <2>1, <4>1
    <3> QED BY <3>2, <3>3
  <2>5. \A g \in Frame : \A h \in above'[g] \ {g} : \E c \in above'[g] \ {0} : owner'[c] = h
    BY <1>6, <2>1, <2>4
  <2> QED BY <1>3, <2>2, <2>3, <2>5 DEF TreeShape
<1> QED BY <1>7, <1>8

\* A task goes on, without a plan of its own.
LEMMA FlowTask ==
  ASSUME TypeOK, TreeFlow, UNCHANGED <<nodes, plan, above, loop, outcome>>,
         NEW n \in Id, at[n] \in {"queued", "running"},
         NEW place \in {"running", "returned"}, at' = [at EXCEPT ![n] = place]
  PROVE  TreeFlow'
<1>1. \A m \in Id : /\ Active(m)' => Active(m)
                    /\ at'[m] = "below" <=> at[m] = "below"
  BY DEF TypeOK, Active
<1>2. \A f \in Frame : Live(f)' <=> Live(f)
  BY DEF Live
<1> QED BY <1>1, <1>2, FrameFacts DEF TreeFlow, nodes

\* A loop at work on a pass goes on with it.
LEMMA FlowWorking ==
  ASSUME TypeOK, TreeFlow, UNCHANGED <<nodes, plan, above, outcome>>, NEW f \in Frame,
         loop[f] \in Working, NEW place \in Working, loop' = [loop EXCEPT ![f] = place],
         \A m \in Id : /\ Active(m)' => Active(m) \/ (m \in plan[f] /\ owner[m] = f)
                       /\ at'[m] = "below" <=> at[m] = "below"
  PROVE  TreeFlow'
<1>1. \A g \in Frame : /\ Live(g)' <=> Live(g)
                       /\ loop[g] \in Working => loop'[g] \in Working
  BY DEF TypeOK, Live, Working
<1>2. loop'[0] = "over" <=> loop[0] = "over"
  BY FrameFacts DEF TypeOK, Working
<1>3. \A m \in Id : Active(m)' => m \in plan[owner[m]] /\ loop'[owner[m]] \in Working
  BY <1>1 DEF TypeOK, TreeFlow
<1>4. \A g \in Frame : above[g] \subseteq Frame
  BY DEF TypeOK
<1> QED BY <1>1, <1>2, <1>3, <1>4, FrameFacts DEF TreeFlow, nodes

\* A loop between two passes, or one that ends, has no live loop below it and
\* no task of its own in flight.
LEMMA NothingBelow ==
  ASSUME TreeFlow, NEW f \in Frame, loop[f] \notin Working
  PROVE  /\ \A g \in Frame : Live(g) /\ f \in above[g] => g = f
         /\ \A n \in Id : Active(n) => owner[n] # f
BY DEF TreeFlow

\* It moves between two passes, or ends its entry's task, or the run.
LEMMA FlowBetween ==
  ASSUME TypeOK, TreeFlow, UNCHANGED <<nodes, plan, above>>, NEW f \in Frame,
         loop[f] \in {"deciding", "asking", "replanning"},
         \/ /\ loop' \in {[loop EXCEPT ![f] = "asking"], [loop EXCEPT ![f] = "replanning"]}
            /\ UNCHANGED <<at, outcome>>
         \/ /\ loop' = [loop EXCEPT ![f] = "over"]
            /\ f = 0 /\ UNCHANGED at
         \/ /\ loop' = [loop EXCEPT ![f] = "over"]
            /\ f # 0 /\ at' = [at EXCEPT ![f] = "returned"] /\ UNCHANGED outcome
  PROVE  TreeFlow'
<1>1. /\ \A g \in Frame : Live(g) /\ f \in above[g] => g = f
      /\ \A n \in Id : Active(n) => owner[n] # f
  BY NothingBelow DEF Working
<1>2. \A g \in Frame \ {f} : loop'[g] = loop[g]
  BY DEF TypeOK
<1>3. \A g \in Frame : Live(g)' => Live(g)
  BY <1>2 DEF Live
<1>4. \A n \in Id : Active(n)' => Active(n)
  BY DEF TypeOK, TreeFlow, Live, Active, Id, Frame
<1>5. \A g \in Id : Live(g)' <=> at'[g] = "below"
  BY FrameFacts DEF TypeOK, TreeFlow, Live
<1>6. \A n \in Id : Active(n)' => n \in plan'[owner'[n]] /\ loop'[owner'[n]] \in Working
  BY <1>1, <1>2, <1>4 DEF TypeOK, TreeFlow, nodes
<1>7. \A g \in Frame : Live(g)' => \A h \in above'[g] \ {g} : loop'[h] \in Working
  BY <1>1, <1>2, <1>3 DEF TypeOK, TreeFlow
<1>8. outcome' # "running" => loop'[0] = "over"
  BY FrameFacts DEF TypeOK, TreeFlow
<1> QED BY <1>3, <1>5, <1>6, <1>7, <1>8 DEF TreeFlow

LEMMA TreeStep == TreeInv /\ [Next]_vars => TreeInv'
<1> SUFFICES ASSUME TreeInv, [Next]_vars PROVE TreeInv'
  OBVIOUS
<1>0. TypeOK /\ TypeOK' /\ DepsInv /\ DepsInv' /\ TreeShape /\ TreeFlow
  BY TypeStep, DepsStep DEF TreeInv, DepsInv
<1>1. CASE Start
  <2>1. PICK shape \in Shape :
          /\ Accept(0, shape)
          /\ at' = [n \in Id |-> IF n <= Len(shape) THEN "pending" ELSE "unminted"]
    BY <1>1 DEF Start
  <2>2. TreeShape'
    BY <1>0, <1>1, <2>1, FrameFacts, ShapeGrows DEF Start
  <2>3. /\ loop' = [loop EXCEPT ![0] = "launching"] /\ UNCHANGED <<above, outcome>>
        /\ loop[0] = "none" /\ minted = 0
    BY <1>0, <1>1 DEF Start, NewPass, DepsInv, LoopsFollowTasks
  <2>4. \A g \in Id : ~ Live(g) /\ ~ Live(g)'
    BY <1>0, <2>3, FrameFacts DEF DepsInv, LoopsFollowTasks, Live, TypeOK, Id
  <2>5. \A n \in Id : ~ Active(n)' /\ at'[n] # "below"
    BY <2>1 DEF Active
  <2>6. above'[0] = {0}
    BY <2>2 DEF TreeShape
  <2> QED BY <1>0, <2>2, <2>3, <2>4, <2>5, <2>6, FrameFacts DEF TreeInv, TreeFlow
<1>2. ASSUME NEW n \in Id, Descend(n) PROVE TreeInv'
  <2>1. PICK shape \in Shape :
          /\ Accept(n, shape)
          /\ at' = [m \in Id |-> IF m = n THEN "below"
                                 ELSE IF m > minted /\ m <= minted + Len(shape)
                                 THEN "pending" ELSE at[m]]
    BY <1>2 DEF Descend
  <2> DEFINE new == minted + 1 .. minted + Len(shape)
  <2>2. /\ n \in Frame /\ owner[n] \in Frame /\ at[n] = "running" /\ n \in 1 .. minted
        /\ n \in plan[owner[n]] /\ loop[owner[n]] \in Working
        /\ ~ Live(n)
    <3>1. n \in Frame /\ owner[n] \in Frame /\ at[n] = "running" /\ minted \in Nat
      BY <1>0, <1>2, FrameFacts DEF Descend, TypeOK
    <3>2. n \in 1 .. minted
      BY <1>0, <3>1 DEF DepsInv, Id
    <3>3. n \in plan[owner[n]] /\ loop[owner[n]] \in Working
      BY <1>0, <3>1 DEF TreeFlow, Active
    <3>4. ~ Live(n)
      BY <1>0, <3>1 DEF TreeFlow
    <3> QED BY <3>1, <3>2, <3>3, <3>4
  <2>3. /\ above' = [above EXCEPT ![n] = above[owner[n]] \cup {n}]
        /\ loop' = [loop EXCEPT ![n] = "launching"] /\ UNCHANGED outcome
    BY <1>2 DEF Descend, NewPass
  <2>4. Live(owner[n]) /\ owner[n] # n
    BY <2>2 DEF Live, Working
  <2>5. owner[n] \in above[owner[n]] /\ 0 \in above[owner[n]]
    BY <1>0, <2>2, <2>4 DEF TreeFlow
  <2>6. TreeShape'
    BY <1>0, <2>1, <2>2, <2>3, <2>5, ShapeGrows
  <2>7. /\ loop'[n] = "launching" /\ \A g \in Frame \ {n} : loop'[g] = loop[g]
        /\ above'[n] = above[owner[n]] \cup {n} /\ \A g \in Frame \ {n} : above'[g] = above[g]
    BY <1>0, <2>2, <2>3 DEF TypeOK
  <2>8. \A f \in Frame : Live(f)' => f \in above'[f] /\ 0 \in above'[f]
    BY <1>0, <2>5, <2>7 DEF TreeFlow, Live
  <2>9. \A m \in Id : m \in new => at[m] = "unminted" /\ at'[m] \in {"pending", "below"}
    BY <1>0, <2>1, <2>2 DEF DepsInv, TypeOK, Id
  <2>10. \A g \in Id : Live(g)' <=> at'[g] = "below"
    <3>1. \A g \in Id : g = n \/ (at'[g] = "below" <=> at[g] = "below")
      BY <1>0, <2>1, <2>9, ShapeFacts DEF TypeOK, DepsInv
    <3>2. at'[n] = "below" /\ Live(n)'
      BY <2>1, <2>7 DEF Live
    <3>3. \A g \in Id \ {n} : Live(g)' <=> Live(g)
      BY <2>7, FrameFacts DEF Live
    <3> QED BY <1>0, <3>1, <3>2, <3>3 DEF TreeFlow
  <2>11. ASSUME NEW m \in Id, Active(m)'
         PROVE  m \in plan'[owner'[m]] /\ loop'[owner'[m]] \in Working
    <3>1. Active(m) /\ m \notin new
      <4>1. m <= minted
        BY <1>0, <2>1, <2>2, <2>11 DEF DepsInv, TypeOK, Active, Id
      <4> QED BY <1>0, <2>1, <2>2, <2>11, <4>1, ShapeFacts DEF Active, TypeOK
    <3>2. owner'[m] = owner[m] /\ owner[m] \in Frame
      BY <1>0, <2>1, <3>1 DEF Accept, TypeOK
    <3>3. m \in plan[owner[m]] /\ loop[owner[m]] \in Working
      BY <1>0, <3>1 DEF TreeFlow
    <3>4. owner[m] # n
      BY <2>2, <3>3 DEF Live, Working
    <3>5. plan'[owner[m]] = plan[owner[m]]
      BY <1>0, <2>1, <3>2, <3>4 DEF Accept, TypeOK
    <3> QED BY <2>7, <3>2, <3>3, <3>4, <3>5
  <2>12. ASSUME NEW g \in Frame, Live(g)', NEW h \in above'[g] \ {g} PROVE loop'[h] \in Working
    <3>1. h \in Frame
      BY <1>0 DEF TypeOK
    <3>2. CASE h = n
      BY <2>7, <3>2 DEF Working
    <3>3. CASE h # n /\ g = n
      <4>1. h \in above[owner[n]]
        BY <2>7, <2>12, <3>3
      <4>2. loop[h] \in Working
        BY <1>0, <2>2, <2>4, <4>1 DEF TreeFlow
      <4> QED BY <2>7, <3>1, <3>3, <4>2
    <3>4. CASE h # n /\ g # n
      <4>1. Live(g) /\ h \in above[g] \ {g}
        BY <2>7, <2>12, <3>4 DEF Live
      <4> QED BY <1>0, <2>7, <3>1, <3>4, <4>1 DEF TreeFlow
    <3> QED BY <3>2, <3>3, <3>4
  <2>13. outcome' # "running" => loop'[0] = "over"
    BY <1>0, <2>3, <2>7, FrameFacts DEF TreeFlow
  <2> QED BY <1>0, <2>6, <2>8, <2>10, <2>11, <2>12, <2>13 DEF TreeInv, TreeFlow
<1>3. ASSUME NEW f \in Frame, Replanned(f) PROVE TreeInv'
  <2>1. PICK shape \in Shape :
          /\ Accept(f, shape)
          /\ at' = [n \in Id |->
               IF n \in plan[f] /\ at[n] = "pending" THEN "dropped"
               ELSE IF n > minted /\ n <= minted + Len(shape) THEN "pending" ELSE at[n]]
    BY <1>3 DEF Replanned
  <2> DEFINE new == minted + 1 .. minted + Len(shape)
  <2>2. /\ loop[f] = "replanning" /\ UNCHANGED <<above, outcome>>
        /\ loop' = [loop EXCEPT ![f] = "launching"]
    BY <1>3 DEF Replanned, NewPass
  <2>3. TreeShape'
    BY <1>0, <2>1, <2>2, ShapeGrows
  <2>4. /\ loop'[f] = "launching" /\ \A g \in Frame \ {f} : loop'[g] = loop[g]
    BY <1>0, <2>2 DEF TypeOK
  <2>5. \A g \in Frame : Live(g)' <=> Live(g)
    BY <2>2, <2>4 DEF Live
  <2>6. \A m \in Id : (at'[m] = "below" <=> at[m] = "below") /\ (Active(m)' => Active(m) /\ m \notin new)
    BY <1>0, <2>1 DEF DepsInv, TypeOK, Active, Id
  <2>7. ASSUME NEW m \in Id, Active(m)'
        PROVE  m \in plan'[owner'[m]] /\ loop'[owner'[m]] \in Working
    <3>1. Active(m) /\ owner'[m] = owner[m] /\ owner[m] \in Frame
      BY <1>0, <2>1, <2>6, <2>7 DEF Accept, TypeOK
    <3>2. m \in plan[owner[m]] /\ loop[owner[m]] \in Working
      BY <1>0, <3>1 DEF TreeFlow
    <3>3. owner[m] # f
      BY <2>2, <3>2 DEF Working
    <3>4. plan'[owner[m]] = plan[owner[m]]
      BY <1>0, <2>1, <3>1, <3>3 DEF Accept, TypeOK
    <3> QED BY <2>4, <3>1, <3>2, <3>3, <3>4
  <2>8. \A g \in Frame : Live(g)' => \A h \in above'[g] \ {g} : loop'[h] \in Working
    BY <1>0, <2>2, <2>4, <2>5 DEF TreeFlow, TypeOK, Working
  <2>9. outcome' # "running" => loop'[0] = "over"
    BY <1>0, <2>2, <2>4, FrameFacts DEF TreeFlow
  <2>10. \A g \in Id : Live(g)' <=> at'[g] = "below"
    BY <1>0, <2>5, <2>6, FrameFacts DEF TreeFlow
  <2>11. \A g \in Frame : Live(g)' => g \in above'[g] /\ 0 \in above'[g]
    BY <1>0, <2>2, <2>5 DEF TreeFlow
  <2> QED BY <1>0, <2>3, <2>7, <2>8, <2>9, <2>10, <2>11 DEF TreeInv, TreeFlow
<1>4. ASSUME NEW f \in Frame, Launch(f) PROVE TreeInv'
  <2>1. /\ loop[f] = "launching" /\ UNCHANGED <<nodes, plan, above, outcome>>
        /\ \E place \in {"draining", "waiting"} : loop' = [loop EXCEPT ![f] = place]
    BY <1>4 DEF Launch
  <2>2. ASSUME NEW m \in Id
        PROVE  /\ Active(m)' => Active(m) \/ (m \in plan[f] /\ owner[m] = f)
               /\ at'[m] = "below" <=> at[m] = "below"
    <3>1. \/ at'[m] = at[m]
          \/ m \in Ready(f) /\ at'[m] = "queued"
      BY <1>0, <1>4 DEF Launch, TypeOK
    <3>2. m \in Ready(f) => m \in plan[f] /\ owner[m] = f /\ at[m] = "pending"
      BY <1>0 DEF Ready, TreeShape
    <3>3. CASE at'[m] = at[m]
      BY <3>3 DEF Active
    <3>4. CASE m \in Ready(f) /\ at'[m] = "queued"
      BY <3>2, <3>4
    <3> QED BY <3>1, <3>3, <3>4
  <2>3. TreeFlow'
    BY <1>0, <2>1, <2>2, FlowWorking DEF Working
  <2> QED BY <1>0, <2>1, <2>3, ShapeStays DEF TreeInv
<1>5. ASSUME NEW f \in Frame, Settle(f) \/ Barrier(f) PROVE TreeInv'
  <2>1. /\ loop[f] \in Working /\ UNCHANGED <<nodes, plan, above, outcome>>
        /\ \E place \in Working : loop' = [loop EXCEPT ![f] = place]
    BY <1>5 DEF Settle, Barrier, Working
  <2>2. \A m \in Id : \/ at'[m] = at[m]
                      \/ at[m] = "returned" /\ at'[m] \in {"landed", "raised"}
    BY <1>0, <1>5 DEF Settle, Barrier, Absorb, Returned, TypeOK, tasks
  <2>3. \A m \in Id : /\ Active(m)' => Active(m) \/ (m \in plan[f] /\ owner[m] = f)
                      /\ at'[m] = "below" <=> at[m] = "below"
    BY <2>2 DEF Active
  <2>4. TreeFlow'
    BY <1>0, <2>1, <2>3, FlowWorking
  <2> QED BY <1>0, <2>1, <2>4, ShapeStays DEF TreeInv
<1>6. ASSUME NEW f \in Frame, Drain(f) PROVE TreeInv'
  <2>1. /\ loop[f] = "draining" /\ UNCHANGED <<nodes, plan, above, outcome>>
        /\ loop' = [loop EXCEPT ![f] = "deciding"]
        /\ InFlight(f) = Returned(f) /\ Absorb(f, Returned(f))
    BY <1>6 DEF Drain
  <2>2. \A m \in Id : IF m \in Returned(f) THEN at'[m] \in {"landed", "raised"} ELSE at'[m] = at[m]
    BY <1>0, <2>1 DEF Absorb, TypeOK
  <2>3. \A m \in Id : Active(m)' => Active(m) /\ m \notin Returned(f)
    BY <2>2 DEF Active
  <2>4. \A m \in Id : at'[m] = "below" <=> at[m] = "below"
    BY <2>2 DEF Returned
  <2>5. \A m \in Id : Active(m)' => owner[m] # f
    BY <1>0, <2>1, <2>3 DEF TreeFlow, InFlight, Active
  <2>6. /\ loop'[f] = "deciding" /\ \A g \in Frame \ {f} : loop'[g] = loop[g]
    BY <1>0, <2>1 DEF TypeOK
  <2>7. \A g \in Frame : Live(g)' <=> Live(g)
    BY <2>1, <2>6 DEF Live
  <2>8. ASSUME NEW g \in Frame, Live(g), f \in above[g], g # f PROVE FALSE
    <3>1. PICK c \in above[g] \ {0} : owner[c] = f
      BY <1>0, <2>8 DEF TreeShape
    <3>2. c \in Id
      BY <1>0, <3>1, FrameFacts DEF TypeOK
    <3>3. Live(c)
      BY <1>0, <2>8, <3>1 DEF TreeFlow, Live, Working
    <3>4. at[c] = "below" /\ c \in plan[f]
      BY <1>0, <3>1, <3>2, <3>3 DEF TreeFlow, Active
    <3>5. c \in InFlight(f) /\ c \notin Returned(f)
      BY <3>4 DEF InFlight, Returned
    <3> QED BY <2>1, <3>5
  <2>9. \A m \in Id : Active(m)' => m \in plan'[owner'[m]] /\ loop'[owner'[m]] \in Working
    BY <1>0, <2>1, <2>3, <2>5, <2>6 DEF TreeFlow, TypeOK, nodes
  <2>10. \A g \in Frame : Live(g)' => \A h \in above'[g] \ {g} : loop'[h] \in Working
    BY <1>0, <2>1, <2>6, <2>7, <2>8 DEF TreeFlow, TypeOK
  <2>11. outcome' # "running" => loop'[0] = "over"
    BY <1>0, <2>1, <2>6, FrameFacts DEF TreeFlow
  <2>12. \A g \in Id : Live(g)' <=> at'[g] = "below"
    BY <1>0, <2>4, <2>7, FrameFacts DEF TreeFlow
  <2>13. \A g \in Frame : Live(g)' => g \in above'[g] /\ 0 \in above'[g]
    BY <1>0, <2>1, <2>7 DEF TreeFlow
  <2>14. TreeFlow'
    BY <2>9, <2>10, <2>11, <2>12, <2>13 DEF TreeFlow
  <2> QED BY <1>0, <2>1, <2>14, ShapeStays DEF TreeInv
<1>7. ASSUME NEW n \in Id, Enter(n) \/ Finish(n) \/ TooDeep(n) PROVE TreeInv'
  <2>1. UNCHANGED <<nodes, plan, above, loop, outcome>> /\ at[n] \in {"queued", "running"}
    BY <1>7 DEF Enter, Finish, TooDeep
  <2>2. \E place \in {"running", "returned"} : at' = [at EXCEPT ![n] = place]
    BY <1>7 DEF Enter, Finish, TooDeep, End
  <2>3. TreeFlow'
    BY <1>0, <2>1, <2>2, FlowTask
  <2> QED BY <1>0, <2>1, <2>3, ShapeStays DEF TreeInv
<1>8. ASSUME NEW f \in Frame,
             \/ Fail(f) \/ Return(f) \/ Exhaust(f) \/ NotReplanned(f)
             \/ AskReplan(f) \/ Replan(f) \/ (GrantMore /\ f = 0)
      PROVE  TreeInv'
  <2>1. loop[f] \in {"deciding", "asking", "replanning"} /\ UNCHANGED <<nodes, plan, above>>
    BY <1>8 DEF Fail, Return, Exhaust, NotReplanned, AskReplan, Replan, GrantMore, Refuted, Leave
  <2>2. \/ /\ loop' \in {[loop EXCEPT ![f] = "asking"], [loop EXCEPT ![f] = "replanning"]}
           /\ UNCHANGED <<at, outcome>>
        \/ /\ loop' = [loop EXCEPT ![f] = "over"]
           /\ f = 0 /\ UNCHANGED at
        \/ /\ loop' = [loop EXCEPT ![f] = "over"]
           /\ f # 0 /\ at' = [at EXCEPT ![f] = "returned"] /\ UNCHANGED outcome
    BY <1>8 DEF Fail, Return, Exhaust, NotReplanned, AskReplan, Replan, GrantMore, Leave, End, tasks
  <2>3. TreeFlow'
    BY <1>0, <2>1, <2>2, FlowBetween
  <2> QED BY <1>0, <2>1, <2>3, ShapeStays DEF TreeInv
<1>9. CASE UNCHANGED vars
  BY <1>0, <1>9 DEF vars, nodes, tasks, TreeInv, TreeShape, TreeFlow, Live, Active
<1> QED
  BY <1>1, <1>2, <1>3, <1>4, <1>5, <1>6, <1>7, <1>8, <1>9, FrameFacts DEF Next, Task, Loop

LEMMA TreeAlways == Spec => []TreeInv
BY TreeInit, TreeStep, PTL DEF Spec

\* While a plan is decided about, planned again or over, nothing is queued or
\* running anywhere below it (execute.py _await_all, the barrier before a
\* re-plan): nothing is abandoned in flight at any depth.
THEOREM NothingStaysRunning == Spec => []NothingLeftRunning
<1>1. TreeInv => NothingLeftRunning
  <2> SUFFICES ASSUME TreeInv, NEW f \in Frame,
                      loop[f] \in {"deciding", "asking", "replanning", "over"},
                      NEW n \in Below(f), Active(n)
               PROVE  FALSE
    BY DEF NothingLeftRunning, Active
  <2>1. n \in Id /\ owner[n] \in Frame /\ f \in above[owner[n]]
    BY DEF Below, TreeInv, DepsInv, TypeOK
  <2>2. loop[owner[n]] \in Working
    BY <2>1 DEF TreeInv, TreeFlow
  <2>3. Live(owner[n]) /\ owner[n] # f
    BY <2>2 DEF Live, Working
  <2> QED BY <2>1, <2>3 DEF TreeInv, TreeFlow, Working
<1> QED BY <1>1, TreeAlways, PTL

-----------------------------------------------------------------------------
(* What is behind a run that has ended.  A failure, or a refusal, is always *)
(* somewhere on its way up: with a task that returned, in the progress of a *)
(* loop that is not over, or in the run's outcome.                          *)

\* A loop that will fail with what it has caught.
Failing(f) == failure[f] # "no" /\ loop[f] \in Working \cup {"deciding"}

Refuses(f) == refused[f] /\ Live(f)

SurfaceInv ==
  /\ \A n \in Id : result[n] # "none" => at[n] \in {"returned", "landed", "raised"}
  /\ (\E n \in Id : Raises(n)) =>
        \/ outcome \in {"budget", "error"}
        \/ \E n \in Id : Raises(n) /\ at[n] = "returned"
        \/ \E f \in Frame : Failing(f)
  /\ (\E n \in Id : result[n] = "refused") =>
        \/ outcome \notin {"running", "done"}
        \/ \E n \in Id : Raises(n)
        \/ \E n \in Id : Refusal(n) /\ at[n] = "returned"
        \/ \E f \in Frame : Refuses(f)

LEMMA SurfaceInit == Init => SurfaceInv
BY FrameFacts DEF Init, SurfaceInv, Raises

\* Nothing ends and nothing is absorbed.
LEMMA SurfaceQuiet ==
  ASSUME SurfaceInv, UNCHANGED <<result, outcome, refused>>,
         \A n \in Id : at[n] \in {"returned", "landed", "raised"} => at'[n] = at[n],
         \A f \in Frame : (Live(f) => Live(f)') /\ (Failing(f) => Failing(f)')
  PROVE  SurfaceInv'
<1>1. \A n \in Id : (Raises(n)' <=> Raises(n)) /\ (Refusal(n)' <=> Refusal(n))
  BY DEF Raises, Refusal
<1>2. \A f \in Frame : Refuses(f) => Refuses(f)'
  BY DEF Refuses
<1> QED BY <1>1, <1>2 DEF SurfaceInv

\* The task of n ends, and so does the loop it waited for, if it did.
LEMMA SurfaceEnd ==
  ASSUME TypeOK, SurfaceInv, NEW n \in Id, NEW r \in Result, at[n] \in {"running", "below"},
         End(n, r), UNCHANGED <<outcome, refused, failure>>,
         \A f \in Frame \ {n} : loop'[f] = loop[f],
         Failing(n) => r \in {"budget", "error"}
  PROVE  SurfaceInv'
<1>1. /\ at'[n] = "returned" /\ result'[n] = r /\ n \in Frame
      /\ \A m \in Id \ {n} : at'[m] = at[m] /\ result'[m] = result[m]
  BY FrameFacts DEF End, TypeOK
<1>2. result[n] = "none"
  BY DEF SurfaceInv
<1>3. \A m \in Id \ {n} : (Raises(m)' <=> Raises(m)) /\ (Refusal(m)' <=> Refusal(m))
  BY <1>1 DEF Raises, Refusal
<1>4. ~ Raises(n) /\ (Raises(n)' <=> r \in {"budget", "error"})
  BY <1>1, <1>2 DEF Raises
<1>5. \A f \in Frame \ {n} : /\ Failing(f) => Failing(f)'
                             /\ Refuses(f) => Refuses(f)'
  BY DEF Failing, Refuses, Live
<1>6. refused[n] => Refusal(n)'
  BY DEF Refusal
<1>7. \A m \in Id : result'[m] # "none" => at'[m] \in {"returned", "landed", "raised"}
  BY <1>1 DEF SurfaceInv
<1>8. (\E m \in Id : Raises(m)') =>
         \/ outcome' \in {"budget", "error"}
         \/ \E m \in Id : Raises(m)' /\ at'[m] = "returned"
         \/ \E f \in Frame : Failing(f)'
  <2>1. CASE r \in {"budget", "error"}
    BY <1>1, <1>4, <2>1
  <2>2. CASE r \notin {"budget", "error"}
    BY <1>1, <1>3, <1>4, <1>5, <2>2 DEF SurfaceInv
  <2> QED BY <2>1, <2>2
<1>9. (\E m \in Id : result'[m] = "refused") =>
         \/ outcome' \notin {"running", "done"}
         \/ \E m \in Id : Raises(m)'
         \/ \E m \in Id : Refusal(m)' /\ at'[m] = "returned"
         \/ \E f \in Frame : Refuses(f)'
  <2>1. CASE r = "refused"
    <3>1. Refusal(n)'
      BY <1>1, <2>1 DEF Refusal
    <3> QED BY <1>1, <3>1
  <2>2. CASE r # "refused" /\ \E m \in Id : result'[m] = "refused"
    <3>1. \E m \in Id : result[m] = "refused"
      BY <1>1, <2>2
    <3>2. CASE outcome \notin {"running", "done"}
      BY <3>2
    <3>3. CASE \E m \in Id : Raises(m)
      BY <1>3, <1>4, <3>3
    <3>4. CASE \E m \in Id : Refusal(m) /\ at[m] = "returned"
      BY <1>1, <1>3, <3>4
    <3>5. CASE \E f \in Frame : Refuses(f)
      BY <1>1, <1>5, <1>6, <3>5 DEF Refuses
    <3> QED BY <3>1, <3>2, <3>3, <3>4, <3>5 DEF SurfaceInv
  <2> QED BY <2>1, <2>2
<1> QED BY <1>7, <1>8, <1>9 DEF SurfaceInv

\* A loop settles what returned.
LEMMA SurfaceAbsorb ==
  ASSUME TypeOK, TypeOK', SurfaceInv, NEW f \in Frame, Absorb(f, Returned(f)),
         UNCHANGED <<result, outcome>>,
         loop[f] \in Working, loop'[f] \in Working \cup {"deciding"},
         \A g \in Frame \ {f} : loop'[g] = loop[g]
  PROVE  SurfaceInv'
<1>1. \A n \in Id : IF n \in Returned(f) THEN at'[n] \in {"landed", "raised"} ELSE at'[n] = at[n]
  BY DEF Absorb, TypeOK
<1>2. \A n \in Id : Raises(n)' <=> Raises(n)
  BY DEF Raises
<1>3. ASSUME NEW n \in Returned(f), Raises(n) PROVE failure'[f] # "no"
  BY <1>3 DEF Absorb, Raises, TypeOK
<1>4. failure[f] # "no" => failure'[f] # "no"
  BY DEF Absorb
<1>5. \A g \in Frame \ {f} : failure'[g] = failure[g] /\ refused'[g] = refused[g]
  BY DEF Absorb, TypeOK
<1>6. \A g \in Frame : Failing(g) => Failing(g)'
  BY <1>4, <1>5 DEF Failing
<1>7. refused'[f] = (refused[f] \/ \E n \in {m \in Returned(f) : ~ Raises(m)} : Refusal(n))
  BY DEF Absorb, TypeOK
<1>8. \A g \in Frame : refused[g] => refused'[g]
  BY <1>5, <1>7
<1>9. \A n \in Id : Refusal(n) => Refusal(n)'
  BY <1>8, FrameFacts DEF Refusal
<1>10. \A g \in Frame : Live(g) => Live(g)'
  BY DEF Live, Working
<1>11. Live(f)'
  BY DEF Live, Working
<1>12. \A n \in Id : result'[n] # "none" => at'[n] \in {"returned", "landed", "raised"}
  BY <1>1 DEF SurfaceInv
<1>13. ASSUME NEW n \in Id, Raises(n)
       PROVE  \/ outcome' \in {"budget", "error"}
              \/ \E m \in Id : Raises(m)' /\ at'[m] = "returned"
              \/ \E g \in Frame : Failing(g)'
  <2>1. CASE outcome \in {"budget", "error"} \/ \E g \in Frame : Failing(g)
    BY <1>6, <2>1
  <2>2. ASSUME NEW m \in Id, Raises(m), at[m] = "returned"
        PROVE  \/ \E k \in Id : Raises(k)' /\ at'[k] = "returned"
               \/ \E g \in Frame : Failing(g)'
    BY <1>1, <1>2, <1>3, <2>2 DEF Failing
  <2> QED BY <1>13, <2>1, <2>2 DEF SurfaceInv
<1>14. ASSUME NEW n \in Id, result[n] = "refused"
       PROVE  \/ outcome' \notin {"running", "done"}
              \/ \E m \in Id : Raises(m)'
              \/ \E m \in Id : Refusal(m)' /\ at'[m] = "returned"
              \/ \E g \in Frame : Refuses(g)'
  <2>1. CASE outcome \notin {"running", "done"} \/ \E m \in Id : Raises(m)
    BY <1>2, <2>1
  <2>2. ASSUME NEW m \in Id, Refusal(m), at[m] = "returned", ~ Raises(m)
        PROVE  \/ \E k \in Id : Refusal(k)' /\ at'[k] = "returned"
               \/ \E g \in Frame : Refuses(g)'
    <3>1. CASE m \in Returned(f)
      <4>1. refused'[f]
        BY <1>7, <2>2, <3>1
      <4> QED BY <1>11, <4>1 DEF Refuses
    <3>2. CASE m \notin Returned(f)
      BY <1>1, <1>9, <2>2, <3>2
    <3> QED BY <3>1, <3>2
  <2>3. ASSUME NEW g \in Frame, Refuses(g) PROVE Refuses(g)'
    BY <1>8, <1>10, <2>3 DEF Refuses
  <2> QED BY <1>14, <2>1, <2>2, <2>3 DEF SurfaceInv
<1>15. (\E n \in Id : Raises(n)') => \E n \in Id : Raises(n)
  BY <1>2
<1>16. (\E n \in Id : result'[n] = "refused") => \E n \in Id : result[n] = "refused"
  OBVIOUS
<1> QED BY <1>12, <1>13, <1>14, <1>15, <1>16 DEF SurfaceInv

LEMMA SurfaceStep == TreeInv /\ SurfaceInv /\ [Next]_vars => SurfaceInv'
<1> SUFFICES ASSUME TreeInv, SurfaceInv, [Next]_vars PROVE SurfaceInv'
  OBVIOUS
<1>0. TypeOK /\ TypeOK' /\ DepsInv /\ TreeFlow
  BY TypeStep DEF TreeInv, DepsInv
<1>a. \A f \in Id : Live(f) => at[f] = "below"
  BY <1>0 DEF TreeFlow
<1>1. CASE Start
  <2>1. UNCHANGED <<result, outcome, refused>> /\ loop[0] = "none" /\ minted = 0
    BY <1>0, <1>1 DEF Start, DepsInv, LoopsFollowTasks
  <2>2. \A n \in Id : at[n] = "unminted"
    BY <1>0, <2>1 DEF DepsInv, Id
  <2>3. \A f \in Frame : ~ Live(f) /\ ~ Failing(f)
    BY <1>0, <1>a, <2>1, <2>2, FrameFacts DEF Live, Failing, Working
  <2> QED BY <2>1, <2>2, <2>3, SurfaceQuiet
<1>2. ASSUME NEW n \in Id, Descend(n) PROVE SurfaceInv'
  <2>1. /\ UNCHANGED <<result, outcome, refused>> /\ at[n] = "running"
        /\ loop' = [loop EXCEPT ![n] = "launching"] /\ failure' = [failure EXCEPT ![n] = "no"]
    BY <1>2 DEF Descend, NewPass
  <2>2. \A m \in Id : at[m] \in {"returned", "landed", "raised"} => at'[m] = at[m]
    BY <1>0, <1>2, <2>1 DEF Descend, DepsInv
  <2>3. ~ Live(n) /\ ~ Failing(n)
    BY <1>a, <2>1 DEF Live, Failing, Working
  <2>4. \A f \in Frame : (Live(f) => Live(f)') /\ (Failing(f) => Failing(f)')
    BY <1>0, <2>1, <2>3 DEF TypeOK, Live, Failing
  <2> QED BY <2>1, <2>2, <2>4, SurfaceQuiet
<1>3. ASSUME NEW f \in Frame, Replanned(f) PROVE SurfaceInv'
  <2>1. /\ UNCHANGED <<result, outcome, refused>> /\ loop[f] = "replanning"
        /\ loop' = [loop EXCEPT ![f] = "launching"] /\ failure' = [failure EXCEPT ![f] = "no"]
    BY <1>3 DEF Replanned, NewPass
  <2>2. \A m \in Id : at[m] \in {"returned", "landed", "raised"} => at'[m] = at[m]
    BY <1>0, <1>3 DEF Replanned, DepsInv
  <2>3. ~ Failing(f)
    BY <2>1 DEF Failing, Working
  <2>4. \A g \in Frame : (Live(g) => Live(g)') /\ (Failing(g) => Failing(g)')
    BY <1>0, <2>1, <2>3 DEF TypeOK, Live, Failing
  <2> QED BY <2>1, <2>2, <2>4, SurfaceQuiet
<1>4. ASSUME NEW f \in Frame, Launch(f) PROVE SurfaceInv'
  <2>1. UNCHANGED <<result, outcome, refused>> /\ loop[f] = "launching"
    BY <1>4 DEF Launch
  <2>2. \A m \in Id : at[m] \in {"returned", "landed", "raised"} => at'[m] = at[m]
    BY <1>0, <1>4 DEF Launch, Ready
  <2>3. \A g \in Frame : (failure[g] # "no" => failure'[g] # "no")
    BY <1>0, <1>4 DEF Launch, TypeOK
  <2>4. loop'[f] \in Working /\ \A g \in Frame \ {f} : loop'[g] = loop[g]
    <3>1. \E place \in {"draining", "waiting"} : loop' = [loop EXCEPT ![f] = place]
      BY <1>4 DEF Launch
    <3> QED BY <1>0, <3>1 DEF TypeOK, Working
  <2>5. \A g \in Frame : (Live(g) => Live(g)') /\ (Failing(g) => Failing(g)')
    BY <2>3, <2>4 DEF Live, Failing, Working
  <2> QED BY <2>1, <2>2, <2>5, SurfaceQuiet
<1>5. ASSUME NEW n \in Id, Enter(n) PROVE SurfaceInv'
  <2>1. /\ UNCHANGED <<result, outcome, refused, loop, failure>>
        /\ \A m \in Id : at[m] \in {"returned", "landed", "raised"} => at'[m] = at[m]
    BY <1>0, <1>5 DEF Enter, progress, TypeOK
  <2> QED BY <2>1, SurfaceQuiet DEF Live, Failing
<1>6. ASSUME NEW f \in Frame,
             Barrier(f) \/ AskReplan(f) \/ Replan(f) \/ (GrantMore /\ f = 0)
      PROVE  SurfaceInv'
  <2>1. UNCHANGED <<result, outcome, refused, failure, at>>
    BY <1>6 DEF Barrier, AskReplan, Replan, GrantMore, tasks, progress
  <2>2. \/ loop[f] = "barrier" /\ loop' = [loop EXCEPT ![f] = "draining"]
        \/ Refuted(f) /\ loop' = [loop EXCEPT ![f] = "asking"]
        \/ loop[f] = "asking" /\ loop' = [loop EXCEPT ![f] = "replanning"]
    BY <1>6 DEF Barrier, AskReplan, Replan, GrantMore
  <2>3. \A g \in Frame : (Live(g) => Live(g)') /\ (Failing(g) => Failing(g)')
    BY <1>0, <2>1, <2>2 DEF TypeOK, Refuted, Live, Failing, Working
  <2> QED BY <2>1, <2>3, SurfaceQuiet
<1>7. ASSUME NEW f \in Frame, Settle(f) \/ Drain(f) PROVE SurfaceInv'
  <2>1. /\ Absorb(f, Returned(f)) /\ UNCHANGED <<result, outcome>> /\ loop[f] \in Working
    BY <1>7 DEF Settle, Drain, Working
  <2>2. \E place \in Working \cup {"deciding"} : loop' = [loop EXCEPT ![f] = place]
    BY <1>7 DEF Settle, Drain, Working
  <2>3. loop'[f] \in Working \cup {"deciding"} /\ \A g \in Frame \ {f} : loop'[g] = loop[g]
    BY <1>0, <2>2 DEF TypeOK
  <2> QED BY <1>0, <2>1, <2>3, SurfaceAbsorb
<1>8. ASSUME NEW n \in Id, Finish(n) \/ TooDeep(n) PROVE SurfaceInv'
  <2>1. /\ at[n] = "running" /\ UNCHANGED <<outcome, refused, failure, loop>>
        /\ \E r \in Result : End(n, r)
    BY <1>8 DEF Finish, TooDeep, progress, Result
  <2>2. ~ Failing(n)
    BY <1>a, <2>1 DEF Failing, Live, Working
  <2> QED BY <1>0, <2>1, <2>2, SurfaceEnd
<1>9. ASSUME NEW f \in Frame, Fail(f) \/ Return(f) \/ Exhaust(f) \/ NotReplanned(f)
      PROVE  SurfaceInv'
  <2>1. PICK r \in Result, how \in {"done", "unfinished"} \cup (Failure \ {"no"}) :
          /\ Leave(f, r, how)
          /\ Failing(f) => r \in {"budget", "error"} /\ how \in {"budget", "error"}
          /\ refused[f] => how # "done"
    <3> DEFINE Left(r, how) == /\ Leave(f, r, how)
                               /\ Failing(f) => r \in {"budget", "error"} /\ how \in {"budget", "error"}
                               /\ refused[f] => how # "done"
    <3>1. CASE Fail(f)
      <4>1. failure[f] \in {"budget", "error"}
        BY <1>0, <3>1 DEF Fail, TypeOK, Failure
      <4>2. Left(failure[f], failure[f])
        BY <3>1, <4>1 DEF Fail
      <4> QED BY <4>1, <4>2 DEF Result, Failure
    <3>2. CASE Return(f)
      <4>1. PICK how \in {"done", "unfinished"} : Leave(f, "record", how) /\ (refused[f] => how # "done")
        BY <3>2 DEF Return
      <4>2. ~ Failing(f)
        BY <3>2 DEF Return, Failing
      <4>3. Left("record", how)
        BY <4>1, <4>2
      <4> QED BY <4>3 DEF Result
    <3>3. CASE Exhaust(f)
      <4>1. PICK how \in {"unfinished", "error"} : Leave(f, "refused", how)
        BY <3>3 DEF Exhaust
      <4>2. ~ Failing(f)
        BY <3>3 DEF Exhaust, Refuted, Failing
      <4>3. Left("refused", how)
        BY <4>1, <4>2
      <4> QED BY <4>3 DEF Result, Failure
    <3>4. CASE NotReplanned(f)
      <4>1. ~ Failing(f)
        BY <3>4 DEF NotReplanned, Failing, Working
      <4>2. Left("record", "unfinished") \/ Left("error", "error")
        BY <3>4, <4>1 DEF NotReplanned
      <4> QED BY <4>2 DEF Result, Failure
    <3> QED BY <1>9, <3>1, <3>2, <3>3, <3>4
  <2>2. /\ Live(f) /\ loop'[f] = "over" /\ \A g \in Frame \ {f} : loop'[g] = loop[g]
        /\ UNCHANGED <<refused, failure>>
    BY <1>0, <1>9, <2>1 DEF Fail, Return, Exhaust, NotReplanned, Refuted, Leave, TypeOK,
       Live, progress
  <2>3. CASE f # 0
    <3>1. f \in Id /\ End(f, r) /\ UNCHANGED outcome
      BY <2>1, <2>3, FrameFacts DEF Leave
    <3>2. at[f] = "below"
      BY <1>a, <2>2, <3>1
    <3> QED BY <1>0, <2>1, <2>2, <3>1, <3>2, SurfaceEnd
  <2>4. CASE f = 0
    <3>1. outcome' = how /\ UNCHANGED <<at, result>> /\ outcome = "running"
      BY <1>0, <2>1, <2>2, <2>4 DEF Leave, tasks, TreeFlow, Live
    <3>2. \A n \in Id : (Raises(n)' <=> Raises(n)) /\ (Refusal(n)' <=> Refusal(n))
      BY <2>2, <3>1 DEF Raises, Refusal
    <3>3. \A g \in Frame \ {f} : (Failing(g) => Failing(g)') /\ (Refuses(g) => Refuses(g)')
      BY <2>2 DEF Failing, Refuses, Live
    <3>4. (\E n \in Id : Raises(n)') =>
             \/ outcome' \in {"budget", "error"}
             \/ \E n \in Id : Raises(n)' /\ at'[n] = "returned"
             \/ \E g \in Frame : Failing(g)'
      BY <2>1, <3>1, <3>2, <3>3 DEF SurfaceInv
    <3>5. refused[f] => outcome' \notin {"running", "done"}
      BY <2>1, <3>1 DEF Failure
    <3>6. (\E n \in Id : result'[n] = "refused") =>
             \/ outcome' \notin {"running", "done"}
             \/ \E n \in Id : Raises(n)'
             \/ \E n \in Id : Refusal(n)' /\ at'[n] = "returned"
             \/ \E g \in Frame : Refuses(g)'
      BY <3>1, <3>2, <3>3, <3>5 DEF SurfaceInv, Refuses
    <3> QED BY <3>1, <3>4, <3>6 DEF SurfaceInv
  <2> QED BY <2>3, <2>4
<1>10. CASE UNCHANGED vars
  BY <1>10, SurfaceQuiet DEF vars, nodes, tasks, progress, Live, Failing
<1> QED
  BY <1>1, <1>2, <1>3, <1>4, <1>5, <1>6, <1>7, <1>8, <1>9, <1>10, FrameFacts
     DEF Next, Task, Loop

\* Nothing is on its way up any more once the run has ended.
LEMMA NothingOnTheWay ==
  ASSUME TreeInv, outcome # "running"
  PROVE  /\ \A n \in Id : ~ Active(n)
         /\ \A f \in Frame : ~ Live(f)
<1>1. loop[0] = "over"
  BY DEF TreeInv, TreeFlow
<1>2. \A f \in Frame : ~ Live(f)
  BY <1>1 DEF TreeInv, TreeFlow, Live, Working
<1>3. \A n \in Id : owner[n] \in Frame
  BY DEF TreeInv, DepsInv, TypeOK
<1> QED BY <1>2, <1>3 DEF TreeInv, TreeFlow, Live, Working

\* An exception from any depth, also one that arrives while its plan is being
\* stopped, is how the run ends (execute.py _settle, run.failure).
THEOREM FailuresReachTheTop == Spec => []FailuresSurface
<1>1. TreeInv /\ SurfaceInv => FailuresSurface
  BY NothingOnTheWay DEF FailuresSurface, SurfaceInv, Failing, Working, Live, Active
<1> QED BY SurfaceInit, SurfaceStep, TreeAlways, <1>1, PTL DEF Spec

-----------------------------------------------------------------------------
(* What a pass that ended without a refutation or a failure has done.       *)

\* A nonempty set of ids has a least one.
LEMMA LeastId ==
  ASSUME NEW S \in SUBSET Id, S # {}
  PROVE  \E x \in S : \A y \in S : x <= y
<1>1. S \subseteq Nat
  BY LimitTypes DEF Id
<1>2. \E x \in S : \A y \in S : ~ (<<y, x>> \in OpToRel(<, Nat))
  BY <1>1, NatLessThanWellFounded, WFMin, Zenon
<1>3. \E x \in S : \A y \in S : ~ (y < x)
  BY <1>1, <1>2, Zenon DEF OpToRel
<1> QED BY <1>1, <1>3

\* A whole plan's entries depend on each other only, and on earlier ones.
Whole(f) ==
  \A n \in plan[f] : /\ at[n] \notin {"unminted", "dropped"}
                     /\ deps[n] \subseteq plan[f]
                     /\ \A d \in deps[n] : d < n

Unhindered(f) == ~ refuted[f] /\ failure[f] = "no"

PassInv ==
  /\ \A f \in Frame :
       /\ Whole(f)
       /\ loop[f] \in Working \cup {"deciding"} /\ failure[f] = "no" =>
            \A n \in plan[f] : at[n] # "raised"
       /\ loop[f] = "barrier" => refuted[f]
       /\ loop[f] \in {"draining", "deciding"} /\ Unhindered(f) =>
            \A n \in plan[f] : at[n] = "landed"
  /\ outcome = "done" => \A n \in plan[0] : at[n] = "landed"

LEMMA PassInit == Init => PassInv
BY FrameFacts DEF Init, PassInv, Whole, Working

\* A plan with nothing in flight, nothing raised and nothing ready has landed.
LEMMA NothingReadyIsWhole ==
  ASSUME TypeOK, NEW f \in Frame, Whole(f), Ready(f) = {}, InFlight(f) = {},
         \A n \in plan[f] : at[n] # "raised"
  PROVE  \A n \in plan[f] : at[n] = "landed"
<1> DEFINE left == {n \in plan[f] : at[n] = "pending"}
<1>1. \A n \in plan[f] : at[n] \in {"pending", "landed"}
  BY DEF TypeOK, Places, Whole, InFlight
<1>2. CASE left # {}
  <2>1. PICK n \in left : \A m \in left : n <= m
    <3>1. left \in SUBSET Id
      BY DEF TypeOK
    <3> HIDE DEF left
    <3> QED BY <1>2, <3>1, LeastId
  <2>2. \A d \in deps[n] : d \in plan[f] /\ d \notin left
    <3>1. n \in Id /\ deps[n] \subseteq Id
      BY DEF TypeOK
    <3> QED BY <2>1, <3>1, LimitTypes DEF Whole, Id
  <2>3. n \in Ready(f)
    BY <1>1, <2>2 DEF Ready
  <2> QED BY <2>3
<1> QED BY <1>1, <1>2

\* A step that keeps every plan and pass, and brings nothing back.
LEMMA PassStays ==
  ASSUME TypeOK, PassInv, UNCHANGED <<nodes, plan, refuted, failure>>,
         \A n \in Id : /\ at[n] = "landed" => at'[n] = "landed"
                       /\ at'[n] \in {"unminted", "dropped", "raised"} => at'[n] = at[n],
         \A f \in Frame :
           /\ loop'[f] \in Working \cup {"deciding"} => loop[f] \in Working \cup {"deciding"}
           /\ loop'[f] = "barrier" => loop[f] = "barrier"
           /\ loop'[f] \in {"draining", "deciding"} =>
                loop[f] \in {"draining", "deciding"} \/ refuted[f],
         outcome' = "done" => outcome = "done" \/ \A n \in plan[0] : at[n] = "landed"
  PROVE  PassInv'
<1>1. \A f \in Frame : plan[f] \subseteq Id
  BY DEF TypeOK
<1>2. \A f \in Frame : Whole(f)'
  BY <1>1 DEF PassInv, Whole, nodes
<1>3. \A f \in Frame : Unhindered(f)' <=> Unhindered(f)
  BY DEF Unhindered
<1> QED BY <1>1, <1>2, <1>3, FrameFacts DEF PassInv, Unhindered

\* A pass begins on a plan that was accepted.
LEMMA PassBegins ==
  ASSUME DepsInv, TypeOK', TreeShape, PassInv, NEW f \in Frame, NEW shape \in Shape, Accept(f, shape),
         NewPass(f), UNCHANGED outcome, outcome = "done" => f # 0,
         \A n \in Id :
           \/ n > minted /\ n <= minted + Len(shape) /\ at'[n] = "pending"
           \/ n <= minted /\ at'[n] = at[n]
           \/ n \in plan[f] /\ at'[n] = "dropped" /\ at[n] = "pending"
           \/ at[n] = "running" /\ at'[n] = "below"
           \/ n > minted + Len(shape)
  PROVE  PassInv'
<1> DEFINE new == minted + 1 .. minted + Len(shape)
<1>0. TypeOK
  BY DEF DepsInv
<1>1. /\ minted' = minted + Len(shape) /\ minted \in Nat /\ Len(shape) \in Nat
      /\ minted' \in 0 .. MaxIds
  BY <1>0, AcceptTypes, ShapeFacts DEF TypeOK
<1>2. /\ plan'[f] = new
      /\ \A g \in Frame \ {f} : plan'[g] = plan[g]
      /\ deps' = [n \in Id |->
           IF n \in new THEN {minted + i : i \in shape[n - minted].deps} ELSE deps[n]]
  BY <1>0 DEF Accept, TypeOK
<1>3. /\ loop'[f] = "launching"
      /\ \A g \in Frame \ {f} : loop'[g] = loop[g] /\ refuted'[g] = refuted[g] /\ failure'[g] = failure[g]
  BY <1>0 DEF NewPass, TypeOK
<1>4. new \subseteq Id
  BY <1>1, LimitTypes DEF Id
<1>5. \A n \in new : at'[n] = "pending"
  BY <1>1, <1>4 DEF DepsInv
<1>6. Whole(f)'
  <2>1. ASSUME NEW n \in new
        PROVE  deps'[n] \subseteq new /\ \A d \in deps'[n] : d < n
    <3>1. n \in Id /\ n - minted \in 1 .. Len(shape)
      BY <1>1, <1>4
    <3>2. shape[n - minted].deps \subseteq 1 .. (n - minted) - 1
      BY <3>1, ShapeFacts
    <3>3. deps'[n] = {minted + i : i \in shape[n - minted].deps}
      BY <1>2, <3>1
    <3>4. ASSUME NEW i \in 1 .. (n - minted) - 1 PROVE minted + i \in new /\ minted + i < n
      BY <1>1, <3>1
    <3> QED BY <3>2, <3>3, <3>4
  <2> QED BY <1>2, <1>5, <2>1 DEF Whole
<1>7. ASSUME NEW g \in Frame \ {f}
      PROVE  /\ Whole(g)'
             /\ \A n \in plan[g] : /\ at[n] = "landed" => at'[n] = "landed"
                                   /\ at'[n] = "raised" => at[n] = "raised"
  <2>1. \A n \in plan[g] : n \in 1 .. minted /\ n \in Id /\ n \notin plan[f] /\ n \notin new
    BY <1>0, <1>1 DEF TreeShape, TypeOK
  <2>2. \A n \in plan[g] : at'[n] = at[n] \/ (at[n] = "running" /\ at'[n] = "below")
    BY <1>1, <2>1
  <2>3. \A n \in plan[g] : deps'[n] = deps[n]
    BY <1>2, <2>1
  <2>4. plan'[g] = plan[g] /\ Whole(g)
    BY <1>2 DEF PassInv
  <2>5. Whole(g)'
    BY <2>2, <2>3, <2>4 DEF Whole
  <2> QED BY <2>2, <2>5
<1>8. loop'[f] \in Working \cup {"deciding"} /\ failure'[f] = "no" => \A n \in plan'[f] : at'[n] # "raised"
  BY <1>2, <1>5
<1>9. ASSUME NEW g \in Frame \ {f}
      PROVE  /\ loop'[g] \in Working \cup {"deciding"} /\ failure'[g] = "no" =>
                  \A n \in plan'[g] : at'[n] # "raised"
             /\ loop'[g] = "barrier" => refuted'[g]
             /\ loop'[g] \in {"draining", "deciding"} /\ Unhindered(g)' =>
                  \A n \in plan'[g] : at'[n] = "landed"
  <2>1. Unhindered(g)' <=> Unhindered(g)
    BY <1>3 DEF Unhindered
  <2> QED BY <1>2, <1>3, <1>7, <2>1 DEF PassInv
<1>10. outcome' = "done" => \A n \in plan'[0] : at'[n] = "landed"
  BY <1>2, <1>7, FrameFacts DEF PassInv
<1> QED BY <1>3, <1>6, <1>7, <1>8, <1>9, <1>10 DEF PassInv

\* A loop settles what returned.
LEMMA PassAbsorbs ==
  ASSUME TypeOK, TypeOK', PassInv, NEW f \in Frame, Absorb(f, Returned(f)),
         UNCHANGED <<nodes, plan, outcome>>, TreeShape,
         loop[f] \in {"waiting", "draining"},
         \A g \in Frame \ {f} : loop'[g] = loop[g],
         \/ loop[f] = "draining" /\ loop'[f] = "deciding"
         \/ loop'[f] = "launching"
         \/ loop'[f] = "barrier" /\ refuted'[f]
         \/ loop'[f] = "draining" /\ (refuted'[f] \/ failure'[f] # "no")
  PROVE  PassInv'
<1>1. \A n \in Id : /\ n \notin Returned(f) => at'[n] = at[n]
                    /\ n \in Returned(f) => at[n] = "returned" /\ at'[n] \in {"landed", "raised"}
                    /\ n \in Returned(f) /\ at'[n] = "raised" => Raises(n)
  BY DEF Absorb, TypeOK, Returned
<1>2. \A g \in Frame : plan[g] \subseteq Id
  BY DEF TypeOK
<1>3. \A g \in Frame : Whole(g)'
  BY <1>1, <1>2 DEF PassInv, Whole, nodes
<1>4. \A g \in Frame \ {f} : refuted'[g] = refuted[g] /\ failure'[g] = failure[g]
  <2>1. \E verdict \in BOOLEAN : refuted' = [refuted EXCEPT ![f] = verdict]
    BY DEF Absorb, TypeOK
  <2>2. \E how : failure' = [failure EXCEPT ![f] = how] \/ failure' = failure
    BY DEF Absorb
  <2> QED BY <2>1, <2>2 DEF TypeOK
<1>5. \A n \in Id : at[n] = "landed" => at'[n] = "landed"
  BY <1>1
<1>6. \A g \in Frame \ {f} : \A n \in plan[g] : at'[n] = at[n]
  BY <1>1, <1>2 DEF TreeShape, Returned
<1>7. ASSUME NEW g \in Frame \ {f}
      PROVE  /\ loop'[g] \in Working \cup {"deciding"} /\ failure'[g] = "no" =>
                  \A n \in plan'[g] : at'[n] # "raised"
             /\ loop'[g] = "barrier" => refuted'[g]
             /\ loop'[g] \in {"draining", "deciding"} /\ Unhindered(g)' =>
                  \A n \in plan'[g] : at'[n] = "landed"
  <2>1. Unhindered(g)' <=> Unhindered(g)
    BY <1>4 DEF Unhindered
  <2> QED BY <1>4, <1>6, <2>1 DEF PassInv
<1>8. failure'[f] = "no" => failure[f] = "no" /\ \A n \in Returned(f) : ~ Raises(n)
  BY DEF Absorb, Raises, TypeOK
<1>9. failure'[f] = "no" => \A n \in plan[f] : at'[n] # "raised"
  <2>1. failure[f] = "no" => \A n \in plan[f] : at[n] # "raised"
    BY DEF PassInv, Working
  <2> QED BY <1>1, <1>2, <1>8, <2>1
<1>10. refuted[f] => refuted'[f]
  BY DEF Absorb, TypeOK
<1>11. loop'[f] \in {"draining", "deciding"} /\ Unhindered(f)' => \A n \in plan[f] : at'[n] = "landed"
  <2>1. Unhindered(f)' => Unhindered(f)
    BY <1>8, <1>10 DEF Unhindered
  <2>2. CASE loop[f] = "draining" /\ loop'[f] = "deciding"
    BY <1>2, <1>5, <2>1, <2>2 DEF PassInv
  <2>3. CASE loop'[f] = "draining" /\ (refuted'[f] \/ failure'[f] # "no")
    BY <2>3 DEF Unhindered
  <2> QED BY <2>2, <2>3
<1>12. outcome' = "done" => \A n \in plan'[0] : at'[n] = "landed"
  BY <1>2, <1>5, FrameFacts DEF PassInv
<1> QED BY <1>3, <1>7, <1>9, <1>11, <1>12 DEF PassInv

LEMMA PassStep == TreeInv /\ PassInv /\ [Next]_vars => PassInv'
<1> SUFFICES ASSUME TreeInv, PassInv, [Next]_vars PROVE PassInv'
  OBVIOUS
<1>0. TypeOK /\ TypeOK' /\ DepsInv /\ TreeShape /\ TreeFlow
  BY TypeStep DEF TreeInv, DepsInv
<1>1. CASE Start
  <2>1. PICK shape \in Shape :
          /\ Accept(0, shape)
          /\ at' = [n \in Id |-> IF n <= Len(shape) THEN "pending" ELSE "unminted"]
    BY <1>1 DEF Start
  <2>2. NewPass(0) /\ UNCHANGED outcome /\ loop[0] = "none" /\ minted = 0 /\ outcome = "running"
    BY <1>0, <1>1 DEF Start, DepsInv, LoopsFollowTasks, TreeFlow
  <2>3. \A n \in Id : \/ n > minted /\ n <= minted + Len(shape) /\ at'[n] = "pending"
                      \/ n > minted + Len(shape)
    BY <2>1, <2>2, ShapeFacts DEF Id
  <2> QED BY <1>0, <2>1, <2>2, <2>3, FrameFacts, PassBegins
<1>2. ASSUME NEW n \in Id, Descend(n) PROVE PassInv'
  <2>1. PICK shape \in Shape :
          /\ Accept(n, shape)
          /\ at' = [m \in Id |-> IF m = n THEN "below"
                                 ELSE IF m > minted /\ m <= minted + Len(shape)
                                 THEN "pending" ELSE at[m]]
    BY <1>2 DEF Descend
  <2>2. at[n] = "running" /\ NewPass(n) /\ UNCHANGED outcome /\ n \in Frame /\ n # 0
    BY <1>2, FrameFacts DEF Descend
  <2>3. \A m \in Id : \/ m > minted /\ m <= minted + Len(shape) /\ at'[m] = "pending"
                      \/ m <= minted /\ at'[m] = at[m]
                      \/ at[m] = "running" /\ at'[m] = "below"
                      \/ m > minted + Len(shape)
    BY <1>0, <2>1, <2>2, ShapeFacts DEF TypeOK, Id
  <2> QED BY <1>0, <2>1, <2>2, <2>3, PassBegins
<1>3. ASSUME NEW f \in Frame, Replanned(f) PROVE PassInv'
  <2>1. PICK shape \in Shape :
          /\ Accept(f, shape)
          /\ at' = [n \in Id |->
               IF n \in plan[f] /\ at[n] = "pending" THEN "dropped"
               ELSE IF n > minted /\ n <= minted + Len(shape) THEN "pending" ELSE at[n]]
    BY <1>3 DEF Replanned
  <2>2. NewPass(f) /\ UNCHANGED outcome /\ loop[f] = "replanning"
    BY <1>3 DEF Replanned
  <2>3. outcome = "done" => f # 0
    BY <1>0, <2>2 DEF TreeFlow
  <2>4. \A n \in Id : \/ n > minted /\ n <= minted + Len(shape) /\ at'[n] = "pending"
                      \/ n <= minted /\ at'[n] = at[n]
                      \/ n \in plan[f] /\ at'[n] = "dropped" /\ at[n] = "pending"
                      \/ n > minted + Len(shape)
    BY <1>0, <2>1, ShapeFacts DEF TypeOK, Id
  <2> QED BY <1>0, <2>1, <2>2, <2>3, <2>4, PassBegins
<1>4. ASSUME NEW f \in Frame, Launch(f) PROVE PassInv'
  <2> DEFINE bought == {n \in Ready(f) : Cardinality({m \in Ready(f) : m <= n}) <= MaxNodes - spent}
  <2>1. /\ loop[f] = "launching" /\ UNCHANGED <<nodes, plan, outcome, refuted>>
        /\ failure' = [failure EXCEPT ![f] = IF bought = Ready(f) THEN @ ELSE "budget"]
        /\ loop' = [loop EXCEPT ![f] =
             IF bought # Ready(f) \/ InFlight(f) \cup bought = {} THEN "draining" ELSE "waiting"]
        /\ at' = [n \in Id |-> IF n \in bought THEN "queued" ELSE at[n]]
    BY <1>4 DEF Launch
  <2>2. bought \subseteq Ready(f)
    OBVIOUS
  <2> HIDE DEF bought
  <2>3. \A n \in Id : \/ at'[n] = at[n]
                      \/ at[n] = "pending" /\ at'[n] = "queued"
    BY <1>0, <2>1, <2>2 DEF Ready, TypeOK
  <2>4. \A g \in Frame : plan[g] \subseteq Id
    BY <1>0 DEF TypeOK
  <2>5. \A g \in Frame : Whole(g)'
    BY <2>1, <2>3, <2>4 DEF PassInv, Whole, nodes
  <2>6. \A g \in Frame \ {f} : loop'[g] = loop[g] /\ failure'[g] = failure[g] /\ refuted'[g] = refuted[g]
    BY <1>0, <2>1 DEF TypeOK
  <2>7. ASSUME NEW g \in Frame \ {f}
        PROVE  /\ loop'[g] \in Working \cup {"deciding"} /\ failure'[g] = "no" =>
                    \A n \in plan'[g] : at'[n] # "raised"
               /\ loop'[g] = "barrier" => refuted'[g]
               /\ loop'[g] \in {"draining", "deciding"} /\ Unhindered(g)' =>
                    \A n \in plan'[g] : at'[n] = "landed"
    <3>1. Unhindered(g)' <=> Unhindered(g)
      BY <2>6 DEF Unhindered
    <3> QED BY <2>1, <2>3, <2>4, <2>6, <3>1 DEF PassInv
  <2>8. failure'[f] = "no" => failure[f] = "no" /\ bought = Ready(f)
    BY <1>0, <2>1 DEF TypeOK
  <2>9. loop'[f] \in {"draining", "waiting"}
    BY <1>0, <2>1 DEF TypeOK
  <2>10. failure'[f] = "no" => \A n \in plan[f] : at[n] # "raised" /\ at'[n] # "raised"
    BY <2>1, <2>3, <2>4, <2>8 DEF PassInv, Working
  <2>11. loop'[f] = "draining" /\ failure'[f] = "no" => \A n \in plan[f] : at'[n] = "landed"
    <3> SUFFICES ASSUME loop'[f] = "draining", failure'[f] = "no"
                 PROVE  \A n \in plan[f] : at'[n] = "landed"
      OBVIOUS
    <3>1. bought = Ready(f) /\ InFlight(f) \cup bought = {}
      BY <1>0, <2>1, <2>8 DEF TypeOK
    <3>2. Ready(f) = {} /\ InFlight(f) = {}
      BY <3>1
    <3>3. \A n \in plan[f] : at[n] = "landed"
      BY <1>0, <2>10, <3>2, NothingReadyIsWhole DEF PassInv
    <3> QED BY <2>3, <2>4, <3>3
  <2>12. outcome' = "done" => \A n \in plan'[0] : at'[n] = "landed"
    BY <2>1, <2>3, <2>4, FrameFacts DEF PassInv
  <2> QED BY <2>1, <2>5, <2>7, <2>9, <2>10, <2>11, <2>12 DEF PassInv, Unhindered
<1>5. ASSUME NEW f \in Frame, Settle(f) \/ Drain(f) PROVE PassInv'
  <2>1. /\ Absorb(f, Returned(f)) /\ UNCHANGED <<nodes, plan, outcome>>
        /\ loop[f] \in {"waiting", "draining"}
    BY <1>5 DEF Settle, Drain
  <2>2. \/ loop[f] = "draining" /\ loop' = [loop EXCEPT ![f] = "deciding"]
        \/ loop' = [loop EXCEPT ![f] = "launching"]
        \/ loop' = [loop EXCEPT ![f] = "barrier"] /\ refuted'[f]
        \/ loop' = [loop EXCEPT ![f] = "draining"] /\ (refuted'[f] \/ failure'[f] # "no")
    BY <1>5 DEF Settle, Drain
  <2>3. /\ \A g \in Frame \ {f} : loop'[g] = loop[g]
        /\ \/ loop[f] = "draining" /\ loop'[f] = "deciding"
           \/ loop'[f] = "launching"
           \/ loop'[f] = "barrier" /\ refuted'[f]
           \/ loop'[f] = "draining" /\ (refuted'[f] \/ failure'[f] # "no")
    BY <1>0, <2>2 DEF TypeOK
  <2> QED BY <1>0, <2>1, <2>3, PassAbsorbs
<1>6. ASSUME NEW n \in Id, Enter(n) \/ Finish(n) \/ TooDeep(n) PROVE PassInv'
  <2>1. /\ UNCHANGED <<nodes, plan, refuted, failure, loop, outcome>>
        /\ at[n] \in {"queued", "running"}
        /\ \E place \in {"running", "returned"} : at' = [at EXCEPT ![n] = place]
    BY <1>6 DEF Enter, Finish, TooDeep, End, progress
  <2>2. \A m \in Id : /\ at[m] = "landed" => at'[m] = "landed"
                      /\ at'[m] \in {"unminted", "dropped", "raised"} => at'[m] = at[m]
    BY <1>0, <2>1 DEF TypeOK
  <2> QED BY <1>0, <2>1, <2>2, PassStays
<1>7. ASSUME NEW f \in Frame,
             Barrier(f) \/ AskReplan(f) \/ Replan(f) \/ (GrantMore /\ f = 0)
      PROVE  PassInv'
  <2>1. UNCHANGED <<nodes, plan, refuted, failure, at, outcome>>
    BY <1>7 DEF Barrier, AskReplan, Replan, GrantMore, tasks, progress
  <2>2. \/ loop[f] = "barrier" /\ loop' = [loop EXCEPT ![f] = "draining"]
        \/ loop' = [loop EXCEPT ![f] = "asking"]
        \/ loop' = [loop EXCEPT ![f] = "replanning"]
    BY <1>7 DEF Barrier, AskReplan, Replan, GrantMore
  <2>3. loop[f] = "barrier" => refuted[f]
    BY DEF PassInv
  <2>4. \A g \in Frame :
           /\ loop'[g] \in Working \cup {"deciding"} => loop[g] \in Working \cup {"deciding"}
           /\ loop'[g] = "barrier" => loop[g] = "barrier"
           /\ loop'[g] \in {"draining", "deciding"} =>
                loop[g] \in {"draining", "deciding"} \/ refuted[g]
    BY <1>0, <2>2, <2>3 DEF TypeOK, Working
  <2> QED BY <1>0, <2>1, <2>4, PassStays
<1>8. ASSUME NEW f \in Frame, Fail(f) \/ Return(f) \/ Exhaust(f) \/ NotReplanned(f)
      PROVE  PassInv'
  <2>1. PICK r, how :
          /\ Leave(f, r, how)
          /\ how = "done" => loop[f] = "deciding" /\ Unhindered(f)
    <3>1. CASE Fail(f)
      BY <1>0, <3>1 DEF Fail, TypeOK, Failure
    <3>2. CASE Return(f)
      BY <3>2 DEF Return, Unhindered
    <3>3. CASE Exhaust(f)
      BY <3>3 DEF Exhaust
    <3>4. CASE NotReplanned(f)
      BY <3>4 DEF NotReplanned
    <3> QED BY <1>8, <3>1, <3>2, <3>3, <3>4
  <2>2. /\ Live(f) /\ UNCHANGED <<nodes, plan, refuted, failure>>
        /\ loop' = [loop EXCEPT ![f] = "over"]
    BY <1>8, <2>1 DEF Fail, Return, Exhaust, NotReplanned, Refuted, Leave, Live, progress
  <2>3. \A m \in Id : at'[m] = at[m] \/ (at[m] = "below" /\ at'[m] = "returned")
    <3>1. f # 0 => f \in Id /\ at[f] = "below"
      BY <1>0, <2>2, FrameFacts DEF TreeFlow
    <3> QED BY <1>0, <2>1, <3>1 DEF Leave, End, tasks, TypeOK
  <2>4. outcome' = "done" => outcome = "done" \/ \A n \in plan[0] : at[n] = "landed"
    BY <2>1 DEF Leave, PassInv
  <2>5. \A g \in Frame :
           /\ loop'[g] \in Working \cup {"deciding"} => loop[g] \in Working \cup {"deciding"}
           /\ loop'[g] = "barrier" => loop[g] = "barrier"
           /\ loop'[g] \in {"draining", "deciding"} =>
                loop[g] \in {"draining", "deciding"} \/ refuted[g]
    BY <1>0, <2>2 DEF TypeOK, Working
  <2> QED BY <1>0, <2>2, <2>3, <2>4, <2>5, PassStays
<1>9. CASE UNCHANGED vars
  BY <1>0, <1>9, PassStays DEF vars, nodes, tasks, progress
<1> QED
  BY <1>1, <1>2, <1>3, <1>4, <1>5, <1>6, <1>7, <1>8, <1>9, FrameFacts DEF Next, Task, Loop

\* A run that reports done has landed every entry of its last plan, and no
\* sub-plan was refused at any depth, in any pass (execute.py _verdict).
THEOREM DoneMeansWhole == Spec => []DoneIsWhole
<1>1. TreeInv /\ SurfaceInv /\ PassInv => DoneIsWhole
  <2> SUFFICES ASSUME TreeInv, SurfaceInv, PassInv, outcome = "done" PROVE DoneIsWhole
    BY DEF DoneIsWhole
  <2>1. /\ \A n \in Id : at[n] # "returned"
        /\ \A f \in Frame : ~ Failing(f) /\ ~ Refuses(f)
    BY NothingOnTheWay DEF Active, Failing, Refuses, Live, Working
  <2>2. \A n \in Id : ~ Raises(n)
    BY <2>1 DEF SurfaceInv
  <2>3. \A n \in Id : result[n] # "refused"
    BY <2>1, <2>2 DEF SurfaceInv
  <2> QED BY <2>3 DEF DoneIsWhole, PassInv
<1> QED
  BY SurfaceInit, SurfaceStep, PassInit, PassStep, TreeAlways, <1>1, PTL DEF Spec

=============================================================================
