--------------------------- MODULE DispatchProofs ---------------------------
(***************************************************************************)
(* Theorems about Dispatch for every graph, every policy and any number of *)
(* launches and grants.                                                    *)
(***************************************************************************)
EXTENDS Dispatch, FiniteSetTheorems, TLAPS

-----------------------------------------------------------------------------
(* Appending a line.                                                       *)

\* What appending does to a sequence: one new position, the old ones intact.
LEMMA AppendFacts ==
  ASSUME NEW S, NEW s \in Seq(S), NEW x \in S
  PROVE  /\ Append(s, x) \in Seq(S)
         /\ DOMAIN Append(s, x) = DOMAIN s \cup {Len(s) + 1}
         /\ Len(s) + 1 \notin DOMAIN s
         /\ Len(s) + 1 \in Nat \ {0}
         /\ \A i \in DOMAIN s : Append(s, x)[i] = s[i]
         /\ Append(s, x)[Len(s) + 1] = x
         /\ DOMAIN s \subseteq Nat \ {0}
         /\ \A i \in DOMAIN s : i < Len(s) + 1
  OBVIOUS

\* The set of positions of an event grows by the new line, if it is one.
LEMMA AtAppend ==
  ASSUME journal \in Seq(Line), NEW x \in Line, journal' = Append(journal, x),
         NEW e
  PROVE  /\ At(e)' = IF x.event = e THEN At(e) \cup {Len(journal) + 1} ELSE At(e)
         /\ \A i \in At(e) : journal'[i] = journal[i]
         /\ \A i \in At(e) : i \in Nat \ {0} /\ i < Len(journal) + 1
         /\ Len(journal) + 1 \notin At(e)
         /\ journal'[Len(journal) + 1] = x
<1>1. /\ DOMAIN journal' = DOMAIN journal \cup {Len(journal) + 1}
      /\ Len(journal) + 1 \notin DOMAIN journal
      /\ \A i \in DOMAIN journal : journal'[i] = journal[i]
      /\ journal'[Len(journal) + 1] = x
      /\ DOMAIN journal \subseteq Nat \ {0}
      /\ \A i \in DOMAIN journal : i < Len(journal) + 1
  BY AppendFacts
<1> QED BY <1>1 DEF At

\* Calls and lines are well typed.
LEMMA CallType ==
  ASSUME TypeOK, NEW n \in Node
  PROVE  CallOf(n) \in Call
<1>1. records \in [Node -> Nat]
  BY AppendFacts DEF TypeOK, At
<1> QED BY <1>1 DEF TypeOK, CallOf, Call, Key

LEMMA ResultType ==
  ASSUME TypeOK, NEW n \in Node, NEW outcome \in Outcome(n)
  PROVE  /\ ResultOf(n, outcome) \in ResultLine
         /\ ResultOf(n, outcome) \in Line
         /\ ResultOf(n, outcome).event = "result"
         /\ ResultOf(n, outcome).call = CallOf(n)
BY CallType DEF ResultOf, ResultLine, Line, Status

LEMMA GrantType ==
  ASSUME TypeOK
  PROVE  GrantsIn \in SUBSET Call
<1>1. ASSUME NEW i \in At("grant") PROVE journal[i].call \in Call
  <2>1. journal[i] \in Line /\ journal[i].event = "grant"
    BY <1>1 DEF TypeOK, At
  <2> QED BY <2>1 DEF Line, OpenLine, SummaryLine, StartedLine, GrantLine, ResultLine
<1> QED BY <1>1 DEF GrantsIn

-----------------------------------------------------------------------------
(* Type correctness.                                                       *)

\* What a landed record leaves well typed.
LEMMA LandType ==
  ASSUME TypeOK, NEW n \in Node, NEW line, NEW position, Land(n, line, position),
         position \in At("result")', At("result") \subseteq At("result")'
  PROVE  /\ records' \in [Node -> {0} \cup At("result")']
         /\ at' \in [Node -> Link]
         /\ pc' \in [Node -> {"idle", "call", "body", "suspended", "lost", "done"}]
<1>1. NextLink(n, line) \in Link
  BY DEF TypeOK, NextLink, Link
<1> QED BY <1>1 DEF TypeOK, Land

\* What losing a branch does: nodes of it that were not begun go with the one
\* that raised, and no other node moves.
LEMMA LoseFacts ==
  ASSUME TypeOK, NEW n \in Node, Lose(n)
  PROVE  /\ records' \in [Node -> {0} \cup At("result")]
         /\ pc' \in [Node -> {"idle", "call", "body", "suspended", "lost", "done"}]
         /\ pc'[n] = "lost"
         /\ \A m \in Node :
              IF pc'[m] = "lost"
              THEN /\ records'[m] = 0
                   /\ m = n \/ pc[m] = "lost" \/ (m \in Branch[n] /\ pc[m] = "idle")
              ELSE m # n /\ pc'[m] = pc[m] /\ records'[m] = records[m]
BY DEF Lose, TypeOK

LEMMA TypeInit == Init => TypeOK
BY DEF Init, TypeOK, At, Link, FirstLink

LEMMA TypeStep == TypeOK /\ [Next]_vars => TypeOK'
<1> SUFFICES ASSUME TypeOK, [Next]_vars PROVE TypeOK'
  OBVIOUS
<1> USE DEF TypeOK
<1>1. ASSUME NEW n \in Node, Begin(n) PROVE TypeOK'
  BY <1>1 DEF Begin, At
<1>2. ASSUME NEW n \in Node, Serve(n) PROVE TypeOK'
  <2>1. PICK i \in Served(n) : Land(n, journal[i], i)
    BY <1>2 DEF Serve
  <2>2. At("result")' = At("result") /\ i \in At("result")
    BY <1>2, <2>1 DEF Serve, At, Served
  <2>3. CallOf(n) \in Call
    BY CallType
  <2> QED BY <1>2, <2>1, <2>2, <2>3, LandType DEF Serve
<1>3. ASSUME NEW n \in Node, Start(n) PROVE TypeOK'
  <2> DEFINE line == [event |-> "started", call |-> CallOf(n)]
  <2>1. CallOf(n) \in Call
    BY CallType
  <2>2. line \in Line /\ line.event # "result"
    BY <2>1 DEF Line, StartedLine
  <2>3. journal' = Append(journal, line)
    BY <1>3 DEF Start
  <2>4. At("result")' = At("result") /\ journal' \in Seq(Line)
    BY <2>2, <2>3, AtAppend, AppendFacts
  <2> QED BY <1>3, <2>1, <2>4 DEF Start
<1>4. ASSUME NEW n \in Node, Finish(n) PROVE TypeOK'
  <2>1. PICK outcome \in Outcome(n) :
          /\ journal' = Append(journal, ResultOf(n, outcome))
          /\ Land(n, ResultOf(n, outcome), Len(journal) + 1)
    BY <1>4 DEF Finish
  <2>2. /\ At("result")' = At("result") \cup {Len(journal) + 1}
        /\ journal' \in Seq(Line)
    BY <2>1, ResultType, AtAppend, AppendFacts
  <2> QED BY <1>4, <2>1, <2>2, LandType DEF Finish
<1>5. ASSUME NEW n \in Node, Suspend(n) \/ BranchRaises(n) PROVE TypeOK'
  <2>1. UNCHANGED <<journal, inbox, phase, index, due, at>> /\ At("result")' = At("result")
    BY <1>5 DEF Suspend, BranchRaises, At
  <2>2. CASE Lose(n)
    BY <2>1, <2>2, LoseFacts
  <2>3. CASE UNCHANGED records /\ pc' = [pc EXCEPT ![n] = "suspended"]
    BY <2>1, <2>3
  <2> QED BY <1>5, <2>2, <2>3 DEF Suspend, BranchRaises
<1>6. ASSUME NEW n \in Node, GrantRetry(n) PROVE TypeOK'
  <2>1. PICK i \in LatestOf(n) : inbox' = inbox \cup {journal[i].call}
    BY <1>6 DEF GrantRetry
  <2>2. journal[i] \in Line /\ journal[i].event = "result"
    BY <2>1, AppendFacts DEF LatestOf, At
  <2>3. journal[i].call \in Call
    BY <2>2 DEF Line, OpenLine, SummaryLine, StartedLine, GrantLine, ResultLine
  <2> QED BY <1>6, <2>1, <2>3 DEF GrantRetry, launchVars, At
<1>7. ASSUME Launch PROVE TypeOK'
  <2> DEFINE line == [event |-> "open"]
  <2>1. /\ line \in Line
        /\ line.event # "result"
    BY DEF Line, OpenLine
  <2>2. At("result")' = At("result") /\ journal' \in Seq(Line)
    BY <1>7, <2>1, AtAppend, AppendFacts DEF Launch
  <2>3. GrantsIn \in SUBSET Call
    BY GrantType
  <2>4. LatestResults \in SUBSET Nat /\ LatestResults \subseteq At("result")
    BY AppendFacts DEF LatestResults, At
  <2> QED BY <1>7, <2>2, <2>3, <2>4 DEF Launch, ReplayIndex
<1>8. ASSUME ListGrants PROVE TypeOK'
  BY <1>8 DEF ListGrants, At
<1>9. ASSUME FoldGrant PROVE TypeOK'
  <2>1. PICK call \in due \ GrantsIn :
          journal' = Append(journal, [event |-> "grant", call |-> call])
    BY <1>9 DEF FoldGrant
  <2> DEFINE line == [event |-> "grant", call |-> call]
  <2>2. line \in Line /\ line.event # "result"
    BY <2>1 DEF Line, GrantLine
  <2>3. At("result")' = At("result") /\ journal' \in Seq(Line)
    BY <2>1, <2>2, AtAppend, AppendFacts
  <2> QED BY <1>9, <2>3 DEF FoldGrant, launchVars
<1>10. ASSUME StartProgram PROVE TypeOK'
  BY <1>10, GrantType DEF StartProgram, At
<1>11. ASSUME EndDone PROVE TypeOK'
  <2> DEFINE line == [event |-> "summary", lost |-> Lost]
  <2>1. line \in Line /\ line.event # "result"
    BY DEF Line, SummaryLine, Lost
  <2>2. At("result")' = At("result") /\ journal' \in Seq(Line)
    BY <1>11, <2>1, AtAppend, AppendFacts DEF EndDone
  <2> QED BY <1>11, <2>2 DEF EndDone, Idle, Link, FirstLink
<1>12. ASSUME EndSuspended PROVE TypeOK'
  BY <1>12 DEF EndSuspended, Idle, Link, FirstLink, At
<1>13. ASSUME Crash PROVE TypeOK'
  BY <1>13 DEF Crash, Idle, Link, FirstLink, At
<1>14. ASSUME UNCHANGED vars PROVE TypeOK'
  BY <1>14 DEF vars, At
<1> QED BY <1>1, <1>2, <1>3, <1>4, <1>5, <1>6, <1>7, <1>8, <1>9, <1>10,
           <1>11, <1>12, <1>13, <1>14 DEF Next, Step

\* Every reachable state is well typed, and a record held in memory is one the
\* journal holds.
THEOREM TypeCorrect == Spec => []TypeOK
BY TypeInit, TypeStep, PTL DEF Spec

-----------------------------------------------------------------------------
(* One result per call, and the promise of ResultOnce.                     *)

\* The order in which a launch walks the links of a chain.
Before(link, other) ==
  \/ link.continuation < other.continuation
  \/ /\ link.continuation = other.continuation
     /\ link.attempt < other.attempt

\* The program came to this node in this launch, and has not lost it.
Begun(n) == pc[n] \notin {"idle", "lost"}

\* A node is dispatched only once its dependencies are out.
DepsDone == \A n \in Node : Begun(n) => \A d \in Deps[n] : pc[d] \in Out

\* What is lost has no record, and was in a branch.
LostHoldNothing ==
  \A n \in Node : pc[n] = "lost" => records[n] = 0 /\ Branch[n] # {}

\* Nothing is dispatched until the program runs.
IdleUntilRunning == phase # "running" => \A n \in Node : pc[n] = "idle"

\* A result this launch's index does not hold was recorded by this launch: its
\* node has moved past that link, or is done.
PastUnindexed ==
  phase # "down" =>
    \A n \in Node : \A i \in At("result") \ index.results :
      journal[i].call.node = n =>
        \/ pc[n] = "done"
        \/ pc[n] # "idle" /\ Before(journal[i].call.key.link, at[n])

\* A body runs only for a call the index does not hold.
BodiesUnserved == \A n \in Node : pc[n] = "body" => Served(n) = {}

\* The inductive invariant behind OneResultPerCall and ImplementsResultOnce.
OnceInv ==
  /\ TypeOK
  /\ OneResultPerCall
  /\ DepsDone
  /\ LostHoldNothing
  /\ IdleUntilRunning
  /\ PastUnindexed
  /\ BodiesUnserved

LEMMA ResultCallType ==
  ASSUME TypeOK, NEW i \in At("result")
  PROVE  journal[i].call \in Call /\ journal[i].call.key.link \in Link
<1>1. journal[i] \in Line /\ journal[i].event = "result"
  BY DEF TypeOK, At
<1>2. journal[i].call \in Call
  BY <1>1 DEF Line, OpenLine, SummaryLine, StartedLine, GrantLine, ResultLine
<1> QED BY <1>2 DEF Call, Key

LEMMA CallParts ==
  ASSUME NEW n \in Node
  PROVE  CallOf(n).node = n /\ CallOf(n).key.link = at[n]
BY DEF CallOf

\* The next link a loop dispatches comes after the one that landed.
LEMMA LandAdvances ==
  ASSUME TypeOK, NEW n \in Node, NEW line, NEW position, Land(n, line, position)
  PROVE  \/ pc'[n] = "done"
         \/ pc'[n] = "call" /\ Before(at[n], at'[n])
<1>1. at[n] \in Link
  BY DEF TypeOK
<1>2. /\ NextLink(n, line) \in Link
      /\ Before(at[n], NextLink(n, line))
  BY <1>1 DEF NextLink, Before, Link
<1> QED BY <1>2 DEF Land, TypeOK

LEMMA BeforeFacts ==
  ASSUME NEW l1 \in Link, NEW l2 \in Link, NEW l3 \in Link
  PROVE  /\ ~ Before(l1, l1)
         /\ Before(l1, l2) /\ Before(l2, l3) => Before(l1, l3)
BY DEF Before, Link

\* A node that is settled or dispatched keeps its place when another lands.
LEMMA OthersKeepTheirCalls ==
  ASSUME TypeOK, DepsDone, NEW n \in Node, pc[n] \in {"call", "body"},
         NEW line, NEW position, Land(n, line, position),
         NEW m \in Node \ {n}
  PROVE  /\ pc'[m] = pc[m] /\ at'[m] = at[m] /\ records'[m] = records[m]
         /\ Begun(m) => CallOf(m)' = CallOf(m)
<1>1. pc'[m] = pc[m] /\ at'[m] = at[m] /\ \A d \in Node \ {n} : records'[d] = records[d]
  BY DEF Land, TypeOK
<1>2. ASSUME Begun(m) PROVE n \notin Deps[m]
  BY <1>2 DEF DepsDone, Out
<1> QED BY <1>1, <1>2 DEF CallOf

\* A node was lost, by Suspended out of its body or by its branch.
Loses(n) ==
  /\ phase = "running" /\ pc[n] \in {"idle", "body"}
  /\ Branch[n] # {} /\ Lose(n)
  /\ UNCHANGED <<journal, inbox, phase, index, due, at>>

LEMMA LosesOrSuspends ==
  ASSUME TypeOK, NEW n \in Node, Suspend(n) \/ BranchRaises(n)
  PROVE  \/ Loses(n)
         \/ /\ phase = "running" /\ pc[n] = "body"
            /\ UNCHANGED <<journal, inbox, phase, index, due, at, records>>
            /\ \A m \in Node : pc'[m] = IF m = n THEN "suspended" ELSE pc[m]
BY DEF Suspend, BranchRaises, Reaches, Loses, TypeOK

\* What the program is still at keeps its place, its call and its records.
LEMMA OthersOutlive ==
  ASSUME TypeOK, DepsDone, LostHoldNothing, NEW n \in Node, Loses(n), NEW m \in Node
  PROVE  /\ pc'[m] # "lost" => pc'[m] = pc[m] /\ m # n
         /\ pc[m] \in Out => pc'[m] = pc[m]
         /\ pc'[m] = "lost" => records'[m] = 0 /\ Branch[m] # {}
         /\ Begun(m)' => /\ Begun(m) /\ CallOf(m)' = CallOf(m) /\ records'[m] = records[m]
                         /\ \A d \in Deps[m] : pc[d] \in Out
<1>1. /\ pc'[m] # "lost" => pc'[m] = pc[m] /\ m # n
      /\ pc[m] \in Out => pc'[m] = pc[m]
      /\ pc'[m] = "lost" => records'[m] = 0 /\ Branch[m] # {}
  BY LoseFacts, DispatchAssumption DEF Loses, Out, LostHoldNothing
<1>2. ASSUME Begun(m)'
      PROVE  /\ Begun(m) /\ CallOf(m)' = CallOf(m) /\ records'[m] = records[m]
             /\ \A d \in Deps[m] : pc[d] \in Out
  <2>1. Begun(m) /\ pc'[m] # "lost"
    BY <1>1, <1>2 DEF Begun
  <2>2. \A d \in Deps[m] : d \in Node /\ pc[d] \in Out
    BY <2>1, DispatchAssumption DEF DepsDone
  <2>3. \A d \in Deps[m] : records'[d] = records[d]
    BY <2>2, LoseFacts DEF Loses, Out, LostHoldNothing
  <2>4. records'[m] = records[m] /\ at' = at
    BY <2>1, LoseFacts DEF Loses
  <2>5. CallOf(m)' = CallOf(m)
    BY <2>3, <2>4 DEF CallOf
  <2> QED BY <2>1, <2>2, <2>4, <2>5
<1> QED BY <1>1, <1>2

\* A call about to be recorded has no result yet.
LEMMA CallUnrecorded ==
  ASSUME OnceInv, NEW n \in Node, pc[n] \in {"call", "body"}, Served(n) = {},
         NEW i \in At("result")
  PROVE  journal[i].call # CallOf(n)
<1> SUFFICES ASSUME journal[i].call = CallOf(n) PROVE FALSE
  OBVIOUS
<1>1. i \notin index.results
  BY DEF Served
<1>2. phase # "down"
  BY DEF OnceInv, IdleUntilRunning
<1>3. Before(journal[i].call.key.link, at[n])
  BY <1>1, <1>2, CallParts DEF OnceInv, PastUnindexed
<1>4. at[n] \in Link
  BY DEF OnceInv, TypeOK
<1> QED BY <1>3, <1>4, CallParts, BeforeFacts

LEMMA OnceInit == Init => OnceInv
<1> SUFFICES ASSUME Init PROVE OnceInv
  OBVIOUS
<1>1. At("result") = {}
  BY DEF Init, At
<1> QED BY <1>1, TypeInit
     DEF Init, OnceInv, OneResultPerCall, DepsDone, Begun, LostHoldNothing,
         IdleUntilRunning, PastUnindexed, BodiesUnserved

\* A step that writes no result line and moves no node keeps all but the index.
LEMMA QuietStep ==
  ASSUME OnceInv, TypeOK', At("result")' = At("result"),
         \A i \in At("result") : journal'[i] = journal[i],
         UNCHANGED <<pc, at, records>>, index'.results = index.results,
         phase \notin {"down", "running"}, phase' # "down"
  PROVE  OnceInv'
<1> USE DEF OnceInv
<1>1. \A n \in Node : Served(n)' = Served(n)
  BY DEF Served, CallOf, TypeOK
<1>2. OneResultPerCall' /\ DepsDone' /\ LostHoldNothing' /\ IdleUntilRunning'
  BY DEF OneResultPerCall, DepsDone, Begun, LostHoldNothing, IdleUntilRunning
<1>3. PastUnindexed'
  BY DEF PastUnindexed
<1>4. BodiesUnserved'
  BY <1>1 DEF BodiesUnserved
<1> QED BY <1>2, <1>3, <1>4

\* A launch that ends, by whatever line it closes with, forgets its progress.
LEMMA IdleStep ==
  ASSUME OnceInv, TypeOK', Idle, phase' = "down", At("result")' = At("result"),
         \A i \in At("result") : journal'[i] = journal[i]
  PROVE  OnceInv'
BY DEF OnceInv, Idle, OneResultPerCall, DepsDone, Begun, LostHoldNothing,
       IdleUntilRunning, PastUnindexed, BodiesUnserved

\* A served or finished dispatch keeps everything but the uniqueness of the
\* line it may have written.
LEMMA LandStep ==
  ASSUME OnceInv, TypeOK', OneResultPerCall', phase = "running", UNCHANGED phase,
         NEW n \in Node, pc[n] \in {"call", "body"},
         NEW line, NEW position, Land(n, line, position), UNCHANGED index,
         \A i \in At("result") : i \in At("result")' /\ journal'[i] = journal[i],
         \A i \in At("result")' \ At("result") : journal'[i].call = CallOf(n)
  PROVE  OnceInv'
<1> USE DEF OnceInv
<1>1. DepsDone'
  <2> SUFFICES ASSUME NEW m \in Node, Begun(m)', NEW d \in Deps[m]
               PROVE  pc'[d] \in Out
    BY DEF DepsDone, Out
  <2>1. Begun(m)
    BY OthersKeepTheirCalls DEF Begun
  <2>2. d \in Node /\ pc[d] \in Out /\ d # n
    BY <2>1, DispatchAssumption DEF DepsDone, Out
  <2> QED BY <2>2, OthersKeepTheirCalls
<1>0. LostHoldNothing'
  BY OthersKeepTheirCalls, LandAdvances DEF LostHoldNothing
<1>2. PastUnindexed'
  <2> SUFFICES ASSUME NEW m \in Node, NEW i \in At("result")' \ index.results,
                      journal'[i].call.node = m
               PROVE  \/ pc'[m] = "done"
                      \/ /\ pc'[m] # "idle"
                         /\ Before(journal'[i].call.key.link, at'[m])
    BY DEF PastUnindexed
  <2>1. CASE m # n
    <3>1. i \in At("result")
      BY <2>1, CallParts
    <3> QED BY <2>1, <3>1, OthersKeepTheirCalls DEF PastUnindexed
  <2>2. CASE m = n
    <3>1. \/ pc'[n] = "done"
          \/ pc'[n] = "call" /\ Before(at[n], at'[n])
      BY LandAdvances
    <3>2. at[n] \in Link /\ at'[n] \in Link
      BY DEF TypeOK
    <3>3. CASE i \in At("result")
      <4>1. Before(journal[i].call.key.link, at[n])
        BY <2>2, <3>3 DEF PastUnindexed
      <4>2. journal[i].call.key.link \in Link
        BY <3>3, ResultCallType
      <4> QED BY <2>2, <3>1, <3>2, <3>3, <4>1, <4>2, BeforeFacts
    <3>4. CASE i \notin At("result")
      BY <2>2, <3>1, <3>4, CallParts
    <3> QED BY <3>3, <3>4
  <2> QED BY <2>1, <2>2
<1>3. BodiesUnserved'
  <2> SUFFICES ASSUME NEW m \in Node, pc'[m] = "body" PROVE Served(m)' = {}
    BY DEF BodiesUnserved
  <2>1. m # n
    BY LandAdvances
  <2>2. pc[m] = "body" /\ CallOf(m)' = CallOf(m)
    BY <2>1, OthersKeepTheirCalls DEF Begun
  <2>3. Served(m)' = Served(m)
    BY <2>2 DEF Served, TypeOK
  <2> QED BY <2>2, <2>3 DEF BodiesUnserved
<1> QED BY <1>0, <1>1, <1>2, <1>3 DEF IdleUntilRunning

LEMMA OnceStep == OnceInv /\ [Next]_vars => OnceInv'
<1> SUFFICES ASSUME OnceInv, [Next]_vars PROVE OnceInv'
  OBVIOUS
<1> USE DEF OnceInv
<1>0. TypeOK'
  BY TypeStep
<1>1. ASSUME NEW n \in Node, Begin(n) PROVE OnceInv'
  <2>1. /\ \A m \in Node : pc'[m] = IF m = n THEN "call" ELSE pc[m]
        /\ \A m \in Node : Served(m)' = Served(m) /\ CallOf(m)' = CallOf(m)
        /\ At("result")' = At("result")
    BY <1>1 DEF Begin, TypeOK, Served, CallOf, At
  <2>2. DepsDone' /\ LostHoldNothing'
    BY <1>1, <2>1, DispatchAssumption DEF Begin, Reaches, DepsDone, Begun, LostHoldNothing, Out
  <2>3. IdleUntilRunning' /\ OneResultPerCall'
    BY <1>1, <2>1 DEF Begin, Reaches, IdleUntilRunning, OneResultPerCall
  <2>4. PastUnindexed' /\ BodiesUnserved'
    BY <1>1, <2>1 DEF Begin, Reaches, PastUnindexed, BodiesUnserved
  <2> QED BY <1>0, <2>2, <2>3, <2>4
<1>2. ASSUME NEW n \in Node, Serve(n) PROVE OnceInv'
  <2>1. PICK i \in Served(n) : Land(n, journal[i], i)
    BY <1>2 DEF Serve
  <2>2. At("result")' = At("result") /\ OneResultPerCall'
    BY <1>2 DEF Serve, At, OneResultPerCall
  <2> QED BY <1>0, <1>2, <2>1, <2>2, LandStep DEF Serve
<1>3. ASSUME NEW n \in Node, Start(n) PROVE OnceInv'
  <2> DEFINE line == [event |-> "started", call |-> CallOf(n)]
  <2>1. line \in Line /\ line.event # "result"
    BY CallType DEF Line, StartedLine
  <2>2. At("result")' = At("result") /\ \A i \in At("result") : journal'[i] = journal[i]
    BY <1>3, <2>1, AtAppend DEF Start, TypeOK
  <2>3. \A m \in Node : pc'[m] = IF m = n THEN "body" ELSE pc[m]
    BY <1>3 DEF Start, TypeOK
  <2>4. /\ UNCHANGED <<index, at, records, phase>> /\ phase = "running"
        /\ pc[n] = "call" /\ Served(n) = {}
    BY <1>3 DEF Start
  <2>5. \A m \in Node : Served(m)' = Served(m)
    <3>1. \A m \in Node : CallOf(m)' = CallOf(m)
      BY <2>4 DEF CallOf
    <3> QED BY <2>2, <2>4, <3>1 DEF Served, TypeOK
  <2>6. DepsDone' /\ LostHoldNothing' /\ IdleUntilRunning' /\ OneResultPerCall'
    <3>1. DepsDone' /\ LostHoldNothing'
      BY <2>3, <2>4, DispatchAssumption DEF DepsDone, Begun, LostHoldNothing, Out
    <3>2. IdleUntilRunning'
      BY <2>4 DEF IdleUntilRunning
    <3>3. OneResultPerCall'
      BY <2>2 DEF OneResultPerCall
    <3> QED BY <3>1, <3>2, <3>3
  <2>7. PastUnindexed' /\ BodiesUnserved'
    <3>1. PastUnindexed'
      BY <2>2, <2>3, <2>4 DEF PastUnindexed
    <3>2. BodiesUnserved'
      BY <2>3, <2>4, <2>5 DEF BodiesUnserved
    <3> QED BY <3>1, <3>2
  <2> QED BY <1>0, <2>6, <2>7
<1>4. ASSUME NEW n \in Node, Finish(n) PROVE OnceInv'
  <2>1. PICK outcome \in Outcome(n) :
          /\ journal' = Append(journal, ResultOf(n, outcome))
          /\ Land(n, ResultOf(n, outcome), Len(journal) + 1)
    BY <1>4 DEF Finish
  <2>2. /\ At("result")' = At("result") \cup {Len(journal) + 1}
        /\ \A i \in At("result") : journal'[i] = journal[i]
        /\ journal'[Len(journal) + 1].call = CallOf(n)
    BY <2>1, ResultType, AtAppend DEF TypeOK
  <2>3. \A i \in At("result") : journal[i].call # CallOf(n)
    BY <1>4, CallUnrecorded DEF Finish, BodiesUnserved
  <2>4. OneResultPerCall'
    BY <2>2, <2>3 DEF OneResultPerCall
  <2> QED BY <1>0, <1>4, <2>1, <2>2, <2>4, LandStep DEF Finish
<1>5. ASSUME NEW n \in Node, Suspend(n) \/ BranchRaises(n) PROVE OnceInv'
  <2>1. CASE Loses(n)
    <3>1. /\ UNCHANGED <<journal, phase, index, at>> /\ phase = "running"
          /\ At("result")' = At("result")
      BY <2>1 DEF Loses, At
    <3>2. DepsDone' /\ LostHoldNothing'
      <4>1. \A m \in Node : Begun(m)' => \A d \in Deps[m] : d \in Node /\ pc'[d] \in Out
        BY <2>1, OthersOutlive, DispatchAssumption
      <4> QED BY <2>1, <4>1, OthersOutlive DEF DepsDone, LostHoldNothing, Out
    <3>3. PastUnindexed'
      <4>1. \A m \in Node : pc'[m] = pc[m] \/ (pc'[m] = "lost" /\ pc[m] # "done")
        BY <2>1, OthersOutlive DEF Out
      <4> QED BY <3>1, <4>1 DEF PastUnindexed
    <3>4. BodiesUnserved'
      <4>1. \A m \in Node : pc'[m] = "body" => pc[m] = "body" /\ CallOf(m)' = CallOf(m)
        BY <2>1, OthersOutlive DEF Begun
      <4> QED BY <3>1, <4>1 DEF BodiesUnserved, Served
    <3> QED BY <1>0, <3>1, <3>2, <3>3, <3>4 DEF IdleUntilRunning, OneResultPerCall
  <2>2. CASE ~ Loses(n)
    <3>1. /\ \A m \in Node : pc'[m] = IF m = n THEN "suspended" ELSE pc[m]
          /\ phase = "running" /\ pc[n] = "body"
          /\ UNCHANGED <<journal, phase, index, at, records>>
      BY <1>5, <2>2, LosesOrSuspends
    <3>2. /\ \A m \in Node : Served(m)' = Served(m)
          /\ At("result")' = At("result")
      BY <3>1 DEF Served, CallOf, At
    <3>3. DepsDone' /\ LostHoldNothing'
      BY <3>1, DispatchAssumption DEF DepsDone, Begun, Out, LostHoldNothing
    <3>4. PastUnindexed' /\ BodiesUnserved'
      BY <3>1, <3>2 DEF PastUnindexed, BodiesUnserved
    <3> QED BY <1>0, <3>1, <3>2, <3>3, <3>4 DEF IdleUntilRunning, OneResultPerCall
  <2> QED BY <2>1, <2>2
<1>6. ASSUME NEW n \in Node, GrantRetry(n) PROVE OnceInv'
  <2>1. At("result")' = At("result") /\ \A m \in Node : Served(m)' = Served(m)
    BY <1>6 DEF GrantRetry, launchVars, At, Served, CallOf
  <2> QED BY <1>0, <1>6, <2>1
       DEF GrantRetry, launchVars, DepsDone, Begun, LostHoldNothing, IdleUntilRunning,
           OneResultPerCall, PastUnindexed, BodiesUnserved
<1>7. ASSUME Launch PROVE OnceInv'
  <2> DEFINE line == [event |-> "open"]
  <2>1. line \in Line /\ line.event # "result"
    BY DEF Line, OpenLine
  <2>2. At("result")' = At("result") /\ \A i \in At("result") : journal'[i] = journal[i]
    BY <1>7, <2>1, AtAppend DEF Launch, TypeOK
  <2>3. index'.results = At("result")
    <3>1. At("result") \subseteq Nat
      BY AppendFacts DEF TypeOK, At
    <3>2. LatestResults = At("result")
      BY <3>1 DEF LatestResults, OneResultPerCall
    <3> QED BY <1>7, <3>2 DEF Launch, ReplayIndex
  <2>4. \A n \in Node : pc'[n] = "idle"
    BY <1>7 DEF Launch, IdleUntilRunning
  <2> QED BY <1>0, <2>2, <2>3, <2>4
       DEF DepsDone, Begun, LostHoldNothing, IdleUntilRunning, OneResultPerCall,
           PastUnindexed, BodiesUnserved
<1>8. ASSUME ListGrants PROVE OnceInv'
  BY <1>0, <1>8, QuietStep DEF ListGrants, At
<1>9. ASSUME FoldGrant PROVE OnceInv'
  <2>1. PICK call \in due \ GrantsIn :
          journal' = Append(journal, [event |-> "grant", call |-> call])
    BY <1>9 DEF FoldGrant
  <2> DEFINE line == [event |-> "grant", call |-> call]
  <2>2. line \in Line /\ line.event # "result"
    BY <2>1 DEF TypeOK, Line, GrantLine
  <2>3. At("result")' = At("result") /\ \A i \in At("result") : journal'[i] = journal[i]
    BY <2>1, <2>2, AtAppend DEF TypeOK
  <2> QED BY <1>0, <1>9, <2>3, QuietStep DEF FoldGrant, launchVars
<1>10. ASSUME StartProgram PROVE OnceInv'
  <2>1. index'.results = index.results /\ At("result")' = At("result")
    BY <1>10 DEF StartProgram, TypeOK, At
  <2> QED BY <1>0, <1>10, <2>1, QuietStep DEF StartProgram
<1>11. ASSUME EndDone PROVE OnceInv'
  <2> DEFINE line == [event |-> "summary", lost |-> Lost]
  <2>1. line \in Line /\ line.event # "result"
    BY DEF Line, SummaryLine, Lost
  <2>2. At("result")' = At("result") /\ \A i \in At("result") : journal'[i] = journal[i]
    BY <1>11, <2>1, AtAppend DEF EndDone, TypeOK
  <2> QED BY <1>0, <1>11, <2>2, IdleStep DEF EndDone
<1>12. ASSUME EndSuspended PROVE OnceInv'
  BY <1>0, <1>12, IdleStep DEF EndSuspended, At
<1>13. ASSUME Crash PROVE OnceInv'
  BY <1>0, <1>13, IdleStep DEF Crash, At
<1>14. ASSUME UNCHANGED vars PROVE OnceInv'
  <2>1. At("result")' = At("result") /\ \A m \in Node : Served(m)' = Served(m)
    BY <1>14 DEF vars, At, Served, CallOf
  <2> QED BY <1>0, <1>14, <2>1
       DEF vars, DepsDone, Begun, LostHoldNothing, IdleUntilRunning, OneResultPerCall,
           PastUnindexed, BodiesUnserved
<1> QED BY <1>1, <1>2, <1>3, <1>4, <1>5, <1>6, <1>7, <1>8, <1>9, <1>10,
           <1>11, <1>12, <1>13, <1>14 DEF Next, Step

LEMMA OnceInvariant == Spec => []OnceInv
BY OnceInit, OnceStep, PTL DEF Spec

\* Over every sequence of launches, crashes, suspends and grants, no call is
\* ever recorded twice.
THEOREM RecordedOnce == Spec => []OneResultPerCall
BY OnceInvariant, PTL DEF OnceInv

-----------------------------------------------------------------------------
(* The promise of ResultOnce.                                              *)

LEMMA InitImplements == Init => RO!Init
<1> SUFFICES ASSUME Init PROVE Running = {} /\ Recorded = {}
  BY DEF RO!Init
<1> QED BY DEF Init, Running, Recorded, At

\* A step that writes no result line and starts no body is a stutter or an
\* abandonment.
LEMMA AbandonStep ==
  ASSUME Running' \subseteq Running, At("result")' = At("result"),
         \A i \in At("result") : journal'[i] = journal[i]
  PROVE  RO!Next
BY DEF RO!Next, RO!Abandon, Recorded

LEMMA StepImplements ==
  OnceInv /\ [Next]_vars => [RO!Next]_<<Running, Recorded>>
<1> SUFFICES ASSUME OnceInv, [Next]_vars PROVE [RO!Next]_<<Running, Recorded>>
  OBVIOUS
<1> USE DEF OnceInv
<1>1. ASSUME NEW n \in Node, Begin(n) PROVE RO!Next
  <2>1. /\ \A m \in Node : pc'[m] = "body" => pc[m] = "body"
        /\ \A m \in Node : CallOf(m)' = CallOf(m)
        /\ At("result")' = At("result") /\ journal' = journal
    BY <1>1 DEF Begin, TypeOK, CallOf, At
  <2> QED BY <2>1, AbandonStep DEF Running
<1>2. ASSUME NEW n \in Node, Serve(n) PROVE RO!Next
  <2>1. PICK i \in Served(n) : Land(n, journal[i], i)
    BY <1>2 DEF Serve
  <2>2. pc'[n] # "body" /\ pc[n] = "call"
    BY <1>2, <2>1, LandAdvances DEF Serve
  <2>3. \A m \in Node : pc'[m] = "body" => pc[m] = "body" /\ CallOf(m)' = CallOf(m)
    BY <2>1, <2>2, OthersKeepTheirCalls DEF Begun
  <2>4. At("result")' = At("result") /\ journal' = journal
    BY <1>2 DEF Serve, At
  <2> QED BY <2>3, <2>4, AbandonStep DEF Running
<1>3. ASSUME NEW n \in Node, Start(n) PROVE RO!Next
  <2> DEFINE line == [event |-> "started", call |-> CallOf(n)]
  <2>1. line \in Line /\ line.event # "result"
    BY CallType DEF Line, StartedLine
  <2>2. At("result")' = At("result") /\ \A i \in At("result") : journal'[i] = journal[i]
    BY <1>3, <2>1, AtAppend DEF Start, TypeOK
  <2>3. /\ \A m \in Node : pc'[m] = IF m = n THEN "body" ELSE pc[m]
        /\ pc[n] = "call" /\ Served(n) = {}
    BY <1>3 DEF Start, TypeOK
  <2>4. \A m \in Node : CallOf(m)' = CallOf(m)
    BY <1>3 DEF Start, CallOf
  <2>5. Running' = Running \cup {CallOf(n)}
    BY <2>3, <2>4 DEF Running
  <2>6. CallOf(n) \notin Running
    BY <2>3, CallParts DEF Running
  <2>7. CallOf(n) \notin Recorded
    BY <2>3, CallUnrecorded DEF Recorded
  <2>8. Recorded' = Recorded
    BY <2>2 DEF Recorded
  <2> QED BY <2>5, <2>6, <2>7, <2>8 DEF RO!Next, RO!Run
<1>4. ASSUME NEW n \in Node, Finish(n) PROVE RO!Next
  <2>1. PICK outcome \in Outcome(n) :
          /\ journal' = Append(journal, ResultOf(n, outcome))
          /\ Land(n, ResultOf(n, outcome), Len(journal) + 1)
    BY <1>4 DEF Finish
  <2>2. /\ At("result")' = At("result") \cup {Len(journal) + 1}
        /\ \A i \in At("result") : journal'[i] = journal[i]
        /\ journal'[Len(journal) + 1].call = CallOf(n)
    BY <2>1, ResultType, AtAppend DEF TypeOK
  <2>3. pc[n] = "body" /\ pc'[n] # "body"
    BY <1>4, <2>1, LandAdvances DEF Finish
  <2>4. \A m \in Node \ {n} :
          (pc'[m] = "body") = (pc[m] = "body")
            /\ (pc[m] = "body" => CallOf(m)' = CallOf(m) /\ CallOf(m) # CallOf(n))
    BY <2>1, <2>3, OthersKeepTheirCalls, CallParts DEF Begun
  <2>5. Running' = Running \ {CallOf(n)} /\ CallOf(n) \in Running
    BY <2>3, <2>4 DEF Running
  <2>6. Recorded' = Recorded \cup {CallOf(n)}
    BY <2>2 DEF Recorded
  <2> QED BY <2>5, <2>6 DEF RO!Next, RO!Record
<1>5. ASSUME NEW n \in Node, Suspend(n) \/ BranchRaises(n) PROVE RO!Next
  <2>1. \A m \in Node : pc'[m] = "body" => pc[m] = "body" /\ CallOf(m)' = CallOf(m)
    <3>1. CASE Loses(n)
      BY <3>1, OthersOutlive DEF Begun
    <3>2. CASE ~ Loses(n)
      <4>1. /\ UNCHANGED <<at, records>>
            /\ \A m \in Node : pc'[m] = IF m = n THEN "suspended" ELSE pc[m]
        BY <1>5, <3>2, LosesOrSuspends
      <4> QED BY <4>1 DEF CallOf
    <3> QED BY <3>1, <3>2
  <2>2. At("result")' = At("result") /\ journal' = journal
    BY <1>5 DEF Suspend, BranchRaises, At
  <2> QED BY <2>1, <2>2, AbandonStep DEF Running
<1>6. ASSUME UNCHANGED <<journal, pc, at, records>>
      PROVE  UNCHANGED <<Running, Recorded>>
  <2>1. \A m \in Node : CallOf(m)' = CallOf(m)
    BY <1>6 DEF CallOf
  <2> QED BY <1>6, <2>1 DEF Running, Recorded, At
<1>7. ASSUME NEW line \in Line, line.event # "result",
             journal' = Append(journal, line),
             \A n \in Node : pc'[n] = "idle"
      PROVE  RO!Next
  <2>1. At("result")' = At("result") /\ \A i \in At("result") : journal'[i] = journal[i]
    BY <1>7, AtAppend DEF TypeOK
  <2>2. Running' = {}
    BY <1>7 DEF Running
  <2> QED BY <2>1, <2>2, AbandonStep
<1>8. ASSUME Launch PROVE RO!Next
  <2>1. [event |-> "open"] \in Line
    BY DEF Line, OpenLine
  <2>2. \A n \in Node : pc'[n] = "idle"
    BY <1>8 DEF Launch, IdleUntilRunning
  <2> QED BY <1>7, <1>8, <2>1, <2>2 DEF Launch
<1>9. ASSUME FoldGrant PROVE RO!Next
  <2>1. PICK call \in due \ GrantsIn :
          journal' = Append(journal, [event |-> "grant", call |-> call])
    BY <1>9 DEF FoldGrant
  <2>2. [event |-> "grant", call |-> call] \in Line
    BY <2>1 DEF TypeOK, Line, GrantLine
  <2>3. \A n \in Node : pc'[n] = "idle"
    BY <1>9 DEF FoldGrant, launchVars, IdleUntilRunning
  <2> QED BY <1>7, <2>1, <2>2, <2>3
<1>10. ASSUME EndDone PROVE RO!Next
  <2>1. [event |-> "summary", lost |-> Lost] \in Line
    BY DEF Line, SummaryLine, Lost
  <2> QED BY <1>7, <1>10, <2>1 DEF EndDone, Idle
<1>11. ASSUME EndSuspended \/ Crash PROVE RO!Next
  <2>1. Running' = {} /\ journal' = journal
    BY <1>11 DEF EndSuspended, Crash, Idle, Running
  <2> QED BY <2>1, AbandonStep DEF At
<1> QED
  BY <1>1, <1>2, <1>3, <1>4, <1>5, <1>6, <1>8, <1>9, <1>10, <1>11
  DEF Next, Step, GrantRetry, ListGrants, StartProgram, launchVars, vars

\* The dispatcher, the replay index and the launches implement ResultOnce: one
\* body at a time per call, at most one result, none after it.
THEOREM Implements == Spec => ImplementsResultOnce
<1>1. Init => RO!Init
  BY InitImplements
<1>2. OnceInv /\ [Next]_vars => [RO!Next]_<<Running, Recorded>>
  BY StepImplements
<1> QED BY <1>1, <1>2, OnceInvariant, PTL DEF Spec, ImplementsResultOnce, RO!Spec

-----------------------------------------------------------------------------
(* Fresh records, a causal journal and honoured grants.                    *)

\* The program runs with every grant its launch listed.
GrantsLoaded == phase = "running" => due \subseteq index.grants

\* No node settles on a failure this launch holds a grant for.
NoneSettlesGranted ==
  \A n \in Node : pc[n] = "done" => ~ Granted(journal[records[n]])

FreshInv ==
  /\ OnceInv
  /\ OwnAndFresh
  /\ JournalIsCausal
  /\ GrantsLoaded
  /\ NoneSettlesGranted

LEMMA FreshInit == Init => FreshInv
BY OnceInit
   DEF Init, FreshInv, OwnAndFresh, JournalIsCausal, GrantsLoaded,
       NoneSettlesGranted, At

\* A line that is neither started nor a result disturbs nothing, nor does a
\* step that writes no line, while no node is settled.
LEMMA UnsettledStep ==
  ASSUME FreshInv, OnceInv', GrantsLoaded', \A n \in Node : pc'[n] = "idle",
         At("result")' = At("result"), At("started")' = At("started"),
         \A i \in At("result") \cup At("started") : journal'[i] = journal[i]
  PROVE  FreshInv'
BY DEF FreshInv, OwnAndFresh, JournalIsCausal, NoneSettlesGranted

\* The call of a node whose dependencies are out reads older results, or nothing
\* of a branch that was lost.
LEMMA CallIsCausal ==
  ASSUME FreshInv, NEW n \in Node, Begun(n), NEW d \in Deps[n]
  PROVE  LET p == CallOf(n).key.prefix[d]
         IN  \/ p = 0 /\ Branch[d] # {}
             \/ p \in At("result") /\ p < Len(journal) + 1 /\ journal[p].call.node = d
<1>1. d \in Node /\ pc[d] \in Out
  BY DispatchAssumption DEF FreshInv, OnceInv, DepsDone
<1>2. CallOf(n).key.prefix[d] = records[d]
  BY <1>1 DEF CallOf
<1>3. CASE pc[d] = "done"
  <2>1. records[d] \in At("result") /\ journal[records[d]].call.node = d
    BY <1>1, <1>3, CallParts DEF FreshInv, OwnAndFresh
  <2>2. records[d] < Len(journal) + 1
    BY <2>1, AppendFacts DEF At, FreshInv, OnceInv, TypeOK
  <2> QED BY <1>2, <2>1, <2>2
<1>4. CASE pc[d] = "lost"
  BY <1>1, <1>2, <1>4 DEF FreshInv, OnceInv, LostHoldNothing
<1> QED BY <1>1, <1>3, <1>4 DEF Out

\* The journal stays causal when a settled node's call is written to it.
LEMMA WriteCall ==
  ASSUME FreshInv, NEW n \in Node, Begun(n), NEW line \in Line,
         line.call = CallOf(n), journal' = Append(journal, line)
  PROVE  JournalIsCausal'
<1> SUFFICES ASSUME NEW i \in At("started")' \cup At("result")',
                    NEW d \in Deps[journal'[i].call.node]
             PROVE  LET p == journal'[i].call.key.prefix[d]
                    IN  \/ p = 0 /\ Branch[d] # {}
                        \/ p \in At("result")' /\ p < i /\ journal'[p].call.node = d
  BY DEF JournalIsCausal
<1>1. /\ journal \in Seq(Line)
      /\ JournalIsCausal
  BY DEF FreshInv, OnceInv, TypeOK
<1>2. /\ \A j \in At("result") : j \in At("result")' /\ journal'[j] = journal[j]
      /\ journal'[Len(journal) + 1] = line
  BY <1>1, AtAppend
<1>3. CASE i \in At("started") \cup At("result")
  <2>1. journal'[i] = journal[i]
    BY <1>1, <1>3, AtAppend
  <2> DEFINE p == journal[i].call.key.prefix[d]
  <2>2. d \in Deps[journal[i].call.node]
    BY <2>1
  <2>3. \/ p = 0 /\ Branch[d] # {}
        \/ p \in At("result") /\ p < i /\ journal[p].call.node = d
    BY <1>1, <1>3, <2>2 DEF JournalIsCausal
  <2> QED BY <1>2, <2>1, <2>3
<1>4. CASE i \notin At("started") \cup At("result")
  <2>1. i = Len(journal) + 1
    BY <1>1, <1>4, AtAppend
  <2>2. d \in Deps[n]
    BY <1>2, <2>1, CallParts
  <2> DEFINE p == CallOf(n).key.prefix[d]
  <2>3. \/ p = 0 /\ Branch[d] # {}
        \/ p \in At("result") /\ p < i /\ journal[p].call.node = d
    BY <2>1, <2>2, CallIsCausal
  <2>4. journal'[i].call = CallOf(n)
    BY <1>2, <2>1
  <2> QED BY <1>2, <2>3, <2>4
<1> QED BY <1>3, <1>4

\* A landed record is the node's own, and settles it only if not granted.
LEMMA LandIsFresh ==
  ASSUME FreshInv, OnceInv', JournalIsCausal', phase' = phase,
         NEW n \in Node, pc[n] \in {"call", "body"},
         NEW line, NEW position, Land(n, line, position), UNCHANGED <<index, due>>,
         \A i \in At("result") : i \in At("result")' /\ journal'[i] = journal[i],
         position \in At("result")', journal'[position] = line,
         line.call = CallOf(n)
  PROVE  FreshInv'
<1> USE DEF FreshInv, OnceInv
<1>1. /\ records'[n] = position
      /\ \A m \in Node \ {n} : records'[m] = records[m]
  BY DEF Land, TypeOK
<1>2. ASSUME pc'[n] = "done"
      PROVE  CallOf(n)' = CallOf(n) /\ ~ Granted(line)
  <2>1. at' = at /\ ~ Granted(line)
    BY <1>2 DEF Land, TypeOK, Retries
  <2>2. n \notin Deps[n]
    BY DEF DepsDone, Begun, Out
  <2> QED BY <1>1, <2>1, <2>2 DEF CallOf
<1>3. OwnAndFresh'
  <2> SUFFICES ASSUME NEW m \in Node, pc'[m] = "done"
               PROVE  records'[m] \in At("result")' /\ journal'[records'[m]].call = CallOf(m)'
    BY DEF OwnAndFresh
  <2>1. CASE m = n
    BY <1>1, <1>2, <2>1
  <2>2. CASE m # n
    BY <1>1, <2>2, OthersKeepTheirCalls DEF OwnAndFresh, Begun
  <2> QED BY <2>1, <2>2
<1>4. NoneSettlesGranted'
  <2> SUFFICES ASSUME NEW m \in Node, pc'[m] = "done"
               PROVE  ~ Granted(journal[records[m]])'
    BY DEF NoneSettlesGranted
  <2>1. CASE m = n
    BY <1>1, <1>2, <2>1 DEF Granted
  <2>2. CASE m # n
    BY <1>1, <2>2, OthersKeepTheirCalls
    DEF OwnAndFresh, NoneSettlesGranted, Granted, Begun
  <2> QED BY <2>1, <2>2
<1> QED BY <1>3, <1>4 DEF GrantsLoaded

LEMMA FreshStep == FreshInv /\ [Next]_vars => FreshInv'
<1> SUFFICES ASSUME FreshInv, [Next]_vars PROVE FreshInv'
  OBVIOUS
<1> USE DEF FreshInv
<1>0. OnceInv' /\ TypeOK
  BY OnceStep DEF OnceInv
\* A step that moves a node without settling it, and writes no line.
<1>1. ASSUME UNCHANGED <<journal, index, due, phase>>,
             \A m \in Node : pc'[m] = "done" =>
               pc[m] = "done" /\ records'[m] = records[m] /\ CallOf(m)' = CallOf(m)
      PROVE  FreshInv'
  <2> QED BY <1>0, <1>1
       DEF OwnAndFresh, JournalIsCausal, GrantsLoaded, NoneSettlesGranted, Granted, At
\* A step that leaves the calls alone.
<1>13. ASSUME UNCHANGED <<journal, index, due, phase, at, records>>,
              \A m \in Node : pc'[m] = "done" => pc[m] = "done"
       PROVE  FreshInv'
  <2>1. \A m \in Node : CallOf(m)' = CallOf(m)
    BY <1>13 DEF CallOf
  <2> QED BY <1>1, <1>13, <2>1
<1>14. ASSUME NEW n \in Node, Begin(n) PROVE FreshInv'
  BY <1>0, <1>13, <1>14 DEF Begin, TypeOK
<1>2. ASSUME NEW n \in Node, Suspend(n) \/ BranchRaises(n) PROVE FreshInv'
  <2>1. CASE Loses(n)
    <3>1. \A m \in Node : pc'[m] = "done" =>
            pc[m] = "done" /\ records'[m] = records[m] /\ CallOf(m)' = CallOf(m)
      BY <1>0, <2>1, OthersOutlive DEF OnceInv, Begun
    <3> QED BY <1>1, <2>1, <3>1 DEF Loses
  <2>2. CASE ~ Loses(n)
    BY <1>0, <1>2, <1>13, <2>2, LosesOrSuspends
  <2> QED BY <2>1, <2>2
<1>3. ASSUME NEW n \in Node, Serve(n) PROVE FreshInv'
  <2>1. PICK i \in Served(n) : Land(n, journal[i], i)
    BY <1>3 DEF Serve
  <2>2. /\ At("result")' = At("result") /\ JournalIsCausal' /\ journal' = journal
        /\ i \in At("result") /\ journal[i].call = CallOf(n)
    BY <1>0, <1>3, <2>1 DEF Serve, At, JournalIsCausal, Served, TypeOK
  <2> QED BY <1>0, <1>3, <2>1, <2>2, LandIsFresh DEF Serve
<1>4. ASSUME NEW n \in Node, Start(n) PROVE FreshInv'
  <2> DEFINE line == [event |-> "started", call |-> CallOf(n)]
  <2>1. line \in Line /\ line.event # "result" /\ line.call = CallOf(n)
    BY <1>0, CallType DEF Line, StartedLine
  <2>2. At("result")' = At("result") /\ \A i \in At("result") : journal'[i] = journal[i]
    BY <1>0, <1>4, <2>1, AtAppend DEF Start, TypeOK
  <2>3. JournalIsCausal'
    BY <1>4, <2>1, WriteCall DEF Start, Begun
  <2>4. /\ \A m \in Node : pc'[m] = "done" => pc[m] = "done"
        /\ UNCHANGED <<records, at, index, due, phase>>
    BY <1>0, <1>4 DEF Start, TypeOK
  <2>5. \A m \in Node : CallOf(m)' = CallOf(m)
    BY <2>4 DEF CallOf
  <2> QED BY <1>0, <2>2, <2>3, <2>4, <2>5
       DEF OwnAndFresh, GrantsLoaded, NoneSettlesGranted, Granted
<1>5. ASSUME NEW n \in Node, Finish(n) PROVE FreshInv'
  <2>1. PICK outcome \in Outcome(n) :
          /\ journal' = Append(journal, ResultOf(n, outcome))
          /\ Land(n, ResultOf(n, outcome), Len(journal) + 1)
    BY <1>5 DEF Finish
  <2> DEFINE line == ResultOf(n, outcome)
  <2>2. line \in Line /\ line.event = "result" /\ line.call = CallOf(n)
    BY <1>0, <2>1, ResultType
  <2>3. /\ At("result")' = At("result") \cup {Len(journal) + 1}
        /\ \A i \in At("result") : journal'[i] = journal[i]
        /\ journal'[Len(journal) + 1] = line
    BY <1>0, <2>1, <2>2, AtAppend DEF TypeOK
  <2>4. JournalIsCausal'
    BY <1>5, <2>1, <2>2, WriteCall DEF Finish, Begun
  <2> QED BY <1>0, <1>5, <2>1, <2>2, <2>3, <2>4, LandIsFresh DEF Finish
\* A launch line, written while no node is settled afterwards.
<1>6. ASSUME NEW line \in Line, line.event \notin {"started", "result"},
             journal' = Append(journal, line), GrantsLoaded',
             \A n \in Node : pc'[n] = "idle"
      PROVE  FreshInv'
  <2>1. /\ At("result")' = At("result") /\ At("started")' = At("started")
        /\ \A i \in At("result") \cup At("started") : journal'[i] = journal[i]
    BY <1>0, <1>6, AtAppend DEF TypeOK
  <2> QED BY <1>0, <1>6, <2>1, UnsettledStep
<1>7. ASSUME Launch PROVE FreshInv'
  <2>1. [event |-> "open"] \in Line
    BY DEF Line, OpenLine
  <2>2. \A n \in Node : pc'[n] = "idle"
    BY <1>7 DEF Launch, OnceInv, IdleUntilRunning
  <2> QED BY <1>6, <1>7, <2>1, <2>2 DEF Launch, GrantsLoaded
<1>8. ASSUME FoldGrant PROVE FreshInv'
  <2>1. PICK call \in due \ GrantsIn :
          journal' = Append(journal, [event |-> "grant", call |-> call])
    BY <1>8 DEF FoldGrant
  <2>2. [event |-> "grant", call |-> call] \in Line
    BY <1>0, <2>1 DEF TypeOK, Line, GrantLine
  <2>3. \A n \in Node : pc'[n] = "idle"
    BY <1>8 DEF FoldGrant, launchVars, OnceInv, IdleUntilRunning
  <2> QED BY <1>6, <1>8, <2>1, <2>2, <2>3 DEF FoldGrant, GrantsLoaded
<1>9. ASSUME EndDone PROVE FreshInv'
  <2>1. [event |-> "summary", lost |-> Lost] \in Line
    BY DEF Line, SummaryLine, Lost
  <2> QED BY <1>6, <1>9, <2>1 DEF EndDone, Idle, GrantsLoaded
\* A launch step that writes no line.
<1>10. ASSUME ListGrants \/ StartProgram \/ EndSuspended \/ Crash PROVE FreshInv'
  <2>1. \A n \in Node : pc'[n] = "idle"
    BY <1>10 DEF ListGrants, StartProgram, EndSuspended, Crash, Idle, OnceInv,
                 IdleUntilRunning
  <2>2. journal' = journal /\ At("result")' = At("result") /\ At("started")' = At("started")
    BY <1>10 DEF ListGrants, StartProgram, EndSuspended, Crash, At
  <2>3. GrantsLoaded'
    BY <1>0, <1>10
    DEF ListGrants, StartProgram, EndSuspended, Crash, GrantsLoaded, TypeOK
  <2> QED BY <1>0, <2>1, <2>2, <2>3, UnsettledStep
<1>11. ASSUME NEW n \in Node, GrantRetry(n) PROVE FreshInv'
  BY <1>13, <1>11 DEF GrantRetry, launchVars
<1>12. ASSUME UNCHANGED vars PROVE FreshInv'
  BY <1>13, <1>12 DEF vars
<1> QED BY <1>14, <1>2, <1>3, <1>4, <1>5, <1>7, <1>8, <1>9, <1>10, <1>11, <1>12
        DEF Next, Step

LEMMA FreshInvariant == Spec => []FreshInv
BY FreshInit, FreshStep, PTL DEF Spec

\* A settled node holds its own record, computed from the records its
\* dependencies hold in the same launch.
THEOREM RecordsAreFresh == Spec => []OwnAndFresh
BY FreshInvariant, PTL DEF FreshInv

\* Every started and result line was computed from older results of the
\* node's dependencies.
THEOREM CausalJournal == Spec => []JournalIsCausal
BY FreshInvariant, PTL DEF FreshInv

\* No node settles on a failure that was granted before its launch listed the
\* grant files.
THEOREM GrantsHonoured == Spec => []GrantIsHonoured
<1>1. FreshInv => GrantIsHonoured
  BY DEF FreshInv, GrantsLoaded, NoneSettlesGranted, GrantIsHonoured, Granted
<1> QED BY <1>1, FreshInvariant, PTL


-----------------------------------------------------------------------------
(***************************************************************************)
(* What a launch may run again: the started lines of Dispatch, for every   *)
(* graph, every policy and any number of launches and grants.              *)
(***************************************************************************)

-----------------------------------------------------------------------------
(* What a step does to the lines of one event.                             *)

SameLines(e) ==
  /\ At(e)' = At(e)
  /\ \A i \in At(e) : journal'[i] = journal[i]

LEMMA Unwritten ==
  ASSUME journal' = journal
  PROVE  \A e : SameLines(e)
BY DEF SameLines, At

LEMMA Written ==
  ASSUME TypeOK, NEW x \in Line, journal' = Append(journal, x)
  PROVE  /\ \A e : e # x.event => SameLines(e)
         /\ \A e : \A i \in At(e) : journal'[i] = journal[i] /\ i < Len(journal) + 1
         /\ At(x.event)' = At(x.event) \cup {Len(journal) + 1}
         /\ journal'[Len(journal) + 1] = x
BY AtAppend DEF TypeOK, SameLines

\* The lines a launch writes beside its dispatches.
LEMMA LaunchLines ==
  /\ [event |-> "open"] \in Line
  /\ [event |-> "summary", lost |-> Lost] \in Line
  /\ \A call \in Call : [event |-> "grant", call |-> call] \in Line
  /\ \A call \in Call : [event |-> "started", call |-> call] \in Line
BY DEF Line, OpenLine, SummaryLine, GrantLine, StartedLine, Lost

\* A step that keeps every line, or writes one of another event.
LEMMA OpenWrites ==
  ASSUME TypeOK, Launch
  PROVE  /\ \A e : e # "open" => SameLines(e)
         /\ At("open")' = At("open") \cup {Len(journal) + 1}
         /\ \A e : \A i \in At(e) : journal'[i] = journal[i] /\ i < Len(journal) + 1
<1>1. [event |-> "open"] \in Line /\ journal' = Append(journal, [event |-> "open"])
  BY LaunchLines DEF Launch
<1> QED BY <1>1, Written

LEMMA SummaryWrites ==
  ASSUME TypeOK, EndDone
  PROVE  /\ \A e : e # "summary" => SameLines(e)
         /\ At("summary")' = At("summary") \cup {Len(journal) + 1}
         /\ \A e : \A i \in At(e) : journal'[i] = journal[i] /\ i < Len(journal) + 1
         /\ journal'[Len(journal) + 1].lost = Lost
<1> DEFINE line == [event |-> "summary", lost |-> Lost]
<1>1. line \in Line /\ journal' = Append(journal, line)
  BY LaunchLines DEF EndDone
<1>2. line.event = "summary" /\ line.lost = Lost
  OBVIOUS
<1> HIDE DEF line
<1> QED BY <1>1, <1>2, Written

LEMMA GrantWrites ==
  ASSUME TypeOK, FoldGrant
  PROVE  /\ \A e : e # "grant" => SameLines(e)
         /\ At("grant")' = At("grant") \cup {Len(journal) + 1}
         /\ \A e : \A i \in At(e) : journal'[i] = journal[i] /\ i < Len(journal) + 1
<1>1. PICK call \in due \ GrantsIn :
        journal' = Append(journal, [event |-> "grant", call |-> call])
  BY DEF FoldGrant
<1>2. [event |-> "grant", call |-> call] \in Line
  BY LaunchLines DEF TypeOK
<1> QED BY <1>1, <1>2, Written

LEMMA StartWrites ==
  ASSUME TypeOK, NEW n \in Node, Start(n)
  PROVE  /\ \A e : e # "started" => SameLines(e)
         /\ At("started")' = At("started") \cup {Len(journal) + 1}
         /\ \A e : \A i \in At(e) : journal'[i] = journal[i] /\ i < Len(journal) + 1
         /\ journal'[Len(journal) + 1].call = CallOf(n)
<1> DEFINE line == [event |-> "started", call |-> CallOf(n)]
<1>1. line \in Line /\ journal' = Append(journal, line)
  BY LaunchLines, CallType DEF Start
<1>2. line.event = "started" /\ line.call = CallOf(n)
  OBVIOUS
<1> HIDE DEF line
<1> QED BY <1>1, <1>2, Written

\* The steps that write no line.
Silent ==
  \/ \E n \in Node : Begin(n) \/ Suspend(n) \/ BranchRaises(n) \/ GrantRetry(n)
  \/ ListGrants \/ StartProgram \/ EndSuspended \/ Crash \/ UNCHANGED vars

LEMMA SilentWrites ==
  ASSUME Silent
  PROVE  \A e : SameLines(e)
<1>1. journal' = journal
  BY DEF Silent, Begin, Suspend, BranchRaises, GrantRetry, ListGrants, StartProgram,
         EndSuspended, Crash, vars
<1> QED BY <1>1, Unwritten

\* A record came back for n, served from the index or just written.
Landing(n, line, position) ==
  /\ phase = "running" /\ phase' = phase
  /\ pc[n] \in {"call", "body"}
  /\ Land(n, line, position)
  /\ UNCHANGED <<index, due>>
  /\ line \in ResultLine /\ line.call = CallOf(n)
  /\ journal'[position] = line
  /\ At("result")' = At("result") \cup {position}
  /\ \A i \in At("result") : journal'[i] = journal[i]
  /\ position \in At("result") \/ \A e : \A i \in At(e) : i < position
  /\ \A e : e # "result" => SameLines(e)
  /\ pc[n] = "call" => position \in Served(n) /\ SameLines("result")
  /\ pc[n] = "body" => \E outcome \in Outcome(n) : line = ResultOf(n, outcome)

LEMMA ServeLands ==
  ASSUME TypeOK, NEW n \in Node, Serve(n)
  PROVE  \E line, position : Landing(n, line, position)
<1>1. PICK i \in Served(n) : Land(n, journal[i], i)
  BY DEF Serve
<1>2. \A e : SameLines(e)
  BY Unwritten DEF Serve
<1>3. /\ i \in At("result") /\ journal[i].call = CallOf(n)
      /\ journal[i] \in Line /\ journal[i].event = "result"
  BY <1>1 DEF Served, TypeOK, At
<1>4. journal[i] \in ResultLine
  BY <1>3 DEF Line, OpenLine, SummaryLine, StartedLine, GrantLine, ResultLine
<1>5. Landing(n, journal[i], i)
  BY <1>1, <1>2, <1>3, <1>4 DEF Landing, Serve, SameLines
<1> QED BY <1>5

LEMMA FinishLands ==
  ASSUME TypeOK, NEW n \in Node, Finish(n)
  PROVE  \E outcome \in Outcome(n) : \E position : Landing(n, ResultOf(n, outcome), position)
<1>1. PICK outcome \in Outcome(n) :
        /\ journal' = Append(journal, ResultOf(n, outcome))
        /\ Land(n, ResultOf(n, outcome), Len(journal) + 1)
  BY DEF Finish
<1> DEFINE line == ResultOf(n, outcome)
<1>2. /\ line \in ResultLine /\ line \in Line
      /\ line.event = "result" /\ line.call = CallOf(n)
  BY ResultType
<1>3. /\ \A e : e # "result" => SameLines(e)
      /\ \A e : \A i \in At(e) : journal'[i] = journal[i] /\ i < Len(journal) + 1
      /\ At("result")' = At("result") \cup {Len(journal) + 1}
      /\ journal'[Len(journal) + 1] = line
  BY <1>1, <1>2, Written
<1>4. /\ pc[n] = "body" /\ phase = "running" /\ phase' = phase /\ UNCHANGED <<index, due>>
  BY DEF Finish
<1>5. Landing(n, line, Len(journal) + 1)
  BY <1>1, <1>2, <1>3, <1>4 DEF Landing
<1> QED BY <1>5

\* Every step is one of these.
LEMMA StepKinds ==
  ASSUME TypeOK, [Next]_vars
  PROVE  \/ Silent \/ Launch \/ FoldGrant \/ EndDone
         \/ \E n \in Node : Start(n)
         \/ \E n \in Node : \E line, position : Landing(n, line, position)
BY ServeLands, FinishLands DEF Next, Step, Silent

LEMMA StartedType ==
  ASSUME TypeOK, NEW i \in At("started")
  PROVE  journal[i].call \in Call /\ journal[i].call.key.link \in Link
<1>1. journal[i] \in Line /\ journal[i].event = "started"
  BY DEF TypeOK, At
<1>2. journal[i].call \in Call
  BY <1>1 DEF Line, OpenLine, SummaryLine, StartedLine, GrantLine, ResultLine
<1> QED BY <1>2 DEF Call, Key

-----------------------------------------------------------------------------
(* A body runs again only in a later launch.                               *)

\* Where a node stands once a call with this link was started for it.
Reached(link, place, current) ==
  \/ place = "done"
  \/ place = "call" /\ Before(link, current)
  \/ place \in {"body", "suspended", "lost"} /\ (link = current \/ Before(link, current))

\* A started line no launch line follows is of the launch under way: its node
\* runs that call or is past it.
StartedByNow ==
  phase # "down" =>
    \A j \in At("started"), n \in Node :
      journal[j].call.node = n =>
        \/ \E o \in At("open") : j < o
        \/ Reached(journal[j].call.key.link, pc[n], at[n])

RelaunchInv == OnceInv /\ RedispatchNeedsRelaunch /\ StartedByNow

LEMMA RelaunchInit == Init => RelaunchInv
BY OnceInit DEF Init, RelaunchInv, RedispatchNeedsRelaunch, StartedByNow, At

\* A step that starts and records nothing keeps the property.
LEMMA NothingStarted ==
  ASSUME RelaunchInv, SameLines("started"), SameLines("result"),
         At("open") \subseteq At("open")'
  PROVE  RedispatchNeedsRelaunch'
<1> SUFFICES ASSUME NEW i \in At("started"), NEW j \in At("started"),
                    i < j, journal[i].call = journal[j].call
             PROVE  /\ \E o \in At("open") : i < o /\ o < j
                    /\ \A r \in At("result") :
                         journal[r].call = journal[j].call => j < r
  BY DEF RedispatchNeedsRelaunch, SameLines
<1> QED BY DEF RelaunchInv, RedispatchNeedsRelaunch

LEMMA RelaunchStep == RelaunchInv /\ [Next]_vars => RelaunchInv'
<1> SUFFICES ASSUME RelaunchInv, [Next]_vars
             PROVE  RedispatchNeedsRelaunch' /\ StartedByNow'
  BY OnceStep DEF RelaunchInv
<1>0. OnceInv /\ TypeOK /\ TypeOK'
  BY OnceStep DEF RelaunchInv, OnceInv
<1>1. CASE Silent
  <2>1. RedispatchNeedsRelaunch'
    BY <1>1, SilentWrites, NothingStarted DEF SameLines
  <2>2. SameLines("started") /\ SameLines("open")
    BY <1>1, SilentWrites
  <2>3. CASE phase' # "down"
    <3>1. phase # "down"
      BY <1>1, <2>3
      DEF Silent, Begin, Suspend, BranchRaises, GrantRetry, ListGrants, StartProgram,
          EndSuspended, Crash, vars, launchVars
    <3>2. \A n \in Node : \A link :
            Reached(link, pc[n], at[n]) => Reached(link, pc'[n], at'[n])
      <4>1. CASE \E n \in Node : Suspend(n) \/ BranchRaises(n)
        <5>1. PICK n \in Node : Suspend(n) \/ BranchRaises(n)
          BY <4>1
        <5>2. at' = at
          BY <5>1 DEF Suspend, BranchRaises
        <5>3. CASE Loses(n)
          <6>1. pc[n] \in {"idle", "body"} /\ Lose(n)
            BY <5>3 DEF Loses
          <6>2. \A m \in Node : pc'[m] = "lost" => pc[m] \in {"lost", "idle", "body"}
            BY <1>0, <6>1, LoseFacts
          <6>3. \A m \in Node : pc'[m] # "lost" => pc'[m] = pc[m]
            BY <1>0, <6>1, LoseFacts
          <6> QED BY <5>2, <6>2, <6>3 DEF Reached
        <5>4. CASE ~ Loses(n)
          <6>1. /\ pc[n] = "body"
                /\ \A m \in Node : pc'[m] = IF m = n THEN "suspended" ELSE pc[m]
            BY <1>0, <5>1, <5>4, LosesOrSuspends
          <6> QED BY <5>2, <6>1 DEF Reached
        <5> QED BY <5>3, <5>4
      <4>2. CASE ~ \E n \in Node : Suspend(n) \/ BranchRaises(n)
        BY <1>0, <1>1, <2>3, <4>2
        DEF Silent, Begin, Reaches, GrantRetry, ListGrants, StartProgram,
            EndSuspended, Crash, vars, launchVars, Reached, TypeOK
      <4> QED BY <4>1, <4>2
    <3> SUFFICES ASSUME NEW j \in At("started"), NEW n \in Node,
                        journal[j].call.node = n
                 PROVE  \/ \E o \in At("open") : j < o
                        \/ Reached(journal[j].call.key.link, pc'[n], at'[n])
      BY <2>1, <2>2 DEF StartedByNow, SameLines
    <3> QED BY <3>1, <3>2 DEF StartedByNow, RelaunchInv
  <2> QED BY <2>1, <2>3 DEF StartedByNow
<1>2. CASE Launch
  <2>1. /\ SameLines("started") /\ SameLines("result")
        /\ At("open")' = At("open") \cup {Len(journal) + 1}
        /\ \A j \in At("started") : j < Len(journal) + 1
    BY <1>0, <1>2, OpenWrites
  <2> QED BY <2>1, NothingStarted DEF StartedByNow, SameLines
<1>3. CASE FoldGrant
  <2>1. SameLines("started") /\ SameLines("result") /\ SameLines("open")
    BY <1>0, <1>3, GrantWrites
  <2>2. phase # "down" /\ UNCHANGED <<phase, pc, at>>
    BY <1>3 DEF FoldGrant, launchVars
  <2> QED BY <2>1, <2>2, NothingStarted
       DEF RelaunchInv, StartedByNow, SameLines, Reached
<1>4. CASE EndDone
  <2>1. SameLines("started") /\ SameLines("result") /\ SameLines("open")
    BY <1>0, <1>4, SummaryWrites
  <2> QED BY <1>4, <2>1, NothingStarted DEF StartedByNow, SameLines, EndDone
<1>5. ASSUME NEW n \in Node, Start(n)
      PROVE  RedispatchNeedsRelaunch' /\ StartedByNow'
  <2> DEFINE new == Len(journal) + 1
  <2>1. /\ SameLines("result") /\ SameLines("open")
        /\ At("started")' = At("started") \cup {new}
        /\ \A i \in At("started") : journal'[i] = journal[i] /\ i < new
        /\ \A i \in At("result") \cup At("open") : i < new
        /\ journal'[new].call = CallOf(n)
    BY <1>0, <1>5, StartWrites
  <2>2. /\ phase = "running" /\ pc[n] = "call" /\ Served(n) = {}
        /\ UNCHANGED <<phase, at>> /\ pc' = [pc EXCEPT ![n] = "body"]
    BY <1>5 DEF Start
  <2>3. at[n] \in Link
    BY <1>0 DEF TypeOK
  <2>4. ASSUME NEW i \in At("started"), journal[i].call = CallOf(n)
        PROVE  \E o \in At("open") : i < o
    <3>1. ~ Reached(at[n], pc[n], at[n])
      BY <2>2, <2>3, BeforeFacts DEF Reached
    <3> QED BY <2>2, <2>4, <3>1, CallParts DEF RelaunchInv, StartedByNow
  <2>5. \A r \in At("result") : journal[r].call # CallOf(n)
    BY <1>0, <2>2, CallUnrecorded
  <2>6. RedispatchNeedsRelaunch'
    <3> SUFFICES ASSUME NEW i \in At("started")', NEW j \in At("started")',
                        i < j, journal'[i].call = journal'[j].call
                 PROVE  /\ \E o \in At("open")' : i < o /\ o < j
                        /\ \A r \in At("result")' :
                             journal'[r].call = journal'[j].call => j < r
      BY DEF RedispatchNeedsRelaunch
    <3>1. CASE j \in At("started")
      <4>1. i \in At("started")
        <5>1. j \in Nat /\ new \in Nat /\ j < new
          BY <1>0, <2>1, <3>1, AppendFacts DEF TypeOK, At
        <5> QED BY <2>1, <5>1
      <4> QED BY <2>1, <3>1, <4>1 DEF RelaunchInv, RedispatchNeedsRelaunch, SameLines
    <3>2. CASE j \notin At("started")
      <4>1. j = new
        BY <2>1, <3>2
      <4>2. i \in At("started")
        <5>1. new \in Nat
          BY <1>0, AppendFacts DEF TypeOK
        <5> QED BY <2>1, <4>1, <5>1
      <4> QED BY <2>1, <2>4, <2>5, <4>1, <4>2 DEF SameLines
    <3> QED BY <3>1, <3>2
  <2>7. StartedByNow'
    <3> SUFFICES ASSUME NEW j \in At("started")', NEW m \in Node,
                        journal'[j].call.node = m
                 PROVE  \/ \E o \in At("open")' : j < o
                        \/ Reached(journal'[j].call.key.link, pc'[m], at'[m])
      BY DEF StartedByNow
    <3>1. \A link : Reached(link, pc[m], at[m]) => Reached(link, pc'[m], at'[m])
      BY <1>0, <2>2 DEF Reached, TypeOK
    <3>2. CASE j \in At("started")
      BY <2>1, <2>2, <3>1, <3>2 DEF RelaunchInv, StartedByNow, SameLines
    <3>3. CASE j \notin At("started")
      <4>1. m = n /\ journal'[j].call.key.link = at[n]
        BY <2>1, <3>3, CallParts
      <4> QED BY <1>0, <2>2, <4>1 DEF Reached, TypeOK
    <3> QED BY <3>2, <3>3
  <2> QED BY <2>6, <2>7
<1>6. ASSUME NEW n \in Node, NEW line, NEW position, Landing(n, line, position)
      PROVE  RedispatchNeedsRelaunch' /\ StartedByNow'
  <2>1. /\ SameLines("started") /\ SameLines("open")
        /\ At("result")' = At("result") \cup {position}
        /\ \A i \in At("result") : journal'[i] = journal[i]
        /\ position \in At("result") \/ \A i \in At("started") : i < position
        /\ pc[n] \in {"call", "body"} /\ Land(n, line, position) /\ phase = "running"
    BY <1>6 DEF Landing
  <2>2. RedispatchNeedsRelaunch'
    <3> SUFFICES ASSUME NEW i \in At("started"), NEW j \in At("started"),
                        i < j, journal[i].call = journal[j].call
                 PROVE  /\ \E o \in At("open") : i < o /\ o < j
                        /\ \A r \in At("result")' :
                             journal'[r].call = journal[j].call => j < r
      BY <2>1 DEF RedispatchNeedsRelaunch, SameLines
    <3> QED BY <2>1 DEF RelaunchInv, RedispatchNeedsRelaunch
  <2>3. StartedByNow'
    <3> SUFFICES ASSUME NEW j \in At("started"), NEW m \in Node,
                        journal[j].call.node = m
                 PROVE  \/ \E o \in At("open") : j < o
                        \/ Reached(journal[j].call.key.link, pc'[m], at'[m])
      BY <2>1 DEF StartedByNow, SameLines
    <3> DEFINE link == journal[j].call.key.link
    <3>1. (\E o \in At("open") : j < o) \/ Reached(link, pc[m], at[m])
      BY <2>1 DEF RelaunchInv, StartedByNow
    <3>2. CASE m # n
      BY <1>0, <2>1, <3>1, <3>2, OthersKeepTheirCalls DEF OnceInv, Reached, Begun
    <3>3. CASE m = n
      <4>1. link \in Link /\ at[n] \in Link /\ at'[n] \in Link
        BY <1>0, StartedType DEF TypeOK
      <4>2. \/ pc'[n] = "done"
            \/ pc'[n] = "call" /\ Before(at[n], at'[n])
        BY <1>0, <2>1, LandAdvances
      <4>3. Reached(link, pc[n], at[n]) => link = at[n] \/ Before(link, at[n])
        BY <2>1 DEF Reached
      <4> QED BY <3>1, <3>3, <4>1, <4>2, <4>3, BeforeFacts DEF Reached
    <3> QED BY <3>2, <3>3
  <2> QED BY <2>2, <2>3
<1> QED BY <1>0, <1>1, <1>2, <1>3, <1>4, <1>5, <1>6, StepKinds

\* No body runs twice in one launch, and none runs again once its call has a
\* result: only the crash window repeats work.
THEOREM RepeatsNeedRelaunch == Spec => []RedispatchNeedsRelaunch
<1>1. RelaunchInv => RedispatchNeedsRelaunch
  BY DEF RelaunchInv
<1> QED BY <1>1, RelaunchInit, RelaunchStep, PTL DEF Spec

-----------------------------------------------------------------------------
(* Every attempt and every continuation is earned, and paid for.           *)

\* A node of a code kind hands nothing over, and no chain is continued past
\* its bound.
InChain(n, link) ==
  /\ link.continuation <= MaxContinuations + 1
  /\ n \in CodeNode => link.continuation = 0

Bounded ==
  /\ \A n \in Node : InChain(n, at[n])
  /\ \A i \in At("started") \cup At("result") :
       InChain(journal[i].call.node, journal[i].call.key.link)
  /\ \A i \in At("result") :
       journal[i].status = "needs_continuation" =>
         /\ journal[i].call.node \notin CodeNode
         /\ journal[i].call.key.link.continuation <= MaxContinuations

\* A result line takes its chain from its own link to another.
Leads(line, to, granted) ==
  LET from == line.call.key.link
  IN  \/ /\ to = [from EXCEPT !.attempt = @ + 1]
         /\ line.status = "failed"
         /\ \/ /\ line.call.node \in CodeNode
               /\ line.transient
               /\ to.attempt < MaxAttempts
            \/ line.call \in granted
      \/ /\ to = [attempt |-> 0, continuation |-> from.continuation + 1]
         /\ line.status = "needs_continuation"

\* The call a node is about to make or is making is the first of its chain, or
\* one a record led to.
CallsEarned ==
  \A n \in Node : pc[n] \in {"call", "body"} =>
    \/ at[n] = FirstLink
    \/ \E j \in At("result") :
         /\ SameChain(journal[j].call, CallOf(n))
         /\ Leads(journal[j], at[n], GrantsIn)

IdleAtFirst == \A n \in Node : pc[n] = "idle" => at[n] = FirstLink

\* The index holds grants of the journal only.
GrantsFolded == index.grants \subseteq GrantsIn

EarnedInv ==
  /\ OnceInv
  /\ Bounded
  /\ CallsEarned
  /\ IdleAtFirst
  /\ GrantsFolded
  /\ EveryAttemptIsEarned

LEMMA EarnedInit == Init => EarnedInv
<1> SUFFICES ASSUME Init PROVE EarnedInv
  OBVIOUS
<1>1. \A e : At(e) = {}
  BY DEF Init, At
<1> QED BY <1>1, OnceInit, DispatchAssumption
     DEF Init, EarnedInv, Bounded, InChain, CallsEarned, IdleAtFirst,
         GrantsFolded, EveryAttemptIsEarned, FirstLink

\* Lines once written stay, so what was earned stays earned.
LEMMA LinesStay ==
  ASSUME TypeOK, [Next]_vars
  PROVE  \A e : At(e) \subseteq At(e)' /\ \A i \in At(e) : journal'[i] = journal[i]
<1>1. ASSUME \A e : SameLines(e)
      PROVE  \A e : At(e) \subseteq At(e)' /\ \A i \in At(e) : journal'[i] = journal[i]
  BY <1>1 DEF SameLines
<1>2. CASE Silent
  BY <1>1, <1>2, SilentWrites
<1>3. CASE Launch
  BY <1>3, OpenWrites DEF SameLines
<1>4. CASE FoldGrant
  BY <1>4, GrantWrites DEF SameLines
<1>5. CASE EndDone
  BY <1>5, SummaryWrites DEF SameLines
<1>6. ASSUME NEW n \in Node, Start(n)
      PROVE  \A e : At(e) \subseteq At(e)' /\ \A i \in At(e) : journal'[i] = journal[i]
  BY <1>6, StartWrites DEF SameLines
<1>7. ASSUME NEW n \in Node, NEW line, NEW position, Landing(n, line, position)
      PROVE  \A e : At(e) \subseteq At(e)' /\ \A i \in At(e) : journal'[i] = journal[i]
  BY <1>7 DEF SameLines, Landing
<1> QED BY <1>2, <1>3, <1>4, <1>5, <1>6, <1>7, StepKinds

LEMMA GrantsStay ==
  ASSUME TypeOK, [Next]_vars
  PROVE  GrantsIn \subseteq GrantsIn'
<1>1. \A g \in At("grant") : g \in At("grant")' /\ journal'[g] = journal[g]
  BY LinesStay
<1> QED BY <1>1 DEF GrantsIn

\* A call that was earned and does not change stays earned.
LEMMA StaysEarned ==
  ASSUME EarnedInv, [Next]_vars, NEW n \in Node, pc[n] \in {"call", "body"},
         at'[n] = at[n], CallOf(n)' = CallOf(n)
  PROVE  \/ at'[n] = FirstLink
         \/ \E j \in At("result")' :
              /\ SameChain(journal'[j].call, CallOf(n)')
              /\ Leads(journal'[j], at'[n], GrantsIn')
<1>1. CASE at[n] = FirstLink
  BY <1>1
<1>2. CASE at[n] # FirstLink
  <2>1. PICK j \in At("result") :
          /\ SameChain(journal[j].call, CallOf(n))
          /\ Leads(journal[j], at[n], GrantsIn)
    BY <1>2 DEF EarnedInv, CallsEarned
  <2>2. j \in At("result")' /\ journal'[j] = journal[j]
    BY LinesStay DEF EarnedInv, OnceInv
  <2>3. Leads(journal[j], at[n], GrantsIn')
    BY <2>1, GrantsStay DEF Leads, EarnedInv, OnceInv
  <2> QED BY <2>1, <2>2, <2>3
<1> QED BY <1>1, <1>2

\* The started lines so far stay earned.
LEMMA LinesStayEarned ==
  ASSUME EarnedInv, [Next]_vars, NEW i \in At("started")
  PROVE  \/ journal'[i].call.key.link = FirstLink
         \/ \E j \in At("result")' : Earns(j, i)'
<1>1. journal'[i] = journal[i]
  BY LinesStay DEF EarnedInv, OnceInv
<1>2. CASE journal[i].call.key.link = FirstLink
  BY <1>1, <1>2
<1>3. CASE journal[i].call.key.link # FirstLink
  <2>1. PICK j \in At("result") : Earns(j, i)
    BY <1>3 DEF EarnedInv, EveryAttemptIsEarned
  <2>2. j \in At("result")' /\ journal'[j] = journal[j]
    BY LinesStay DEF EarnedInv, OnceInv
  <2>3. \A g \in At("grant") : g \in At("grant")' /\ journal'[g] = journal[g]
    BY LinesStay DEF EarnedInv, OnceInv
  <2>4. Earns(j, i)'
    BY <1>1, <2>1, <2>2, <2>3 DEF Earns
  <2> QED BY <2>2, <2>4
<1> QED BY <1>2, <1>3

\* A line that starts no chain anew bounds the link its node goes on with.
LEMMA LandedIsBounded ==
  ASSUME EarnedInv, NEW n \in Node, NEW line, NEW position, Landing(n, line, position)
  PROVE  /\ line.status = "needs_continuation" =>
              n \notin CodeNode /\ at[n].continuation <= MaxContinuations
         /\ InChain(n, at[n]) /\ at[n] \in Link
<1>1. line.call.node = n /\ line.call.key.link = at[n]
  BY CallParts DEF Landing
<1>2. CASE pc[n] = "call"
  <2>1. position \in At("result") /\ journal[position] = line
    BY <1>2 DEF Landing, SameLines, Served
  <2> QED BY <1>1, <2>1 DEF EarnedInv, Bounded, OnceInv, TypeOK
<1>3. CASE pc[n] = "body"
  <2>1. PICK outcome \in Outcome(n) : line = ResultOf(n, outcome)
    BY <1>3 DEF Landing
  <2>2. line.status = "needs_continuation" => outcome = "handover"
    BY <2>1 DEF ResultOf
  <2>3. outcome = "handover" => n \notin CodeNode /\ ~ (at[n].continuation > MaxContinuations)
    BY <2>1 DEF Outcome
  <2>4. at[n].continuation \in Nat /\ MaxContinuations \in Nat
    BY DispatchAssumption DEF EarnedInv, OnceInv, TypeOK, Link
  <2> QED BY <2>2, <2>3, <2>4 DEF EarnedInv, Bounded, OnceInv, TypeOK
<1> QED BY <1>2, <1>3 DEF Landing

\* The link a loop goes on with is one the record that landed leads to.
LEMMA LandedLeads ==
  ASSUME EarnedInv, NEW n \in Node, NEW line, NEW position, Landing(n, line, position)
  PROVE  \/ pc'[n] = "done" /\ at'[n] = at[n]
         \/ /\ pc'[n] = "call" /\ at'[n] = NextLink(n, line)
            /\ Leads(line, at'[n], GrantsIn)
            /\ InChain(n, at'[n])
<1>1. line.call.node = n /\ line.call.key.link = at[n]
  BY CallParts DEF Landing
<1>2. CASE ~ (Retries(n, line) \/ Continues(line))
  BY <1>2 DEF Landing, Land, EarnedInv, OnceInv, TypeOK
<1>3. CASE Retries(n, line) \/ Continues(line)
  <2>1. pc'[n] = "call" /\ at'[n] = NextLink(n, line)
    BY <1>3 DEF Landing, Land, EarnedInv, OnceInv, TypeOK
  <2>2. Leads(line, NextLink(n, line), GrantsIn)
    BY <1>1, <1>3
    DEF Leads, NextLink, Retries, AutoRetries, Granted, Continues, EarnedInv, GrantsFolded
  <2>3. InChain(n, NextLink(n, line))
    BY <1>3, LandedIsBounded, DispatchAssumption
    DEF InChain, NextLink, Continues, Link
  <2> QED BY <2>1, <2>2, <2>3
<1> QED BY <1>2, <1>3

LEMMA EarnedStep == EarnedInv /\ [Next]_vars => EarnedInv'
<1> SUFFICES ASSUME EarnedInv, [Next]_vars
             PROVE  /\ Bounded' /\ CallsEarned' /\ IdleAtFirst' /\ GrantsFolded'
                    /\ EveryAttemptIsEarned'
  BY OnceStep DEF EarnedInv
<1>0. OnceInv /\ TypeOK /\ TypeOK' /\ OnceInv'
  BY OnceStep DEF EarnedInv, OnceInv
\* What a step that starts nothing and records nothing leaves alone.
<1>1. ASSUME SameLines("started"), SameLines("result"),
             \A n \in Node : at'[n] \in {at[n], FirstLink}
      PROVE  Bounded' /\ EveryAttemptIsEarned'
  <2>1. Bounded'
    <3>1. \A n \in Node : InChain(n, FirstLink)
      BY DispatchAssumption DEF InChain, FirstLink
    <3> QED BY <1>1, <3>1 DEF EarnedInv, Bounded, SameLines
  <2>2. EveryAttemptIsEarned'
    BY <1>1, LinesStayEarned DEF EveryAttemptIsEarned, SameLines
  <2> QED BY <2>1, <2>2
<1>2. ASSUME Idle PROVE CallsEarned' /\ IdleAtFirst' /\ GrantsFolded'
  BY <1>2 DEF Idle, CallsEarned, IdleAtFirst, GrantsFolded
\* A step that moves no node and dispatches nothing.
<1>3. ASSUME UNCHANGED <<pc, at, records>>, GrantsFolded'
      PROVE  CallsEarned' /\ IdleAtFirst'
  <2>1. \A n \in Node : CallOf(n)' = CallOf(n)
    BY <1>3 DEF CallOf
  <2>2. CallsEarned'
    BY <1>3, <2>1, StaysEarned DEF CallsEarned
  <2> QED BY <1>3, <2>2 DEF IdleAtFirst, EarnedInv
<1>4. UNCHANGED index => GrantsFolded'
  BY <1>0, GrantsStay DEF EarnedInv, GrantsFolded
<1>5. ASSUME NEW n \in Node, Begin(n)
      PROVE  CallsEarned' /\ IdleAtFirst'
  <2>1. /\ UNCHANGED <<at, records>> /\ pc[n] = "idle"
        /\ \A m \in Node : pc'[m] = IF m = n THEN "call" ELSE pc[m]
    BY <1>0, <1>5 DEF Begin, Reaches, TypeOK
  <2>2. \A m \in Node : CallOf(m)' = CallOf(m)
    BY <2>1 DEF CallOf
  <2>3. at'[n] = FirstLink
    BY <2>1 DEF EarnedInv, IdleAtFirst
  <2>4. CallsEarned'
    BY <2>1, <2>2, <2>3, StaysEarned DEF CallsEarned
  <2> QED BY <2>1, <2>4 DEF IdleAtFirst, EarnedInv
<1>6. ASSUME NEW n \in Node, Suspend(n) \/ BranchRaises(n)
      PROVE  CallsEarned' /\ IdleAtFirst'
  <2>1. /\ UNCHANGED at
        /\ \A m \in Node : pc'[m] = "idle" => pc[m] = "idle"
        /\ \A m \in Node : pc'[m] \in {"call", "body"} =>
             pc[m] \in {"call", "body"} /\ CallOf(m)' = CallOf(m)
    <3>1. CASE Loses(n)
      BY <1>0, <3>1, OthersOutlive DEF OnceInv, Begun, Loses
    <3>2. CASE ~ Loses(n)
      <4>1. /\ UNCHANGED <<at, records>>
            /\ \A m \in Node : pc'[m] = IF m = n THEN "suspended" ELSE pc[m]
        BY <1>0, <1>6, <3>2, LosesOrSuspends
      <4> QED BY <4>1 DEF CallOf
    <3> QED BY <3>1, <3>2
  <2>2. CallsEarned'
    BY <2>1, StaysEarned DEF CallsEarned
  <2> QED BY <2>1, <2>2 DEF IdleAtFirst, EarnedInv
<1>7. CASE Silent
  <2>1. Bounded' /\ EveryAttemptIsEarned'
    <3>1. \A n \in Node : at'[n] \in {at[n], FirstLink}
      BY <1>7 DEF Silent, Begin, Suspend, BranchRaises, GrantRetry, ListGrants,
                  StartProgram, EndSuspended, Crash, Idle, vars, launchVars
    <3> QED BY <1>1, <1>7, <3>1, SilentWrites
  <2>2. CASE \E n \in Node : Begin(n) \/ Suspend(n) \/ BranchRaises(n)
    BY <1>4, <1>5, <1>6, <2>1, <2>2 DEF Begin, Suspend, BranchRaises
  <2>3. CASE (\E n \in Node : GrantRetry(n)) \/ ListGrants \/ UNCHANGED vars
    <3>1. UNCHANGED <<index, pc, at, records>>
      BY <2>3 DEF GrantRetry, ListGrants, vars, launchVars
    <3> QED BY <1>3, <1>4, <2>1, <3>1
  <2>4. CASE StartProgram
    <3>1. GrantsFolded' /\ UNCHANGED <<pc, at, records>>
      BY <1>0, <2>4, GrantsStay DEF StartProgram, GrantsFolded, TypeOK
    <3> QED BY <1>3, <2>1, <3>1
  <2>5. CASE EndSuspended \/ Crash
    BY <1>2, <2>1, <2>5 DEF EndSuspended, Crash
  <2> QED BY <1>7, <2>2, <2>3, <2>4, <2>5 DEF Silent
<1>8. CASE Launch
  <2>1. SameLines("started") /\ SameLines("result")
    BY <1>0, <1>8, OpenWrites
  <2>2. GrantsFolded' /\ UNCHANGED <<pc, at, records>>
    BY <1>0, <1>8, GrantsStay DEF Launch, GrantsFolded, ReplayIndex
  <2> QED BY <1>1, <1>3, <2>1, <2>2
<1>9. CASE FoldGrant
  <2>1. SameLines("started") /\ SameLines("result")
    BY <1>0, <1>9, GrantWrites
  <2>2. UNCHANGED <<index, pc, at, records>>
    BY <1>9 DEF FoldGrant, launchVars
  <2> QED BY <1>1, <1>3, <1>4, <2>1, <2>2
<1>10. CASE EndDone
  <2>1. SameLines("started") /\ SameLines("result") /\ Idle
    BY <1>0, <1>10, SummaryWrites DEF EndDone
  <2> QED BY <1>1, <1>2, <2>1 DEF Idle
<1>11. ASSUME NEW n \in Node, Start(n)
       PROVE  /\ Bounded' /\ CallsEarned' /\ IdleAtFirst' /\ GrantsFolded'
              /\ EveryAttemptIsEarned'
  <2> DEFINE new == Len(journal) + 1
  <2>1. /\ SameLines("result") /\ SameLines("grant")
        /\ At("started")' = At("started") \cup {new}
        /\ \A i \in At("started") : journal'[i] = journal[i]
        /\ \A i \in At("result") \cup At("grant") : i < new
        /\ journal'[new].call = CallOf(n)
    BY <1>0, <1>11, StartWrites
  <2>2. /\ UNCHANGED <<at, records, index>> /\ pc[n] = "call"
        /\ \A m \in Node : pc'[m] = IF m = n THEN "body" ELSE pc[m]
    BY <1>0, <1>11 DEF Start, TypeOK
  <2> HIDE DEF new
  <2>3. \A m \in Node : CallOf(m)' = CallOf(m)
    BY <2>2 DEF CallOf
  <2>4. CallsEarned' /\ IdleAtFirst'
    <3>1. CallsEarned'
      BY <2>2, <2>3, StaysEarned DEF CallsEarned
    <3> QED BY <2>2, <3>1 DEF IdleAtFirst, EarnedInv
  <2>5. Bounded'
    BY <2>1, <2>2, CallParts DEF EarnedInv, Bounded, SameLines
  <2>6. ASSUME NEW i, i = new
        PROVE  \/ journal'[i].call.key.link = FirstLink
               \/ \E j \in At("result")' : Earns(j, i)'
    <3>1. CASE at[n] = FirstLink
      BY <2>1, <2>6, <3>1, CallParts
    <3>2. CASE at[n] # FirstLink
      <4>1. PICK j \in At("result") :
              SameChain(journal[j].call, CallOf(n)) /\ Leads(journal[j], at[n], GrantsIn)
        BY <2>2, <3>2 DEF EarnedInv, CallsEarned
      <4>2. /\ journal'[j] = journal[j] /\ j \in At("result")' /\ j < i
            /\ At("grant")' = At("grant")
            /\ \A g \in At("grant") : g < i /\ journal'[g] = journal[g]
            /\ journal'[i].call = CallOf(n)
        BY <2>1, <2>6 DEF SameLines
      <4>3. /\ CallOf(n).key.link = at[n]
            /\ CallOf(n).node = journal[j].call.node
        BY <4>1, CallParts DEF SameChain
      <4>4. journal[j].call \in GrantsIn =>
              \E g \in At("grant")' : g < i /\ journal'[g].call = journal'[j].call
        BY <4>2 DEF GrantsIn
      <4>5. Earns(j, i)'
        BY <4>1, <4>2, <4>3, <4>4 DEF Earns, Leads
      <4> QED BY <4>2, <4>5
    <3> QED BY <3>1, <3>2
  <2>7. EveryAttemptIsEarned'
    <3> SUFFICES ASSUME NEW i \in At("started")'
                 PROVE  \/ journal'[i].call.key.link = FirstLink
                        \/ \E j \in At("result")' : Earns(j, i)'
      BY DEF EveryAttemptIsEarned
    <3> QED BY <2>1, <2>6, LinesStayEarned
  <2> QED BY <1>4, <2>2, <2>4, <2>5, <2>7
<1>12. ASSUME NEW n \in Node, NEW line, NEW position, Landing(n, line, position)
       PROVE  /\ Bounded' /\ CallsEarned' /\ IdleAtFirst' /\ GrantsFolded'
              /\ EveryAttemptIsEarned'
  <2>1. /\ SameLines("started") /\ UNCHANGED index
        /\ At("result")' = At("result") \cup {position}
        /\ \A i \in At("result") : journal'[i] = journal[i]
        /\ journal'[position] = line /\ line.call = CallOf(n)
        /\ pc[n] \in {"call", "body"} /\ Land(n, line, position)
    BY <1>12 DEF Landing
  <2>2. \/ pc'[n] = "done" /\ at'[n] = at[n]
        \/ /\ pc'[n] = "call" /\ at'[n] = NextLink(n, line)
           /\ Leads(line, at'[n], GrantsIn)
           /\ InChain(n, at'[n])
    BY <1>12, LandedLeads
  <2>3. \A m \in Node \ {n} :
          pc'[m] = pc[m] /\ at'[m] = at[m] /\ (Begun(m) => CallOf(m)' = CallOf(m))
    BY <1>0, <2>1, OthersKeepTheirCalls DEF OnceInv
  <2>4. Bounded'
    <3>1. \A m \in Node : InChain(m, at'[m])
      BY <2>2, <2>3 DEF EarnedInv, Bounded
    <3>2. /\ InChain(line.call.node, line.call.key.link)
          /\ line.status = "needs_continuation" =>
               /\ line.call.node \notin CodeNode
               /\ line.call.key.link.continuation <= MaxContinuations
      BY <1>12, <2>1, CallParts, LandedIsBounded
    <3> QED BY <2>1, <3>1, <3>2 DEF EarnedInv, Bounded, SameLines
  <2>5. SameChain(line.call, CallOf(n)')
    <3>1. n \notin Deps[n] /\ \A d \in Node \ {n} : records'[d] = records[d]
      BY <1>0, <2>1 DEF OnceInv, DepsDone, Begun, Out, Land, TypeOK
    <3> QED BY <2>1, <3>1 DEF SameChain, CallOf
  <2>6. CallsEarned'
    <3> SUFFICES ASSUME NEW m \in Node, pc'[m] \in {"call", "body"}
                 PROVE  \/ at'[m] = FirstLink
                        \/ \E j \in At("result")' :
                             /\ SameChain(journal'[j].call, CallOf(m)')
                             /\ Leads(journal'[j], at'[m], GrantsIn')
      BY DEF CallsEarned
    <3>1. CASE m # n
      BY <2>3, <3>1, StaysEarned DEF Begun
    <3>2. CASE m = n
      <4>1. Leads(line, at'[n], GrantsIn')
        BY <1>0, <2>2, <3>2, GrantsStay DEF Leads
      <4> QED BY <2>1, <2>5, <3>2, <4>1
    <3> QED BY <3>1, <3>2
  <2>7. IdleAtFirst'
    BY <2>2, <2>3 DEF IdleAtFirst, EarnedInv
  <2>8. EveryAttemptIsEarned'
    BY <2>1, LinesStayEarned DEF EveryAttemptIsEarned, SameLines
  <2> QED BY <1>4, <2>1, <2>4, <2>6, <2>7, <2>8
<1> QED BY <1>0, <1>7, <1>8, <1>9, <1>10, <1>11, <1>12, StepKinds

LEMMA EarnedInvariant == Spec => []EarnedInv
BY EarnedInit, EarnedStep, PTL DEF Spec

-----------------------------------------------------------------------------
(* The budget of a chain.                                                  *)

LEMMA GrantCallType ==
  ASSUME TypeOK
  PROVE  /\ IsFiniteSet(GrantsIn)
         /\ \A call \in GrantsIn : call \in Call
<1>1. IsFiniteSet(At("grant"))
  <2>1. Len(journal) \in Nat /\ At("grant") \subseteq 1 .. Len(journal)
    BY DEF TypeOK, At
  <2>2. IsFiniteSet(1 .. Len(journal))
    BY <2>1, FS_Interval
  <2> QED BY <2>1, <2>2, FS_Subset
<1>2. [g \in At("grant") |-> journal[g].call] \in Surjection(At("grant"), GrantsIn)
  BY DEF Surjection, GrantsIn
<1> QED BY <1>1, <1>2, FS_Surjection, GrantType

\* In one chain a link names one call.
LEMMA LinkNamesCall ==
  ASSUME NEW call \in Call, NEW other \in Call, SameChain(call, other),
         call.key.link.attempt = other.key.link.attempt,
         call.key.link.continuation = other.key.link.continuation
  PROVE  call = other
<1>1. /\ call.key.link \in Link /\ other.key.link \in Link
      /\ call.key \in Key /\ other.key \in Key
  BY DEF Call, Key
<1>2. call.key.link = other.key.link
  BY <1>1 DEF Link
<1>3. call.key = other.key
  BY <1>1, <1>2 DEF Key, SameChain
<1> QED BY <1>3 DEF Call, SameChain

\* The links every chain may have without a grant.
Allowed(call) ==
  IF call.node \in CodeNode
  THEN call.key.link.attempt < MaxAttempts
  ELSE call.key.link.attempt = 0

\* A call past the allowance follows one that was granted.
LEMMA PastAllowance ==
  ASSUME EarnedInv, NEW i \in At("started"), ~ Allowed(journal[i].call)
  PROVE  \E call \in GrantsIn :
           /\ SameChain(call, journal[i].call)
           /\ journal[i].call.key.link = [call.key.link EXCEPT !.attempt = @ + 1]
<1> DEFINE link == journal[i].call.key.link
<1>1. link \in Link /\ journal[i].call.node = journal[i].call.node
  BY StartedType DEF EarnedInv, OnceInv
<1>2. link.attempt # 0
  BY <1>1, DispatchAssumption DEF Allowed, Link
<1>3. link # FirstLink
  BY <1>2 DEF FirstLink
<1>4. PICK j \in At("result") : Earns(j, i)
  BY <1>3 DEF EarnedInv, EveryAttemptIsEarned
<1>5. /\ link = [journal[j].call.key.link EXCEPT !.attempt = @ + 1]
      /\ \/ journal[i].call.node \in CodeNode /\ link.attempt < MaxAttempts
         \/ \E g \in At("grant") : journal[g].call = journal[j].call
  BY <1>2, <1>4 DEF Earns
<1>6. \E g \in At("grant") : journal[g].call = journal[j].call
  BY <1>5 DEF Allowed
<1>7. journal[j].call \in GrantsIn
  BY <1>6 DEF GrantsIn
<1> QED BY <1>4, <1>5, <1>7 DEF Earns

\* The allowed calls of one chain are at most the allowance.
LEMMA AllowanceBound ==
  ASSUME NEW chain \in SUBSET Call, NEW node,
         \A call, other \in chain : SameChain(call, other),
         \A call \in chain : /\ InChain(call.node, call.key.link)
                             /\ Allowed(call)
                             /\ call.node = node
  PROVE  /\ IsFiniteSet(chain)
         /\ Cardinality(chain) <= IF node \in CodeNode THEN MaxAttempts ELSE MaxContinuations + 2
<1> DEFINE allowance == IF node \in CodeNode THEN MaxAttempts ELSE MaxContinuations + 2
           rank == [call \in chain |-> IF node \in CodeNode THEN call.key.link.attempt
                                              ELSE call.key.link.continuation]
<1>1. allowance \in Nat \ {0}
  BY DispatchAssumption
<1>2. \A call \in chain :
        /\ call.key.link.attempt \in Nat /\ call.key.link.continuation \in Nat
        /\ IF node \in CodeNode
           THEN call.key.link.attempt < MaxAttempts /\ call.key.link.continuation = 0
           ELSE /\ call.key.link.attempt = 0
                /\ call.key.link.continuation <= MaxContinuations + 1
  BY DEF Allowed, InChain, Call, Key, Link
<1>3. rank \in [chain -> 0 .. allowance - 1]
  <2> SUFFICES ASSUME NEW call \in chain PROVE rank[call] \in 0 .. allowance - 1
    OBVIOUS
  <2>1. CASE node \in CodeNode
    BY <1>2, <2>1, DispatchAssumption
  <2>2. CASE node \notin CodeNode
    BY <1>2, <2>2, DispatchAssumption
  <2> QED BY <2>1, <2>2
<1>4. \A call, other \in chain : rank[call] = rank[other] => call = other
  <2> SUFFICES ASSUME NEW call \in chain, NEW other \in chain, rank[call] = rank[other]
               PROVE  call = other
    OBVIOUS
  <2>1. /\ call.key.link.attempt = other.key.link.attempt
        /\ call.key.link.continuation = other.key.link.continuation
    BY <1>2
  <2> QED BY <2>1, LinkNamesCall
<1>5. rank \in Injection(chain, 0 .. allowance - 1)
  BY <1>3, <1>4 DEF Injection, IsInjective
<1> HIDE DEF rank, allowance
<1>6. /\ IsFiniteSet(0 .. allowance - 1)
      /\ Cardinality(0 .. allowance - 1) = allowance
  <2>1. 0 \in Int /\ allowance - 1 \in Int /\ ~ (0 > allowance - 1)
    BY <1>1
  <2>2. /\ IsFiniteSet(0 .. allowance - 1)
        /\ Cardinality(0 .. allowance - 1) = allowance - 1 - 0 + 1
    BY <2>1, FS_Interval
  <2> QED BY <1>1, <2>2
<1>7. IsFiniteSet(chain) /\ Cardinality(chain) <= allowance
  BY <1>5, <1>6, FS_Injection
<1> QED BY <1>7 DEF allowance

\* One grant of a chain pays for one call of it.
LEMMA PaidBound ==
  ASSUME NEW chain \in SUBSET Call, NEW granted \in SUBSET Call, IsFiniteSet(granted),
         \A call, other \in chain : SameChain(call, other),
         \A call \in chain : \E grant \in granted :
           call.key.link = [grant.key.link EXCEPT !.attempt = @ + 1]
  PROVE  IsFiniteSet(chain) /\ Cardinality(chain) <= Cardinality(granted)
<1> DEFINE Pays(call, grant) == call.key.link = [grant.key.link EXCEPT !.attempt = @ + 1]
           payer == [call \in chain |-> CHOOSE grant \in granted : Pays(call, grant)]
<1>1. \A call \in chain : payer[call] \in granted /\ Pays(call, payer[call])
  OBVIOUS
<1>2. \A call, other \in chain : payer[call] = payer[other] => call = other
  <2> SUFFICES ASSUME NEW call \in chain, NEW other \in chain, payer[call] = payer[other]
               PROVE  call = other
    OBVIOUS
  <2>1. call.key.link = other.key.link
    BY <1>1
  <2> QED BY <2>1, LinkNamesCall
<1>3. payer \in Injection(chain, granted)
  BY <1>1, <1>2 DEF Injection, IsInjective
<1> QED BY <1>3, FS_Injection

LEMMA WithinBudget == EarnedInv => RepeatsAreBudgeted
<1> SUFFICES ASSUME EarnedInv, NEW i \in At("started")
             PROVE  LET chain == {journal[j].call : j \in
                                    {j \in At("started") :
                                       SameChain(journal[j].call, journal[i].call)}}
                        granted == {call \in GrantsIn : SameChain(call, journal[i].call)}
                        allowance == IF journal[i].call.node \in CodeNode
                                     THEN MaxAttempts ELSE MaxContinuations + 2
                    IN  Cardinality(chain) <= allowance + Cardinality(granted)
  BY DEF RepeatsAreBudgeted
<1> DEFINE chain == {journal[j].call : j \in
                       {j \in At("started") :
                          SameChain(journal[j].call, journal[i].call)}}
           granted == {call \in GrantsIn : SameChain(call, journal[i].call)}
           node == journal[i].call.node
           allowance == IF node \in CodeNode THEN MaxAttempts ELSE MaxContinuations + 2
           free == {call \in chain : Allowed(call)}
           paid == chain \ free
<1>1. \A call \in chain :
        /\ call \in Call /\ SameChain(call, journal[i].call)
        /\ InChain(call.node, call.key.link)
        /\ call.node = node
  BY StartedType DEF EarnedInv, OnceInv, Bounded, SameChain
<1>2. /\ granted \in SUBSET Call /\ IsFiniteSet(granted)
      /\ Cardinality(granted) \in Nat
  <2>1. IsFiniteSet(GrantsIn) /\ granted \in SUBSET GrantsIn /\ granted \in SUBSET Call
    BY GrantCallType DEF EarnedInv, OnceInv
  <2> QED BY <2>1, FS_Subset, FS_CardinalityType
<1>3. \A call, other \in chain : SameChain(call, other)
  BY <1>1 DEF SameChain
<1>4. \A call \in paid : \E grant \in granted :
        call.key.link = [grant.key.link EXCEPT !.attempt = @ + 1]
  <2> SUFFICES ASSUME NEW call \in paid
               PROVE  \E grant \in granted :
                        call.key.link = [grant.key.link EXCEPT !.attempt = @ + 1]
    OBVIOUS
  <2>1. PICK j \in At("started") :
          call = journal[j].call /\ SameChain(journal[j].call, journal[i].call)
    OBVIOUS
  <2>2. ~ Allowed(journal[j].call)
    BY <2>1
  <2>3. PICK grant \in GrantsIn :
          /\ SameChain(grant, journal[j].call)
          /\ journal[j].call.key.link = [grant.key.link EXCEPT !.attempt = @ + 1]
    BY <2>2, PastAllowance
  <2>4. SameChain(grant, journal[i].call)
    BY <2>1, <2>3 DEF SameChain
  <2> QED BY <2>1, <2>3, <2>4
<1>5. chain = free \cup paid /\ free \in SUBSET chain /\ paid \in SUBSET chain
  OBVIOUS
<1>6. \A call \in free : Allowed(call)
  OBVIOUS
<1>7. allowance \in Nat
  BY DispatchAssumption
<1> HIDE DEF chain, granted, node, free, paid
<1>8. IsFiniteSet(free) /\ Cardinality(free) <= allowance
  <2>1. /\ free \in SUBSET Call
        /\ \A call, other \in free : SameChain(call, other)
        /\ \A call \in free : /\ InChain(call.node, call.key.link)
                             /\ Allowed(call)
                             /\ call.node = node
    BY <1>1, <1>3, <1>5, <1>6
  <2> QED BY <2>1, AllowanceBound
<1>9. IsFiniteSet(paid) /\ Cardinality(paid) <= Cardinality(granted)
  <2>1. paid \in SUBSET Call /\ \A call, other \in paid : SameChain(call, other)
    BY <1>1, <1>3, <1>5
  <2> QED BY <1>2, <1>4, <2>1, PaidBound
<1>10. /\ Cardinality(free) \in Nat /\ Cardinality(paid) \in Nat
       /\ Cardinality(free \cap paid) \in Nat
       /\ Cardinality(chain) = Cardinality(free) + Cardinality(paid)
                                - Cardinality(free \cap paid)
  <2>1. IsFiniteSet(free \cap paid)
    BY <1>8, FS_Intersection
  <2> QED BY <1>5, <1>8, <1>9, <2>1, FS_Union, FS_CardinalityType
<1>11. Cardinality(chain) <= allowance + Cardinality(granted)
  BY <1>2, <1>7, <1>8, <1>9, <1>10
<1> QED BY <1>11 DEF chain, granted, node

\* Nothing is attempted again or continued that no record earned, and past the
\* policy's allowance each grant buys its chain one attempt.
THEOREM RepeatsEarned == Spec => []RepeatsAreEarned
<1>1. EarnedInv => RepeatsAreEarned
  BY WithinBudget DEF EarnedInv, RepeatsAreEarned
<1> QED BY <1>1, EarnedInvariant, PTL

-----------------------------------------------------------------------------
(* A finished run is replayed to its end without running anything.         *)

\* What the loop of a node does with a record, given the journal's grants.
Again(line, granted) ==
  /\ line.status = "failed"
  /\ \/ line.call \in granted
     \/ /\ line.call.node \in CodeNode
        /\ line.transient
        /\ line.call.key.link.attempt + 1 < MaxAttempts

GoesOn(line, granted) ==
  Again(line, granted) \/ line.status = "needs_continuation"

Onward(line, granted) ==
  IF Again(line, granted)
  THEN [line.call.key.link EXCEPT !.attempt = @ + 1]
  ELSE [attempt |-> 0, continuation |-> line.call.key.link.continuation + 1]

\* The call of n at a link, were the nodes to hold these records.
CallAt(n, link, held) ==
  [node |-> n,
   key  |-> [work   |-> Work[n],
             link   |-> link,
             prefix |-> [d \in Node |-> IF d \in Deps[n] THEN held[d] ELSE 0]]]

LEMMA CallOfIsCallAt ==
  /\ \A n \in Node : CallOf(n) = CallAt(n, at[n], records)
  /\ \A n \in Node : \A link, held, other :
       (\A d \in Deps[n] : held[d] = other[d]) =>
         CallAt(n, link, held) = CallAt(n, link, other)
BY DEF CallOf, CallAt

\* The program runs with every grant of the journal.
GrantsInHand == phase = "running" => index.grants = GrantsIn

\* The links a node's loop came along are answered by the journal alone, and a
\* settled node stopped where the journal stops it.
Trails ==
  phase = "running" =>
    \A n \in Node : Begun(n) =>
      /\ \E trail :
           /\ FirstLink \in trail /\ at[n] \in trail
           /\ \A link \in trail \ {at[n]} : \E i \in At("result") :
                /\ journal[i].call = CallAt(n, link, records)
                /\ GoesOn(journal[i], GrantsIn)
                /\ Onward(journal[i], GrantsIn) \in trail
      /\ pc[n] = "done" =>
           /\ records[n] \in At("result")
           /\ journal[records[n]].call = CallAt(n, at[n], records)
           /\ ~ GoesOn(journal[records[n]], GrantsIn)

TrailInv == EarnedInv /\ GrantsInHand /\ Trails

LEMMA TrailInit == Init => TrailInv
BY EarnedInit DEF Init, TrailInv, GrantsInHand, Trails, Begun

\* Where a landed record sends its node.
LEMMA LandDecides ==
  ASSUME TrailInv, NEW n \in Node, NEW line, NEW position, Landing(n, line, position)
  PROVE  /\ records'[n] = position
         /\ \A d \in Node \ {n} : records'[d] = records[d]
         /\ IF GoesOn(line, GrantsIn)
            THEN pc'[n] = "call" /\ at'[n] = Onward(line, GrantsIn)
            ELSE pc'[n] = "done" /\ at'[n] = at[n]
<1>1. line.call.node = n /\ line.call.key.link = at[n]
  BY CallParts DEF Landing
<1>2. TypeOK /\ index.grants = GrantsIn /\ Land(n, line, position)
  BY DEF Landing, TrailInv, EarnedInv, OnceInv, GrantsInHand
<1>3. /\ Retries(n, line) <=> Again(line, GrantsIn)
      /\ (Retries(n, line) \/ Continues(line)) <=> GoesOn(line, GrantsIn)
      /\ NextLink(n, line) = Onward(line, GrantsIn)
  BY <1>1, <1>2
  DEF Retries, AutoRetries, Granted, Again, Continues, GoesOn, NextLink, Onward
<1> QED BY <1>2, <1>3 DEF Land, TypeOK

LEMMA GrantsSame ==
  ASSUME SameLines("grant")
  PROVE  GrantsIn' = GrantsIn
BY DEF SameLines, GrantsIn

\* A node that does not land, and whose dependencies do not, keeps its trail.
LEMMA TrailKept ==
  ASSUME TrailInv, phase = "running", NEW n \in Node, Begun(n),
         at'[n] = at[n], pc'[n] = "done" => pc[n] = "done" /\ records'[n] = records[n],
         \A d \in Deps[n] : records'[d] = records[d],
         SameLines("grant"),
         \A i \in At("result") : i \in At("result")' /\ journal'[i] = journal[i]
  PROVE  /\ \E trail :
              /\ FirstLink \in trail /\ at'[n] \in trail
              /\ \A link \in trail \ {at'[n]} : \E i \in At("result")' :
                   /\ journal'[i].call = CallAt(n, link, records')
                   /\ GoesOn(journal'[i], GrantsIn')
                   /\ Onward(journal'[i], GrantsIn') \in trail
         /\ pc'[n] = "done" =>
              /\ records'[n] \in At("result")'
              /\ journal'[records'[n]].call = CallAt(n, at'[n], records')
              /\ ~ GoesOn(journal'[records'[n]], GrantsIn')
<1>1. \A link : CallAt(n, link, records') = CallAt(n, link, records)
  BY CallOfIsCallAt
<1>2. GrantsIn' = GrantsIn
  BY GrantsSame
<1>3. PICK trail :
        /\ FirstLink \in trail /\ at[n] \in trail
        /\ \A link \in trail \ {at[n]} : \E i \in At("result") :
             /\ journal[i].call = CallAt(n, link, records)
             /\ GoesOn(journal[i], GrantsIn)
             /\ Onward(journal[i], GrantsIn) \in trail
  BY DEF TrailInv, Trails
<1>4. \A link \in trail \ {at'[n]} : \E i \in At("result")' :
        /\ journal'[i].call = CallAt(n, link, records')
        /\ GoesOn(journal'[i], GrantsIn')
        /\ Onward(journal'[i], GrantsIn') \in trail
  BY <1>1, <1>2, <1>3
<1>5. pc'[n] = "done" =>
        /\ records'[n] \in At("result")'
        /\ journal'[records'[n]].call = CallAt(n, at'[n], records')
        /\ ~ GoesOn(journal'[records'[n]], GrantsIn')
  BY <1>1, <1>2 DEF TrailInv, Trails
<1> QED BY <1>3, <1>4, <1>5

LEMMA TrailStep == TrailInv /\ [Next]_vars => TrailInv'
<1> SUFFICES ASSUME TrailInv, [Next]_vars PROVE GrantsInHand' /\ Trails'
  BY EarnedStep DEF TrailInv
<1>0. OnceInv /\ TypeOK /\ TypeOK' /\ DepsDone /\ LostHoldNothing
  BY OnceStep DEF TrailInv, EarnedInv, OnceInv
<1> DEFINE Kept(n) ==
      /\ \E trail :
           /\ FirstLink \in trail /\ at'[n] \in trail
           /\ \A link \in trail \ {at'[n]} : \E i \in At("result")' :
                /\ journal'[i].call = CallAt(n, link, records')
                /\ GoesOn(journal'[i], GrantsIn')
                /\ Onward(journal'[i], GrantsIn') \in trail
      /\ pc'[n] = "done" =>
           /\ records'[n] \in At("result")'
           /\ journal'[records'[n]].call = CallAt(n, at'[n], records')
           /\ ~ GoesOn(journal'[records'[n]], GrantsIn')
<1>1. ASSUME \A n \in Node : Begun(n)' => Kept(n) PROVE Trails'
  BY <1>1 DEF Trails
<1> HIDE DEF Kept
\* A step of the program that lands nothing.
<1>2. ASSUME phase = "running", UNCHANGED <<phase, index, at, records>>,
             SameLines("grant"), SameLines("result"),
             \A n \in Node : pc'[n] = "done" => pc[n] = "done",
             \A n \in Node : pc[n] # "lost" \/ pc'[n] = "lost",
             \A n \in Node : pc[n] = "idle" => pc'[n] = "idle" \/ at[n] = FirstLink
      PROVE  GrantsInHand' /\ Trails'
  <2>1. GrantsInHand'
    BY <1>2, GrantsSame DEF GrantsInHand, TrailInv
  <2>2. ASSUME NEW n \in Node, Begun(n)' PROVE Kept(n)
    <3>0. /\ at'[n] = at[n] /\ records' = records /\ phase = "running"
          /\ pc'[n] = "done" => pc[n] = "done"
          /\ pc[n] = "idle" => pc'[n] = "idle" \/ at[n] = FirstLink
          /\ \A i \in At("result") : i \in At("result")' /\ journal'[i] = journal[i]
      BY <1>2 DEF SameLines
    <3>1. CASE Begun(n)
      BY <1>2, <3>0, <3>1, TrailKept DEF Kept
    <3>2. CASE ~ Begun(n)
      <4>0. pc[n] = "idle"
        BY <1>2, <2>2, <3>2 DEF Begun
      <4>1. at'[n] = FirstLink /\ pc'[n] # "done"
        BY <2>2, <3>0, <4>0 DEF Begun
      <4>2. \E trail :
              /\ FirstLink \in trail /\ at'[n] \in trail
              /\ \A link \in trail \ {at'[n]} : \E i \in At("result")' :
                   /\ journal'[i].call = CallAt(n, link, records')
                   /\ GoesOn(journal'[i], GrantsIn')
                   /\ Onward(journal'[i], GrantsIn') \in trail
        <5> WITNESS {FirstLink}
        <5> QED BY <4>1
      <4> QED BY <4>1, <4>2 DEF Kept
    <3> QED BY <3>1, <3>2
  <2> QED BY <1>1, <2>1, <2>2
<1>3. ASSUME phase' # "running" PROVE GrantsInHand' /\ Trails'
  BY <1>3 DEF GrantsInHand, Trails
<1>4. CASE Silent
  <2>1. SameLines("grant") /\ SameLines("result")
    BY <1>4, SilentWrites
  <2>2. CASE \E n \in Node : Begin(n)
    <3>1. /\ phase = "running" /\ UNCHANGED <<phase, index, at, records>>
          /\ \A n \in Node : pc'[n] = "done" => pc[n] = "done"
          /\ \A n \in Node : pc[n] # "lost" \/ pc'[n] = "lost"
      BY <1>0, <2>2 DEF Begin, Reaches, TypeOK
    <3> QED BY <1>2, <2>1, <3>1 DEF TrailInv, EarnedInv, IdleAtFirst
  <2>6. ASSUME NEW n \in Node, Suspend(n) \/ BranchRaises(n)
        PROVE  GrantsInHand' /\ Trails'
    <3>1. CASE Loses(n)
      <4>1. phase = "running" /\ UNCHANGED <<phase, index, at, journal>>
        BY <3>1 DEF Loses
      <4>2. ASSUME NEW m \in Node, Begun(m)' PROVE Kept(m)
        <5>1. /\ Begun(m) /\ pc'[m] = pc[m] /\ records'[m] = records[m]
              /\ CallOf(m)' = CallOf(m)
          BY <1>0, <3>1, <4>2, OthersOutlive DEF Begun
        <5>2. \A d \in Deps[m] : records'[d] = records[d]
          <6>1. ASSUME NEW d \in Deps[m] PROVE records'[d] = records[d]
            <7>1. d \in Node /\ pc[d] \in Out
              BY <1>0, <5>1, <6>1, DispatchAssumption DEF DepsDone
            <7>2. pc'[d] = pc[d] /\ (pc'[d] = "lost" => records'[d] = 0)
              BY <1>0, <3>1, <7>1, OthersOutlive
            <7>3. pc[d] = "lost" => records[d] = 0
              BY <1>0, <7>1 DEF LostHoldNothing
            <7>4. pc'[d] # "lost" => records'[d] = records[d]
              BY <1>0, <3>1, <7>1, LoseFacts DEF Loses
            <7> QED BY <7>2, <7>3, <7>4
          <6> QED BY <6>1
        <5>3. \A i \in At("result") : i \in At("result")' /\ journal'[i] = journal[i]
          BY <2>1 DEF SameLines
        <5> QED BY <2>1, <4>1, <5>1, <5>2, <5>3, TrailKept DEF Kept
      <4>3. GrantsInHand'
        BY <2>1, <4>1, GrantsSame DEF GrantsInHand, TrailInv
      <4> QED BY <1>1, <4>2, <4>3
    <3>2. CASE ~ Loses(n)
      <4>1. /\ phase = "running" /\ pc[n] = "body"
            /\ UNCHANGED <<phase, index, at, records>>
            /\ \A m \in Node : pc'[m] = IF m = n THEN "suspended" ELSE pc[m]
        BY <1>0, <2>6, <3>2, LosesOrSuspends
      <4> QED BY <1>2, <2>1, <4>1
    <3> QED BY <3>1, <3>2
  <2>3. CASE (\E n \in Node : GrantRetry(n)) \/ UNCHANGED vars
    <3>1. UNCHANGED <<phase, index, at, records, pc>>
      BY <2>3 DEF GrantRetry, vars, launchVars
    <3> QED BY <1>2, <1>3, <2>1, <3>1
  <2>4. CASE StartProgram
    <3>1. /\ phase = "folding" /\ index'.grants = GrantsIn /\ UNCHANGED pc
      BY <1>0, <2>4 DEF StartProgram, TypeOK
    <3>2. \A n \in Node : pc'[n] = "idle"
      BY <1>0, <3>1 DEF OnceInv, IdleUntilRunning
    <3> QED BY <1>1, <2>1, <3>1, <3>2, GrantsSame DEF GrantsInHand, Begun
  <2>5. CASE ListGrants \/ EndSuspended \/ Crash
    BY <1>3, <2>5 DEF ListGrants, EndSuspended, Crash
  <2> QED BY <1>4, <2>2, <2>3, <2>4, <2>5, <2>6 DEF Silent
<1>5. CASE Launch \/ FoldGrant \/ EndDone
  BY <1>3, <1>5 DEF Launch, FoldGrant, EndDone
<1>6. ASSUME NEW n \in Node, Start(n) PROVE GrantsInHand' /\ Trails'
  <2>1. /\ phase = "running" /\ UNCHANGED <<phase, index, at, records>>
        /\ pc[n] = "call"
        /\ \A m \in Node : pc'[m] = IF m = n THEN "body" ELSE pc[m]
    BY <1>0, <1>6 DEF Start, TypeOK
  <2>2. SameLines("grant") /\ SameLines("result")
    BY <1>0, <1>6, StartWrites
  <2> QED BY <1>2, <2>1, <2>2
<1>7. ASSUME NEW n \in Node, NEW line, NEW position, Landing(n, line, position)
      PROVE  GrantsInHand' /\ Trails'
  <2>1. /\ phase = "running" /\ UNCHANGED <<phase, index>>
        /\ pc[n] \in {"call", "body"} /\ Land(n, line, position)
        /\ SameLines("grant")
        /\ At("result")' = At("result") \cup {position}
        /\ \A i \in At("result") : journal'[i] = journal[i]
        /\ journal'[position] = line /\ line.call = CallOf(n)
    BY <1>7 DEF Landing
  <2>2. GrantsInHand'
    BY <2>1, GrantsSame DEF GrantsInHand, TrailInv
  <2>3. /\ records'[n] = position
        /\ \A d \in Node \ {n} : records'[d] = records[d]
        /\ IF GoesOn(line, GrantsIn)
           THEN pc'[n] = "call" /\ at'[n] = Onward(line, GrantsIn)
           ELSE pc'[n] = "done" /\ at'[n] = at[n]
    BY <1>7, LandDecides
  <2>4. ASSUME NEW m \in Node, Begun(m)
        PROVE  /\ \A d \in Deps[m] : records'[d] = records[d]
               /\ \A link : CallAt(m, link, records') = CallAt(m, link, records)
    <3>1. n \notin Deps[m] /\ Deps[m] \subseteq Node
      BY <1>0, <2>1, <2>4, DispatchAssumption DEF DepsDone, Out
    <3>2. \A d \in Deps[m] : records'[d] = records[d]
      BY <2>3, <3>1
    <3> QED BY <3>2, CallOfIsCallAt
  <2>5. ASSUME NEW m \in Node \ {n}, Begun(m)' PROVE Kept(m)
    <3>1. /\ pc'[m] = pc[m] /\ at'[m] = at[m] /\ records'[m] = records[m]
          /\ Begun(m)
      BY <1>0, <2>1, <2>3, <2>5, OthersKeepTheirCalls DEF Begun
    <3> QED BY <2>1, <2>4, <2>5, <3>1, TrailKept DEF Kept
  <2>6. Kept(n)
    <3>1. /\ line.call = CallAt(n, at[n], records)
          /\ \A link : CallAt(n, link, records') = CallAt(n, link, records)
      BY <2>1, <2>4, CallOfIsCallAt DEF Begun
    <3>2. GrantsIn' = GrantsIn
      BY <2>1, GrantsSame
    <3>3. PICK trail :
            /\ FirstLink \in trail /\ at[n] \in trail
            /\ \A link \in trail \ {at[n]} : \E i \in At("result") :
                 /\ journal[i].call = CallAt(n, link, records)
                 /\ GoesOn(journal[i], GrantsIn)
                 /\ Onward(journal[i], GrantsIn) \in trail
      BY <2>1 DEF TrailInv, Trails, Begun
    <3>4. ASSUME NEW link \in (trail \cup {at'[n]}) \ {at'[n]}
          PROVE  \E i \in At("result")' :
                   /\ journal'[i].call = CallAt(n, link, records')
                   /\ GoesOn(journal'[i], GrantsIn')
                   /\ Onward(journal'[i], GrantsIn') \in trail \cup {at'[n]}
      <4>1. CASE link = at[n]
        <5>1. GoesOn(line, GrantsIn) /\ at'[n] = Onward(line, GrantsIn)
          BY <2>3, <3>4, <4>1
        <5> QED BY <2>1, <3>1, <3>2, <4>1, <5>1
      <4>2. CASE link # at[n]
        <5>1. PICK i \in At("result") :
                /\ journal[i].call = CallAt(n, link, records)
                /\ GoesOn(journal[i], GrantsIn)
                /\ Onward(journal[i], GrantsIn) \in trail
          BY <3>3, <3>4, <4>2
        <5> QED BY <2>1, <3>1, <3>2, <5>1
      <4> QED BY <4>1, <4>2
    <3>5. \E tail :
            /\ FirstLink \in tail /\ at'[n] \in tail
            /\ \A link \in tail \ {at'[n]} : \E i \in At("result")' :
                 /\ journal'[i].call = CallAt(n, link, records')
                 /\ GoesOn(journal'[i], GrantsIn')
                 /\ Onward(journal'[i], GrantsIn') \in tail
      <4> WITNESS trail \cup {at'[n]}
      <4> QED BY <3>3, <3>4
    <3>6. pc'[n] = "done" =>
            /\ records'[n] \in At("result")'
            /\ journal'[records'[n]].call = CallAt(n, at'[n], records')
            /\ ~ GoesOn(journal'[records'[n]], GrantsIn')
      BY <2>1, <2>3, <3>1, <3>2
    <3> QED BY <3>5, <3>6 DEF Kept
  <2> QED BY <1>1, <2>2, <2>5, <2>6
<1> QED BY <1>0, <1>4, <1>5, <1>6, <1>7, StepKinds

\* Some finish that lost nothing has no grant after it.
FinishedUngranted ==
  \E s \in At("summary") : journal[s].lost = {} /\ \A g \in At("grant") : ~ (s < g)

\* The journal answers every link the trails hold, and a node that leaves its
\* trail holds the record the finish left it with.
AnsweredBy(held, trails) ==
  /\ \A n \in Node : FirstLink \in trails[n]
  /\ \A n \in Node : \A link \in trails[n] : \E i \in At("result") :
       /\ journal[i].call = CallAt(n, link, held)
       /\ IF GoesOn(journal[i], GrantsIn)
          THEN Onward(journal[i], GrantsIn) \in trails[n]
          ELSE held[n] = i

\* A launch over such a journal walks these trails and nothing else, as long as
\* no branch of it is lost.
Walks(held, trails) ==
  /\ phase # "down" => At("result") \subseteq index.results
  /\ \A n \in Node : pc[n] \in {"idle", "call", "done"}
  /\ \A n \in Node : pc[n] = "call" => at[n] \in trails[n]
  /\ \A n \in Node : pc[n] = "done" => records[n] = held[n]

Replayed ==
  FinishedUngranted =>
    \E held, trails : AnsweredBy(held, trails) /\ (Lost = {} => Walks(held, trails))

FinishedInv == TrailInv /\ Replayed /\ FinishedRunDispatchesNothing

LEMMA FinishedInit == Init => FinishedInv
BY TrailInit
   DEF Init, FinishedInv, Replayed, FinishedUngranted,
       FinishedRunDispatchesNothing, At

\* What the journal answers it goes on answering.
LEMMA AnswersStay ==
  ASSUME NEW held, NEW trails, AnsweredBy(held, trails), SameLines("grant"),
         At("result") \subseteq At("result")',
         \A i \in At("result") : journal'[i] = journal[i]
  PROVE  AnsweredBy(held, trails)'
<1>1. GrantsIn' = GrantsIn
  BY GrantsSame
<1> QED BY <1>1 DEF AnsweredBy

\* In such a launch every call has its record in the index.
LEMMA EveryCallServed ==
  ASSUME FinishedInv, NEW held, NEW trails, AnsweredBy(held, trails),
         Walks(held, trails), NEW n \in Node, pc[n] = "call"
  PROVE  \E i \in At("result") :
           /\ i \in Served(n)
           /\ journal[i].call = CallOf(n)
           /\ IF GoesOn(journal[i], GrantsIn)
              THEN Onward(journal[i], GrantsIn) \in trails[n]
              ELSE held[n] = i
<1>1. PICK i \in At("result") :
        /\ journal[i].call = CallAt(n, at[n], held)
        /\ IF GoesOn(journal[i], GrantsIn)
           THEN Onward(journal[i], GrantsIn) \in trails[n]
           ELSE held[n] = i
  BY DEF AnsweredBy, Walks
<1>2. \A d \in Deps[n] : records[d] = held[d]
  <2>1. Deps[n] \subseteq Node /\ \A d \in Deps[n] : pc[d] \in Out
    BY DispatchAssumption DEF FinishedInv, TrailInv, EarnedInv, OnceInv, DepsDone, Begun
  <2> QED BY <2>1 DEF Walks, Out
<1>3. CallOf(n) = CallAt(n, at[n], held)
  BY <1>2, CallOfIsCallAt
<1>4. phase # "down"
  BY DEF FinishedInv, TrailInv, EarnedInv, OnceInv, IdleUntilRunning
<1> QED BY <1>1, <1>3, <1>4 DEF Served, Walks

\* What a finish leaves in the journal answers the whole program.
LEMMA FinishAnswers ==
  ASSUME TrailInv, EndDone, Lost = {}
  PROVE  \E trails : AnsweredBy(records, trails)
<1> DEFINE Fits(n, trail) ==
      /\ FirstLink \in trail /\ at[n] \in trail
      /\ \A link \in trail \ {at[n]} : \E i \in At("result") :
           /\ journal[i].call = CallAt(n, link, records)
           /\ GoesOn(journal[i], GrantsIn)
           /\ Onward(journal[i], GrantsIn) \in trail
<1> DEFINE trails == [n \in Node |-> CHOOSE trail : Fits(n, trail)]
<1>0. phase = "running" /\ \A n \in Node : pc[n] = "done" /\ Begun(n)
  BY DEF EndDone, Lost, Out, Begun
<1>1. \A n \in Node : \E trail : Fits(n, trail)
  BY <1>0 DEF TrailInv, Trails
<1>2. \A n \in Node : Fits(n, trails[n])
  BY <1>1
<1> HIDE DEF trails
<1>3. ASSUME NEW n \in Node, NEW link \in trails[n]
      PROVE  \E i \in At("result") :
               /\ journal[i].call = CallAt(n, link, records)
               /\ IF GoesOn(journal[i], GrantsIn)
                  THEN Onward(journal[i], GrantsIn) \in trails[n]
                  ELSE records[n] = i
  <2>1. CASE link = at[n]
    <3>1. /\ records[n] \in At("result")
          /\ journal[records[n]].call = CallAt(n, at[n], records)
          /\ ~ GoesOn(journal[records[n]], GrantsIn)
      BY <1>0 DEF TrailInv, Trails
    <3> QED BY <2>1, <3>1
  <2>2. CASE link # at[n]
    BY <1>2, <1>3, <2>2
  <2> QED BY <2>1, <2>2
<1>4. AnsweredBy(records, trails)
  BY <1>2, <1>3 DEF AnsweredBy
<1> QED BY <1>4

\* A launch that ends is at the start of every trail.
LEMMA IdleWalks ==
  ASSUME NEW held, NEW trails, Idle, phase' = "down"
  PROVE  Walks(held, trails)'
BY DEF Idle, Walks

\* A step that keeps the results, the grants and the finishes, and walks on.
LEMMA WalksOn ==
  ASSUME FinishedInv, SameLines("summary"), SameLines("grant"),
         At("result") \subseteq At("result")',
         \A i \in At("result") : journal'[i] = journal[i],
         \A held, trails :
           AnsweredBy(held, trails) /\ (Lost = {} => Walks(held, trails)) /\ Lost' = {}
             => Walks(held, trails)'
  PROVE  Replayed'
<1> SUFFICES ASSUME FinishedUngranted'
             PROVE  \E held, trails :
                      /\ AnsweredBy(held, trails)'
                      /\ Lost' = {} => Walks(held, trails)'
  BY DEF Replayed
<1>1. FinishedUngranted
  BY DEF FinishedUngranted, SameLines
<1>2. PICK held, trails :
        AnsweredBy(held, trails) /\ (Lost = {} => Walks(held, trails))
  BY <1>1 DEF FinishedInv, Replayed
<1>3. AnsweredBy(held, trails)'
  BY <1>2, AnswersStay
<1>4. Lost' = {} => Walks(held, trails)'
  BY <1>2
<1> QED BY <1>3, <1>4

\* A step that puts no node in a body, undoes no loss and adds no finish starts
\* nothing a finish forbids.
LEMMA NothingStartedAnew ==
  ASSUME FinishedInv, SameLines("summary"),
         \A g \in At("grant") : g \in At("grant")',
         \A n \in Node : pc'[n] = "body" => pc[n] = "body" /\ (Lost # {} => Lost' # {})
  PROVE  FinishedRunDispatchesNothing'
<1> SUFFICES ASSUME NEW s \in At("summary")', NEW n \in Node,
                    journal'[s].lost = {}, pc'[n] = "body"
             PROVE  (\E g \in At("grant")' : s < g) \/ Lost' # {}
  BY DEF FinishedRunDispatchesNothing
<1>1. s \in At("summary") /\ journal[s].lost = {} /\ pc[n] = "body"
  BY DEF SameLines
<1> QED BY <1>1 DEF FinishedInv, FinishedRunDispatchesNothing

LEMMA FinishedStep == FinishedInv /\ [Next]_vars => FinishedInv'
<1> SUFFICES ASSUME FinishedInv, [Next]_vars
             PROVE  Replayed' /\ FinishedRunDispatchesNothing'
  BY TrailStep DEF FinishedInv
<1>0. /\ OnceInv /\ TypeOK /\ TypeOK' /\ TrailInv /\ IdleUntilRunning
      /\ OneResultPerCall
  BY OnceStep DEF FinishedInv, TrailInv, EarnedInv, OnceInv
\* A launch that ends has no body and stands at the start of every trail.
<1>1. ASSUME Idle, phase' = "down" PROVE FinishedRunDispatchesNothing'
  BY <1>1 DEF Idle, FinishedRunDispatchesNothing
<1>2. CASE Silent
  <2>1. \A e : SameLines(e)
    BY <1>2, SilentWrites
  <2>2. At("result")' = At("result")
    BY <2>1 DEF SameLines
  <2>3. ASSUME NEW n \in Node, Begin(n)
        PROVE  Replayed' /\ FinishedRunDispatchesNothing'
    <3>1. /\ UNCHANGED <<phase, index, at, records>> /\ pc[n] = "idle"
          /\ \A m \in Node : pc'[m] = IF m = n THEN "call" ELSE pc[m]
      BY <1>0, <2>3 DEF Begin, Reaches, TypeOK
    <3>2. Lost' = Lost
      BY <3>1 DEF Lost
    <3>3. at[n] = FirstLink
      BY <1>0, <3>1 DEF TrailInv, EarnedInv, IdleAtFirst
    <3>4. ASSUME NEW held, NEW trails, AnsweredBy(held, trails), Walks(held, trails)
          PROVE  Walks(held, trails)'
      <4>1. at[n] \in trails[n]
        BY <3>3, <3>4 DEF AnsweredBy
      <4> QED BY <2>2, <3>1, <3>4, <4>1 DEF Walks
    <3>5. Replayed'
      BY <2>1, <3>2, <3>4, WalksOn DEF SameLines
    <3>6. FinishedRunDispatchesNothing'
      BY <2>1, <3>1, <3>2, NothingStartedAnew DEF SameLines
    <3> QED BY <3>5, <3>6
  <2>4. ASSUME NEW n \in Node, Suspend(n) \/ BranchRaises(n)
        PROVE  Replayed' /\ FinishedRunDispatchesNothing'
    <3>1. CASE Loses(n)
      <4>1. pc'[n] = "lost"
        BY <1>0, <3>1, LoseFacts DEF Loses
      <4>2. Lost' # {}
        BY <4>1 DEF Lost
      <4>3. \A m \in Node : pc'[m] = "body" => pc[m] = "body"
        BY <1>0, <3>1, OthersOutlive DEF OnceInv
      <4>4. Replayed'
        BY <2>1, <4>2, WalksOn DEF SameLines
      <4>5. FinishedRunDispatchesNothing'
        BY <2>1, <4>2, <4>3, NothingStartedAnew DEF SameLines
      <4> QED BY <4>4, <4>5
    <3>2. CASE ~ Loses(n)
      <4>1. /\ pc[n] = "body"
            /\ \A m \in Node : pc'[m] = IF m = n THEN "suspended" ELSE pc[m]
        BY <1>0, <2>4, <3>2, LosesOrSuspends
      <4>2. Lost' = Lost
        BY <4>1 DEF Lost
      <4>3. \A held, trails : Walks(held, trails) => FALSE
        BY <4>1 DEF Walks
      <4>4. Replayed'
        BY <2>1, <4>2, <4>3, WalksOn DEF SameLines
      <4>5. FinishedRunDispatchesNothing'
        BY <2>1, <4>1, <4>2, NothingStartedAnew DEF SameLines
      <4> QED BY <4>4, <4>5
    <3> QED BY <3>1, <3>2
  <2>5. ASSUME UNCHANGED <<at, records, pc>>, index'.results = index.results,
               phase # "down" \/ UNCHANGED phase
        PROVE  Replayed' /\ FinishedRunDispatchesNothing'
    <3>1. Lost' = Lost
      BY <2>5 DEF Lost
    <3>2. \A held, trails : Walks(held, trails) => Walks(held, trails)'
      BY <2>2, <2>5 DEF Walks
    <3>3. Replayed'
      BY <2>1, <3>1, <3>2, WalksOn DEF SameLines
    <3>4. FinishedRunDispatchesNothing'
      BY <2>1, <2>5, <3>1, NothingStartedAnew DEF SameLines
    <3> QED BY <3>3, <3>4
  <2>6. CASE (\E n \in Node : GrantRetry(n)) \/ UNCHANGED vars
    <3>1. UNCHANGED <<phase, index, at, records, pc>>
      BY <2>6 DEF GrantRetry, vars, launchVars
    <3> QED BY <2>5, <3>1
  <2>7. CASE ListGrants \/ StartProgram
    <3>1. /\ phase # "down" /\ index'.results = index.results
          /\ UNCHANGED <<at, records, pc>>
      BY <1>0, <2>7 DEF ListGrants, StartProgram, TypeOK
    <3> QED BY <2>5, <3>1
  <2>8. CASE EndSuspended \/ Crash
    <3>1. Idle /\ phase' = "down"
      BY <2>8 DEF EndSuspended, Crash
    <3>2. Replayed'
      BY <2>1, <3>1, IdleWalks, WalksOn DEF SameLines
    <3> QED BY <1>1, <3>1, <3>2
  <2> QED BY <1>2, <2>3, <2>4, <2>6, <2>7, <2>8 DEF Silent
<1>3. CASE Launch
  <2>1. \A e : e # "open" => SameLines(e)
    BY <1>0, <1>3, OpenWrites
  <2>2. index'.results = At("result")
    <3>1. At("result") \subseteq Nat
      BY <1>0, AppendFacts DEF TypeOK, At
    <3>2. LatestResults = At("result")
      BY <1>0, <3>1 DEF LatestResults, OneResultPerCall
    <3> QED BY <1>3, <3>2 DEF Launch, ReplayIndex
  <2>3. \A n \in Node : pc'[n] = "idle"
    BY <1>0, <1>3 DEF Launch, IdleUntilRunning
  <2>4. \A held, trails : Walks(held, trails)'
    BY <2>1, <2>2, <2>3 DEF Walks, SameLines
  <2>5. Replayed'
    BY <2>1, <2>4, WalksOn DEF SameLines
  <2>6. FinishedRunDispatchesNothing'
    BY <2>3 DEF FinishedRunDispatchesNothing
  <2> QED BY <2>5, <2>6
<1>4. CASE FoldGrant
  <2>1. /\ SameLines("summary")
        /\ At("grant")' = At("grant") \cup {Len(journal) + 1}
        /\ \A s \in At("summary") : s < Len(journal) + 1
    BY <1>0, <1>4, GrantWrites
  <2>2. FinishedRunDispatchesNothing'
    BY <1>0, <1>4, <2>1
    DEF FinishedRunDispatchesNothing, SameLines
  <2>3. ~ FinishedUngranted'
    BY <2>1 DEF FinishedUngranted, SameLines
  <2> QED BY <2>2, <2>3 DEF Replayed
<1>5. CASE EndDone
  <2> DEFINE new == Len(journal) + 1
  <2>1. /\ \A e : e # "summary" => SameLines(e)
        /\ At("summary")' = At("summary") \cup {new}
        /\ \A s \in At("summary") : journal'[s] = journal[s]
        /\ journal'[new].lost = Lost
    BY <1>0, <1>5, SummaryWrites
  <2>2. Idle /\ phase' = "down"
    BY <1>5 DEF EndDone
  <2>3. SameLines("result") /\ SameLines("grant")
    BY <2>1
  <2> HIDE DEF new
  <2>4. FinishedUngranted' => \E held, trails : AnsweredBy(held, trails)
    <3>1. CASE Lost = {}
      BY <1>0, <1>5, <3>1, FinishAnswers
    <3>2. CASE Lost # {}
      <4>1. FinishedUngranted' => FinishedUngranted
        BY <2>1, <2>3, <3>2 DEF FinishedUngranted, SameLines
      <4> QED BY <4>1 DEF FinishedInv, Replayed
    <3> QED BY <3>1, <3>2
  <2>5. ASSUME NEW held, NEW trails, AnsweredBy(held, trails)
        PROVE  AnsweredBy(held, trails)' /\ Walks(held, trails)'
    <3>1. AnsweredBy(held, trails)'
      BY <2>3, <2>5, AnswersStay DEF SameLines
    <3>2. Walks(held, trails)'
      BY <2>2, IdleWalks
    <3> QED BY <3>1, <3>2
  <2>6. Replayed'
    BY <2>4, <2>5 DEF Replayed
  <2> QED BY <1>1, <2>2, <2>6
\* A body starts only where no finish is without a later grant, or something of
\* this launch is lost.
<1>6. ASSUME NEW n \in Node, Start(n)
      PROVE  Replayed' /\ FinishedRunDispatchesNothing'
  <2>1. /\ SameLines("summary") /\ SameLines("grant") /\ SameLines("result")
    BY <1>0, <1>6, StartWrites
  <2>2. /\ pc[n] = "call" /\ Served(n) = {}
        /\ \A m \in Node : pc'[m] = IF m = n THEN "body" ELSE pc[m]
    BY <1>0, <1>6 DEF Start, TypeOK
  <2>3. Lost' = Lost
    BY <2>2 DEF Lost
  <2>4. \A held, trails : AnsweredBy(held, trails) /\ Walks(held, trails) => FALSE
    BY <2>2, EveryCallServed
  <2>5. Replayed'
    BY <2>1, <2>3, <2>4, WalksOn DEF SameLines
  <2>6. FinishedUngranted => Lost # {}
    BY <2>4 DEF FinishedInv, Replayed
  <2>7. FinishedRunDispatchesNothing'
    BY <2>1, <2>3, <2>6 DEF FinishedUngranted, FinishedRunDispatchesNothing, SameLines
  <2> QED BY <2>5, <2>7
<1>7. ASSUME NEW n \in Node, NEW line, NEW position, Landing(n, line, position)
      PROVE  Replayed' /\ FinishedRunDispatchesNothing'
  <2>1. /\ \A e : e # "result" => SameLines(e)
        /\ phase = "running" /\ UNCHANGED <<phase, index>>
        /\ pc[n] \in {"call", "body"} /\ Land(n, line, position)
        /\ At("result")' = At("result") \cup {position}
        /\ \A i \in At("result") : journal'[i] = journal[i]
        /\ journal'[position] = line
        /\ pc[n] = "call" => position \in Served(n) /\ SameLines("result")
    BY <1>7 DEF Landing
  <2>2. \A m \in Node \ {n} : pc'[m] = pc[m] /\ at'[m] = at[m]
    BY <1>0, <2>1 DEF Land, TypeOK
  <2>3. pc'[n] \in {"call", "done"}
    BY <1>0, <2>1, LandAdvances
  <2>4. Lost' = Lost
    BY <2>1, <2>2, <2>3 DEF Lost
  <2>5. FinishedRunDispatchesNothing'
    BY <2>1, <2>2, <2>3, <2>4, NothingStartedAnew DEF SameLines
  <2>6. ASSUME NEW held, NEW trails, AnsweredBy(held, trails), Walks(held, trails)
        PROVE  Walks(held, trails)'
    <3>1. pc[n] = "call"
      BY <2>1, <2>6 DEF Walks
    <3>2. SameLines("result") /\ position \in At("result") /\ position \in Served(n)
      BY <1>0, <2>1, <3>1 DEF Served, TypeOK
    <3>3. journal[position] = line /\ line.call = CallOf(n)
      BY <2>1, <3>2 DEF SameLines, Served
    <3>4. PICK i \in At("result") :
            /\ journal[i].call = CallOf(n)
            /\ IF GoesOn(journal[i], GrantsIn)
               THEN Onward(journal[i], GrantsIn) \in trails[n]
               ELSE held[n] = i
      BY <2>6, <3>1, EveryCallServed
    <3>5. i = position
      BY <1>0, <3>2, <3>3, <3>4 DEF OneResultPerCall
    <3>6. /\ records'[n] = position
          /\ \A d \in Node \ {n} : records'[d] = records[d]
          /\ IF GoesOn(line, GrantsIn)
             THEN pc'[n] = "call" /\ at'[n] = Onward(line, GrantsIn)
             ELSE pc'[n] = "done" /\ at'[n] = at[n]
      BY <1>0, <1>7, LandDecides
    <3>7. /\ pc'[n] = "call" => at'[n] \in trails[n]
          /\ pc'[n] = "done" => records'[n] = held[n]
      BY <3>3, <3>4, <3>5, <3>6
    <3>8. At("result")' \subseteq index'.results
      BY <2>1, <2>6, <3>2 DEF Walks, SameLines
    <3> QED BY <2>2, <2>3, <2>6, <3>6, <3>7, <3>8 DEF Walks
  <2>7. Replayed'
    BY <2>1, <2>4, <2>6, WalksOn DEF SameLines
  <2> QED BY <2>5, <2>7
<1> QED BY <1>0, <1>2, <1>3, <1>4, <1>5, <1>6, <1>7, StepKinds

\* Once a run finished with nothing lost, no later launch has a body under way
\* before a grant is folded or the launch itself loses a branch.
THEOREM FinishedStaysFinished == Spec => []FinishedRunDispatchesNothing
<1>1. FinishedInv => FinishedRunDispatchesNothing
  BY DEF FinishedInv
<1> QED BY <1>1, FinishedInit, FinishedStep, PTL DEF Spec

=============================================================================
