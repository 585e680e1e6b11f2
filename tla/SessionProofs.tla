---------------------------- MODULE SessionProofs ----------------------------
(***************************************************************************)
(* Theorems about Session for any bounds, usages and lengths: what a       *)
(* stopped session becomes, and how its grace is counted.                  *)
(***************************************************************************)
EXTENDS Session, WellFoundedInduction, TLAPS

LEMMA TotalOfNone == Total(<<>>) = 0
<1> DEFINE upTo[n \in 0..Len(<<>>)] == IF n = 0 THEN 0 ELSE upTo[n - 1] + <<>>[n]
<1>1. 0..Len(<<>>) = {0}
  OBVIOUS
<1>2. upTo = [n \in 0..Len(<<>>) |-> IF n = 0 THEN 0 ELSE upTo[n - 1] + <<>>[n]]
  <2> DEFINE zero == [n \in 0..Len(<<>>) |-> 0]
  <2>1. zero = [n \in 0..Len(<<>>) |-> IF n = 0 THEN 0 ELSE zero[n - 1] + <<>>[n]]
    BY <1>1
  <2> HIDE DEF zero
  <2> QED BY <2>1 DEF upTo
<1>3. upTo[0] = 0
  BY <1>1, <1>2
<1> QED BY <1>1, <1>3 DEF Total

-----------------------------------------------------------------------------
(* Types.                                                                  *)

LEMMA TypeInit == Init => TypeOK
<1> SUFFICES ASSUME Init PROVE TypeOK
  OBVIOUS
<1>1. /\ stopping \in BOOLEAN /\ deadlineHit \in BOOLEAN /\ interrupted \in BOOLEAN
      /\ told \in BOOLEAN /\ ~ deadlineHit /\ ~ interrupted
  BY Zenon DEF Init, FreshSession
<1>2. hand \in HandRecord /\ hand = NotArmed /\ ~ hand.armed
  BY DEF Init, FreshSession, NotArmed, HandRecord, GraceTurns
<1>3. note \in File /\ kept \in File
  BY BoundsAssumption DEF Init, Absent, File
<1>4. meter \in Seq(Usages) /\ spend \in Seq(Nat)
  BY DEF Init, FreshSession
<1>5. launch \in 1..MaxLaunches /\ phase = "ready" /\ phase \in Phases /\ outcome = None
  BY BoundsAssumption DEF Init, FreshSession, Phases
<1>6. limits \in [cap: Caps, ceiling: Ceilings, deadline: Deadlines, keyed: BOOLEAN]
  BY DEF Init
<1>7. events \in Nat /\ elapsed \in Nat /\ terminal \in Terminals \cup {None}
  BY DEF Init, FreshSession
<1> QED BY <1>1, <1>2, <1>3, <1>4, <1>5, <1>6, <1>7 DEF TypeOK

LEMMA ChargedNat == ASSUME NEW u \in Usages PROVE Charged(u) \in Nat /\ InputTotal(u) \in Nat
BY BoundsAssumption DEF Charged, InputTotal

LEMMA FailureType ==
  ASSUME NEW error \in Errors, NEW transient \in BOOLEAN
  PROVE  /\ Failure(error, transient) \in Outcomes
         /\ Failure(error, transient).status = "failed"
BY DEF Failure, Outcomes, Statuses

LEMMA VerdictType == Verdict \in Outcomes
<1>1. DeadlineOutcome \in Outcomes /\ HandoverOutcome \in Outcomes
  BY DEF DeadlineOutcome, HandoverOutcome, Outcomes, Statuses, Errors
<1>2. \A message : Classified(message) \in Outcomes
  BY FailureType DEF Classified, Errors
<1>3. \A message : FromTerminal(message) \in Outcomes
  BY <1>2 DEF FromTerminal, Outcomes, Statuses, Errors
<1>4. Failure("executor_error", TRUE) \in Outcomes
  BY FailureType DEF Errors
<1> QED BY <1>1, <1>3, <1>4 DEF Verdict

\* The meter's last entry is the current request's.
LEMMA StreamsFacts ==
  ASSUME TypeOK, NEW usage \in Usages, Streams(usage)
  PROVE  /\ meter' \in Seq(Usages) /\ events' \in Nat
         /\ Len(meter') \in Nat /\ Len(meter') > 0 /\ meter'[Len(meter')] = usage
         /\ Len(meter') = Len(meter) \/ Len(meter') = Len(meter) + 1
         /\ \A i \in 1..Len(meter') : i # Len(meter') => i \in 1..Len(meter) /\ meter'[i] = meter[i]
<1>1. CASE meter' = Append(meter, usage) /\ events' = 1
  BY <1>1 DEF TypeOK
<1>2. CASE /\ Len(meter) > 0 /\ events' = events + 1
           /\ meter' = [meter EXCEPT ![Len(meter)] = usage]
  BY <1>2 DEF TypeOK
<1> QED BY <1>1, <1>2 DEF Streams

LEMMA UpdateFacts ==
  ASSUME NEW s \in Seq(Nat), NEW k, NEW v \in Nat
  PROVE  [s EXCEPT ![k] = v] \in Seq(Nat)
<1>1. /\ Len(s) \in Nat /\ DOMAIN s = 1..Len(s)
      /\ \A i \in 1..Len(s) : s[i] \in Nat
  OBVIOUS
<1> DEFINE n == Len(s)
           f == [i \in 1..n |-> IF i = k THEN v ELSE s[i]]
<1>2. [s EXCEPT ![k] = v] = f
  BY <1>1
<1>3. f \in [1..n -> Nat]
  BY <1>1
<1> HIDE DEF n, f
<1>4. n \in Nat => [1..n -> Nat] \subseteq Seq(Nat)
  BY DEF n
<1> QED BY <1>1, <1>2, <1>3, <1>4 DEF n

LEMMA FoldType ==
  ASSUME TypeOK, NEW usage \in Usages, spend' = FoldSpend(usage)
  PROVE  spend' \in Seq(Nat)
<1>1. Charged(usage) \in Nat
  BY ChargedNat
<1>2. Append(spend, Charged(usage)) \in Seq(Nat)
  BY <1>1 DEF TypeOK
<1>3. [spend EXCEPT ![Len(meter')] = Charged(usage)] \in Seq(Nat)
  BY <1>1, UpdateFacts DEF TypeOK
<1> QED BY <1>2, <1>3 DEF FoldSpend

LEMMA ObserveType ==
  ASSUME TypeOK, NEW usage \in Usages, NEW total, Len(meter') \in Nat,
         hand' = Observe(usage, total)
  PROVE  /\ hand' \in HandRecord
         /\ ~ hand'.armed => hand' = NotArmed
<1>1. CASE hand' = hand
  BY <1>1 DEF TypeOK
<1>2. CASE /\ hand.armed
           /\ hand' = [hand EXCEPT !.grace = IF @ < GraceTurns THEN @ + 1 ELSE @,
                                   !.counted = Len(meter')]
  <2>1. hand \in HandRecord /\ hand.grace \in 0..3
    BY DEF TypeOK, HandRecord, GraceTurns
  <2>2. (IF hand.grace < 3 THEN hand.grace + 1 ELSE hand.grace) \in 0..3
    BY <2>1
  <2>3. hand'.armed /\ hand' \in HandRecord
    BY <1>2, <2>1, <2>2 DEF HandRecord, GraceTurns
  <2> QED BY <2>3
<1>3. CASE /\ ~ hand.armed
           /\ hand' = [armed |-> TRUE, grace |-> 0, bySubtree |-> stopping,
                       byBudget |-> OverCap(total) /\ ~stopping,
                       request |-> Len(meter'), counted |-> 0]
  <2>1. (OverCap(total) /\ ~stopping) \in BOOLEAN /\ stopping \in BOOLEAN
    BY Zenon DEF TypeOK
  <2>2. 0 \in 0..GraceTurns
    BY DEF GraceTurns
  <2> QED BY <1>3, <2>1, <2>2 DEF HandRecord
<1> QED BY <1>1, <1>2, <1>3 DEF Observe, Armed

Over == {"ready", "streaming", "drained"}

LEMMA TypeStep == TypeOK /\ [Next]_vars => TypeOK'
<1> SUFFICES ASSUME TypeOK, [Next]_vars PROVE TypeOK'
  OBVIOUS
<1> USE NoneAssumption DEF stream, files
<1>1. ASSUME NEW request \in {"well_formed", "malformed", "unbuildable"}, Open(request) PROVE TypeOK'
  <2>1. CASE phase' = "streaming" /\ outcome' = None
    BY <1>1, <2>1 DEF Open, TypeOK, Phases
  <2>2. ASSUME NEW error \in Errors, NEW transient \in BOOLEAN,
               phase' = "probed", outcome' = Failure(error, transient)
        PROVE  TypeOK'
    <3>1. outcome' \in Outcomes
      BY <2>2, FailureType
    <3> QED BY <1>1, <2>2, <3>1 DEF Open, TypeOK, Phases
  <2>3. \/ phase' = "streaming" /\ outcome' = None
        \/ phase' = "probed" /\ outcome' = Failure("kernel_error", FALSE)
        \/ phase' = "probed" /\ outcome' = Failure("executor_error", TRUE)
    BY <1>1 DEF Open
  <2>4. "kernel_error" \in Errors /\ "executor_error" \in Errors
    BY DEF Errors
  <2> QED BY <2>1, <2>2, <2>3, <2>4
<1>2. ASSUME NEW usage \in Usages, Message(usage) PROVE TypeOK'
  <2>1. meter' \in Seq(Usages) /\ events' \in Nat /\ Len(meter') \in Nat /\ spend' \in Seq(Nat)
    BY <1>2, StreamsFacts, FoldType DEF Message
  <2>2. deadlineHit' \in BOOLEAN /\ interrupted' \in BOOLEAN /\ (deadlineHit' => interrupted')
    BY <1>2, Zenon DEF Message, TypeOK
  <2>3. hand' \in HandRecord /\ (~ hand'.armed => hand' = NotArmed)
    <3>1. CASE hand' = hand
      BY <3>1 DEF TypeOK
    <3>2. CASE hand' = Observe(usage, Total(spend'))
      BY <2>1, <3>2, ObserveType
    <3> QED BY <1>2, <3>1, <3>2 DEF Message
  <2> QED BY <1>2, <2>1, <2>2, <2>3 DEF Message, TypeOK
<1>3. CASE ToolCall
  <2>1. told' \in BOOLEAN
    BY <1>3, Zenon DEF ToolCall
  <2> QED BY <1>3, <2>1 DEF ToolCall, TypeOK
<1>4. ASSUME NEW readable \in BOOLEAN, NodeWrites(readable) PROVE TypeOK'
  <2>1. note' \in File
    <3>1. FALSE \in BOOLEAN /\ launch \in 0..MaxLaunches
      BY BoundsAssumption DEF TypeOK
    <3> QED BY <1>4, <3>1 DEF NodeWrites, File
  <2> QED BY <1>4, <2>1 DEF NodeWrites, TypeOK
<1>5. CASE Tick
  BY <1>5, BoundsAssumption DEF Tick, TypeOK
<1>6. CASE StopSubtree
  <2>1. stopping' \in BOOLEAN
    BY <1>6, Zenon DEF StopSubtree
  <2> QED BY <1>6, <2>1 DEF StopSubtree, TypeOK
<1>7. ASSUME NEW message \in Terminals \cup {None}, EndStream(message) PROVE TypeOK'
  BY <1>7 DEF EndStream, TypeOK, Phases
<1>8. CASE Conclude
  <2>1. outcome' \in Outcomes
    BY <1>8, VerdictType DEF Conclude
  <2> QED BY <1>8, <2>1 DEF Conclude, TypeOK, Phases
<1>9. CASE Break
  <2>1. outcome' \in Outcomes
    BY <1>9, FailureType DEF Break, Errors
  <2> QED BY <1>9, <2>1 DEF Break, TypeOK, Phases
<1>10. ASSUME NEW reply \in Replies \cup {None}, Probe(reply) PROVE TypeOK'
  <2>1. outcome \in Outcomes
    BY <1>10 DEF Probe, TypeOK
  <2>2. outcome' \in Outcomes
    BY <1>10, <2>1 DEF Probe, Outcomes, Errors
  <2> QED BY <1>10, <2>2 DEF Probe, TypeOK, Phases
<1>11. ASSUME NEW action \in {"suspend", "fail_run"}, Return(action) PROVE TypeOK'
  BY <1>11 DEF Return, TypeOK, Phases
<1>12. CASE KeepAsWritten
  BY <1>12 DEF KeepAsWritten, TypeOK
<1>13. CASE Stamp
  <2>1. note' \in File
    <3>1. note \in File /\ TRUE \in BOOLEAN
      BY DEF TypeOK
    <3> QED BY <1>13, <3>1 DEF Stamp, File
  <2> QED BY <1>13, <2>1 DEF Stamp, TypeOK, Phases
<1>14. CASE Record
  BY <1>14 DEF Record, TypeOK, Phases
<1>15. CASE Redispatch
  <2>1. /\ stopping' \in BOOLEAN /\ deadlineHit' \in BOOLEAN /\ interrupted' \in BOOLEAN
        /\ told' \in BOOLEAN /\ ~ deadlineHit' /\ ~ interrupted'
    BY <1>15, Zenon DEF Redispatch
  <2>2. hand' \in HandRecord /\ hand' = NotArmed /\ ~ hand'.armed
    BY <1>15 DEF Redispatch, NotArmed, HandRecord, GraceTurns
  <2>3. meter' \in Seq(Usages) /\ spend' \in Seq(Nat) /\ launch' \in 1..MaxLaunches
    BY <1>15, BoundsAssumption DEF Redispatch, TypeOK
  <2> QED BY <1>15, <2>1, <2>2, <2>3 DEF Redispatch, TypeOK, Phases
<1>16. CASE UNCHANGED vars
  BY <1>16 DEF vars, TypeOK
<1> QED BY <1>1, <1>2, <1>3, <1>4, <1>5, <1>6, <1>7, <1>8, <1>9, <1>10, <1>11, <1>12, <1>13,
           <1>14, <1>15, <1>16 DEF Next

\* The session's records keep their types, an outcome exists exactly once the
\* session is over, and only a readable record is stamped
\* (executor_claude.py ClaudeExecutor._run, context.py).
THEOREM TypeCorrect == Spec => []TypeOK
<1> QED BY TypeInit, TypeStep, PTL DEF Spec

-----------------------------------------------------------------------------
(* The turn seam.  While no deadline has passed, every request streamed is  *)
(* counted, once, from the one that armed the handover on; and as long as   *)
(* nothing armed it, nothing seen is past a bound.                          *)

Beyond == Len(meter) - hand.request

SeamInv ==
  /\ limits.keyed => spend = [i \in 1..Len(meter) |-> Charged(meter[i])]
  /\ hand.armed => hand.request \in 1..Len(meter)
  /\ limits.keyed /\ hand.armed /\ ~ deadlineHit =>
       /\ hand.counted = IF Beyond = 0 THEN 0 ELSE Len(meter)
       /\ hand.grace = IF Beyond < GraceTurns THEN Beyond ELSE GraceTurns
       /\ interrupted <=> Beyond >= GraceTurns
  /\ interrupted => deadlineHit \/ hand.armed
  /\ ~ hand.armed /\ ~ deadlineHit =>
       /\ ~ OverCap(Total(spend))
       /\ \A i \in 1..Len(meter) : ~ OverCeiling(meter[i])

LEMMA SeamFresh ==
  ASSUME limits \in [cap: Caps, ceiling: Ceilings, deadline: Deadlines, keyed: BOOLEAN],
         meter = <<>>, spend = <<>>, hand = NotArmed, deadlineHit = FALSE, interrupted = FALSE
  PROVE  SeamInv
<1>1. Len(meter) = 0 /\ ~ hand.armed
  BY DEF NotArmed
<1>2. spend = [i \in 1..Len(meter) |-> Charged(meter[i])]
  BY <1>1
<1>3. limits.cap \in Nat \cup {None} /\ Total(spend) = 0
  BY TotalOfNone, BoundsAssumption
<1>4. ~ OverCap(Total(spend))
  BY <1>3 DEF OverCap, Past
<1> QED BY <1>1, <1>2, <1>4 DEF SeamInv

\* The executor's own account of a keyed session is the provider's.
LEMMA FoldIsMeter ==
  ASSUME TypeOK, SeamInv, limits.keyed, NEW usage \in Usages, Streams(usage),
         spend' = FoldSpend(usage)
  PROVE  spend' = [i \in 1..Len(meter') |-> Charged(meter'[i])]
<1>0. Len(meter) \in Nat
  BY DEF TypeOK
<1>1. spend = [i \in 1..Len(meter) |-> Charged(meter[i])] /\ Len(meter) \in Nat
  BY DEF SeamInv, TypeOK
<1>2. Len(spend) = Len(meter) /\ DOMAIN spend = 1..Len(meter)
  BY <1>1
<1>a. Len(spend) = Len(meter)
  BY <1>2
<1>3. CASE meter' = Append(meter, usage)
  <2>1. /\ Len(meter') = Len(meter) + 1
        /\ \A i \in 1..Len(meter) : meter'[i] = meter[i]
        /\ meter'[Len(meter) + 1] = usage
    BY <1>3 DEF TypeOK
  <2>2. spend' = Append(spend, Charged(usage))
    <3>1. Len(meter') # Len(spend)
      <4>1. Len(meter') = Len(meter) + 1
        BY <2>1
      <4> HIDE <1>3
      <4> QED BY <1>0, <1>a, <4>1
    <3> QED BY <3>1, Zenon DEF FoldSpend
  <2>3. /\ Charged(usage) \in Nat /\ spend \in Seq(Nat)
    BY ChargedNat DEF TypeOK
  <2>4. /\ DOMAIN spend' = 1..(Len(meter) + 1) /\ spend' = [i \in DOMAIN spend' |-> spend'[i]]
        /\ \A i \in 1..Len(meter) : spend'[i] = spend[i]
        /\ spend'[Len(meter) + 1] = Charged(usage)
    BY <1>1, <1>2, <2>2, <2>3
  <2>5. \A i \in 1..(Len(meter) + 1) : spend'[i] = Charged(meter'[i])
    BY <1>1, <2>1, <2>4
  <2> QED BY <2>1, <2>4, <2>5
<1>4. CASE /\ Len(meter) > 0
           /\ meter' = [meter EXCEPT ![Len(meter)] = usage]
  <2>1. /\ Len(meter') = Len(meter)
        /\ \A i \in 1..Len(meter) : meter'[i] = IF i = Len(meter) THEN usage ELSE meter[i]
    BY <1>4 DEF TypeOK
  <2>2. spend' = [spend EXCEPT ![Len(meter)] = Charged(usage)]
    BY <1>2, <2>1 DEF FoldSpend
  <2>3. /\ DOMAIN spend' = 1..Len(meter) /\ spend' = [i \in DOMAIN spend' |-> spend'[i]]
        /\ \A i \in 1..Len(meter) : spend'[i] = IF i = Len(meter) THEN Charged(usage) ELSE spend[i]
    BY <1>2, <2>2
  <2>4. \A i \in 1..Len(meter) : spend'[i] = Charged(meter'[i])
    BY <1>1, <2>1, <2>3
  <2> QED BY <2>1, <2>3, <2>4
<1> QED BY <1>3, <1>4 DEF Streams

LEMMA SeamMessage ==
  ASSUME TypeOK, SeamInv, NEW usage \in Usages, Message(usage)
  PROVE  SeamInv'
<1>1. /\ Len(meter') \in Nat /\ Len(meter') > 0 /\ meter'[Len(meter')] = usage
      /\ Len(meter') = Len(meter) \/ Len(meter') = Len(meter) + 1
      /\ \A i \in 1..Len(meter') : i # Len(meter') => i \in 1..Len(meter) /\ meter'[i] = meter[i]
  BY StreamsFacts DEF Message
<1>2. limits' = limits /\ stopping' = stopping /\ Len(meter) \in Nat
  BY DEF Message, TypeOK
<1>3. limits'.keyed => spend' = [i \in 1..Len(meter') |-> Charged(meter'[i])]
  BY <1>2, FoldIsMeter DEF Message
<1>4. CASE deadlineHit'
  <2>1. hand' = hand
    BY <1>4 DEF Message
  <2>2. hand'.armed => hand'.request \in 1..Len(meter')
    BY <1>1, <1>2, <2>1 DEF SeamInv
  <2> QED BY <1>3, <1>4, <2>2 DEF SeamInv
<1>5. CASE ~ deadlineHit'
  <2>1. /\ ~ deadlineHit /\ hand' = Observe(usage, Total(spend'))
        /\ interrupted' = (interrupted \/ GraceRunsOut)
    BY <1>5 DEF Message
  <2>2. CASE ~ hand.armed
    <3>1. ~ interrupted /\ ~ interrupted'
      BY <2>1, <2>2 DEF SeamInv, GraceRunsOut
    <3>2. hand' = Armed(usage, Total(spend'))
      BY <2>1, <2>2 DEF Observe
    <3>3. CASE stopping \/ OverCap(Total(spend')) \/ OverCeiling(usage)
      <4>1. /\ hand'.armed /\ hand'.request = Len(meter') /\ hand'.counted = 0 /\ hand'.grace = 0
        BY <3>2, <3>3 DEF Armed
      <4>2. Beyond' = 0
        BY <1>1, <4>1 DEF Beyond
      <4> QED BY <1>1, <1>3, <3>1, <4>1, <4>2 DEF SeamInv, GraceTurns
    <3>4. CASE ~ (stopping \/ OverCap(Total(spend')) \/ OverCeiling(usage))
      <4>1. hand' = hand
        BY <3>2, <3>4 DEF Armed
      <4>2. (\A i \in 1..Len(meter) : ~ OverCeiling(meter[i]))'
        <5>1. \A i \in 1..Len(meter) : ~ OverCeiling(meter[i])
          BY <2>1, <2>2 DEF SeamInv
        <5>2. \A i \in 1..Len(meter') : ~ OverCeiling(meter'[i])
          BY <1>1, <3>4, <5>1
        <5> QED BY <1>2, <5>2 DEF OverCeiling
      <4>3. ~ OverCap(Total(spend))'
        BY <1>2, <3>4 DEF OverCap
      <4> QED BY <1>3, <2>2, <3>1, <4>1, <4>2, <4>3 DEF SeamInv
    <3> QED BY <3>3, <3>4
  <2>3. CASE hand.armed
    <3>1. hand.request \in 1..Len(meter) /\ hand \in HandRecord
      BY <2>3 DEF SeamInv, TypeOK
    <3>2. hand' = IF Seen THEN hand
                  ELSE [hand EXCEPT !.grace = IF @ < GraceTurns THEN @ + 1 ELSE @,
                                   !.counted = Len(meter')]
      BY <2>1, <2>3 DEF Observe
    <3>3. hand'.armed /\ hand'.request = hand.request
      BY <2>3, <3>1, <3>2 DEF HandRecord
    <3>4. hand'.request \in 1..Len(meter')
      BY <1>1, <1>2, <3>1, <3>3
    <3>5. ASSUME limits.keyed
          PROVE  /\ hand'.counted = IF Beyond' = 0 THEN 0 ELSE Len(meter')
                 /\ hand'.grace = IF Beyond' < GraceTurns THEN Beyond' ELSE GraceTurns
                 /\ interrupted' <=> Beyond' >= GraceTurns
      <4>1. /\ hand.counted = IF Beyond = 0 THEN 0 ELSE Len(meter)
            /\ hand.grace = IF Beyond < GraceTurns THEN Beyond ELSE GraceTurns
            /\ interrupted <=> Beyond >= GraceTurns
        BY <2>1, <2>3, <3>5 DEF SeamInv
      <4>2. Beyond \in Nat /\ Beyond' = Len(meter') - hand.request
        BY <1>2, <3>1, <3>3 DEF Beyond
      <4>3. CASE Len(meter') = Len(meter)
        <5>1. Seen
          BY <1>1, <3>1, <3>5, <4>1, <4>3 DEF Seen, Beyond
        <5>2. hand' = hand /\ interrupted' = interrupted
          BY <2>1, <3>2, <5>1, Zenon DEF GraceRunsOut, TypeOK
        <5>3. Beyond' = Beyond
          BY <4>2, <4>3 DEF Beyond
        <5> QED BY <4>1, <4>3, <5>2, <5>3
      <4>4. CASE Len(meter') = Len(meter) + 1
        <5>1. ~ Seen
          BY <1>2, <3>1, <4>1, <4>4 DEF Seen
        <5>2. hand'.counted = Len(meter') /\ hand'.grace = IF hand.grace < GraceTurns THEN hand.grace + 1 ELSE hand.grace
          BY <3>1, <3>2, <5>1 DEF HandRecord
        <5>3. Beyond' = Beyond + 1
          BY <1>2, <3>1, <4>2, <4>4 DEF Beyond
        <5>4. interrupted' <=> interrupted \/ hand.grace + 1 >= GraceTurns
          BY <2>1, <2>3, <5>1 DEF GraceRunsOut
        <5> QED BY <4>1, <4>2, <5>2, <5>3, <5>4 DEF GraceTurns
      <4> QED BY <1>1, <4>3, <4>4
    <3> QED BY <1>2, <1>3, <3>3, <3>4, <3>5 DEF SeamInv
  <2> QED BY <2>2, <2>3
<1> QED BY <1>4, <1>5

\* What the exit ladder made of the stream, from the moment it is over.
ExitInv ==
  /\ outcome # None /\ outcome.status = "done" => ~ deadlineHit /\ ~ hand.armed
  /\ phase = "concluded" => outcome = Verdict

LEMMA VerdictFacts ==
  /\ Verdict.status = "done" => ~ deadlineHit /\ ~ hand.armed
  /\ deadlineHit => Verdict = DeadlineOutcome
  /\ ~ deadlineHit /\ hand.armed => Verdict = HandoverOutcome
BY DEF Verdict, DeadlineOutcome, HandoverOutcome

LEMMA SessionInit == Init => SeamInv /\ ExitInv
<1> SUFFICES ASSUME Init PROVE SeamInv /\ ExitInv
  OBVIOUS
<1>1. SeamInv
  BY SeamFresh DEF Init, FreshSession
<1>2. ExitInv
  BY DEF Init, FreshSession, ExitInv
<1> QED BY <1>1, <1>2

LEMMA SessionStep == TypeOK /\ SeamInv /\ ExitInv /\ [Next]_vars => SeamInv' /\ ExitInv'
<1> SUFFICES ASSUME TypeOK, SeamInv, ExitInv, [Next]_vars PROVE SeamInv' /\ ExitInv'
  OBVIOUS
<1> USE DEF stream, files
<1>a. ASSUME UNCHANGED <<limits, meter, spend, hand, deadlineHit, interrupted>> PROVE SeamInv'
  BY <1>a DEF SeamInv, Beyond, OverCap, OverCeiling
<1>b. ASSUME UNCHANGED <<hand, deadlineHit, terminal, outcome>>,
             phase' = "concluded" => phase = "concluded"
      PROVE  ExitInv'
  BY <1>b DEF ExitInv, Verdict
<1>c. ASSUME NEW error \in Errors, NEW transient \in BOOLEAN, outcome' = Failure(error, transient),
             phase' = "probed"
      PROVE  ExitInv'
  BY <1>c, FailureType DEF ExitInv
<1>1. ASSUME NEW request \in {"well_formed", "malformed", "unbuildable"}, Open(request)
      PROVE  SeamInv' /\ ExitInv'
  <2>1. \/ phase' = "streaming" /\ outcome' = None
        \/ phase' = "probed" /\ outcome' = Failure("kernel_error", FALSE)
        \/ phase' = "probed" /\ outcome' = Failure("executor_error", TRUE)
    BY <1>1 DEF Open
  <2>2. phase' = "streaming" /\ outcome' = None => ExitInv'
    BY DEF ExitInv
  <2>3. ExitInv'
    BY <2>1, <2>2, <1>c DEF Errors
  <2> QED BY <1>1, <1>a, <2>3 DEF Open
<1>2. ASSUME NEW usage \in Usages, Message(usage) PROVE SeamInv' /\ ExitInv'
  <2>1. outcome' = None /\ phase' = "streaming"
    BY <1>2 DEF Message, TypeOK
  <2> QED BY <1>2, <2>1, SeamMessage DEF ExitInv
<1>3. CASE ToolCall \/ Tick \/ StopSubtree
  BY <1>3, <1>a, <1>b DEF ToolCall, Tick, StopSubtree
<1>4. ASSUME NEW readable \in BOOLEAN, NodeWrites(readable) PROVE SeamInv' /\ ExitInv'
  BY <1>4, <1>a, <1>b DEF NodeWrites
<1>5. ASSUME NEW message \in Terminals \cup {None}, EndStream(message) PROVE SeamInv' /\ ExitInv'
  <2>1. outcome' = None /\ phase' = "drained"
    BY <1>5 DEF EndStream, TypeOK
  <2> QED BY <1>5, <1>a, <2>1 DEF EndStream, ExitInv
<1>6. CASE Conclude
  <2>1. Verdict' = Verdict /\ outcome' = Verdict /\ UNCHANGED <<hand, deadlineHit>>
    BY <1>6 DEF Conclude, Verdict
  <2> QED BY <1>6, <1>a, <2>1, VerdictFacts DEF Conclude, ExitInv
<1>7. CASE Break
  BY <1>7, <1>a, <1>c DEF Break, Errors
<1>8. ASSUME NEW reply \in Replies \cup {None}, Probe(reply) PROVE SeamInv' /\ ExitInv'
  <2>1. outcome \in Outcomes /\ outcome # None
    BY <1>8, NoneAssumption DEF Probe, TypeOK
  <2>2. outcome'.status = outcome.status
    BY <1>8, <2>1 DEF Probe, Outcomes
  <2>3. UNCHANGED <<hand, deadlineHit>> /\ phase' = "probed"
    BY <1>8 DEF Probe
  <2>4. ExitInv'
    BY <2>1, <2>2, <2>3 DEF ExitInv
  <2> QED BY <1>8, <1>a, <2>4 DEF Probe
<1>9. ASSUME NEW action \in {"suspend", "fail_run"}, Return(action) PROVE SeamInv' /\ ExitInv'
  BY <1>9, <1>a, <1>b DEF Return
<1>10. CASE KeepAsWritten \/ Stamp \/ Record
  BY <1>10, <1>a, <1>b DEF KeepAsWritten, Stamp, Record
<1>11. CASE Redispatch
  <2>1. SeamInv'
    <3>1. limits' \in [cap: Caps, ceiling: Ceilings, deadline: Deadlines, keyed: BOOLEAN]
      BY <1>11 DEF Redispatch, TypeOK
    <3>2. ~ hand'.armed /\ ~ deadlineHit' /\ ~ interrupted' /\ Len(meter') = 0
      BY <1>11 DEF Redispatch, NotArmed
    <3>3. spend' = [i \in 1..Len(meter') |-> Charged(meter'[i])]
      BY <1>11, <3>2 DEF Redispatch
    <3>4. Total(spend') = 0 /\ limits'.cap \in Nat \cup {None}
      BY <1>11, <3>1, TotalOfNone, BoundsAssumption DEF Redispatch
    <3>5. ~ OverCap(Total(spend))'
      BY <3>4 DEF OverCap, Past
    <3> QED BY <3>2, <3>3, <3>5 DEF SeamInv
  <2>2. outcome' = None /\ phase' = "ready"
    BY <1>11 DEF Redispatch
  <2> QED BY <2>1, <2>2 DEF ExitInv
<1>12. CASE UNCHANGED vars
  BY <1>12, <1>a, <1>b DEF vars
<1> QED BY <1>1, <1>2, <1>3, <1>4, <1>5, <1>6, <1>7, <1>8, <1>9, <1>10, <1>11, <1>12 DEF Next

LEMMA SessionAlways == Spec => [](TypeOK /\ SeamInv /\ ExitInv)
<1>1. Init => TypeOK /\ SeamInv /\ ExitInv
  BY TypeInit, SessionInit
<1>2. TypeOK /\ SeamInv /\ ExitInv /\ [Next]_vars => (TypeOK /\ SeamInv /\ ExitInv)'
  BY TypeStep, SessionStep
<1> QED BY <1>1, <1>2, PTL DEF Spec

\* The grace is counted in requests: a node asked to hand over is interrupted
\* exactly when the third request after the arming one has been streamed
\* (executor_claude.py _Handover.observe).
THEOREM GraceCountsRequests == Spec => []GraceIsPerRequest
<1>1. TypeOK /\ SeamInv => GraceIsPerRequest
  BY DEF SeamInv, GraceIsPerRequest, Beyond
<1> QED BY <1>1, SessionAlways, PTL

\* A session that was stopped or crossed a bound is never handed on as done,
\* whatever its terminal message says; unless it raised, it ends as a handover
\* or at its deadline, and never as a failure a retry would repeat
\* (executor_claude.py ClaudeExecutor._run).
THEOREM StoppedIsNeverDone == Spec => []StoppedIsNotDone
<1>1. TypeOK /\ SeamInv /\ ExitInv => StoppedIsNotDone
  <2> SUFFICES ASSUME TypeOK, SeamInv, ExitInv, outcome # None PROVE
        /\ outcome.status = "done" =>
             /\ ~interrupted
             /\ limits.keyed => ~OverCap(Spent)
             /\ \A i \in 1..Len(meter) : ~OverCeiling(meter[i])
        /\ interrupted /\ phase = "concluded" =>
             /\ outcome.status \in {"needs_continuation", "cancelled"} /\ ~outcome.transient
             /\ outcome.tree <=> outcome.status = "needs_continuation"
    BY DEF StoppedIsNotDone
  <2>1. ASSUME outcome.status = "done"
        PROVE  /\ ~interrupted
               /\ limits.keyed => ~OverCap(Spent)
               /\ \A i \in 1..Len(meter) : ~OverCeiling(meter[i])
    <3>1. ~ deadlineHit /\ ~ hand.armed
      BY <2>1 DEF ExitInv
    <3>2. limits.keyed => Spent = Total(spend)
      BY DEF Spent, SeamInv
    <3> QED BY <3>1, <3>2 DEF SeamInv
  <2>2. ASSUME interrupted, phase = "concluded"
        PROVE  /\ outcome.status \in {"needs_continuation", "cancelled"} /\ ~outcome.transient
               /\ outcome.tree <=> outcome.status = "needs_continuation"
    <3>1. outcome \in {DeadlineOutcome, HandoverOutcome}
      BY <2>2, VerdictFacts DEF ExitInv, SeamInv
    <3> QED BY <3>1 DEF DeadlineOutcome, HandoverOutcome
  <2> QED BY <2>1, <2>2
<1> QED BY <1>1, SessionAlways, PTL

-----------------------------------------------------------------------------
(* Why a session was armed.                                                *)

\* Induction over the naturals, in the form a proof can use: of a set.
LEMMA EveryNumber ==
  ASSUME NEW T, 0 \in T, \A n \in Nat : n \in T => n + 1 \in T
  PROVE  \A n \in Nat : n \in T
<1> DEFINE S == {n \in Nat : n \notin T}
<1> SUFFICES ASSUME S # {} PROVE FALSE
  OBVIOUS
<1>1. S \subseteq Nat
  OBVIOUS
<1>2. \E x \in S : \A y \in S : ~ (<<y, x>> \in OpToRel(<, Nat))
  <2> HIDE DEF S
  <2> QED BY <1>1, NatLessThanWellFounded, WFMin, Zenon
<1>3. \E x \in S : \A y \in S : ~ (y < x)
  BY <1>1, <1>2, Zenon DEF OpToRel
<1>4. PICK x \in S : \A y \in S : ~ (y < x)
  BY <1>3
<1>5. x \in Nat /\ x # 0
  OBVIOUS
<1>6. x - 1 \in Nat /\ x - 1 < x
  BY <1>5
<1>7. x - 1 \in T
  BY <1>4, <1>6
<1>8. (x - 1) + 1 \in T
  BY <1>6, <1>7
<1> QED BY <1>5, <1>8

\* sums holds what each prefix of s adds up to.
Sums(sums, s) ==
  /\ sums \in [0..Len(s) -> Nat]
  /\ sums[0] = 0
  /\ \A k \in 1..Len(s) : sums[k] = sums[k - 1] + s[k]

LEMMA SumsExist ==
  ASSUME NEW s \in Seq(Nat)
  PROVE  \E sums : Sums(sums, s)
<1> DEFINE OfPrefix(f, n) == /\ f \in [0..n -> Nat] /\ f[0] = 0
                             /\ \A k \in 1..n : k <= Len(s) => f[k] = f[k - 1] + s[k]
           T == {n \in Nat : \E f : OfPrefix(f, n)}
<1>1. 0 \in T
  <2> DEFINE f == [x \in 0..0 |-> 0]
  <2>1. OfPrefix(f, 0)
    OBVIOUS
  <2> HIDE DEF OfPrefix, f
  <2> QED BY <2>1
<1>2. ASSUME NEW n \in Nat, n \in T PROVE n + 1 \in T
  <2>1. PICK f : OfPrefix(f, n)
    BY <1>2
  <2> DEFINE v == IF n + 1 <= Len(s) THEN f[n] + s[n + 1] ELSE 0
             g == [x \in 0..(n + 1) |-> IF x = n + 1 THEN v ELSE f[x]]
  <2>2. v \in Nat
    BY <2>1
  <2>3. \A x \in 0..n : f[x] \in Nat /\ g[x] = f[x]
    BY <2>1
  <2>4. g[n + 1] = v
    OBVIOUS
  <2>5. g \in [0..(n + 1) -> Nat] /\ g[0] = 0
    BY <2>1, <2>2, <2>3
  <2>6. ASSUME NEW k \in 1..(n + 1), k <= Len(s) PROVE g[k] = g[k - 1] + s[k]
    <3>1. CASE k = n + 1
      BY <2>3, <2>4, <2>6, <3>1
    <3>2. CASE k # n + 1
      <4>1. k \in 1..n /\ k \in 0..n /\ k - 1 \in 0..n
        BY <3>2
      <4>2. f[k] = f[k - 1] + s[k]
        BY <2>1, <2>6, <4>1
      <4> HIDE DEF g
      <4> QED BY <2>3, <4>1, <4>2
    <3> QED BY <3>1, <3>2
  <2> HIDE DEF g
  <2>7. OfPrefix(g, n + 1)
    BY <2>5, <2>6
  <2> HIDE DEF OfPrefix
  <2> QED BY <2>7
<1>3. Len(s) \in T
  <2> HIDE DEF T
  <2> QED BY <1>1, <1>2, EveryNumber
<1>4. PICK f : OfPrefix(f, Len(s))
  BY <1>3
<1> QED BY <1>4 DEF Sums

LEMMA TotalIsSum ==
  ASSUME NEW s \in Seq(Nat)
  PROVE  \E sums : Sums(sums, s) /\ Total(s) = sums[Len(s)]
<1> DEFINE upTo[n \in 0..Len(s)] == IF n = 0 THEN 0 ELSE upTo[n - 1] + s[n]
<1>1. PICK f : Sums(f, s)
  BY SumsExist
<1>2. f = [n \in 0..Len(s) |-> IF n = 0 THEN 0 ELSE f[n - 1] + s[n]]
  <2>1. \A n \in 0..Len(s) : f[n] = IF n = 0 THEN 0 ELSE f[n - 1] + s[n]
    BY <1>1 DEF Sums
  <2>2. f = [n \in 0..Len(s) |-> f[n]]
    BY <1>1 DEF Sums
  <2> QED BY <2>1, <2>2
<1>3. upTo = [n \in 0..Len(s) |-> IF n = 0 THEN 0 ELSE upTo[n - 1] + s[n]]
  BY <1>2 DEF upTo
<1> HIDE DEF upTo
<1> DEFINE T == {n \in Nat : n <= Len(s) => upTo[n] = f[n]}
<1>4. 0 \in T
  BY <1>1, <1>3 DEF Sums
<1>5. ASSUME NEW n \in Nat, n \in T PROVE n + 1 \in T
  <2> SUFFICES ASSUME n + 1 <= Len(s) PROVE upTo[n + 1] = f[n + 1]
    OBVIOUS
  <2>1. n + 1 \in 0..Len(s) /\ n + 1 \in 1..Len(s) /\ (n + 1) - 1 = n
    OBVIOUS
  <2>2. upTo[n + 1] = upTo[n] + s[n + 1]
    BY <1>3, <2>1
  <2>3. f[n + 1] = f[n] + s[n + 1]
    BY <1>1, <2>1 DEF Sums
  <2> QED BY <1>5, <2>2, <2>3
<1>6. Len(s) \in T
  <2> HIDE DEF T
  <2> QED BY <1>4, <1>5, EveryNumber
<1>7. Total(s) = upTo[Len(s)]
  BY DEF Total, upTo
<1> QED BY <1>1, <1>6, <1>7

\* A longer account whose entries are no smaller adds up to no less.
LEMMA TotalGrows ==
  ASSUME NEW s \in Seq(Nat), NEW t \in Seq(Nat), Len(s) <= Len(t),
         \A i \in 1..Len(s) : s[i] <= t[i]
  PROVE  Total(s) \in Nat /\ Total(t) \in Nat /\ Total(s) <= Total(t)
<1>1. PICK f : Sums(f, s) /\ Total(s) = f[Len(s)]
  BY TotalIsSum
<1>2. PICK g : Sums(g, t) /\ Total(t) = g[Len(t)]
  BY TotalIsSum
<1> DEFINE T == {n \in Nat : n <= Len(s) => f[n] <= g[n]}
           U == {n \in Nat : Len(s) + n <= Len(t) => g[Len(s)] <= g[Len(s) + n]}
<1>3. 0 \in T
  BY <1>1, <1>2 DEF Sums
<1>4. ASSUME NEW n \in Nat, n \in T PROVE n + 1 \in T
  <2> SUFFICES ASSUME n + 1 <= Len(s) PROVE f[n + 1] <= g[n + 1]
    OBVIOUS
  <2>1. n + 1 \in 1..Len(s) /\ n + 1 \in 1..Len(t) /\ (n + 1) - 1 = n
    OBVIOUS
  <2>2. f[n + 1] = f[n] + s[n + 1] /\ g[n + 1] = g[n] + t[n + 1]
    BY <1>1, <1>2, <2>1 DEF Sums
  <2>3. /\ f[n] \in Nat /\ g[n] \in Nat
    <3>1. n \in 0..Len(s) /\ n \in 0..Len(t)
      OBVIOUS
    <3> QED BY <1>1, <1>2, <3>1 DEF Sums
  <2>4. s[n + 1] \in Nat /\ t[n + 1] \in Nat /\ s[n + 1] <= t[n + 1]
    BY <2>1
  <2>5. f[n] <= g[n]
    BY <1>4
  <2>6. \A a, b, x, y \in Nat : a <= b /\ x <= y => a + x <= b + y
    OBVIOUS
  <2>7. f[n] + s[n + 1] <= g[n] + t[n + 1]
    BY <2>3, <2>4, <2>5, <2>6, Zenon
  <2> QED BY <2>2, <2>7, Zenon
<1>5. Len(s) \in T
  <2>1. Len(s) \in Nat
    OBVIOUS
  <2> HIDE DEF T
  <2>2. \A n \in Nat : n \in T
    BY <1>3, <1>4, EveryNumber
  <2> QED BY <2>1, <2>2
<1>6. 0 \in U
  BY <1>2 DEF Sums
<1>7. ASSUME NEW n \in Nat, n \in U PROVE n + 1 \in U
  <2> SUFFICES ASSUME Len(s) + (n + 1) <= Len(t) PROVE g[Len(s)] <= g[Len(s) + (n + 1)]
    OBVIOUS
  <2> DEFINE m == Len(s) + (n + 1)
  <2>1. m \in 1..Len(t) /\ m - 1 = Len(s) + n /\ m - 1 \in 0..Len(t) /\ Len(s) \in 0..Len(t)
    OBVIOUS
  <2>2. g[m] = g[m - 1] + t[m] /\ g[m - 1] \in Nat /\ t[m] \in Nat /\ g[Len(s)] \in Nat
    <3> HIDE DEF m
    <3> QED BY <1>2, <2>1 DEF Sums
  <2>3. g[Len(s)] <= g[m - 1]
    BY <1>7, <2>1
  <2> HIDE DEF m
  <2>4. g[Len(s)] <= g[m]
    BY <2>2, <2>3
  <2> QED BY <2>4 DEF m
<1>8. Len(t) - Len(s) \in U /\ Len(s) + (Len(t) - Len(s)) = Len(t)
  <2>1. Len(t) - Len(s) \in Nat /\ Len(s) + (Len(t) - Len(s)) = Len(t)
    OBVIOUS
  <2> HIDE DEF U
  <2> QED BY <1>6, <1>7, <2>1, EveryNumber
<1>9. f[Len(s)] <= g[Len(s)] /\ g[Len(s)] <= g[Len(t)]
  BY <1>5, <1>8
<1>10. f[Len(s)] \in Nat /\ g[Len(s)] \in Nat /\ g[Len(t)] \in Nat
  BY <1>1, <1>2 DEF Sums
<1> QED BY <1>1, <1>2, <1>9, <1>10

\* What armed the handover stays true: the subtree goes on stopping, and neither the
\* session's cost nor what one of its requests saw ever shrinks.
CauseInv ==
  limits.keyed /\ hand.armed =>
    /\ hand.bySubtree => stopping
    /\ hand.byBudget => OverCap(Total(spend))
    /\ ~hand.bySubtree /\ ~hand.byBudget => \E i \in 1..hand.request : OverCeiling(meter[i])

LEMMA NothingShrinks ==
  ASSUME TypeOK, NEW usage \in Usages, Streams(usage)
  PROVE  /\ Len(meter) <= Len(meter')
         /\ \A i \in 1..Len(meter) : /\ Charged(meter[i]) <= Charged(meter'[i])
                                     /\ InputTotal(meter[i]) <= InputTotal(meter'[i])
                                     /\ InputTotal(meter[i]) \in Nat
                                     /\ InputTotal(meter'[i]) \in Nat
<1>1. /\ \A i \in 1..Len(meter) : meter[i] \in Usages
      /\ Len(meter) \in Nat
  BY DEF TypeOK
<1>2. /\ \A i \in 1..Len(meter) : Charged(meter[i]) \in Nat /\ InputTotal(meter[i]) \in Nat
      /\ Charged(usage) \in Nat /\ InputTotal(usage) \in Nat
  BY <1>1, ChargedNat
<1>3. CASE meter' = Append(meter, usage)
  <2>1. Len(meter') = Len(meter) + 1 /\ \A i \in 1..Len(meter) : meter'[i] = meter[i]
    BY <1>3 DEF TypeOK
  <2> QED BY <1>1, <1>2, <2>1
<1>4. CASE /\ Len(meter) > 0
           /\ Charged(usage) >= Charged(meter[Len(meter)])
           /\ InputTotal(usage) >= InputTotal(meter[Len(meter)])
           /\ meter' = [meter EXCEPT ![Len(meter)] = usage]
  <2>1. /\ Len(meter') = Len(meter)
        /\ \A i \in 1..Len(meter) : meter'[i] = IF i = Len(meter) THEN usage ELSE meter[i]
    BY <1>4 DEF TypeOK
  <2>2. ASSUME NEW i \in 1..Len(meter)
        PROVE  /\ Charged(meter[i]) <= Charged(meter'[i])
               /\ InputTotal(meter[i]) <= InputTotal(meter'[i])
               /\ InputTotal(meter'[i]) \in Nat
    <3>1. CASE i = Len(meter)
      BY <1>1, <1>2, <1>4, <2>1, <3>1
    <3>2. CASE i # Len(meter)
      BY <1>1, <1>2, <2>1, <3>2
    <3> QED BY <3>1, <3>2
  <2> QED BY <1>1, <1>2, <2>1, <2>2
<1> QED BY <1>3, <1>4 DEF Streams

LEMMA CapType ==
  ASSUME TypeOK
  PROVE  limits.cap \in Nat \cup {None} /\ limits.ceiling \in Nat \cup {None}
BY BoundsAssumption DEF TypeOK

LEMMA CauseMessage ==
  ASSUME TypeOK, SeamInv, CauseInv, NEW usage \in Usages, Message(usage)
  PROVE  CauseInv'
<1> SUFFICES ASSUME limits.keyed, hand'.armed
             PROVE  /\ hand'.bySubtree => stopping
                    /\ hand'.byBudget => OverCap(Total(spend'))
                    /\ ~hand'.bySubtree /\ ~hand'.byBudget =>
                         \E i \in 1..hand'.request : OverCeiling(meter'[i])
  BY DEF CauseInv, Message, OverCap, OverCeiling
<1>1. /\ Len(meter') \in Nat /\ Len(meter') > 0 /\ meter'[Len(meter')] = usage
  BY StreamsFacts DEF Message
<1>2. CASE ~ hand.armed
  <2>1. hand' = Observe(usage, Total(spend'))
    BY <1>2 DEF Message
  <2>2. hand' = Armed(usage, Total(spend'))
    BY <1>2, <2>1 DEF Observe
  <2>3. stopping \/ OverCap(Total(spend')) \/ OverCeiling(usage)
    BY <1>2, <2>2 DEF Armed
  <2> DEFINE budget == OverCap(Total(spend'))
  <2>4. hand' = [armed |-> TRUE, grace |-> 0, bySubtree |-> stopping,
                 byBudget |-> budget /\ ~stopping, request |-> Len(meter'), counted |-> 0]
    BY <2>2, <2>3, Zenon DEF Armed
  <2>5. /\ hand'.bySubtree <=> stopping
        /\ hand'.byBudget <=> budget /\ ~ stopping
        /\ hand'.request = Len(meter')
    <3> HIDE DEF budget
    <3>1. hand'.bySubtree = stopping /\ hand'.byBudget = (budget /\ ~ stopping)
          /\ hand'.request = Len(meter')
      BY <2>4
    <3> QED BY <3>1, Zenon
  <2>6. Len(meter') \in 1..Len(meter')
    BY <1>1
  <2> HIDE DEF budget
  <2>7. ~hand'.bySubtree /\ ~hand'.byBudget => OverCeiling(usage)
    BY <2>3, <2>5, Zenon DEF budget
  <2> QED BY <1>1, <2>5, <2>6, <2>7, Zenon DEF budget
<1>3. CASE hand.armed
  <2>1. /\ hand.bySubtree => stopping
        /\ hand.byBudget => OverCap(Total(spend))
        /\ ~hand.bySubtree /\ ~hand.byBudget => \E i \in 1..hand.request : OverCeiling(meter[i])
    BY <1>3 DEF CauseInv
  <2>2. /\ hand'.bySubtree = hand.bySubtree /\ hand'.byBudget = hand.byBudget
        /\ hand'.request = hand.request
    <3>1. hand \in HandRecord
      BY DEF TypeOK
    <3>2. hand' = hand \/ hand' = Observe(usage, Total(spend'))
      BY DEF Message
    <3>3. \/ hand' = hand
          \/ hand' = [hand EXCEPT !.grace = IF @ < GraceTurns THEN @ + 1 ELSE @,
                                  !.counted = Len(meter')]
      BY <1>3, <3>2 DEF Observe
    <3> QED BY <3>1, <3>3 DEF HandRecord
  <2>3. hand.request \in 1..Len(meter)
    BY <1>3 DEF SeamInv
  <2>4. /\ Len(meter) <= Len(meter')
        /\ \A i \in 1..Len(meter) : /\ Charged(meter[i]) <= Charged(meter'[i])
                                    /\ InputTotal(meter[i]) <= InputTotal(meter'[i])
                                    /\ InputTotal(meter[i]) \in Nat
                                    /\ InputTotal(meter'[i]) \in Nat
    BY NothingShrinks DEF Message
  <2>5. Total(spend) \in Nat /\ Total(spend') \in Nat /\ Total(spend) <= Total(spend')
    <3>1. /\ spend = [i \in 1..Len(meter) |-> Charged(meter[i])]
          /\ spend' = [i \in 1..Len(meter') |-> Charged(meter'[i])]
          /\ Len(meter) \in Nat
      BY FoldIsMeter DEF SeamInv, Message, TypeOK
    <3>2. spend \in Seq(Nat) /\ spend' \in Seq(Nat)
      BY FoldType DEF TypeOK, Message
    <3>3. Len(spend) = Len(meter) /\ Len(spend') = Len(meter')
      BY <1>1, <3>1
    <3>4. \A i \in 1..Len(spend) : spend[i] <= spend'[i]
      BY <1>1, <2>4, <3>1, <3>3
    <3> HIDE <3>1
    <3>5. Len(spend) <= Len(spend')
      BY <2>4, <3>3
    <3> QED BY <3>2, <3>4, <3>5, TotalGrows
  <2>6. OverCap(Total(spend)) => OverCap(Total(spend'))
    BY <2>5, CapType DEF OverCap, Past
  <2>7. \A i \in 1..Len(meter) : OverCeiling(meter[i]) => OverCeiling(meter'[i])
    BY <2>4, CapType DEF OverCeiling, Past
  <2>8. \A i \in 1..hand.request : i \in 1..Len(meter)
    BY <2>3 DEF TypeOK
  <2> QED BY <2>1, <2>2, <2>6, <2>7, <2>8, Zenon
<1> QED BY <1>2, <1>3

LEMMA CauseStep == TypeOK /\ SeamInv /\ CauseInv /\ [Next]_vars => CauseInv'
<1> SUFFICES ASSUME TypeOK, SeamInv, CauseInv, [Next]_vars PROVE CauseInv'
  OBVIOUS
<1> USE DEF stream, files
<1>a. ASSUME UNCHANGED <<limits, meter, spend, hand>>, stopping => stopping' PROVE CauseInv'
  BY <1>a, Zenon DEF CauseInv, OverCap, OverCeiling
<1>1. ASSUME NEW request \in {"well_formed", "malformed", "unbuildable"}, Open(request) PROVE CauseInv'
  BY <1>1, <1>a DEF Open
<1>2. ASSUME NEW usage \in Usages, Message(usage) PROVE CauseInv'
  BY <1>2, CauseMessage
<1>3. CASE ToolCall \/ Tick
  BY <1>3, <1>a DEF ToolCall, Tick
<1>4. ASSUME NEW readable \in BOOLEAN, NodeWrites(readable) PROVE CauseInv'
  BY <1>4, <1>a DEF NodeWrites
<1>5. ASSUME NEW message \in Terminals \cup {None}, EndStream(message) PROVE CauseInv'
  BY <1>5, <1>a DEF EndStream
<1>6. CASE StopSubtree
  BY <1>6, <1>a, Zenon DEF StopSubtree
<1>7. CASE Conclude \/ Break \/ KeepAsWritten \/ Stamp \/ Record
  <2>1. UNCHANGED <<limits, meter, spend, hand, stopping>>
    BY <1>7 DEF Conclude, Break, KeepAsWritten, Stamp, Record
  <2> QED BY <1>a, <2>1
<1>8. ASSUME NEW reply \in Replies \cup {None}, Probe(reply) PROVE CauseInv'
  BY <1>8, <1>a DEF Probe
<1>9. ASSUME NEW action \in {"suspend", "fail_run"}, Return(action) PROVE CauseInv'
  BY <1>9, <1>a DEF Return
<1>10. CASE Redispatch
  <2>1. ~ hand'.armed
    BY <1>10 DEF Redispatch, NotArmed
  <2> QED BY <2>1 DEF CauseInv
<1>11. CASE UNCHANGED vars
  BY <1>11, <1>a DEF vars
<1> QED BY <1>1, <1>2, <1>3, <1>4, <1>5, <1>6, <1>7, <1>8, <1>9, <1>10, <1>11 DEF Next

\* A handover's cause holds for as long as the session is armed: a subtree it was
\* blamed on is stopping, a budget it was blamed on is overspent by the requests the
\* provider itself counts, and otherwise a request at or before the arming one is past
\* the ceiling (executor_claude.py _Handover.observe, _handover_outcome).
THEOREM ArmedHasItsCause == Spec => []ArmedForCause
<1>1. Init => CauseInv
  <2> SUFFICES ASSUME Init PROVE ~ hand.armed
    BY DEF CauseInv
  <2> QED BY DEF Init, FreshSession, NotArmed
<1>2. TypeOK /\ SeamInv /\ CauseInv => ArmedForCause
  <2> SUFFICES ASSUME SeamInv, CauseInv, limits.keyed, hand.armed
               PROVE  /\ hand.bySubtree => stopping
                      /\ hand.byBudget => OverCap(Spent)
                      /\ ~hand.bySubtree /\ ~hand.byBudget =>
                           \E i \in 1..hand.request : OverCeiling(meter[i])
    BY DEF ArmedForCause
  <2>1. Spent = Total(spend)
    BY DEF Spent, SeamInv
  <2> QED BY <2>1, Zenon DEF CauseInv
<1> QED BY <1>1, <1>2, CauseStep, SessionAlways, PTL DEF Spec

=============================================================================
