--------------------------- MODULE PushListProofs --------------------------
(***************************************************************************)
(* Proofs about PushList, for every fleet, every line of history, every    *)
(* bound and every payload.  What the pushes promise is proved where HEAD  *)
(* does not move between a push and the check before it.                   *)
(***************************************************************************)
EXTENDS PushList, TLAPS

LEMMA AppendFacts ==
  ASSUME NEW S, NEW s \in Seq(S), NEW e \in S
  PROVE  /\ Append(s, e) \in Seq(S)
         /\ Len(Append(s, e)) = Len(s) + 1
         /\ DOMAIN Append(s, e) = DOMAIN s \cup {Len(s) + 1}
         /\ \A i \in DOMAIN s : Append(s, e)[i] = s[i]
         /\ Append(s, e)[Len(s) + 1] = e
         /\ Append(s, e) # <<>>
  OBVIOUS

LEMMA ExtendFacts ==
  ASSUME NEW f, NEW x, NEW y
  PROVE  /\ DOMAIN Extend(f, x, y) = DOMAIN f \cup {x}
         /\ Extend(f, x, y)[x] = y
         /\ \A z \in DOMAIN f : z # x => Extend(f, x, y)[z] = f[z]
  BY DEF Extend

LEMMA NewAnswer ==
  ASSUME NEW p, p \notin DOMAIN answers, NEW v, answers' = Extend(answers, p, v)
  PROVE  /\ DOMAIN answers' = DOMAIN answers \cup {p}
         /\ \A q \in DOMAIN answers : answers'[q] = answers[q]
<1>1. \A q \in DOMAIN answers : q # p
  OBVIOUS
<1> QED
  BY <1>1 DEF Extend

LEMMA Idling ==
  ASSUME Idle
  PROVE  /\ phase' = "down" /\ at' \in [Repo -> Places]
         /\ row' = Nothing /\ offer' = Nothing /\ Nothing \in Payload
         /\ todo' = {} /\ warned' = FALSE
  BY DEF Idle, Nothing, Payload, Places

LEMMA RecordFacts ==
  ASSUME applied \in [Payload -> Seq(Outcome)], offer \in Payload,
         NEW o \in Outcome, Record(o)
  PROVE  /\ applied' \in [Payload -> Seq(Outcome)] /\ recent' = offer
         /\ applied'[offer] = Append(applied[offer], o)
         /\ \A p \in Payload : p # offer => applied'[p] = applied[p]
  BY AppendFacts DEF Record

-----------------------------------------------------------------------------
(* Types.                                                                  *)

LEMMA TypeInit == Init => TypeOK
<1> SUFFICES ASSUME Init PROVE TypeOK
  OBVIOUS
<1>1. 0 \in Commit /\ Nothing \in Payload
  BY PushListAssumption DEF Commit, Nothing, Payload
<1>2. /\ head \in [Repo -> Commit] /\ target \in [Repo -> Commit] /\ worked \subseteq Repo
      /\ gates \in [Repo -> SUBSET [commit : Commit, passed : BOOLEAN]]
  BY <1>1 DEF Init
<1>3. /\ DOMAIN answers \subseteq Payload /\ DOMAIN folded \subseteq Payload
      /\ answers \in [DOMAIN answers -> Verdict] /\ folded \in [DOMAIN folded -> Verdict]
  BY DEF Init
<1>4. /\ applied \in [Payload -> Seq(Outcome)] /\ granted \subseteq Payload \X Nat
      /\ attempted \subseteq Repo \X Commit /\ done \subseteq Repo \X Commit
      /\ asking \subseteq Payload \X Verdict /\ moved \subseteq Repo
      /\ pushed \in Seq(Push)
      /\ launches \in Nat /\ moves \in Nat /\ grants \in Nat
  BY DEF Init
<1>5. /\ status \in {"running", "suspended", "done"}
      /\ recent \in Payload /\ cursor \in Payload /\ row \in Payload /\ offer \in Payload
      /\ phase \in Phase /\ at \in [Repo -> Places]
      /\ todo \subseteq IF phase \in Applying THEN Intents(offer) ELSE {}
      /\ retrying \in BOOLEAN /\ warned \in BOOLEAN
  BY <1>1 DEF Init, Phase, Places
<1> QED
  BY <1>2, <1>3, <1>4, <1>5 DEF TypeOK

USE DEF world, branches, decisions, applies, markers, state, volatile, counts

LEMMA NextTyped ==
  ASSUME TypeOK, NEW r \in Repo, IsNext(r)
  PROVE  /\ phase \in Applying
         /\ r \in Intents(offer) /\ offer[r] \in Commit /\ Key(r) \in Repo \X Commit
<1>1. phase \in Applying /\ r \in Intents(offer)
  BY DEF TypeOK, IsNext
<1> QED
  BY <1>1 DEF TypeOK, Key, Intents, Payload

LEMMA TypeStep ==
  ASSUME TypeOK, [Next]_vars
  PROVE  TypeOK'
<1> USE DEF TypeOK, Applying
<1>1. CASE Launch
  <2>1. /\ (DOMAIN answers \subseteq Payload /\ DOMAIN folded \subseteq Payload)'
        /\ (answers \in [DOMAIN answers -> Verdict] /\ folded \in [DOMAIN folded -> Verdict])'
    BY <1>1 DEF Launch
  <2>2. /\ phase' \in Phase /\ launches' \in Nat
        /\ (todo \subseteq IF phase \in Applying THEN Intents(offer) ELSE {})'
    BY <1>1 DEF Launch, Phase
  <2>3. UNCHANGED <<head, target, worked, gates, applied, recent, granted, attempted, done,
                    status, cursor, row, offer, at, warned, asking, pushed, moved,
                    moves, grants>>
    BY <1>1 DEF Launch
  <2>4. retrying' \in BOOLEAN
    BY <1>1 DEF Launch
  <2> QED
    BY <2>1, <2>2, <2>3, <2>4
<1>2. CASE Run
  <2>1. Nothing \in Payload
    BY DEF Nothing, Payload
  <2> QED
    BY <1>2, <2>1 DEF Run, Phase
<1>3. CASE Crash
  BY <1>3, Idling DEF Crash, Phase
<1>4. CASE Tally
  BY <1>4 DEF Tally, Phase
<1>5. CASE Ask
  BY <1>5, Idling DEF Ask, Phase
<1>6. CASE Decided
  BY <1>6 DEF Decided, Phase
<1>7. CASE End
  BY <1>7, Idling DEF End, Phase
<1>8. CASE Apply
  BY <1>8 DEF Apply, Phase
<1>9. CASE RecordDone
  BY <1>9, RecordFacts DEF RecordDone, Record, Phase, Outcome
<1>10. CASE ApplyDueDefault
  BY <1>10, ExtendFacts DEF ApplyDueDefault, Verdict, Extend
<1>11. ASSUME NEW r \in Repo, Branch(r)
       PROVE  TypeOK'
  <2>1. CASE Work(r)
    BY <2>1 DEF Work, Arrive, Places
  <2>2. CASE RecordWork(r)
    BY <2>2 DEF RecordWork, Arrive, Places
  <2>3. CASE Gate(r)
    <3>1. gates' \in [Repo -> SUBSET [commit : Commit, passed : BOOLEAN]]
      <4>1. CASE gates[r] # {}
        BY <2>3, <4>1 DEF Gate
      <4>2. CASE gates[r] = {}
        <5>1. PICK ok \in BOOLEAN :
                gates' = [gates EXCEPT ![r] = {[commit |-> head[r], passed |-> ok]}]
          BY <2>3, <4>2 DEF Gate
        <5>2. {[commit |-> head[r], passed |-> ok]}
                \in SUBSET [commit : Commit, passed : BOOLEAN]
          BY <1>11
        <5> QED
          BY <5>1, <5>2
      <4> QED
        BY <4>1, <4>2
    <3> QED
      BY <2>3, <3>1 DEF Gate, Arrive, Places
  <2>4. CASE ReadHead(r)
    BY <2>4 DEF ReadHead, Arrive, Places, Payload
  <2> QED
    BY <1>11, <2>1, <2>2, <2>3, <2>4 DEF Branch
<1>12. ASSUME NEW r \in Repo, Perform(r)
       PROVE  TypeOK'
  <2>1. CASE SkipDone(r)
    BY <2>1 DEF SkipDone
  <2>2. CASE Attempt(r)
    <3>1. Key(r) \in Repo \X Commit
      BY <2>2, NextTyped DEF Attempt
    <3> QED
      BY <2>2, <3>1 DEF Attempt, Phase
  <2>3. CASE Check(r)
    <3>1. applied' \in [Payload -> Seq(Outcome)]
      BY <2>3, RecordFacts DEF Check, Outcome
    <3> QED
      BY <2>3, <3>1 DEF Check, Record, Phase
  <2>4. CASE GitPush(r)
    <3>1. [repo |-> r, commit |-> head[r], payload |-> offer] \in Push
      BY <1>12 DEF Push
    <3> QED
      BY <1>12, <2>4, <3>1 DEF GitPush, Phase
  <2>5. CASE PushFails(r)
    BY <2>5, RecordFacts DEF PushFails, Record, Phase, Outcome
  <2>6. CASE Mark(r)
    BY <2>6, NextTyped DEF Mark, Phase
  <2> QED
    BY <1>12, <2>1, <2>2, <2>3, <2>4, <2>5, <2>6 DEF Perform
<1>13. ASSUME NEW v \in Verdict, ReadQuestion(v)
       PROVE  TypeOK'
  BY <1>13 DEF ReadQuestion
<1>14. ASSUME NEW p \in Payload, NEW v \in Verdict, Answer(p, v)
       PROVE  TypeOK'
  BY <1>14, ExtendFacts DEF Answer, Extend
<1>15. CASE GrantApply
  BY <1>15 DEF GrantApply
<1>16. ASSUME NEW r \in Repo, GrantGate(r)
       PROVE  TypeOK'
  BY <1>16 DEF GrantGate
<1>17. ASSUME NEW r \in Repo, NEW c \in Commit, MoveHead(r, c)
       PROVE  TypeOK'
  BY <1>17 DEF MoveHead
<1>18. CASE UNCHANGED vars
  BY <1>18 DEF vars
<1> QED
  BY <1>1, <1>2, <1>3, <1>4, <1>5, <1>6, <1>7, <1>8, <1>9, <1>10, <1>11,
     <1>12, <1>13, <1>14, <1>15, <1>16, <1>17, <1>18
  DEF Next, Coordinator

\* Every variable has its type, whatever crashes, races and hands there are.
THEOREM TypeCorrect == Spec => []TypeOK
  BY TypeInit, TypeStep, PTL DEF Spec

-----------------------------------------------------------------------------
(* Decisions.                                                              *)

FoldedAreFiles == \A p \in DOMAIN folded : p \in DOMAIN answers /\ folded[p] = answers[p]

\* The action of DecisionsAreFinal.
Final ==
  /\ \A p \in DOMAIN answers : p \in DOMAIN answers' /\ answers'[p] = answers[p]
  /\ \A p \in DOMAIN folded' : p \in DOMAIN answers' /\ folded'[p] = answers'[p]

\* Decision files are only ever added to, and folding copies them.
LEMMA DecisionStep ==
  ASSUME FoldedAreFiles, [Next]_vars
  PROVE  Final /\ FoldedAreFiles'
<1>1. CASE Launch
  BY <1>1 DEF Launch, FoldedAreFiles, Final
<1>2. CASE ApplyDueDefault
  BY <1>2, NewAnswer DEF ApplyDueDefault, FoldedAreFiles, Final
<1>3. ASSUME NEW p \in Payload, NEW v \in Verdict, Answer(p, v)
      PROVE  Final /\ FoldedAreFiles'
  <2>1. CASE p \in DOMAIN answers
    BY <1>3, <2>1 DEF Answer, FoldedAreFiles, Final
  <2>2. CASE p \notin DOMAIN answers
    BY <1>3, <2>2, NewAnswer DEF Answer, FoldedAreFiles, Final
  <2> QED
    BY <2>1, <2>2
<1>4. CASE UNCHANGED decisions
  BY <1>4 DEF FoldedAreFiles, Final
<1>5. \/ Launch \/ ApplyDueDefault \/ UNCHANGED decisions
      \/ \E p \in Payload, v \in Verdict : Answer(p, v)
  BY DEF Next, vars, Coordinator, Branch, Perform, Run, Crash, Work, RecordWork,
     Gate, ReadHead, Tally, Ask, Decided, End, ReadQuestion, Apply, SkipDone,
     Attempt, Check, GitPush, PushFails, Mark, RecordDone, GrantApply, GrantGate,
     MoveHead
<1> QED
  BY <1>1, <1>2, <1>3, <1>4, <1>5

\* Neither a racing operator nor the deadline owner changes a decision, and
\* the journal never holds another than the file.
THEOREM DecisionsStand == Spec => DecisionsAreFinal
<1>1. Init => FoldedAreFiles
  BY DEF Init, FoldedAreFiles
<1>2. FoldedAreFiles /\ [Next]_vars => FoldedAreFiles' /\ [Final]_vars
  BY DecisionStep
<1> QED
  BY <1>1, <1>2, PTL DEF Spec, DecisionsAreFinal, Final

-----------------------------------------------------------------------------
(* What a step does to the pushes: a step of the apply node, the decision  *)
(* that lets it begin, a step that is outside it, or one beside it.        *)

PushesKept == UNCHANGED <<pushed, target, attempted, done, applied>>

Outside == phase' \notin Applying \cup {"dispatch"} /\ PushesKept

Beside ==
  /\ PushesKept
  /\ UNCHANGED <<phase, offer, todo, warned, folded>>
  /\ phase = "push" => UNCHANGED head

LEMMA Steps ==
  ASSUME ~MovesMidPush, [Next]_vars
  PROVE  \/ Outside \/ Beside \/ Decided \/ Apply \/ RecordDone
         \/ \E r \in Repo : Perform(r)
<1> USE DEF PushesKept, Applying
<1>1. CASE Launch \/ Run \/ Crash \/ Tally \/ Ask \/ End
  BY <1>1 DEF Outside, Launch, Run, Crash, Tally, Ask, End, Idle
<1>2. CASE ApplyDueDefault \/ UNCHANGED vars
  BY <1>2 DEF Beside, ApplyDueDefault, vars
<1>3. ASSUME NEW r \in Repo, Branch(r)
      PROVE  Beside
  BY <1>3 DEF Beside, Branch, Work, RecordWork, Gate, ReadHead
<1>4. ASSUME NEW v \in Verdict, ReadQuestion(v) \/ \E p \in Payload : Answer(p, v)
      PROVE  Beside
  BY <1>4 DEF Beside, ReadQuestion, Answer
<1>5. CASE GrantApply
  BY <1>5 DEF Beside, GrantApply
<1>6. ASSUME NEW r \in Repo, GrantGate(r) \/ \E c \in Commit : MoveHead(r, c)
      PROVE  Beside
  BY <1>6 DEF Beside, GrantGate, MoveHead
<1> QED
  BY <1>1, <1>2, <1>3, <1>4, <1>5, <1>6 DEF Next, Coordinator

-----------------------------------------------------------------------------
(* What is pushed was approved.                                            *)

OfferApproved ==
  phase \in Applying \cup {"dispatch"} =>
    offer \in DOMAIN folded /\ folded[offer] = "approve"

\* Between the check and the push, HEAD is the approved commit and the target
\* is not there yet.
Checked ==
  phase = "push" =>
    \A r \in Repo : IsNext(r) => head[r] = offer[r] /\ target[r] # offer[r]

ApprovalInv ==
  TypeOK /\ FoldedAreFiles /\ OfferApproved /\ Checked /\ PushedUnderApproval

LEMMA ApprovalInit == Init => ApprovalInv
  BY TypeInit DEF Init, ApprovalInv, FoldedAreFiles, OfferApproved, Checked,
     PushedUnderApproval, Applying

LEMMA OfferApprovedStep ==
  ASSUME ApprovalInv, [Next]_vars, ~MovesMidPush
  PROVE  OfferApproved'
<1> USE DEF OfferApproved, ApprovalInv
<1>1. CASE Outside
  BY <1>1 DEF Outside
<1>2. CASE Beside
  BY <1>2 DEF Beside
<1>3. CASE Decided
  BY <1>3 DEF Decided, FoldedDecision, Answered, Applying
<1>4. CASE Apply \/ RecordDone
  BY <1>4 DEF Apply, RecordDone, Record, Applying
<1>5. ASSUME NEW r \in Repo, Perform(r)
      PROVE  OfferApproved'
  BY <1>5 DEF Perform, SkipDone, Attempt, Check, GitPush, PushFails, Mark,
     Record, Applying
<1> QED
  BY <1>1, <1>2, <1>3, <1>4, <1>5, Steps

LEMMA CheckedStep ==
  ASSUME ApprovalInv, [Next]_vars, ~MovesMidPush
  PROVE  Checked'
<1> USE DEF Checked, ApprovalInv
<1>1. CASE Outside
  BY <1>1 DEF Outside, Applying
<1>2. CASE Beside
  BY <1>2 DEF Beside, PushesKept, IsNext
<1>3. CASE Decided \/ Apply \/ RecordDone
  BY <1>3 DEF Decided, Apply, RecordDone, Record
<1>4. ASSUME NEW r \in Repo, Perform(r)
      PROVE  Checked'
  <2>1. CASE Check(r)
    <3>1. \A q \in Repo : IsNext(q) => q = r
      BY <2>1 DEF Check, IsNext, Repo
    <3> QED
      BY <2>1, <3>1 DEF Check, Record, IsNext
  <2>2. CASE SkipDone(r) \/ Attempt(r) \/ GitPush(r) \/ PushFails(r) \/ Mark(r)
    BY <2>2 DEF SkipDone, Attempt, GitPush, PushFails, Mark, Record
  <2> QED
    BY <1>4, <2>1, <2>2 DEF Perform
<1> QED
  BY <1>1, <1>2, <1>3, <1>4, Steps

\* The history of pushes grows by GitPush only, and by one push.
LEMMA PushedGrows ==
  ASSUME TypeOK, [Next]_vars, ~MovesMidPush
  PROVE  \/ UNCHANGED <<pushed, target>>
         \/ \E r \in Repo :
              /\ GitPush(r)
              /\ DOMAIN pushed' = DOMAIN pushed \cup {Len(pushed) + 1}
              /\ \A i \in DOMAIN pushed : pushed'[i] = pushed[i]
              /\ pushed'[Len(pushed) + 1]
                   = [repo |-> r, commit |-> head[r], payload |-> offer]
<1>1. ASSUME NEW r \in Repo, GitPush(r)
      PROVE  /\ DOMAIN pushed' = DOMAIN pushed \cup {Len(pushed) + 1}
             /\ \A i \in DOMAIN pushed : pushed'[i] = pushed[i]
             /\ pushed'[Len(pushed) + 1]
                  = [repo |-> r, commit |-> head[r], payload |-> offer]
  <2>1. [repo |-> r, commit |-> head[r], payload |-> offer] \in Push
    BY DEF TypeOK, Push
  <2> QED
    BY <1>1, <2>1, AppendFacts DEF GitPush, TypeOK
<1>2. (\E r \in Repo : GitPush(r)) \/ UNCHANGED <<pushed, target>>
  BY Steps DEF Outside, Beside, PushesKept, Decided, Apply, RecordDone, Perform,
     SkipDone, Attempt, Check, PushFails, Mark
<1> QED
  BY <1>1, <1>2

LEMMA PushedUnderApprovalStep ==
  ASSUME ApprovalInv, [Next]_vars, ~MovesMidPush
  PROVE  PushedUnderApproval'
<1> USE DEF ApprovalInv, PushedUnderApproval
<1>1. Final
  BY DecisionStep
<1>2. CASE UNCHANGED <<pushed, target>>
  BY <1>1, <1>2 DEF Final
<1>3. ASSUME NEW r \in Repo, GitPush(r)
      PROVE  /\ offer \in DOMAIN answers' /\ answers'[offer] = "approve"
             /\ offer[r] = head[r]
  BY <1>1, <1>3 DEF GitPush, OfferApproved, Checked, Applying, FoldedAreFiles, Final
<1>4. ASSUME NEW r \in Repo, GitPush(r),
             DOMAIN pushed' = DOMAIN pushed \cup {Len(pushed) + 1},
             \A i \in DOMAIN pushed : pushed'[i] = pushed[i],
             pushed'[Len(pushed) + 1]
               = [repo |-> r, commit |-> head[r], payload |-> offer]
      PROVE  PushedUnderApproval'
  <2>1. \A i \in DOMAIN pushed :
          LET p == pushed'[i].payload IN
          p \in DOMAIN answers' /\ answers'[p] = "approve" /\ p[pushed'[i].repo] = pushed'[i].commit
    BY <1>1, <1>4 DEF Final
  <2> QED
    BY <1>3, <1>4, <2>1
<1> QED
  BY <1>2, <1>4, PushedGrows

LEMMA ApprovalStep ==
  ASSUME ApprovalInv, [Next]_vars, ~MovesMidPush
  PROVE  ApprovalInv'
<1>1. TypeOK' /\ FoldedAreFiles'
  BY TypeStep, DecisionStep DEF ApprovalInv
<1> QED
  BY <1>1, OfferApprovedStep, CheckedStep, PushedUnderApprovalStep DEF ApprovalInv

\* Where HEAD stands still between the check and the push, no sequence of
\* crashes, relaunches, changed payloads and racing answers pushes anything
\* but what a person approved.
THEOREM OnlyApprovedIsPushed ==
  ASSUME ~MovesMidPush
  PROVE  Spec => []PushedUnderApproval
<1>1. ApprovalInv /\ [Next]_vars => ApprovalInv'
  BY ApprovalStep
<1>2. ApprovalInv => PushedUnderApproval
  BY DEF ApprovalInv
<1> QED
  BY ApprovalInit, <1>1, <1>2, PTL DEF Spec

-----------------------------------------------------------------------------
(* Each commit is pushed once, and the effect is told what may have landed.*)

\* The target never goes back behind a commit that was pushed to it.
TargetAhead == \A i \in DOMAIN pushed : pushed[i].commit <= target[pushed[i].repo]

\* The attempted marker is there before the effect.
Attempted ==
  /\ \A i \in DOMAIN pushed : <<pushed[i].repo, pushed[i].commit>> \in attempted
  /\ phase \in {"check", "push", "mark"} =>
       \A r \in Repo : IsNext(r) => Key(r) \in attempted

MarkerInv ==
  /\ ApprovalInv /\ TargetAhead /\ EachPushedOnce
  /\ Attempted /\ MayHaveLandedIsTold

LEMMA MarkerInit == Init => MarkerInv
  BY ApprovalInit DEF Init, MarkerInv, TargetAhead, EachPushedOnce, Attempted,
     MayHaveLandedIsTold

LEMMA PushedTyped ==
  ASSUME TypeOK, NEW i \in DOMAIN pushed
  PROVE  pushed[i].repo \in Repo /\ pushed[i].commit \in Nat
<1>1. pushed[i] \in Push
  BY DEF TypeOK
<1> QED
  BY <1>1 DEF Push, Commit

LEMMA OncePushed ==
  ASSUME MarkerInv, [Next]_vars, ~MovesMidPush
  PROVE  TargetAhead' /\ EachPushedOnce'
<1> USE DEF MarkerInv, TargetAhead, EachPushedOnce
<1>1. CASE UNCHANGED <<pushed, target>>
  BY <1>1
<1>2. ASSUME NEW r \in Repo, GitPush(r),
             DOMAIN pushed' = DOMAIN pushed \cup {Len(pushed) + 1},
             \A i \in DOMAIN pushed : pushed'[i] = pushed[i],
             pushed'[Len(pushed) + 1]
               = [repo |-> r, commit |-> head[r], payload |-> offer]
      PROVE  TargetAhead' /\ EachPushedOnce'
  <2>1. target[r] < head[r] /\ target \in [Repo -> Nat] /\ head \in [Repo -> Nat]
    <3>1. target \in [Repo -> Nat] /\ head \in [Repo -> Nat]
      BY DEF ApprovalInv, TypeOK, Commit
    <3>2. target[r] <= head[r] /\ target[r] # head[r]
      BY <1>2 DEF GitPush, ApprovalInv, Checked
    <3> QED
      BY <3>1, <3>2
  <2>2. target' = [target EXCEPT ![r] = head[r]]
    BY <1>2 DEF GitPush
  <2>3. \A i \in DOMAIN pushed : pushed[i].repo \in Repo /\ pushed[i].commit \in Nat
    BY PushedTyped DEF ApprovalInv
  <2>4. \A i \in DOMAIN pushed : pushed[i].repo = r => pushed[i].commit < head[r]
    BY <2>1, <2>3
  <2>5. TargetAhead'
    BY <1>2, <2>1, <2>2, <2>3, <2>4
  <2>6. EachPushedOnce'
    BY <1>2, <2>1, <2>3, <2>4
  <2> QED
    BY <2>5, <2>6
<1> QED
  BY <1>1, <1>2, PushedGrows DEF ApprovalInv

LEMMA AttemptedStep ==
  ASSUME MarkerInv, [Next]_vars, ~MovesMidPush
  PROVE  Attempted'
<1> USE DEF MarkerInv, Attempted
<1>1. CASE Outside
  BY <1>1 DEF Outside, PushesKept, Applying
<1>2. CASE Beside
  BY <1>2 DEF Beside, PushesKept, IsNext, Key
<1>3. CASE Decided \/ Apply \/ RecordDone
  BY <1>3 DEF Decided, Apply, RecordDone, Record
<1>4. ASSUME NEW r \in Repo, Attempt(r)
      PROVE  Attempted'
  <2>1. \A q \in Repo : IsNext(q) => q = r
    BY <1>4 DEF Attempt, IsNext, Repo
  <2> QED
    BY <1>4, <2>1 DEF Attempt, IsNext, Key
<1>5. ASSUME NEW r \in Repo, GitPush(r)
      PROVE  Attempted'
  <2>1. <<r, head[r]>> \in attempted /\ attempted' = attempted
    BY <1>5 DEF GitPush, ApprovalInv, Checked, Key
  <2>2. \A i \in DOMAIN pushed' : <<pushed'[i].repo, pushed'[i].commit>> \in attempted
    <3>1. PICK q \in Repo :
            /\ GitPush(q)
            /\ DOMAIN pushed' = DOMAIN pushed \cup {Len(pushed) + 1}
            /\ \A i \in DOMAIN pushed : pushed'[i] = pushed[i]
            /\ pushed'[Len(pushed) + 1]
                 = [repo |-> q, commit |-> head[q], payload |-> offer]
      <4>1. pushed' # pushed
        BY <1>5, AppendFacts DEF GitPush, ApprovalInv, TypeOK
      <4> QED
        BY <4>1, PushedGrows DEF ApprovalInv
    <3>2. q = r
      BY <1>5, <3>1 DEF GitPush, IsNext, Repo
    <3> QED
      BY <2>1, <3>1, <3>2
  <2> QED
    BY <1>5, <2>1, <2>2 DEF GitPush, IsNext, Key
<1>6. ASSUME NEW r \in Repo, SkipDone(r) \/ Check(r) \/ PushFails(r) \/ Mark(r)
      PROVE  Attempted'
  BY <1>6 DEF SkipDone, Check, PushFails, Mark, Record, IsNext, Key
<1> QED
  BY <1>1, <1>2, <1>3, <1>4, <1>5, <1>6, Steps DEF Perform

LEMMA ToldStep ==
  ASSUME MarkerInv, [Next]_vars, ~MovesMidPush
  PROVE  MayHaveLandedIsTold'
<1> USE DEF MarkerInv, MayHaveLandedIsTold, Landed
<1>1. CASE Outside
  BY <1>1 DEF Outside, Applying
<1>2. CASE Beside
  BY <1>2 DEF Beside, PushesKept, IsNext
<1>3. CASE Decided \/ Apply \/ RecordDone
  BY <1>3 DEF Decided, Apply, RecordDone, Record
<1>4. ASSUME NEW r \in Repo, Attempt(r)
      PROVE  MayHaveLandedIsTold'
  <2>1. \A q \in Repo : IsNext(q) => q = r
    BY <1>4 DEF Attempt, IsNext, Repo
  <2>2. Landed(r, offer[r]) => warned'
    BY <1>4 DEF Attempt, Attempted, Key
  <2> QED
    BY <1>4, <2>1, <2>2 DEF Attempt, IsNext
<1>5. ASSUME NEW r \in Repo, Check(r)
      PROVE  MayHaveLandedIsTold'
  BY <1>5 DEF Check, Record, IsNext
<1>6. ASSUME NEW r \in Repo, SkipDone(r) \/ GitPush(r) \/ PushFails(r) \/ Mark(r)
      PROVE  MayHaveLandedIsTold'
  BY <1>6 DEF SkipDone, GitPush, PushFails, Mark, Record
<1> QED
  BY <1>1, <1>2, <1>3, <1>4, <1>5, <1>6, Steps DEF Perform

LEMMA MarkerStep ==
  ASSUME MarkerInv, [Next]_vars, ~MovesMidPush
  PROVE  MarkerInv'
<1>1. ApprovalInv'
  BY ApprovalStep DEF MarkerInv
<1> QED
  BY <1>1, OncePushed, AttemptedStep, ToldStep DEF MarkerInv

\* Reading the target back keeps the run from pushing a commit twice, however
\* often it crashes between the push and the marker.
THEOREM PushedOnce ==
  ASSUME ~MovesMidPush
  PROVE  Spec => []EachPushedOnce
<1>1. MarkerInv /\ [Next]_vars => MarkerInv'
  BY MarkerStep
<1>2. MarkerInv => EachPushedOnce
  BY DEF MarkerInv
<1> QED
  BY MarkerInit, <1>1, <1>2, PTL DEF Spec

\* may_have_landed is never wrongly false: whatever an earlier attempt or
\* launch pushed without marking it done, the next effect is told.
THEOREM LandedIsTold ==
  ASSUME ~MovesMidPush
  PROVE  Spec => []MayHaveLandedIsTold
<1>1. MarkerInv /\ [Next]_vars => MarkerInv'
  BY MarkerStep
<1>2. MarkerInv => MayHaveLandedIsTold
  BY DEF MarkerInv
<1> QED
  BY MarkerInit, <1>1, <1>2, PTL DEF Spec

-----------------------------------------------------------------------------
(* A finished apply node pushed everything.                                *)

There(r, c) == c = 0 \/ Landed(r, c)

\* What a target points at was there from the start or was pushed.
TargetLanded == \A r \in Repo : There(r, target[r])

\* What is marked done, or is about to be, is there.
DoneLanded ==
  /\ \A r \in Repo, c \in Commit : <<r, c>> \in done => There(r, c)
  /\ phase = "mark" => \A r \in Repo : IsNext(r) => There(r, offer[r])

\* What an attempt need not do any more is marked.
DoneSoFar ==
  phase \in Applying => \A r \in Intents(offer) \ todo : Key(r) \in done

LandedInv ==
  ApprovalInv /\ TargetLanded /\ DoneLanded /\ DoneSoFar /\ DoneMeansLanded

LEMMA LandedInit == Init => LandedInv
  BY ApprovalInit DEF Init, LandedInv, TargetLanded, There, DoneLanded,
     DoneSoFar, DoneMeansLanded, Applying

\* What has landed stays landed.
LEMMA LandedStays ==
  ASSUME TypeOK, [Next]_vars, ~MovesMidPush, NEW r, NEW c, There(r, c)
  PROVE  There(r, c)'
<1>1. DOMAIN pushed \subseteq DOMAIN pushed' /\ \A i \in DOMAIN pushed : pushed'[i] = pushed[i]
  BY PushedGrows
<1> QED
  BY <1>1 DEF There, Landed

LEMMA TargetLandedStep ==
  ASSUME LandedInv, [Next]_vars, ~MovesMidPush
  PROVE  TargetLanded'
<1> USE DEF LandedInv, TargetLanded
<1>1. \A q \in Repo : There(q, target[q])'  \/ target'[q] # target[q]
  BY LandedStays DEF ApprovalInv, There, Landed
<1>2. CASE UNCHANGED <<pushed, target>>
  BY <1>2, <1>1
<1>3. ASSUME NEW r \in Repo, GitPush(r),
             DOMAIN pushed' = DOMAIN pushed \cup {Len(pushed) + 1},
             pushed'[Len(pushed) + 1]
               = [repo |-> r, commit |-> head[r], payload |-> offer]
      PROVE  TargetLanded'
  <2>1. target' = [target EXCEPT ![r] = head[r]] /\ target \in [Repo -> Commit]
    BY <1>3 DEF GitPush, ApprovalInv, TypeOK
  <2>2. Landed(r, head[r])'  \/ head' # head
    BY <1>3 DEF Landed
  <2> QED
    BY <1>1, <1>3, <2>1, <2>2 DEF There, GitPush
<1> QED
  BY <1>2, <1>3, PushedGrows DEF ApprovalInv

LEMMA DoneLandedStep ==
  ASSUME LandedInv, [Next]_vars, ~MovesMidPush
  PROVE  DoneLanded'
<1> USE DEF LandedInv, DoneLanded
<1>1. \A q \in Repo, c \in Commit : There(q, c) => There(q, c)'
  BY LandedStays DEF ApprovalInv
<1>2. CASE Outside
  BY <1>1, <1>2 DEF Outside, PushesKept, Applying
<1>3. CASE Beside
  BY <1>3 DEF Beside, PushesKept, IsNext, There, Landed
<1>4. CASE Decided \/ Apply \/ RecordDone
  BY <1>1, <1>4 DEF Decided, Apply, RecordDone, Record
<1>5. ASSUME NEW r \in Repo, SkipDone(r) \/ Attempt(r) \/ PushFails(r)
      PROVE  DoneLanded'
  BY <1>1, <1>5 DEF SkipDone, Attempt, PushFails, Record
<1>6. ASSUME NEW r \in Repo, Check(r)
      PROVE  DoneLanded'
  <2>1. \A q \in Repo : IsNext(q) => q = r
    BY <1>6 DEF Check, IsNext, Repo
  <2>2. UNCHANGED <<pushed, done, offer>>
    BY <1>6 DEF Check
  <2>3. phase' = "mark" => target[r] = offer[r] /\ todo' = todo
    BY <1>6 DEF Check, Record
  <2> QED
    BY <2>1, <2>2, <2>3 DEF TargetLanded, IsNext, There, Landed
<1>7. ASSUME NEW r \in Repo, GitPush(r)
      PROVE  DoneLanded'
  <2>1. \A q \in Repo : IsNext(q) => q = r
    BY <1>7 DEF GitPush, IsNext, Repo
  <2>2. Landed(r, offer[r])' /\ UNCHANGED <<done, offer, todo>>
    <3>1. offer[r] = head[r]
      BY <1>7 DEF GitPush, ApprovalInv, Checked
    <3>2. [repo |-> r, commit |-> head[r], payload |-> offer] \in Push /\ pushed \in Seq(Push)
      BY DEF ApprovalInv, TypeOK, Push
    <3> QED
      BY <1>7, <3>1, <3>2, AppendFacts DEF GitPush, Landed
  <2> QED
    BY <1>1, <2>1, <2>2 DEF IsNext, There
<1>8. ASSUME NEW r \in Repo, Mark(r)
      PROVE  DoneLanded'
  <2>1. There(r, offer[r])' /\ phase' # "mark"
    BY <1>8 DEF Mark, There, Landed
  <2> QED
    BY <1>1, <1>8, <2>1 DEF Mark, Key
<1> QED
  BY <1>2, <1>3, <1>4, <1>5, <1>6, <1>7, <1>8, Steps DEF Perform

LEMMA DoneSoFarStep ==
  ASSUME LandedInv, [Next]_vars, ~MovesMidPush
  PROVE  DoneSoFar'
<1> USE DEF LandedInv, DoneSoFar
<1>1. CASE Outside
  BY <1>1 DEF Outside
<1>2. CASE Beside
  BY <1>2 DEF Beside, PushesKept, Intents, Key
<1>3. CASE Decided \/ Apply \/ RecordDone
  BY <1>3 DEF Decided, Apply, RecordDone, Record, Applying, Intents
<1>4. ASSUME NEW r \in Repo, Perform(r)
      PROVE  DoneSoFar'
  BY <1>4 DEF Perform, SkipDone, Attempt, Check, GitPush, PushFails, Mark,
     Record, Applying, Intents, Key
<1> QED
  BY <1>1, <1>2, <1>3, <1>4, Steps

LEMMA DoneMeansLandedStep ==
  ASSUME LandedInv, [Next]_vars, ~MovesMidPush
  PROVE  DoneMeansLanded'
<1> USE DEF LandedInv, DoneMeansLanded
<1>1. \A q \in Repo, c \in Commit : There(q, c) => There(q, c)'
  BY LandedStays DEF ApprovalInv
<1>2. \A p \in Payload : \A q \in Intents(p) : p[q] \in Commit /\ q \in Repo
  BY DEF Payload, Intents
<1>3. CASE UNCHANGED applied
  BY <1>1, <1>2, <1>3 DEF There, Last
<1>4. ASSUME NEW o \in Outcome, Record(o), offer' = offer,
             o = "done" => \A q \in Intents(offer) : There(q, offer[q])
      PROVE  DoneMeansLanded'
  <2>1. /\ applied'[offer] = Append(applied[offer], o)
        /\ \A p \in Payload : p # offer => applied'[p] = applied[p]
        /\ offer \in Payload /\ applied[offer] \in Seq(Outcome)
    BY <1>4, RecordFacts DEF ApprovalInv, TypeOK
  <2>2. Last(offer)' = o
    BY <1>4, <2>1, AppendFacts DEF Last
  <2>3. ASSUME NEW p \in Payload, p # offer
        PROVE  applied'[p] = applied[p] /\ Last(p)' = Last(p)
    BY <2>1, <2>3 DEF Last
  <2> QED
    BY <1>1, <1>2, <1>4, <2>2, <2>3 DEF There
<1>5. CASE RecordDone
  <2>1. \A q \in Intents(offer) : There(q, offer[q])
    BY <1>2, <1>5 DEF RecordDone, Applying, DoneSoFar, DoneLanded, Key,
       ApprovalInv, TypeOK
  <2> QED
    BY <1>4, <1>5, <2>1 DEF RecordDone, Outcome
<1>6. ASSUME NEW r \in Repo, Perform(r)
      PROVE  \/ UNCHANGED applied
             \/ \E o \in Outcome \ {"done"} : Record(o) /\ offer' = offer
  BY <1>6 DEF Perform, SkipDone, Attempt, Check, GitPush, PushFails, Mark, Outcome
<1>7. CASE Outside \/ Beside \/ Decided \/ Apply
  BY <1>3, <1>7 DEF Outside, Beside, PushesKept, Decided, Apply
<1> QED
  BY <1>3, <1>4, <1>5, <1>6, <1>7, Steps

LEMMA LandedStep ==
  ASSUME LandedInv, [Next]_vars, ~MovesMidPush
  PROVE  LandedInv'
<1>1. ApprovalInv'
  BY ApprovalStep DEF LandedInv
<1> QED
  BY <1>1, TargetLandedStep, DoneLandedStep, DoneSoFarStep, DoneMeansLandedStep
  DEF LandedInv

\* An apply record that is done stands for pushes that all happened, whatever
\* launches and attempts they were spread over.
THEOREM DoneIsLanded ==
  ASSUME ~MovesMidPush
  PROVE  Spec => []DoneMeansLanded
<1>1. LandedInv /\ [Next]_vars => LandedInv'
  BY LandedStep
<1>2. LandedInv => DoneMeansLanded
  BY DEF LandedInv
<1> QED
  BY LandedInit, <1>1, <1>2, PTL DEF Spec

-----------------------------------------------------------------------------
(* A worktree nobody moved by hand is pushed as it was gated.              *)

\* A gate has one record, taken after the work was recorded, and of the commit
\* HEAD still points at if nobody moved it.
GatesFollowWork ==
  \A r \in Repo :
    /\ gates[r] # {} \/ at[r] = "gate" => r \in worked
    /\ \A g, h \in gates[r] : g = h
    /\ r \notin moved => \A g \in gates[r] : g.commit = head[r]

\* What is staged and offered was gated.
OffersGated ==
  \A r \in Repo \ moved :
    /\ row[r] # Absent => Gated(r, row[r])
    /\ offer[r] # Absent => Gated(r, offer[r])

NothingWhileDown == phase = "down" => row = Nothing /\ offer = Nothing

GateInv ==
  /\ ApprovalInv /\ GatesFollowWork /\ OffersGated /\ NothingWhileDown
  /\ GatedUnlessMoved

LEMMA GateInit == Init => GateInv
  BY ApprovalInit DEF Init, GateInv, GatesFollowWork, OffersGated,
     NothingWhileDown, GatedUnlessMoved, Nothing

BranchesKept == UNCHANGED <<head, worked, gates, moved, pushed>>

\* Steps that leave the branches, the list and the history alone, or forget
\* the list.
Aside ==
  /\ BranchesKept
  /\ \/ UNCHANGED <<at, row, offer>> /\ (phase' = "down" => phase = "down")
     \/ at' = [r \in Repo |-> "work"] /\ row' = Nothing /\ offer' = Nothing

LEMMA GateSteps ==
  ASSUME [Next]_vars
  PROVE  \/ Aside \/ Tally
         \/ \E r \in Repo : Branch(r) \/ GitPush(r) \/ GrantGate(r)
         \/ \E r \in Repo, c \in Commit : MoveHead(r, c)
<1> USE DEF BranchesKept
<1>1. CASE Crash \/ Ask \/ End
  BY <1>1 DEF Aside, Crash, Ask, End, Idle
<1>2. CASE Launch \/ Run
  BY <1>2 DEF Aside, Launch, Run
<1>3. CASE Decided \/ Apply \/ RecordDone
  BY <1>3 DEF Aside, Decided, Apply, RecordDone, Record
<1>4. CASE ApplyDueDefault \/ UNCHANGED vars
  BY <1>4 DEF Aside, ApplyDueDefault, vars
<1>5. ASSUME NEW r \in Repo,
             SkipDone(r) \/ Attempt(r) \/ Check(r) \/ PushFails(r) \/ Mark(r)
      PROVE  Aside
  BY <1>5 DEF Aside, SkipDone, Attempt, Check, PushFails, Mark, Record
<1>6. ASSUME NEW v \in Verdict, ReadQuestion(v) \/ \E p \in Payload : Answer(p, v)
      PROVE  Aside
  BY <1>6 DEF Aside, ReadQuestion, Answer
<1>7. CASE GrantApply
  BY <1>7 DEF Aside, GrantApply
<1> QED
  BY <1>1, <1>2, <1>3, <1>4, <1>5, <1>6, <1>7 DEF Next, Coordinator, Perform

LEMMA GatesFollowWorkStep ==
  ASSUME GateInv, [Next]_vars, ~MovesMidPush
  PROVE  GatesFollowWork'
<1> USE DEF GateInv, GatesFollowWork
<1>1. CASE Aside
  BY <1>1 DEF Aside, BranchesKept
<1>2. CASE Tally
  BY <1>2 DEF Tally
<1>3. ASSUME NEW r \in Repo, Work(r)
      PROVE  GatesFollowWork'
  <2>1. CASE r \in worked
    BY <1>3, <2>1 DEF Work, Arrive, ApprovalInv, TypeOK
  <2>2. CASE r \notin worked
    BY <1>3, <2>2 DEF Work, Arrive, ApprovalInv, TypeOK
  <2> QED
    BY <2>1, <2>2
<1>4. ASSUME NEW r \in Repo, RecordWork(r)
      PROVE  GatesFollowWork'
  BY <1>4 DEF RecordWork, Arrive, ApprovalInv, TypeOK
<1>5. ASSUME NEW r \in Repo, Gate(r)
      PROVE  GatesFollowWork'
  <2>1. CASE gates[r] # {}
    BY <1>5, <2>1 DEF Gate, Arrive, ApprovalInv, TypeOK
  <2>2. CASE gates[r] = {}
    <3>1. PICK ok \in BOOLEAN :
            gates' = [gates EXCEPT ![r] = {[commit |-> head[r], passed |-> ok]}]
      BY <1>5, <2>2 DEF Gate
    <3> QED
      BY <1>5, <3>1 DEF Gate, Arrive, ApprovalInv, TypeOK
  <2> QED
    BY <2>1, <2>2
<1>6. ASSUME NEW r \in Repo, ReadHead(r) \/ GitPush(r)
      PROVE  GatesFollowWork'
  BY <1>6 DEF ReadHead, GitPush, Arrive, ApprovalInv, TypeOK
<1>7. ASSUME NEW r \in Repo, GrantGate(r)
      PROVE  GatesFollowWork'
  BY <1>7 DEF GrantGate, ApprovalInv, TypeOK
<1>8. ASSUME NEW r \in Repo, NEW c \in Commit, MoveHead(r, c)
      PROVE  GatesFollowWork'
  BY <1>8 DEF MoveHead, ApprovalInv, TypeOK
<1> QED
  BY <1>1, <1>2, <1>3, <1>4, <1>5, <1>6, <1>7, <1>8, GateSteps DEF Branch

\* Gates are taken away from branches that did not pass only.
LEMMA GatedStays ==
  ASSUME GateInv, [Next]_vars, NEW r \in Repo, NEW c, Gated(r, c)
  PROVE  Gated(r, c)'
<1>1. CASE UNCHANGED gates
  BY <1>1 DEF Gated
<1>2. ASSUME NEW q \in Repo, Gate(q)
      PROVE  Gated(r, c)'
  BY <1>2 DEF Gate, Gated, GateInv, ApprovalInv, TypeOK
<1>3. ASSUME NEW q \in Repo, GrantGate(q)
      PROVE  Gated(r, c)'
  <2>1. q # r
    BY <1>3 DEF GrantGate, Gated, GateInv, GatesFollowWork
  <2> QED
    BY <1>3, <2>1 DEF GrantGate, Gated, GateInv, ApprovalInv, TypeOK
<1> QED
  BY <1>1, <1>2, <1>3, GateSteps DEF Aside, BranchesKept, Branch, Tally, Work,
     RecordWork, ReadHead, GitPush, MoveHead

LEMMA OffersGatedStep ==
  ASSUME GateInv, [Next]_vars, ~MovesMidPush
  PROVE  OffersGated' /\ NothingWhileDown'
<1> USE DEF GateInv, OffersGated, NothingWhileDown
<1>1. moved \subseteq moved'
  BY GateSteps DEF Aside, BranchesKept, Branch, Tally, Work, RecordWork, Gate,
     ReadHead, GitPush, GrantGate, MoveHead
<1>2. ASSUME NEW r \in Repo, ReadHead(r)
      PROVE  OffersGated' /\ NothingWhileDown'
  <2>1. r \notin moved /\ row'[r] # Absent => Gated(r, row'[r])
    <3> SUFFICES ASSUME r \notin moved, row'[r] # Absent
                 PROVE  Gated(r, row'[r])
      OBVIOUS
    <3>0. row'[r] = IF \E g \in gates[r] : g.passed THEN head[r] ELSE Absent
      BY <1>2 DEF ReadHead, ApprovalInv, TypeOK, Payload
    <3>1. PICK g \in gates[r] : g.passed
      BY <3>0
    <3>2. row'[r] = head[r]
      BY <3>0, <3>1
    <3>3. g \in [commit : Commit, passed : BOOLEAN] /\ g.commit = head[r]
      BY <3>1 DEF GatesFollowWork, ApprovalInv, TypeOK
    <3>4. g = [commit |-> head[r], passed |-> TRUE]
      BY <3>1, <3>3
    <3> QED
      BY <3>1, <3>2, <3>4 DEF Gated
  <2> QED
    BY <1>2, <2>1 DEF ReadHead, Gated, ApprovalInv, TypeOK, Payload
<1>3. CASE Tally
  BY <1>3 DEF Tally, Gated
<1>4. CASE UNCHANGED <<row, offer>> /\ (phase' = "down" => phase = "down")
  BY <1>1, <1>4, GatedStays
<1>5. CASE row' = Nothing /\ offer' = Nothing
  BY <1>5 DEF Nothing
<1>6. ASSUME NEW r \in Repo, Work(r) \/ RecordWork(r) \/ Gate(r) \/ GitPush(r) \/ GrantGate(r)
      PROVE  UNCHANGED <<row, offer>> /\ (phase' = "down" => phase = "down")
  BY <1>6 DEF Work, RecordWork, Gate, GitPush, GrantGate
<1>7. ASSUME NEW r \in Repo, NEW c \in Commit, MoveHead(r, c)
      PROVE  UNCHANGED <<row, offer>> /\ (phase' = "down" => phase = "down")
  BY <1>7 DEF MoveHead
<1> QED
  BY <1>2, <1>3, <1>4, <1>5, <1>6, <1>7, GateSteps DEF Aside, Branch

LEMMA GatedUnlessMovedStep ==
  ASSUME GateInv, [Next]_vars, ~MovesMidPush
  PROVE  GatedUnlessMoved'
<1> USE DEF GateInv, GatedUnlessMoved
<1>1. moved \subseteq moved'
  BY GateSteps DEF Aside, BranchesKept, Branch, Tally, Work, RecordWork, Gate,
     ReadHead, GitPush, GrantGate, MoveHead
<1>2. \A i \in DOMAIN pushed :
        pushed[i].repo \notin moved' =>
          [commit |-> pushed[i].commit, passed |-> TRUE] \in gates'[pushed[i].repo]
  BY <1>1, GatedStays, PushedTyped DEF ApprovalInv, Gated
<1>3. CASE UNCHANGED <<pushed, target>>
  BY <1>2, <1>3 DEF Gated
<1>4. ASSUME NEW r \in Repo, GitPush(r),
             DOMAIN pushed' = DOMAIN pushed \cup {Len(pushed) + 1},
             \A i \in DOMAIN pushed : pushed'[i] = pushed[i],
             pushed'[Len(pushed) + 1]
               = [repo |-> r, commit |-> head[r], payload |-> offer]
      PROVE  GatedUnlessMoved'
  <2>1. offer[r] = head[r] /\ head[r] # Absent /\ UNCHANGED <<gates, moved>>
    BY <1>4 DEF GitPush, ApprovalInv, TypeOK, Checked, Commit, Absent
  <2>2. r \notin moved => Gated(r, head[r])
    BY <2>1 DEF OffersGated
  <2>3. \A i \in DOMAIN pushed' :
          pushed'[i].repo \notin moved' =>
            [commit |-> pushed'[i].commit, passed |-> TRUE] \in gates'[pushed'[i].repo]
    <3> SUFFICES ASSUME NEW i \in DOMAIN pushed', pushed'[i].repo \notin moved'
                 PROVE  [commit |-> pushed'[i].commit, passed |-> TRUE]
                          \in gates'[pushed'[i].repo]
      OBVIOUS
    <3>1. CASE i \in DOMAIN pushed
      BY <1>2, <1>4, <3>1
    <3>2. CASE i = Len(pushed) + 1
      <4>1. pushed'[i].repo = r /\ pushed'[i].commit = head[r]
        BY <1>4, <3>2
      <4>2. r \notin moved
        BY <2>1, <4>1
      <4> QED
        BY <2>1, <2>2, <4>1, <4>2 DEF Gated
    <3> QED
      BY <1>4, <3>1, <3>2
  <2> QED
    BY <2>3 DEF Gated
<1> QED
  BY <1>3, <1>4, PushedGrows DEF ApprovalInv

LEMMA GateStep ==
  ASSUME GateInv, [Next]_vars, ~MovesMidPush
  PROVE  GateInv'
<1>1. ApprovalInv'
  BY ApprovalStep DEF GateInv
<1> QED
  BY <1>1, GatesFollowWorkStep, OffersGatedStep, GatedUnlessMovedStep DEF GateInv

\* Of a worktree nobody moved by hand, what is pushed is what its gate passed,
\* though the gate's record does not name the commit and HEAD is read again
\* on every launch.
THEOREM PushedAsGated ==
  ASSUME ~MovesMidPush
  PROVE  Spec => []GatedUnlessMoved
<1>1. GateInv /\ [Next]_vars => GateInv'
  BY GateStep
<1>2. GateInv => GatedUnlessMoved
  BY DEF GateInv
<1> QED
  BY GateInit, <1>1, <1>2, PTL DEF Spec

=============================================================================
