---------------------------- MODULE FleetProofs ----------------------------
(***************************************************************************)
(* Theorems about Fleet for any number of branches and slots and any       *)
(* ceiling: the scan's two promises, the whole clone, and the bound on     *)
(* what a launch spends.                                                   *)
(***************************************************************************)
EXTENDS Fleet, FiniteSetTheorems, TLAPS

Working == {"work", "session", "gate", "scan"}

LEMMA PlaceFacts ==
  /\ Loose \in Place
  /\ \A b \in Branch : Wt(b) \in Place /\ Staging(b) \in Place /\ Wt(b) # Loose
  /\ \A b, c \in Branch : Wt(b) # Staging(c) /\ Staging(c) # Loose /\ (Wt(b) = Wt(c) => b = c)
BY FleetAssumption DEF Place, Loose, Wt, Staging, Branch

LEMMA NoManifestType == NoManifest \in Manifest
BY DEF NoManifest, Manifest

LEMMA TypeInit == Init => TypeOK
<1> SUFFICES ASSUME Init PROVE TypeOK
  OBVIOUS
<1>1. /\ works \in [Branch -> Seq(Result)]
      /\ gates \in [Branch -> {"none", "green", "red"}]
  BY DEF Init
<1>2. scans \in [Branch -> [verdict : {"none", "clean", "stray"}, in : Nat]]
  BY DEF Init
<1>3. /\ pc \in [Branch -> Pc] /\ link \in [Branch -> Nat]
      /\ cap \in [Branch -> Nat] /\ strayIn \in [Branch -> Nat]
  BY DEF Init, Pc
<1>4. before \in [Branch -> Manifest]
  BY NoManifestType DEF Init
<1>5. /\ row \in [Branch -> {"none", "work-failed", "failed", "passed"}]
      /\ tally \in [Branch -> {"none", "work-failed", "failed", "passed"}]
  BY DEF Init
<1> QED BY <1>1, <1>2, <1>3, <1>4, <1>5, NoManifestType DEF Init, TypeOK

-----------------------------------------------------------------------------
(* What a step does to the disk.                                           *)

LEMMA EnsureFacts ==
  ASSUME NEW b \in Branch, disk \in Manifest
  PROVE  /\ EnsureWorktree(b) \in Manifest
         /\ EnsureWorktree(b)[Loose] = disk[Loose]
         /\ \A c \in Branch \ {b} : EnsureWorktree(b)[Wt(c)] = disk[Wt(c)]
         /\ disk[Wt(b)] # 0 => EnsureWorktree(b)[Wt(b)] = disk[Wt(b)]
         /\ disk[Wt(b)] = 0 => EnsureWorktree(b)[Wt(b)] = Whole
BY PlaceFacts DEF EnsureWorktree, Manifest, Whole

LEMMA PartFacts ==
  ASSUME NEW b \in Branch, disk \in Manifest
  PROVE  /\ PartClone(b) \in Manifest
         /\ PartClone(b)[Loose] = disk[Loose]
         /\ \A c \in Branch : PartClone(b)[Wt(c)] = disk[Wt(c)]
BY PlaceFacts DEF PartClone, Manifest, Half

LEMMA AstrayFacts ==
  ASSUME NEW b \in Branch, TypeOK, WroteAstray(b)
  PROVE  /\ disk' \in Manifest
         /\ disk'[Loose] = disk[Loose] + 1
         /\ \A c \in Branch : disk'[Wt(c)] = disk[Wt(c)]
         /\ strayIn' \in [Branch -> Nat]
         /\ strayIn'[b] = launch
         /\ \A c \in Branch \ {b} : strayIn'[c] = strayIn[c]
BY PlaceFacts DEF WroteAstray, TypeOK, Manifest

LEMMA CapFacts ==
  ASSUME TypeOK, HasHeadroom
  PROVE  /\ CapToHeadroom \in Nat \ {0}
         /\ CapToHeadroom <= NodeCap
         /\ CapToHeadroom <= Ceiling - charged
BY FleetAssumption DEF CapToHeadroom, HasHeadroom, TypeOK

-----------------------------------------------------------------------------
(* Types.                                                                  *)

LEMMA AfterType ==
  ASSUME NEW b \in Branch, NEW status \in {"done", "failed", "needs_continuation"}, TypeOK,
         After(b, status)
  PROVE  /\ pc' \in [Branch -> Pc]
         /\ link' \in [Branch -> Nat]
         /\ row' \in [Branch -> {"none", "work-failed", "failed", "passed"}]
<1>1. CASE status = "done"
  BY <1>1 DEF After, TypeOK, Pc
<1>2. CASE status = "failed"
  BY <1>2 DEF After, Leave, TypeOK, Pc
<1>3. CASE status = "needs_continuation"
  <2>1. /\ pc' = [pc EXCEPT ![b] = "work"]
        /\ link' = [link EXCEPT ![b] = @ + 1]
        /\ row' = row
    BY <1>3 DEF After
  <2> QED BY <2>1 DEF TypeOK, Pc
<1> QED BY <1>1, <1>2, <1>3

LEMMA EndsType == Ends => /\ pc' \in [Branch -> Pc] /\ link' \in [Branch -> Nat]
                          /\ before' \in [Branch -> Manifest] /\ cap' \in [Branch -> Nat]
                          /\ charged' \in Nat /\ fresh' \in Nat /\ declared' \subseteq Branch
                          /\ row' \in [Branch -> {"none", "work-failed", "failed", "passed"}]
                          /\ up' \in BOOLEAN
<1>1. Ends => pc' \in [Branch -> Pc] /\ link' \in [Branch -> Nat] /\ cap' \in [Branch -> Nat]
  BY DEF Ends, Pc
<1>2. Ends => before' \in [Branch -> Manifest]
  BY NoManifestType DEF Ends
<1>3. Ends => row' \in [Branch -> {"none", "work-failed", "failed", "passed"}]
  BY DEF Ends
<1>4. Ends => charged' \in Nat /\ fresh' \in Nat
  BY DEF Ends
<1>5. Ends => declared' \subseteq Branch
  BY DEF Ends
<1>6. Ends => up' \in BOOLEAN
  BY Zenon DEF Ends
<1> QED BY <1>1, <1>2, <1>3, <1>4, <1>5, <1>6

LEMMA TypeStep == TypeOK /\ [Next]_vars => TypeOK'
<1> SUFFICES ASSUME TypeOK, [Next]_vars PROVE TypeOK'
  OBVIOUS
<1> USE FleetAssumption DEF journalVars, launchVars
<1>1. CASE Launch
  BY <1>1 DEF Launch, TypeOK
<1>2. CASE Crash
  BY <1>2, EndsType DEF Crash, TypeOK
<1>3. CASE TallyRows
  BY <1>3, EndsType DEF TallyRows, TypeOK, RowOf
<1>4. ASSUME NEW b \in Branch, Begin(b) PROVE TypeOK'
  BY <1>4, EnsureFacts DEF Begin, TypeOK, Pc
<1>5. ASSUME NEW b \in Branch, CloneFails(b) PROVE TypeOK'
  BY <1>5, PartFacts DEF CloneFails, Leave, TypeOK, Pc
<1>6. ASSUME NEW b \in Branch, CrashInClone(b) PROVE TypeOK'
  BY <1>6, PartFacts, EndsType DEF CrashInClone, TypeOK
<1>7. ASSUME NEW b \in Branch, ServeWork(b) PROVE TypeOK'
  <2>1. works[b][link[b] + 1] \in Result
    BY <1>7 DEF ServeWork, InJournal, TypeOK
  <2>2. charged' \in Nat
    BY <1>7, <2>1 DEF ServeWork, Result, TypeOK
  <2>3. After(b, works[b][link[b] + 1].status)
    BY <1>7 DEF ServeWork
  <2>4. works[b][link[b] + 1].status \in {"done", "failed", "needs_continuation"}
    BY <2>1 DEF Result
  <2> QED BY <1>7, <2>2, <2>3, <2>4, AfterType DEF ServeWork, TypeOK
<1>8. ASSUME NEW b \in Branch, RefuseWork(b) PROVE TypeOK'
  <2>1. Append(works[b], [status |-> "failed", spent |-> 0]) \in Seq(Result)
    BY DEF TypeOK, Result
  <2> QED BY <1>8, <2>1, AfterType DEF RefuseWork, TypeOK
<1>9. ASSUME NEW b \in Branch, StartSession(b) PROVE TypeOK'
  BY <1>9, CapFacts DEF StartSession, TypeOK, Pc
<1>10. ASSUME NEW b \in Branch, SessionWrites(b) PROVE TypeOK'
  BY <1>10, PlaceFacts DEF SessionWrites, TypeOK, Manifest, Worked
<1>11. ASSUME NEW b \in Branch, SessionStrays(b) PROVE TypeOK'
  BY <1>11, AstrayFacts DEF SessionStrays, TypeOK
<1>12. ASSUME NEW b \in Branch, SessionEnds(b) PROVE TypeOK'
  <2>1. PICK spent \in {s \in Reports : s <= cap[b] + Excess}, status \in {"done", "failed", "needs_continuation"} :
          /\ works' = [works EXCEPT ![b] = Append(@, [status |-> status, spent |-> spent])]
          /\ charged' = charged + spent
          /\ fresh' = fresh + spent
          /\ After(b, status)
    BY <1>12 DEF SessionEnds
  <2>2. spent \in Nat
    BY FleetAssumption
  <2>3. Append(works[b], [status |-> status, spent |-> spent]) \in Seq(Result)
    BY <2>2 DEF TypeOK, Result
  <2>4. works' \in [Branch -> Seq(Result)]
    BY <2>1, <2>3 DEF TypeOK
  <2>5. charged' \in Nat /\ fresh' \in Nat
    BY <2>1, <2>2 DEF TypeOK
  <2>6. /\ pc' \in [Branch -> Pc] /\ link' \in [Branch -> Nat]
        /\ row' \in [Branch -> {"none", "work-failed", "failed", "passed"}]
    BY <2>1, AfterType
  <2> QED BY <1>12, <2>4, <2>5, <2>6 DEF SessionEnds, TypeOK
<1>13. ASSUME NEW b \in Branch, ProviderRefuses(b) PROVE TypeOK'
  BY <1>13 DEF ProviderRefuses, Leave, TypeOK, Pc
<1>14. ASSUME NEW b \in Branch, ServeGate(b) PROVE TypeOK'
  BY <1>14 DEF ServeGate, TypeOK, Pc
<1>15. ASSUME NEW b \in Branch, RunGate(b) PROVE TypeOK'
  <2>1. disk' \in Manifest /\ strayIn' \in [Branch -> Nat]
    BY <1>15, AstrayFacts DEF RunGate, TypeOK
  <2>2. gates' \in [Branch -> {"none", "green", "red"}]
    BY <1>15 DEF RunGate, TypeOK
  <2> QED BY <1>15, <2>1, <2>2 DEF RunGate, TypeOK, Pc
<1>16. ASSUME NEW b \in Branch, Scan(b) PROVE TypeOK'
  BY <1>16 DEF Scan, Leave, TypeOK, Pc
<1>17. CASE UNCHANGED vars
  BY <1>17 DEF vars, TypeOK
<1> QED
  BY <1>1, <1>2, <1>3, <1>4, <1>5, <1>6, <1>7, <1>8, <1>9, <1>10, <1>11, <1>12, <1>13, <1>14,
     <1>15, <1>16, <1>17 DEF Next

\* Every variable keeps its type.
THEOREM TypeCorrect == Spec => []TypeOK
BY TypeInit, TypeStep, PTL DEF Spec

-----------------------------------------------------------------------------
(* The invariant behind the scan's promises and the whole clone.           *)

\* Only a running coordinator has branches, and they declared their write sets.
BranchesRun ==
  /\ up => launch > 0
  /\ \A b \in Branch : pc[b] # "queued" => up
  /\ \A b \in Branch : pc[b] \in Working => b \in declared

\* A clone is renamed into place whole, so a worktree that exists is one.
ClonesAreWhole ==
  \A b \in Branch :
    /\ disk[Wt(b)] # Half
    /\ pc[b] \in Working => disk[Wt(b)] # 0

\* Since a branch took its manifest only declared worktrees changed, and the
\* loose files are as they were only if nobody, and so not b, wrote them.
WindowIsHonest(b) ==
  /\ before[b][Loose] <= disk[Loose]
  /\ \A c \in Branch \ declared : before[b][Wt(c)] = disk[Wt(c)]
  /\ strayIn[b] = launch => before[b][Loose] < disk[Loose]

\* A branch whose scan this launch took is out, and one still queued has
\* not written anything.
ScansCloseWindows ==
  \A b \in Branch :
    /\ strayIn[b] <= launch /\ scans[b].in <= launch
    /\ up /\ scans[b].in = launch => pc[b] = "out"
    /\ up /\ pc[b] = "queued" => strayIn[b] < launch

FleetInv ==
  /\ TypeOK
  /\ BranchesRun
  /\ ClonesAreWhole
  /\ \A b \in Branch : pc[b] \in Working => WindowIsHonest(b)
  /\ ScansCloseWindows
  /\ NoFalseStray
  /\ StrayIsCaught

LEMMA FleetInit == Init => FleetInv
<1> SUFFICES ASSUME Init PROVE FleetInv
  OBVIOUS
<1>1. \A p \in Place : disk[p] = 0
  BY DEF Init, NoManifest
<1>2. \A b \in Branch : pc[b] = "queued" /\ scans[b].verdict = "none" /\ scans[b].in = 0 /\ strayIn[b] = 0
  BY DEF Init
<1> QED
  BY <1>1, <1>2, TypeInit, PlaceFacts
  DEF Init, FleetInv, BranchesRun, ClonesAreWhole, ScansCloseWindows, NoFalseStray, StrayIsCaught,
      Working, Half

\* The end of a launch: nothing runs, so nothing is claimed of a window.
LEMMA EndsStep ==
  ASSUME FleetInv, TypeOK', Ends, UNCHANGED <<launch, scans, strayIn>>,
         disk'[Loose] = disk[Loose], \A c \in Branch : disk'[Wt(c)] = disk[Wt(c)]
  PROVE  FleetInv'
<1>1. up' = FALSE /\ \A b \in Branch : pc'[b] = "queued"
  BY DEF Ends
<1> QED
  BY <1>1 DEF FleetInv, BranchesRun, ClonesAreWhole, ScansCloseWindows, NoFalseStray, StrayIsCaught, Working

\* A step of one branch that leaves disk, manifests and scans alone.
LEMMA MoveStep ==
  ASSUME FleetInv, TypeOK', NEW b \in Branch,
         UNCHANGED <<launch, up, disk, scans, before, strayIn>>,
         declared \subseteq declared',
         \A c \in Branch \ {b} : pc'[c] = pc[c],
         pc[b] \in Working, pc'[b] \in Working \cup {"out"}
  PROVE  FleetInv'
<1>1. BranchesRun' /\ ClonesAreWhole'
  BY DEF FleetInv, BranchesRun, ClonesAreWhole, Working
<1>2. \A c \in Branch : pc'[c] \in Working => WindowIsHonest(c)'
  BY DEF FleetInv, WindowIsHonest, Working
<1>3. ScansCloseWindows' /\ NoFalseStray' /\ StrayIsCaught'
  BY DEF FleetInv, ScansCloseWindows, NoFalseStray, StrayIsCaught, Working, BranchesRun
<1> QED BY <1>1, <1>2, <1>3 DEF FleetInv

\* A write nobody declared, made while b works and has taken its manifest.
LEMMA AstrayStep ==
  ASSUME FleetInv, TypeOK', NEW b \in Branch, WroteAstray(b),
         UNCHANGED <<launch, up, scans, before, declared>>,
         \A c \in Branch \ {b} : pc'[c] = pc[c],
         pc[b] \in Working, pc'[b] \in Working
  PROVE  FleetInv'
<1>1. /\ disk'[Loose] = disk[Loose] + 1
      /\ \A c \in Branch : disk'[Wt(c)] = disk[Wt(c)]
      /\ strayIn'[b] = launch
      /\ \A c \in Branch \ {b} : strayIn'[c] = strayIn[c]
  BY AstrayFacts DEF FleetInv
<1>2. disk[Loose] \in Nat
  BY PlaceFacts DEF FleetInv, TypeOK, Manifest
<1>3. BranchesRun' /\ ClonesAreWhole'
  BY <1>1 DEF FleetInv, BranchesRun, ClonesAreWhole, Working
<1>4. ASSUME NEW c \in Branch, pc'[c] \in Working PROVE WindowIsHonest(c)'
  <2>1. WindowIsHonest(c)
    BY <1>4 DEF FleetInv
  <2>2. before[c][Loose] \in Nat
    BY PlaceFacts DEF FleetInv, TypeOK, Manifest
  <2> QED BY <1>1, <1>2, <2>1, <2>2 DEF WindowIsHonest
<1>5. ScansCloseWindows' /\ NoFalseStray' /\ StrayIsCaught'
  <2>1. up /\ scans[b].in # launch
    BY DEF FleetInv, BranchesRun, ScansCloseWindows, Working
  <2>2. StrayIsCaught'
    BY <1>1, <2>1 DEF FleetInv, StrayIsCaught
  <2>3. NoFalseStray'
    BY <1>1, <1>2 DEF NoFalseStray
  <2>4. ScansCloseWindows'
    <3>1. pc'[b] # "queued" /\ launch <= launch
      BY DEF Working, FleetInv, TypeOK
    <3>2. strayIn'[b] <= launch' /\ (up' /\ pc'[b] = "queued" => strayIn'[b] < launch')
      BY <1>1, <3>1
    <3>3. scans'[b].in <= launch' /\ (up' /\ scans'[b].in = launch' => pc'[b] = "out")
      BY <2>1 DEF FleetInv, ScansCloseWindows
    <3> QED BY <1>1, <3>2, <3>3 DEF FleetInv, ScansCloseWindows
  <2> QED BY <2>2, <2>3, <2>4
<1> QED BY <1>3, <1>4, <1>5 DEF FleetInv

LEMMA LaunchStep == ASSUME FleetInv, TypeOK', Launch PROVE FleetInv'
<1>1. /\ \A b \in Branch : pc'[b] = "queued"
      /\ launch' = launch + 1 /\ launch \in Nat
      /\ UNCHANGED <<disk, scans, strayIn>>
  BY DEF Launch, FleetInv, BranchesRun, TypeOK, journalVars, launchVars
<1>2. BranchesRun'
  BY <1>1 DEF BranchesRun, Working
<1>3. ScansCloseWindows'
  BY <1>1 DEF FleetInv, ScansCloseWindows, TypeOK
<1> QED
  BY <1>1, <1>2, <1>3 DEF FleetInv, ClonesAreWhole, NoFalseStray, StrayIsCaught, Working

LEMMA BeginStep == ASSUME FleetInv, TypeOK', NEW b \in Branch, Begin(b) PROVE FleetInv'
<1>1. /\ disk' = EnsureWorktree(b)
      /\ before' = [before EXCEPT ![b] = disk']
      /\ declared' = declared \cup {b}
      /\ pc' = [pc EXCEPT ![b] = "work"]
      /\ pc[b] = "queued" /\ up
      /\ UNCHANGED <<launch, up, scans, strayIn>>
  BY DEF Begin, Admitted, LoopFree, journalVars
<1>2. /\ disk'[Loose] = disk[Loose]
      /\ \A c \in Branch \ {b} : disk'[Wt(c)] = disk[Wt(c)]
      /\ disk'[Wt(b)] = IF disk[Wt(b)] = 0 THEN Whole ELSE disk[Wt(b)]
  BY <1>1, EnsureFacts DEF FleetInv, TypeOK
<1>3. /\ pc'[b] = "work" /\ \A c \in Branch \ {b} : pc'[c] = pc[c]
      /\ before'[b] = disk' /\ \A c \in Branch \ {b} : before'[c] = before[c]
  BY <1>1 DEF FleetInv, TypeOK
<1>4. BranchesRun'
  BY <1>1, <1>3 DEF FleetInv, BranchesRun, Working
<1>5. ClonesAreWhole'
  BY <1>2, <1>3 DEF FleetInv, ClonesAreWhole, Working, Half, Whole
<1>6. ASSUME NEW c \in Branch, pc'[c] \in Working PROVE WindowIsHonest(c)'
  <2>1. CASE c = b
    <3>1. strayIn[b] # launch
      BY <1>1 DEF FleetInv, ScansCloseWindows, TypeOK
    <3>2. disk'[Loose] \in Nat
      BY PlaceFacts DEF TypeOK, Manifest
    <3> QED BY <1>1, <1>3, <2>1, <3>1, <3>2 DEF WindowIsHonest
  <2>2. CASE c # b
    BY <1>1, <1>2, <1>3, <1>6, <2>2 DEF FleetInv, WindowIsHonest
  <2> QED BY <2>1, <2>2
<1>7. ScansCloseWindows'
  BY <1>1, <1>3 DEF FleetInv, ScansCloseWindows
<1>8. NoFalseStray' /\ StrayIsCaught'
  BY <1>1, <1>2 DEF FleetInv, NoFalseStray, StrayIsCaught
<1> QED BY <1>4, <1>5, <1>6, <1>7, <1>8 DEF FleetInv

LEMMA CloneFailsStep == ASSUME FleetInv, TypeOK', NEW b \in Branch, CloneFails(b) PROVE FleetInv'
<1>1. /\ pc' = [pc EXCEPT ![b] = "out"] /\ pc[b] = "queued" /\ up
      /\ UNCHANGED <<launch, up, scans, before, declared, strayIn>>
  BY DEF CloneFails, Admitted, LoopFree, Leave, journalVars
<1>2. disk'[Loose] = disk[Loose] /\ \A c \in Branch : disk'[Wt(c)] = disk[Wt(c)]
  BY PartFacts DEF CloneFails, FleetInv, TypeOK
<1>3. pc'[b] = "out" /\ \A c \in Branch \ {b} : pc'[c] = pc[c]
  BY <1>1 DEF FleetInv, TypeOK
<1>4. BranchesRun' /\ ClonesAreWhole'
  BY <1>1, <1>2, <1>3 DEF FleetInv, BranchesRun, ClonesAreWhole, Working
<1>5. \A c \in Branch : pc'[c] \in Working => WindowIsHonest(c)'
  BY <1>1, <1>2, <1>3 DEF FleetInv, WindowIsHonest, Working
<1>6. ScansCloseWindows' /\ NoFalseStray' /\ StrayIsCaught'
  BY <1>1, <1>2, <1>3 DEF FleetInv, ScansCloseWindows, NoFalseStray, StrayIsCaught
<1> QED BY <1>4, <1>5, <1>6 DEF FleetInv

LEMMA WriteStep == ASSUME FleetInv, TypeOK', NEW b \in Branch, SessionWrites(b) PROVE FleetInv'
<1>1. /\ pc[b] \in Working /\ b \in declared
      /\ UNCHANGED <<launch, up, scans, pc, before, declared, strayIn>>
  BY DEF SessionWrites, InSession, FleetInv, BranchesRun, Working, journalVars, launchVars
<1>2. /\ disk'[Loose] = disk[Loose]
      /\ disk'[Wt(b)] = Worked
      /\ \A c \in Branch \ {b} : disk'[Wt(c)] = disk[Wt(c)]
  BY PlaceFacts DEF SessionWrites, FleetInv, TypeOK, Manifest
<1>3. BranchesRun' /\ ClonesAreWhole'
  BY <1>1, <1>2 DEF FleetInv, BranchesRun, ClonesAreWhole, Half, Worked
<1>4. \A c \in Branch : pc'[c] \in Working => WindowIsHonest(c)'
  BY <1>1, <1>2 DEF FleetInv, WindowIsHonest
<1>5. ScansCloseWindows' /\ NoFalseStray' /\ StrayIsCaught'
  BY <1>1, <1>2 DEF FleetInv, ScansCloseWindows, NoFalseStray, StrayIsCaught
<1> QED BY <1>3, <1>4, <1>5 DEF FleetInv

\* The step the promises are about: the window is closed and judged.
LEMMA ScanStep == ASSUME FleetInv, TypeOK', NEW b \in Branch, Scan(b) PROVE FleetInv'
<1>1. /\ pc' = [pc EXCEPT ![b] = "out"] /\ pc[b] = "scan" /\ up
      /\ UNCHANGED <<launch, up, disk, before, declared, strayIn>>
  BY DEF Scan, Leave
<1>2. pc'[b] = "out" /\ \A c \in Branch \ {b} : pc'[c] = pc[c] /\ scans'[c] = scans[c]
  BY <1>1 DEF Scan, FleetInv, TypeOK
<1>3. scans'[b] = IF scans[b].verdict # "none" THEN scans[b]
                  ELSE [verdict |-> IF Stray(b) = {} THEN "clean" ELSE "stray", in |-> launch]
  BY DEF Scan, FleetInv, TypeOK
<1>4. WindowIsHonest(b) /\ b \in declared
  BY <1>1 DEF FleetInv, BranchesRun, Working
<1>5. disk[Loose] \in Nat /\ before[b][Loose] \in Nat
  BY PlaceFacts DEF FleetInv, TypeOK, Manifest
<1>6. strayIn[b] = launch => Stray(b) # {}
  <2>1. Loose \notin ScanAllowed(b)
    BY PlaceFacts, <1>4 DEF ScanAllowed, FleetInv, TypeOK
  <2>2. strayIn[b] = launch => before[b][Loose] # disk[Loose]
    BY <1>4, <1>5 DEF WindowIsHonest
  <2> QED BY <2>1, <2>2, PlaceFacts DEF Stray, Watched
<1>7. Stray(b) # {} => disk[Loose] > 0
  <2> SUFFICES ASSUME NEW p \in Stray(b), disk[Loose] = 0 PROVE FALSE
    BY <1>5
  <2>1. p \in Place /\ before[b][p] # disk[p] /\ p \notin ScanAllowed(b)
    BY DEF Stray, Watched
  <2>2. p # Loose
    BY <1>4, <1>5, <2>1 DEF WindowIsHonest
  <2>3. PICK c \in Branch : p = Wt(c) \/ p = Staging(c)
    BY <2>1, <2>2 DEF Place, Wt, Staging, Loose
  <2>4. c \notin declared /\ p = Wt(c)
    BY <2>1, <2>3 DEF ScanAllowed
  <2> QED BY <1>4, <2>1, <2>4 DEF WindowIsHonest
<1>8. BranchesRun' /\ ClonesAreWhole'
  BY <1>1, <1>2 DEF FleetInv, BranchesRun, ClonesAreWhole, Working
<1>9. \A c \in Branch : pc'[c] \in Working => WindowIsHonest(c)'
  BY <1>1, <1>2 DEF FleetInv, WindowIsHonest, Working
<1>10. ScansCloseWindows'
  <2>1. launch <= launch
    BY DEF FleetInv, TypeOK
  <2>2. scans'[b].in <= launch
    BY <1>3, <2>1 DEF FleetInv, ScansCloseWindows
  <2> QED BY <1>1, <1>2, <2>2 DEF FleetInv, ScansCloseWindows
<1>11. NoFalseStray'
  BY <1>1, <1>2, <1>3, <1>7 DEF FleetInv, NoFalseStray
<1>12. StrayIsCaught'
  BY <1>1, <1>2, <1>3, <1>6 DEF FleetInv, StrayIsCaught
<1> QED BY <1>8, <1>9, <1>10, <1>11, <1>12 DEF FleetInv

\* Where a work node's result sends its branch.
LEMMA AfterMoves ==
  ASSUME TypeOK, NEW b \in Branch, NEW status \in {"done", "failed", "needs_continuation"},
         After(b, status)
  PROVE  /\ pc'[b] \in {"gate", "out", "work"}
         /\ \A c \in Branch \ {b} : pc'[c] = pc[c]
<1>1. CASE status = "done"
  BY <1>1 DEF After, TypeOK
<1>2. CASE status = "failed"
  BY <1>2 DEF After, Leave, TypeOK
<1>3. CASE status = "needs_continuation"
  <2>1. pc' = [pc EXCEPT ![b] = "work"]
    BY <1>3 DEF After
  <2> QED BY <2>1 DEF TypeOK
<1> QED BY <1>1, <1>2, <1>3

LEMMA ServedStatus ==
  ASSUME TypeOK, NEW b \in Branch, ServeWork(b)
  PROVE  /\ works[b][link[b] + 1].status \in {"done", "failed", "needs_continuation"}
         /\ works[b][link[b] + 1].spent \in Nat
         /\ After(b, works[b][link[b] + 1].status)
<1>1. works[b][link[b] + 1] \in Result
  BY DEF ServeWork, InJournal, TypeOK
<1> QED BY <1>1 DEF ServeWork, Result

LEMMA FleetStep == FleetInv /\ [Next]_vars => FleetInv'
<1> SUFFICES ASSUME FleetInv, [Next]_vars PROVE FleetInv'
  OBVIOUS
<1>0. TypeOK /\ TypeOK'
  BY TypeStep DEF FleetInv
<1>1. CASE Launch
  BY <1>0, <1>1, LaunchStep
<1>2. CASE Crash
  BY <1>0, <1>2, EndsStep DEF Crash, journalVars
<1>3. CASE TallyRows
  BY <1>0, <1>3, EndsStep DEF TallyRows, journalVars
<1>4. ASSUME NEW b \in Branch, Begin(b) PROVE FleetInv'
  BY <1>0, <1>4, BeginStep
<1>5. ASSUME NEW b \in Branch, CloneFails(b) PROVE FleetInv'
  BY <1>0, <1>5, CloneFailsStep
<1>6. ASSUME NEW b \in Branch, CrashInClone(b) PROVE FleetInv'
  BY <1>0, <1>6, EndsStep, PartFacts DEF CrashInClone, journalVars, TypeOK
<1>7. ASSUME NEW b \in Branch, ServeWork(b) PROVE FleetInv'
  BY <1>0, <1>7, ServedStatus, AfterMoves, MoveStep DEF ServeWork, AtWork, journalVars, Working
<1>8. ASSUME NEW b \in Branch, RefuseWork(b) PROVE FleetInv'
  BY <1>0, <1>8, AfterMoves, MoveStep DEF RefuseWork, AtWork, Working
<1>9. ASSUME NEW b \in Branch, StartSession(b) PROVE FleetInv'
  BY <1>0, <1>9, MoveStep DEF StartSession, AtWork, Working, TypeOK
<1>10. ASSUME NEW b \in Branch, SessionWrites(b) PROVE FleetInv'
  BY <1>0, <1>10, WriteStep
<1>11. ASSUME NEW b \in Branch, SessionStrays(b) PROVE FleetInv'
  BY <1>0, <1>11, AstrayStep DEF SessionStrays, InSession, Working, journalVars, launchVars
<1>12. ASSUME NEW b \in Branch, SessionEnds(b) PROVE FleetInv'
  BY <1>0, <1>12, AfterMoves, MoveStep DEF SessionEnds, InSession, Working
<1>13. ASSUME NEW b \in Branch, ProviderRefuses(b) PROVE FleetInv'
  BY <1>0, <1>13, MoveStep DEF ProviderRefuses, Leave, InSession, Working, journalVars, TypeOK
<1>14. ASSUME NEW b \in Branch, ServeGate(b) PROVE FleetInv'
  BY <1>0, <1>14, MoveStep DEF ServeGate, AtGate, Working, journalVars, TypeOK
<1>15. ASSUME NEW b \in Branch, RunGate(b) PROVE FleetInv'
  <2>1. /\ UNCHANGED <<launch, up, scans, before, declared>>
        /\ \A c \in Branch \ {b} : pc'[c] = pc[c]
        /\ pc[b] \in Working /\ pc'[b] \in Working
    BY <1>0, <1>15 DEF RunGate, AtGate, Working, TypeOK
  <2>2. CASE WroteAstray(b)
    BY <1>0, <2>1, <2>2, AstrayStep
  <2>3. CASE UNCHANGED <<disk, strayIn>>
    BY <1>0, <2>1, <2>3, MoveStep
  <2> QED BY <1>15, <2>2, <2>3 DEF RunGate
<1>16. ASSUME NEW b \in Branch, Scan(b) PROVE FleetInv'
  BY <1>0, <1>16, ScanStep
<1>17. CASE UNCHANGED vars
  BY <1>17 DEF FleetInv, TypeOK, BranchesRun, ClonesAreWhole, WindowIsHonest, ScansCloseWindows,
               NoFalseStray, StrayIsCaught, vars, journalVars, launchVars
<1> QED
  BY <1>1, <1>2, <1>3, <1>4, <1>5, <1>6, <1>7, <1>8, <1>9, <1>10, <1>11, <1>12, <1>13, <1>14,
     <1>15, <1>16, <1>17 DEF Next

LEMMA FleetInvariant == Spec => []FleetInv
BY FleetInit, FleetStep, PTL DEF Spec

\* No branch is ever failed for what a sibling, the coordinator's own clones or
\* an earlier launch did to the run root (context.py scan).
THEOREM OnlyStrayIsStray == Spec => []NoFalseStray
BY FleetInvariant, PTL DEF FleetInv

\* A scan taken in the launch in which its branch wrote astray says so
\* (context.py scan).
THEOREM StraysAreCaught == Spec => []StrayIsCaught
BY FleetInvariant, PTL DEF FleetInv

\* Sessions, gates and scans only ever see a finished clone
\* (graph_a.py _ensure_worktree).
THEOREM ClonesAreFinished == Spec => []WorksInAWholeClone
<1>1. FleetInv => WorksInAWholeClone
  <2> SUFFICES ASSUME FleetInv, NEW b \in Branch, pc[b] \in Working PROVE disk[Wt(b)] >= Whole
    BY DEF WorksInAWholeClone, Working
  <2>1. disk[Wt(b)] \in Nat
    BY PlaceFacts DEF FleetInv, TypeOK, Manifest
  <2>2. disk[Wt(b)] # 0 /\ disk[Wt(b)] # 1
    BY DEF FleetInv, ClonesAreWhole, Half
  <2> QED BY <2>1, <2>2 DEF Whole
<1> QED BY <1>1, FleetInvariant, PTL

-----------------------------------------------------------------------------
(* What a launch spends.  The session that starts last is held to what the *)
(* row has left; of the others at most one per other slot is running, and  *)
(* each of those may still spend its whole budget and a handover's excess. *)

Sessions == {b \in Branch : pc[b] = "session"}

PerSession == NodeCap + Excess

\* What the sessions that run may still add when none is the latest, and
\* when l is.
RoomWithout == fresh + Cardinality(Sessions) * PerSession
                 <= Ceiling + (Parallel - 1) * PerSession + Excess
RoomWith(l) == fresh + cap[l] + (Cardinality(Sessions) - 1) * PerSession
                 <= Ceiling + (Parallel - 1) * PerSession

SpendInv ==
  /\ Cardinality(Slots) <= Parallel
  /\ fresh <= charged
  /\ \A b \in Sessions : cap[b] <= NodeCap
  /\ RoomWithout \/ \E l \in Sessions : RoomWith(l)

LEMMA Counting ==
  /\ IsFiniteSet(Branch)
  /\ \A S \in SUBSET Branch : IsFiniteSet(S) /\ Cardinality(S) \in Nat
<1>1. IsFiniteSet(Branch)
  BY FS_Interval, FleetAssumption DEF Branch
<1> QED BY <1>1, FS_Subset, FS_CardinalityType

LEMMA Times ==
  /\ \A k, w \in Int : (k - 1) * w = k * w - w
  /\ \A k, w \in Nat : k * w \in Nat
  /\ \A k, m, w \in Nat : k <= m => k * w <= m * w
<1>1. \A k, w \in Int : (k - 1) * w = k * w - w
  OBVIOUS
<1>2. \A k, w \in Nat : k * w \in Nat
  OBVIOUS
<1>3. ASSUME NEW k \in Nat, NEW m \in Nat, NEW w \in Nat, k <= m PROVE k * w <= m * w
  <2>1. m * w = k * w + (m - k) * w
    OBVIOUS
  <2>2. (m - k) * w \in Nat
    BY <1>2, <1>3
  <2>3. k * w \in Nat
    BY <1>2
  <2> QED BY <2>1, <2>2, <2>3
<1> QED BY <1>1, <1>2, <1>3

LEMMA ExcessFacts == Excess \in Nat
BY FleetAssumption DEF Excess, HANDOVER_GRACE_TURNS

LEMMA BoundFacts ==
  /\ PerSession \in Nat /\ Excess \in Nat
  /\ (Parallel - 1) * PerSession \in Nat
  /\ Ceiling + (Parallel - 1) * PerSession + Excess
       = Ceiling + (Parallel - 1) * NodeCap + Parallel * Excess
<1>1. PerSession \in Nat /\ Parallel - 1 \in Nat
  BY ExcessFacts, FleetAssumption DEF PerSession
<1>2. (Parallel - 1) * PerSession \in Nat
  BY <1>1, Times
<1>3. (Parallel - 1) * (NodeCap + Excess) = (Parallel - 1) * NodeCap + (Parallel - 1) * Excess
  BY ExcessFacts, FleetAssumption
<1>4. (Parallel - 1) * Excess = Parallel * Excess - Excess
  BY ExcessFacts, FleetAssumption, Times
<1>5. (Parallel - 1) * NodeCap \in Nat /\ Parallel * Excess \in Nat
  BY <1>1, ExcessFacts, FleetAssumption, Times
<1> QED BY <1>1, <1>2, <1>3, <1>4, <1>5, ExcessFacts, FleetAssumption DEF PerSession

LEMMA SpendInit == Init => SpendInv
<1> SUFFICES ASSUME Init PROVE SpendInv
  OBVIOUS
<1>1. Slots = {} /\ Sessions = {} /\ fresh = 0 /\ charged = 0
  BY DEF Init, Slots, Sessions
<1>2. Cardinality({}) = 0
  BY FS_EmptySet
<1>3. 0 * PerSession = 0
  BY BoundFacts
<1> QED BY <1>1, <1>2, <1>3, BoundFacts, FleetAssumption DEF SpendInv, RoomWithout

\* Steps that start and end no session.
LEMMA SpendKept ==
  ASSUME TypeOK, TypeOK', SpendInv, Slots' \subseteq Slots, Sessions' = Sessions,
         fresh' = fresh, cap' = cap, charged <= charged'
  PROVE  SpendInv'
<1>1. Cardinality(Slots') <= Cardinality(Slots) /\ Cardinality(Slots) \in Nat /\ Cardinality(Slots') \in Nat
  <2>1. Slots \in SUBSET Branch /\ Slots' \in SUBSET Branch
    BY DEF Slots
  <2>2. IsFiniteSet(Slots)
    BY <2>1, Counting
  <2> QED BY <2>1, <2>2, Counting, FS_Subset
<1>2. Cardinality(Slots') <= Parallel
  BY <1>1, FleetAssumption DEF SpendInv
<1>3. fresh' <= charged'
  BY DEF SpendInv, TypeOK
<1>4. (RoomWithout \/ \E l \in Sessions : RoomWith(l))'
  BY DEF SpendInv, RoomWithout, RoomWith
<1>5. (\A b \in Sessions : cap[b] <= NodeCap)'
  BY DEF SpendInv
<1> QED BY <1>2, <1>3, <1>4, <1>5 DEF SpendInv

LEMMA SpendEnds == TypeOK /\ SpendInv /\ Ends => SpendInv'
<1> SUFFICES ASSUME TypeOK, Ends PROVE SpendInv'
  OBVIOUS
<1>1. Slots' = {} /\ Sessions' = {} /\ fresh' = 0 /\ charged' = 0
  BY DEF Ends, Slots, Sessions
<1>2. Cardinality({}) = 0
  BY FS_EmptySet
<1>3. 0 * PerSession = 0
  BY BoundFacts
<1> QED BY <1>1, <1>2, <1>3, BoundFacts, FleetAssumption DEF SpendInv, RoomWithout

LEMMA SpendBegins ==
  ASSUME TypeOK, TypeOK', SpendInv, NEW b \in Branch, Begin(b) PROVE SpendInv'
<1>1. /\ pc' = [pc EXCEPT ![b] = "work"] /\ pc[b] = "queued"
      /\ UNCHANGED <<cap, charged, fresh>>
      /\ Cardinality(Slots) < Parallel
  BY DEF Begin, Admitted
<1>2. Slots' = Slots \cup {b} /\ Sessions' = Sessions
  BY <1>1 DEF Slots, Sessions, TypeOK
<1>3. Cardinality(Slots') <= Parallel
  <2>1. IsFiniteSet(Slots) /\ Cardinality(Slots) \in Nat
    BY Counting DEF Slots
  <2>2. Cardinality(Slots') <= Cardinality(Slots) + 1
    BY <1>2, <2>1, FS_AddElement
  <2>3. Cardinality(Slots') \in Nat
    BY Counting DEF Slots
  <2> QED BY <1>1, <2>1, <2>2, <2>3, FleetAssumption
<1> QED BY <1>1, <1>2, <1>3 DEF SpendInv, RoomWithout, RoomWith

\* The latest session is held to what the row has left.
LEMMA SpendStarts ==
  ASSUME TypeOK, TypeOK', SpendInv, NEW b \in Branch, StartSession(b) PROVE SpendInv'
<1>1. /\ pc' = [pc EXCEPT ![b] = "session"] /\ pc[b] = "work"
      /\ cap' = [cap EXCEPT ![b] = CapToHeadroom] /\ HasHeadroom
      /\ UNCHANGED <<charged, fresh>>
  BY DEF StartSession, AtWork
<1>2. Slots' = Slots /\ Sessions' = Sessions \cup {b} /\ b \notin Sessions
  <2>1. pc'[b] = "session" /\ \A c \in Branch \ {b} : pc'[c] = pc[c]
    BY <1>1 DEF TypeOK
  <2>2. Slots' = Slots
    BY <1>1, <2>1 DEF Slots
  <2>3. Sessions' = Sessions \cup {b}
    BY <2>1 DEF Sessions
  <2>4. b \notin Sessions
    BY <1>1 DEF Sessions
  <2> QED BY <2>2, <2>3, <2>4
<1>3. cap'[b] = CapToHeadroom /\ \A c \in Branch \ {b} : cap'[c] = cap[c]
  BY <1>1 DEF TypeOK
<1>4. cap'[b] <= NodeCap /\ cap'[b] <= Ceiling - charged /\ cap'[b] \in Nat
  BY <1>1, <1>3, CapFacts
<1> DEFINE k == Cardinality(Sessions)
<1>5. IsFiniteSet(Sessions) /\ k \in Nat
  BY Counting DEF Sessions
<1>6. Cardinality(Sessions') = k + 1
  BY <1>2, <1>5, FS_AddElement
<1>7. k <= Parallel - 1
  <2>1. IsFiniteSet(Slots) /\ Cardinality(Slots) \in Nat
    BY Counting DEF Slots
  <2>2. b \in Slots /\ Sessions \subseteq Slots \ {b}
    BY <1>1 DEF Slots, Sessions
  <2>3. IsFiniteSet(Slots \ {b}) /\ Cardinality(Slots \ {b}) = Cardinality(Slots) - 1
    BY <2>1, <2>2, FS_RemoveElement
  <2>4. k <= Cardinality(Slots \ {b})
    BY <2>2, <2>3, FS_Subset
  <2> QED BY <1>5, <2>1, <2>3, <2>4, FleetAssumption DEF SpendInv
<1>8. k * PerSession <= (Parallel - 1) * PerSession /\ k * PerSession \in Nat
  BY <1>5, <1>7, BoundFacts, Times, FleetAssumption
<1>9. RoomWith(b)'
  <2>1. (k + 1) - 1 = k
    BY <1>5
  <2>2. fresh' + cap'[b] <= Ceiling
    BY <1>1, <1>4, FleetAssumption DEF SpendInv, TypeOK
  <2>3. fresh' \in Nat
    BY DEF TypeOK
  <2> HIDE DEF k
  <2>4. fresh' + cap'[b] + k * PerSession <= Ceiling + (Parallel - 1) * PerSession
    BY <1>4, <1>8, <2>2, <2>3, BoundFacts, FleetAssumption
  <2> QED BY <1>6, <2>1, <2>4 DEF RoomWith
<1>10. (\A c \in Sessions : cap[c] <= NodeCap)'
  BY <1>2, <1>3, <1>4 DEF SpendInv, Sessions
<1> QED BY <1>1, <1>2, <1>9, <1>10 DEF SpendInv

\* A session that ends spent at most its cap and a handover's requests.
LEMMA SpendLeaves ==
  ASSUME TypeOK, TypeOK', SpendInv, NEW b \in Sessions, NEW spent \in Nat,
         spent <= cap[b] + Excess, fresh' = fresh + spent, charged' = charged + spent,
         cap' = cap, Slots' \subseteq Slots, Sessions' = Sessions \ {b}
  PROVE  SpendInv'
<1> DEFINE k == Cardinality(Sessions)
<1>1. IsFiniteSet(Sessions) /\ k \in Nat /\ b \in Branch
  BY Counting DEF Sessions
<1>2. Cardinality(Sessions') = k - 1
  BY <1>1, FS_RemoveElement
<1>3. Cardinality(Slots') <= Parallel
  <2>1. Slots \in SUBSET Branch /\ Slots' \in SUBSET Branch
    BY DEF Slots
  <2>2. Cardinality(Slots') <= Cardinality(Slots) /\ Cardinality(Slots) \in Nat /\ Cardinality(Slots') \in Nat
    BY <2>1, Counting, FS_Subset
  <2> QED BY <2>2, FleetAssumption DEF SpendInv
<1>4. fresh' <= charged' /\ fresh \in Nat /\ fresh' \in Nat
  BY DEF SpendInv, TypeOK
<1>5. cap[b] \in Nat /\ cap[b] <= NodeCap
  BY <1>1 DEF TypeOK, SpendInv
<1>6. spent <= PerSession
  BY <1>5, BoundFacts, FleetAssumption DEF PerSession
<1>7. (k - 1) * PerSession = k * PerSession - PerSession /\ k * PerSession \in Nat
  BY <1>1, BoundFacts, Times
<1>8. ((k - 1) - 1) * PerSession = k * PerSession - PerSession - PerSession
  <2>1. ((k - 1) - 1) * PerSession = (k - 1) * PerSession - PerSession
    BY <1>1, BoundFacts, Times
  <2> QED BY <1>7, <2>1
<1>9. (RoomWithout \/ \E l \in Sessions : RoomWith(l))'
  <2> HIDE DEF k
  <2>1. CASE fresh + k * PerSession <= Ceiling + (Parallel - 1) * PerSession + Excess
    <3>1. fresh' + (k - 1) * PerSession <= Ceiling + (Parallel - 1) * PerSession + Excess
      BY <1>4, <1>6, <1>7, <2>1, BoundFacts, FleetAssumption
    <3> QED BY <1>2, <3>1 DEF RoomWithout
  <2>2. CASE fresh + cap[b] + (k - 1) * PerSession <= Ceiling + (Parallel - 1) * PerSession
    <3>1. fresh' + (k - 1) * PerSession <= Ceiling + (Parallel - 1) * PerSession + Excess
      BY <1>4, <1>5, <1>7, <2>2, BoundFacts, FleetAssumption
    <3> QED BY <1>2, <3>1 DEF RoomWithout
  <2>3. ASSUME NEW l \in Sessions \ {b},
               fresh + cap[l] + (k - 1) * PerSession <= Ceiling + (Parallel - 1) * PerSession
        PROVE  RoomWith(l)'
    <3>1. cap[l] \in Nat
      BY DEF TypeOK, Sessions
    <3>2. fresh' + cap[l] + ((k - 1) - 1) * PerSession <= Ceiling + (Parallel - 1) * PerSession
      BY <1>4, <1>6, <1>7, <1>8, <2>3, <3>1, BoundFacts, FleetAssumption
    <3> QED BY <1>2, <3>2 DEF RoomWith
  <2> QED
    BY <2>1, <2>2, <2>3 DEF SpendInv, RoomWithout, RoomWith, k
<1>10. (\A c \in Sessions : cap[c] <= NodeCap)'
  BY DEF SpendInv
<1> QED BY <1>3, <1>4, <1>9, <1>10 DEF SpendInv

\* A branch that moves on without having been in a session, or into one.
LEMMA SpendMoves ==
  ASSUME TypeOK, TypeOK', SpendInv, NEW b \in Branch,
         \A c \in Branch \ {b} : pc'[c] = pc[c],
         pc[b] # "session", pc'[b] # "session",
         pc'[b] = "out" \/ pc[b] \notin {"queued", "out"},
         fresh' = fresh, cap' = cap, charged <= charged'
  PROVE  SpendInv'
<1>1. Slots' \subseteq Slots
  BY DEF Slots
<1>2. Sessions' = Sessions
  BY DEF Sessions
<1> QED BY <1>1, <1>2, SpendKept

LEMMA SpendSame ==
  ASSUME TypeOK, TypeOK', SpendInv, UNCHANGED <<pc, cap, charged, fresh>> PROVE SpendInv'
BY DEF SpendInv, RoomWithout, RoomWith, Slots, Sessions

LEMMA SpendStep == TypeOK /\ SpendInv /\ [Next]_vars => SpendInv'
<1> SUFFICES ASSUME TypeOK, SpendInv, [Next]_vars PROVE SpendInv'
  OBVIOUS
<1>0. TypeOK' /\ charged <= charged
  BY TypeStep DEF TypeOK
<1>1. CASE Launch
  BY <1>0, <1>1, SpendSame DEF Launch, launchVars
<1>2. CASE Crash
  BY <1>2, SpendEnds DEF Crash
<1>3. CASE TallyRows
  BY <1>3, SpendEnds DEF TallyRows
<1>4. ASSUME NEW b \in Branch, Begin(b) PROVE SpendInv'
  BY <1>0, <1>4, SpendBegins
<1>5. ASSUME NEW b \in Branch, CloneFails(b) PROVE SpendInv'
  <2>1. pc[b] = "queued" /\ charged' = charged /\ fresh' = fresh /\ cap' = cap
    BY <1>5 DEF CloneFails, Admitted
  <2>2. pc'[b] = "out" /\ \A c \in Branch \ {b} : pc'[c] = pc[c]
    BY <1>5 DEF CloneFails, Leave, TypeOK
  <2> QED BY <1>0, <2>1, <2>2, SpendMoves
<1>6. ASSUME NEW b \in Branch, CrashInClone(b) PROVE SpendInv'
  BY <1>6, SpendEnds DEF CrashInClone
<1>7. ASSUME NEW b \in Branch, ServeWork(b) PROVE SpendInv'
  <2>1. charged <= charged' /\ fresh' = fresh /\ cap' = cap /\ pc[b] = "work"
    <3>1. charged' = charged + works[b][link[b] + 1].spent
      BY <1>7 DEF ServeWork
    <3>2. charged <= charged'
      BY <1>7, <3>1, ServedStatus DEF TypeOK
    <3> QED BY <1>7, <3>2 DEF ServeWork, AtWork
  <2>2. pc'[b] \in {"gate", "out", "work"} /\ \A c \in Branch \ {b} : pc'[c] = pc[c]
    BY <1>7, ServedStatus, AfterMoves
  <2> QED BY <1>0, <2>1, <2>2, SpendMoves
<1>8. ASSUME NEW b \in Branch, RefuseWork(b) PROVE SpendInv'
  <2>1. charged' = charged /\ fresh' = fresh /\ cap' = cap /\ pc[b] = "work"
    BY <1>8 DEF RefuseWork, AtWork
  <2>2. pc'[b] \in {"gate", "out", "work"} /\ \A c \in Branch \ {b} : pc'[c] = pc[c]
    BY <1>8, AfterMoves DEF RefuseWork
  <2> QED BY <1>0, <2>1, <2>2, SpendMoves
<1>9. ASSUME NEW b \in Branch, StartSession(b) PROVE SpendInv'
  BY <1>0, <1>9, SpendStarts
<1>10. ASSUME NEW b \in Branch, SessionWrites(b) PROVE SpendInv'
  BY <1>0, <1>10, SpendSame DEF SessionWrites, launchVars
<1>11. ASSUME NEW b \in Branch, SessionStrays(b) PROVE SpendInv'
  BY <1>0, <1>11, SpendSame DEF SessionStrays, launchVars
<1>12. ASSUME NEW b \in Branch, SessionEnds(b) PROVE SpendInv'
  <2>1. PICK spent \in {s \in Reports : s <= cap[b] + Excess}, status \in {"done", "failed", "needs_continuation"} :
          /\ charged' = charged + spent
          /\ fresh' = fresh + spent
          /\ After(b, status)
    BY <1>12 DEF SessionEnds
  <2>2. spent \in Nat /\ spent <= cap[b] + Excess
    BY FleetAssumption DEF TypeOK
  <2>3. pc'[b] \in {"gate", "out", "work"} /\ \A c \in Branch \ {b} : pc'[c] = pc[c]
    BY <2>1, AfterMoves
  <2>4. b \in Sessions /\ Sessions' = Sessions \ {b} /\ Slots' \subseteq Slots
    BY <1>12, <2>3 DEF SessionEnds, InSession, Sessions, Slots
  <2>5. cap' = cap
    BY <1>12 DEF SessionEnds
  <2> QED BY <1>0, <2>1, <2>2, <2>4, <2>5, SpendLeaves
<1>13. ASSUME NEW b \in Branch, ProviderRefuses(b) PROVE SpendInv'
  <2>1. /\ pc' = [pc EXCEPT ![b] = "out"] /\ pc[b] = "session"
        /\ UNCHANGED <<cap, charged, fresh>>
    BY <1>13 DEF ProviderRefuses, Leave, InSession
  <2>2. b \in Sessions /\ Sessions' = Sessions \ {b} /\ Slots' \subseteq Slots
    BY <2>1 DEF Sessions, Slots, TypeOK
  <2>3. 0 <= cap[b] + Excess /\ charged' = charged + 0 /\ fresh' = fresh + 0
    BY <2>1, BoundFacts, FleetAssumption DEF TypeOK
  <2> QED BY <1>0, <2>1, <2>2, <2>3, SpendLeaves
<1>14. ASSUME NEW b \in Branch, ServeGate(b) PROVE SpendInv'
  BY <1>0, <1>14, SpendMoves DEF ServeGate, AtGate, TypeOK
<1>15. ASSUME NEW b \in Branch, RunGate(b) PROVE SpendInv'
  BY <1>0, <1>15, SpendMoves DEF RunGate, AtGate, TypeOK
<1>16. ASSUME NEW b \in Branch, Scan(b) PROVE SpendInv'
  BY <1>0, <1>16, SpendMoves DEF Scan, Leave, TypeOK
<1>17. CASE UNCHANGED vars
  BY <1>0, <1>17, SpendSame DEF vars, launchVars
<1> QED
  BY <1>1, <1>2, <1>3, <1>4, <1>5, <1>6, <1>7, <1>8, <1>9, <1>10, <1>11, <1>12, <1>13, <1>14,
     <1>15, <1>16, <1>17 DEF Next

LEMMA SpendWithinBound == TypeOK /\ SpendInv => SpendIsBounded
<1> SUFFICES ASSUME TypeOK, SpendInv PROVE SpendIsBounded
  OBVIOUS
<1>1. fresh \in Nat
  BY DEF TypeOK
<1>2. CASE RoomWithout
  <2>1. Cardinality(Sessions) * PerSession \in Nat
    BY Counting, BoundFacts, Times DEF Sessions
  <2> QED BY <1>1, <1>2, <2>1, BoundFacts, FleetAssumption DEF RoomWithout, SpendIsBounded
<1>3. ASSUME NEW l \in Sessions, RoomWith(l) PROVE SpendIsBounded
  <2>1. IsFiniteSet(Sessions) /\ Cardinality(Sessions) \in Nat
    BY Counting DEF Sessions
  <2>2. Cardinality(Sessions) - 1 \in Nat
    BY <2>1, FS_EmptySet
  <2>3. (Cardinality(Sessions) - 1) * PerSession \in Nat /\ cap[l] \in Nat
    BY <2>2, BoundFacts, Times DEF Sessions, TypeOK
  <2> QED BY <1>1, <1>3, <2>3, BoundFacts, FleetAssumption DEF RoomWith, SpendIsBounded
<1> QED BY <1>2, <1>3 DEF SpendInv

\* However many branches overlap, what one launch's own sessions spend on a row
\* stays within its ceiling, a budget for each other slot and one request per
\* slot (context.py _run_cap_refusal and _cap_to_headroom).
THEOREM SpendStaysBounded == Spec => []SpendIsBounded
BY TypeInit, TypeStep, SpendInit, SpendStep, SpendWithinBound, PTL DEF Spec
=============================================================================
