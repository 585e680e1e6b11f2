------------------------- MODULE RunLifecycleProofs -------------------------
(***************************************************************************)
(* Theorems about RunLifecycle for any number of processes, launches and   *)
(* deaths: the journal's shape, what a cancel leaves on record, whom the   *)
(* crash pass accuses and which verbs change a finished run.               *)
(***************************************************************************)
EXTENDS RunLifecycle, TLAPS

LEMMA IdleType == Idle \in Process /\ Idle.place \notin Holding
BY DEF Idle, Process, Places, Driving, Verbs, Status, Holding

LEMMA TypeInit == Init => TypeOK
<1> SUFFICES ASSUME Init PROVE TypeOK
  OBVIOUS
<1>1. proc \in [Proc -> Process] /\ \A p \in Proc : proc[p].place \notin Holding
  BY IdleType DEF Init
<1>2. journal \in Seq(Line)
  BY DEF Init
<1>3. decided \in BOOLEAN /\ lost \in BOOLEAN
  BY Zenon DEF Init
<1>4. launches \in 0..MaxLaunches /\ deaths \in 0..MaxDeaths /\ swept \in 0..MaxLaunches
  BY RunLifecycleAssumption DEF Init
<1>5. lock = Nobody /\ Nobody \notin Proc
  BY RunLifecycleAssumption DEF Init
<1> QED BY <1>1, <1>2, <1>3, <1>4, <1>5 DEF Init, TypeOK, Status

-----------------------------------------------------------------------------
(* Types: one lemma per group of actions.  The lock's clause is the one a  *)
(* step can really break.                                                  *)

LEMMA WriteType ==
  ASSUME TypeOK, NEW line \in Line, Write(line)
  PROVE  journal' \in Seq(Line)
BY DEF TypeOK, Write

\* The processes and the lock keep their types and go together.
ProcsOK ==
  /\ proc \in [Proc -> Process]
  /\ lock \in Proc \cup {Nobody}
  /\ \A p \in Proc : lock = p <=> proc[p].place \in Holding

LEMMA MoveType ==
  ASSUME TypeOK, NEW p \in Proc, NEW place \in Places,
         proc[p].place \in Holding <=> place \in Holding,
         Move(p, place), lock' = lock
  PROVE  ProcsOK'
BY DEF TypeOK, ProcsOK, Move, Process

LEMMA BeginType ==
  ASSUME TypeOK, NEW p \in Proc, NEW place \in Places, NEW verb \in Verbs,
         At(p, "idle"), place \notin Holding,
         Begin(p, verb, place), lock' = lock
  PROVE  ProcsOK'
BY DEF TypeOK, ProcsOK, Begin, At, Process, Holding, Driving

LEMMA ReturnType ==
  ASSUME TypeOK, NEW p \in Proc, Return(p),
         lock' = IF lock = p THEN Nobody ELSE lock
  PROVE  ProcsOK' /\ unit' \in {"gone", "active", "stopping"}
BY IdleType, RunLifecycleAssumption DEF TypeOK, ProcsOK, Return

LEMMA StopType ==
  ASSUME TypeOK, NEW confirmed \in BOOLEAN, NEW others \in [Proc -> Process],
         StopUnit(confirmed, others),
         \A p \in Proc : others[p].place \in Holding <=> proc[p].place \in Holding
  PROVE  /\ ProcsOK'
         /\ lost' \in BOOLEAN
         /\ unit' \in {"gone", "active", "stopping"}
<1>1. lost' \in BOOLEAN
  BY Zenon DEF StopUnit
<1>2. unit' \in {"gone", "active", "stopping"}
  BY DEF StopUnit
<1>3. ProcsOK'
  BY IdleType, RunLifecycleAssumption DEF TypeOK, ProcsOK, StopUnit, Members
<1> QED BY <1>1, <1>2, <1>3

LEMMA SweepType ==
  ASSUME TypeOK, NEW p \in Proc, NEW next \in {"spawn", "acquire"},
         proc[p].place \notin Holding, Sweep(p, next)
  PROVE  /\ ProcsOK'
         /\ lost' \in BOOLEAN
         /\ unit' \in {"gone", "active", "stopping"}
         /\ swept' \in 0..MaxLaunches
<1>1. next \in Places /\ next \notin Holding
  BY DEF Places, Holding, Driving
<1>2. CASE ~ UnitAlive
  <2>1. Move(p, next) /\ UNCHANGED <<lock, lost, unit, swept>>
    BY <1>2 DEF Sweep
  <2> QED BY <2>1, <1>1, MoveType DEF TypeOK
<1>3. CASE UnitAlive
  <2>1. PICK confirmed \in BOOLEAN :
          StopUnit(confirmed,
                   [proc EXCEPT ![p] = IF confirmed THEN [@ EXCEPT !.place = next]
                                                    ELSE Idle])
    BY <1>3 DEF Sweep
  <2>2. swept' = launches
    BY <1>3 DEF Sweep
  <2> DEFINE others == [proc EXCEPT ![p] = IF confirmed THEN [@ EXCEPT !.place = next]
                                                        ELSE Idle]
  <2>3. others \in [Proc -> Process]
    BY <1>1, IdleType DEF TypeOK, Process
  <2>4. \A q \in Proc : others[q].place \in Holding <=> proc[q].place \in Holding
    BY <1>1, IdleType DEF TypeOK, Process
  <2> HIDE DEF others
  <2>5. StopUnit(confirmed, others)
    BY <2>1 DEF others
  <2> QED BY <2>2, <2>3, <2>4, <2>5, StopType DEF TypeOK
<1> QED BY <1>2, <1>3

LEMMA RelaunchType ==
  ASSUME TypeOK, NEW p \in Proc, NEW verb \in Verbs, Relaunch(p, verb),
         proc[p].place \notin Holding, lock' = lock
  PROVE  ProcsOK' /\ launches' \in 0..MaxLaunches
<1>1. launches' \in 0..MaxLaunches
  BY RunLifecycleAssumption DEF TypeOK, Relaunch
<1>2. PICK place \in {"launch", "enter"} :
        proc' = [proc EXCEPT ![p] = [place |-> place, verb |-> verb,
                                     saw |-> IF verb = "approve" THEN @.saw ELSE status,
                                     inUnit |-> FALSE, flag |-> FALSE]]
  BY DEF Relaunch
<1>3. place \in Places /\ place \notin Holding
  BY DEF Places, Holding, Driving
<1> QED BY <1>1, <1>2, <1>3 DEF TypeOK, ProcsOK, Process

LEMMA TypeStep == TypeOK /\ [Next]_vars => TypeOK'
<1> SUFFICES ASSUME TypeOK, [Next]_vars PROVE TypeOK'
  OBVIOUS
<1> USE RunLifecycleAssumption
<1>1. ASSUME NEW p \in Proc, Start(p) PROVE TypeOK'
  <2>1. PICK place \in {"spawn", "enter"} : Begin(p, "start", place)
    BY <1>1 DEF Start
  <2>2. place \in Places /\ place \notin Holding /\ "start" \in Verbs
    BY DEF Places, Holding, Driving, Verbs
  <2>3. ProcsOK'
    BY <1>1, <2>1, <2>2, BeginType DEF Start
  <2> QED BY <1>1, <2>3 DEF Start, TypeOK, ProcsOK, Status
<1>2. ASSUME NEW p \in Proc, Resume(p) \/ Retry(p) PROVE TypeOK'
  <2>1. PICK verb \in {"resume", "retry"} : Relaunch(p, verb)
    BY <1>2 DEF Resume, Retry
  <2>2. proc[p].place \notin Holding /\ verb \in Verbs
    BY <1>2 DEF Resume, Retry, At, Holding, Driving, Verbs
  <2>3. UNCHANGED <<kind, status, decided, journal, lock, unit, deaths, lost, swept>>
    BY <1>2 DEF Resume, Retry
  <2>4. ProcsOK' /\ launches' \in 0..MaxLaunches
    BY <2>1, <2>2, <2>3, RelaunchType
  <2> QED BY <2>3, <2>4 DEF TypeOK, ProcsOK
<1>3. ASSUME NEW p \in Proc, Approve(p) PROVE TypeOK'
  <2>1. "record" \in Places /\ "record" \notin Holding /\ "approve" \in Verbs
    BY DEF Places, Holding, Driving, Verbs
  <2>2. ProcsOK'
    BY <1>3, <2>1, BeginType DEF Approve
  <2> QED BY <1>3, <2>2 DEF Approve, TypeOK, ProcsOK
<1>4. ASSUME NEW p \in Proc, RecordDecision(p) PROVE TypeOK'
  <2>1. proc[p].place \notin Holding /\ "approve" \in Verbs
    BY <1>4 DEF RecordDecision, At, Holding, Driving, Verbs
  <2>2. lock' = lock /\ lock # p
    BY <1>4, <2>1 DEF RecordDecision, TypeOK
  <2>3. ProcsOK' /\ unit' \in {"gone", "active", "stopping"} /\ launches' \in 0..MaxLaunches
    BY <1>4, <2>1, <2>2, ReturnType, RelaunchType DEF RecordDecision, TypeOK
  <2> QED BY <1>4, <2>3 DEF RecordDecision, TypeOK, ProcsOK
<1>5. CASE ApplyDefault
  <2>1. "launch" \in Places /\ "launch" \notin Holding /\ "deadline" \in Verbs
    BY DEF Places, Holding, Driving, Verbs
  <2>2. ProcsOK'
    BY <1>5, <2>1, BeginType DEF ApplyDefault
  <2> QED BY <1>5, <2>2 DEF ApplyDefault, TypeOK, ProcsOK
<1>6. ASSUME NEW p \in Proc, SweepBeforeSpawn(p) \/ Enter(p) PROVE TypeOK'
  <2>1. PICK next \in {"spawn", "acquire"} : Sweep(p, next)
    BY <1>6 DEF SweepBeforeSpawn, Enter
  <2>2. proc[p].place \notin Holding
    BY <1>6 DEF SweepBeforeSpawn, Enter, At, Holding, Driving
  <2> QED BY <1>6, <2>1, <2>2, SweepType DEF SweepBeforeSpawn, Enter, TypeOK, ProcsOK
<1>7. ASSUME NEW p \in Proc, Spawn(p) PROVE TypeOK'
  <2>1. ProcsOK'
    <3>1. CASE proc' = [proc EXCEPT ![p] = Idle]
      BY <1>7, <3>1, IdleType DEF Spawn, At, TypeOK, ProcsOK, Holding, Driving
    <3>2. ASSUME NEW child \in Proc \ {p, Timer}, At(child, "idle"),
                 proc' = [proc EXCEPT ![p] = Idle,
                            ![child] = [proc[p] EXCEPT !.place = "enter",
                                                       !.inUnit = (kind = "systemd")]]
          PROVE ProcsOK'
      <4>1. [proc[p] EXCEPT !.place = "enter", !.inUnit = (kind = "systemd")] \in Process
        BY DEF TypeOK, Process, Places
      <4>2. "enter" \notin Holding /\ "idle" \notin Holding /\ "spawn" \notin Holding
        BY DEF Holding, Driving
      <4> QED BY <1>7, <3>2, <4>1, <4>2, IdleType DEF Spawn, At, TypeOK, ProcsOK, Process
    <3> QED BY <1>7, <3>1, <3>2 DEF Spawn
  <2>2. unit' \in {"gone", "active", "stopping"}
    BY <1>7 DEF Spawn, TypeOK
  <2> QED BY <1>7, <2>1, <2>2 DEF Spawn, TypeOK, ProcsOK
<1>8. ASSUME NEW p \in Proc, AcquireRun(p) PROVE TypeOK'
  <2>1. CASE lock = Nobody /\ lock' = p /\ Move(p, "bookend") /\ UNCHANGED unit
    BY <1>8, <2>1 DEF AcquireRun, Move, TypeOK, Process, Places, Holding
  <2>2. CASE lock # Nobody /\ Return(p) /\ UNCHANGED lock
    <3>1. lock # p
      BY <1>8 DEF AcquireRun, At, TypeOK, Holding, Driving
    <3> QED BY <1>8, <2>2, <3>1, ReturnType DEF AcquireRun, TypeOK, ProcsOK
  <2> QED BY <1>8, <2>1, <2>2 DEF AcquireRun
<1>9. ASSUME NEW p \in Proc, Bookend(p) PROVE TypeOK'
  <2>1. lock = p
    BY <1>9 DEF Bookend, At, TypeOK, Holding
  <2>2. CASE Return(p) /\ lock' = Nobody /\ UNCHANGED journal
    BY <1>9, <2>1, <2>2, ReturnType DEF Bookend, TypeOK, ProcsOK
  <2>3. CASE /\ Write(IF journal = <<>> THEN "started" ELSE "resume")
             /\ Move(p, "open")
             /\ UNCHANGED <<lock, unit>>
    <3>1. journal' \in Seq(Line)
      <4>1. (IF journal = <<>> THEN "started" ELSE "resume") \in Line
        BY DEF Line
      <4> QED BY <2>3, <4>1, WriteType
    <3>2. ProcsOK'
      BY <1>9, <2>3, MoveType DEF Bookend, At, Places, Driving, Holding
    <3> QED BY <1>9, <2>3, <3>1, <3>2 DEF Bookend, TypeOK, ProcsOK
  <2> QED BY <1>9, <2>2, <2>3 DEF Bookend
<1>10. ASSUME NEW p \in Proc, Open(p) PROVE TypeOK'
  <2>1. ProcsOK'
    <3>1. /\ proc[p] \in Process /\ proc[p].place \in Holding
          /\ proc' = [proc EXCEPT ![p] = [proc[p] EXCEPT !.place = "drive", !.flag = decided]]
      BY <1>10 DEF Open, At, TypeOK, Holding, Driving
    <3>2. [proc[p] EXCEPT !.place = "drive", !.flag = decided] \in Process
      BY <3>1 DEF TypeOK, Process, Places, Driving
    <3>3. "drive" \in Holding
      BY DEF Holding, Driving
    <3> QED BY <1>10, <3>1, <3>2, <3>3 DEF Open, TypeOK, ProcsOK, Process
  <2> QED BY <1>10, <2>1 DEF Open, TypeOK, ProcsOK, Status
<1>11. ASSUME NEW p \in Proc, Work(p) PROVE TypeOK'
  <2>1. journal' \in Seq(Line)
    BY <1>11, WriteType DEF Work, Line
  <2> QED BY <1>11, <2>1 DEF Work, TypeOK
<1>12. ASSUME NEW p \in Proc, SuspendAsking(p) PROVE TypeOK'
  <2>1. proc' \in [Proc -> Process]
    <3>1. ASSUME NEW q \in Proc
          PROVE  /\ [proc[q] EXCEPT !.place = "ended"] \in Process
                 /\ [proc[q] EXCEPT !.flag = TRUE] \in Process
      <4>1. proc[q] \in Process /\ "ended" \in Places /\ TRUE \in BOOLEAN
        BY DEF TypeOK, Places
      <4> QED BY <4>1 DEF Process
    <3> QED BY <1>12, <3>1 DEF SuspendAsking, TypeOK
  <2>2. \A q \in Proc : proc'[q].place \in Holding <=> proc[q].place \in Holding
    BY <1>12 DEF SuspendAsking, At, TypeOK, Process, Holding, Driving
  <2>3. decided' \in BOOLEAN
    BY <1>12, Zenon DEF SuspendAsking
  <2> QED BY <1>12, <2>1, <2>2, <2>3 DEF SuspendAsking, TypeOK, Status
<1>13. ASSUME NEW p \in Proc, StopShort(p) \/ Done(p) PROVE TypeOK'
  <2>1. ProcsOK'
    BY <1>13, MoveType DEF StopShort, Done, At, Places, Driving, Holding
  <2> QED BY <1>13, <2>1 DEF StopShort, Done, TypeOK, ProcsOK, Status
<1>14. ASSUME NEW p \in Proc, Summarise(p) PROVE TypeOK'
  <2>1. ProcsOK'
    BY <1>14, MoveType DEF Summarise, At, Places, Driving, Holding
  <2>2. journal' \in Seq(Line)
    BY <1>14, WriteType DEF Summarise, Line
  <2> QED BY <1>14, <2>1, <2>2 DEF Summarise, TypeOK, ProcsOK
<1>15. ASSUME NEW p \in Proc, Release(p) PROVE TypeOK'
  <2>1. lock = p
    BY <1>15 DEF Release, At, TypeOK, Holding
  <2> QED BY <1>15, <2>1, ReturnType DEF Release, TypeOK, ProcsOK
<1>16. ASSUME NEW p \in Proc, Cancel(p) PROVE TypeOK'
  <2>1. /\ "cancel" \in Verbs
        /\ \A place \in {"kill", "request"} : place \in Places /\ place \notin Holding
    BY DEF Places, Holding, Driving, Verbs
  <2>2. ProcsOK'
    BY <1>16, <2>1, BeginType DEF Cancel
  <2> QED BY <1>16, <2>2 DEF Cancel, TypeOK, ProcsOK
<1>17. ASSUME NEW p \in Proc, RequestCancel(p) PROVE TypeOK'
  <2>1. ProcsOK'
    BY <1>17, MoveType DEF RequestCancel, At, Places, Driving, Holding
  <2> QED BY <1>17, <2>1 DEF RequestCancel, TypeOK, ProcsOK, Status
<1>18. ASSUME NEW p \in Proc, KillScope(p) PROVE TypeOK'
  <2>1. lock # p /\ proc[p].place \notin Holding /\ "take" \in Places /\ "take" \notin Holding
    BY <1>18 DEF KillScope, At, TypeOK, Holding, Driving, Places
  <2>2. CASE Return(p) /\ UNCHANGED <<lock, lost>>
    BY <1>18, <2>1, <2>2, ReturnType DEF KillScope, TypeOK, ProcsOK
  <2>3. CASE /\ proc' = [proc EXCEPT ![p].place = "take", ![p].flag = (kind = "systemd")]
             /\ UNCHANGED <<lock, lost, unit>>
    <3>1. ProcsOK'
      BY <2>1, <2>3 DEF TypeOK, ProcsOK, Process
    <3> QED BY <1>18, <2>3, <3>1 DEF KillScope, TypeOK, ProcsOK
  <2>4. ASSUME NEW confirmed \in BOOLEAN,
               StopUnit(confirmed, [proc EXCEPT ![p].place = "take", ![p].flag = confirmed])
        PROVE  TypeOK'
    <3> DEFINE others == [proc EXCEPT ![p].place = "take", ![p].flag = confirmed]
    <3>1. others \in [Proc -> Process]
      BY <2>1 DEF TypeOK, Process
    <3>2. \A q \in Proc : others[q].place \in Holding <=> proc[q].place \in Holding
      BY <2>1 DEF TypeOK, Process
    <3> HIDE DEF others
    <3>3. StopUnit(confirmed, others)
      BY <2>4 DEF others
    <3>4. ProcsOK' /\ lost' \in BOOLEAN /\ unit' \in {"gone", "active", "stopping"}
      BY <3>1, <3>2, <3>3, StopType
    <3> QED BY <1>18, <3>4 DEF KillScope, TypeOK, ProcsOK
  <2> QED BY <1>18, <2>2, <2>3, <2>4 DEF KillScope
<1>19. ASSUME NEW p \in Proc, TakeForCancel(p) PROVE TypeOK'
  <2>1. CASE lock = Nobody /\ lock' = p /\ Write("requested") /\ Move(p, "told") /\ UNCHANGED unit
    <3>1. journal' \in Seq(Line)
      BY <2>1, WriteType DEF Line
    <3>2. ProcsOK'
      BY <2>1 DEF Move, TypeOK, ProcsOK, Process, Places, Holding
    <3> QED BY <1>19, <2>1, <3>1, <3>2 DEF TakeForCancel, TypeOK, ProcsOK
  <2>2. CASE Return(p) /\ UNCHANGED <<lock, journal>>
    <3>1. lock # p
      BY <1>19 DEF TakeForCancel, At, TypeOK, Holding, Driving
    <3> QED BY <1>19, <2>2, <3>1, ReturnType DEF TakeForCancel, TypeOK, ProcsOK
  <2> QED BY <1>19, <2>1, <2>2 DEF TakeForCancel
<1>20. ASSUME NEW p \in Proc, RecordCancel(p) PROVE TypeOK'
  <2>1. ProcsOK'
    BY <1>20, MoveType DEF RecordCancel, At, Places, Driving, Holding
  <2>2. journal' \in Seq(Line)
    <3>1. (IF proc[p].flag THEN "cancel verified" ELSE "cancel unverified") \in Line
      BY DEF Line
    <3> QED BY <1>20, <3>1, WriteType DEF RecordCancel
  <2> QED BY <1>20, <2>1, <2>2 DEF RecordCancel, TypeOK, ProcsOK
<1>21. ASSUME NEW p \in Proc, FinishCancel(p) PROVE TypeOK'
  <2>1. lock = p
    BY <1>21 DEF FinishCancel, At, TypeOK, Holding
  <2> QED BY <1>21, <2>1, ReturnType DEF FinishCancel, TypeOK, ProcsOK, Status
<1>22. CASE CrashCheck \/ CrashLooks
  <2>1. PICK place \in {"crash", "look"} : Begin(Timer, "crash", place)
    BY <1>22 DEF CrashCheck, CrashLooks
  <2>2. /\ lock = Nobody /\ lock' = Timer
        /\ UNCHANGED <<kind, status, decided, journal, unit, launches, deaths, lost, swept>>
    BY <1>22 DEF CrashCheck, CrashLooks, LooksDead
  <2> QED BY <2>1, <2>2, RunLifecycleAssumption
          DEF Begin, TypeOK, Process, Places, Verbs, Status, Holding, Driving
<1>23. CASE RecordCrash \/ LookAway
  <2>1. lock = Timer
    BY <1>23 DEF RecordCrash, LookAway, At, TypeOK, Holding
  <2> QED BY <1>23, <2>1, ReturnType DEF RecordCrash, LookAway, TypeOK, ProcsOK, Status
<1>24. ASSUME NEW p \in Proc, Die(p) PROVE TypeOK'
  <2>1. ProcsOK'
    BY <1>24, IdleType DEF Die, TypeOK, ProcsOK
  <2>2. journal' \in Seq(Line)
    BY <1>24, WriteType DEF Die, TypeOK, Line
  <2>3. lost' \in BOOLEAN
    BY <1>24, Zenon DEF Die
  <2>4. unit' \in {"gone", "active", "stopping"}
    BY <1>24 DEF Die, TypeOK
  <2>5. deaths' \in 0..MaxDeaths
    BY <1>24 DEF Die, TypeOK
  <2> QED BY <1>24, <2>1, <2>2, <2>3, <2>4, <2>5 DEF Die, TypeOK, ProcsOK
<1>25. CASE Drain
  BY <1>25 DEF Drain, TypeOK
<1>26. CASE UNCHANGED vars
  BY <1>26 DEF vars, TypeOK
<1> QED BY <1>1, <1>2, <1>3, <1>4, <1>5, <1>6, <1>7, <1>8, <1>9, <1>10, <1>11, <1>12, <1>13,
           <1>14, <1>15, <1>16, <1>17, <1>18, <1>19, <1>20, <1>21, <1>22, <1>23, <1>24, <1>25,
           <1>26 DEF Next, Step, Operator

\* Every record the verbs keep has its type, and the lock belongs to the one
\* process that is at a place where the code holds it (run_lock in
\* application/kernel/run.py, the lock around cancel and the crash pass).
THEOREM TypeCorrect == Spec => []TypeOK
<1> QED BY TypeInit, TypeStep, PTL DEF Spec

-----------------------------------------------------------------------------
(* The journal.  A line is torn only by a process that dies with the lock, *)
(* and everyone who takes the lock reads the journal before writing to it: *)
(* whoever is past that read has a journal without a torn line.            *)

Verified == \E i \in DOMAIN journal : journal[i] = "cancel verified"

Writers == Driving \cup {"told", "recorded"}

JournalInv ==
  /\ TornLineStaysLast
  /\ CancelsAreOnRecord
  /\ \A p \in Proc : proc[p].place \in Writers =>
       journal # <<>> /\ \A i \in DOMAIN journal : journal[i] # "torn"
  /\ \A p \in Proc : proc[p].place = "told" =>
       /\ journal # <<>> /\ journal[Len(journal)] = "requested"
       /\ ~ CancelRecorded
  /\ \A p \in Proc : proc[p].place = "recorded" /\ proc[p].flag => Verified

LEMMA ReadableMeans ==
  ASSUME TypeOK
  PROVE  Readable <=> \A i \in DOMAIN journal : journal[i] # "torn"
BY DEF Readable, ToSet, TypeOK

LEMMA AppendFacts ==
  ASSUME journal \in Seq(Line), NEW line \in Line, Write(line)
  PROVE  /\ Len(journal') = Len(journal) + 1 /\ Len(journal) \in Nat
         /\ DOMAIN journal' = 1..(Len(journal) + 1) /\ DOMAIN journal = 1..Len(journal)
         /\ \A i \in DOMAIN journal : i \in DOMAIN journal' /\ journal'[i] = journal[i]
         /\ Len(journal) + 1 \in DOMAIN journal' /\ journal'[Len(journal) + 1] = line
         /\ \A i \in DOMAIN journal' : i \in DOMAIN journal \/ i = Len(journal) + 1
BY DEF Write

LEMMA JournalInit == Init => JournalInv
BY DEF Init, JournalInv, TornLineStaysLast, CancelsAreOnRecord, CancelRecordedOnce,
       CancelledIsVerified, Idle, Writers, Driving

\* A step that writes no line and takes nobody past the read.
LEMMA JournalQuiet ==
  ASSUME JournalInv, UNCHANGED journal,
         status' = "cancelled" => status = "cancelled" \/ Verified,
         \A p \in Proc :
           /\ proc'[p].place \in Writers => proc[p].place \in Writers
           /\ proc'[p].place = "told" => proc[p].place = "told"
           /\ proc'[p].place = "recorded" /\ proc'[p].flag =>
                proc[p].place = "recorded" /\ proc[p].flag
  PROVE  JournalInv'
<1>1. TornLineStaysLast'
  BY DEF JournalInv, TornLineStaysLast
<1>2. CancelsAreOnRecord'
  BY DEF JournalInv, CancelsAreOnRecord, CancelRecordedOnce, CancelledIsVerified, Verified
<1>3. Verified' <=> Verified
  BY DEF Verified
<1>4. CancelRecorded' <=> CancelRecorded
  BY DEF CancelRecorded
<1> QED BY <1>1, <1>2, <1>3, <1>4 DEF JournalInv

\* A line that is no cancel line, appended to a journal without a torn one.
LEMMA JournalPlain ==
  ASSUME TypeOK, JournalInv, NEW p \in Proc, NEW line \in Line \ CancelLine, Write(line),
         Readable, UNCHANGED status,
         \A q \in Proc \ {p} : proc[q].place \notin Holding /\ proc'[q].place \notin Holding,
         proc'[p].place = "told" => line = "requested" /\ ~ CancelRecorded,
         proc'[p].place # "recorded",
         line = "torn" => proc'[p].place \notin Writers
  PROVE  JournalInv'
<1>1. /\ Len(journal') = Len(journal) + 1 /\ Len(journal) \in Nat
      /\ DOMAIN journal' = 1..(Len(journal) + 1) /\ DOMAIN journal = 1..Len(journal)
      /\ \A i \in DOMAIN journal : i \in DOMAIN journal' /\ journal'[i] = journal[i]
      /\ Len(journal) + 1 \in DOMAIN journal' /\ journal'[Len(journal) + 1] = line
      /\ \A i \in DOMAIN journal' : i \in DOMAIN journal \/ i = Len(journal) + 1
  BY AppendFacts DEF TypeOK
<1>2. \A i \in DOMAIN journal : journal[i] # "torn"
  BY ReadableMeans
<1>3. TornLineStaysLast'
  BY <1>1, <1>2 DEF TornLineStaysLast
<1>4. \A i \in DOMAIN journal' : journal'[i] \in CancelLine => i \in DOMAIN journal
  BY <1>1
<1>5. CancelRecordedOnce'
  <2> SUFFICES ASSUME NEW i \in DOMAIN journal', NEW j \in DOMAIN journal',
                      journal'[i] \in CancelLine
               PROVE  /\ i > 1 /\ journal'[i - 1] = "requested"
                      /\ journal'[j] \in CancelLine => j = i
    BY DEF CancelRecordedOnce
  <2>1. i \in DOMAIN journal /\ journal[i] \in CancelLine
    BY <1>1, <1>4
  <2>2. i > 1 /\ journal[i - 1] = "requested" /\ i - 1 \in DOMAIN journal
    BY <1>1, <2>1 DEF JournalInv, CancelsAreOnRecord, CancelRecordedOnce
  <2>3. journal'[j] \in CancelLine => j = i
    BY <1>1, <1>4, <2>1 DEF JournalInv, CancelsAreOnRecord, CancelRecordedOnce
  <2> QED BY <1>1, <2>2, <2>3
<1>6. CancelledIsVerified'
  <2> SUFFICES ASSUME status = "cancelled"
               PROVE  \E i \in DOMAIN journal' : journal'[i] = "cancel verified"
    BY DEF CancelledIsVerified
  <2>1. PICK i \in DOMAIN journal : journal[i] = "cancel verified"
    BY DEF JournalInv, CancelsAreOnRecord, CancelledIsVerified
  <2>2. i \in DOMAIN journal' /\ journal'[i] = "cancel verified"
    BY <1>1, <2>1
  <2> QED BY <2>2
<1>7. ASSUME NEW q \in Proc, proc'[q].place \in Writers
      PROVE  q = p /\ journal' # <<>> /\ \A i \in DOMAIN journal' : journal'[i] # "torn"
  <2>1. q = p
    BY <1>7 DEF Writers, Holding
  <2> QED BY <1>1, <1>2, <1>7, <2>1
<1>8. ASSUME NEW q \in Proc, proc'[q].place = "told"
      PROVE  journal'[Len(journal')] = "requested" /\ ~ CancelRecorded'
  <2>1. q = p /\ line = "requested" /\ ~ CancelRecorded
    BY <1>7, <1>8 DEF Writers
  <2>2. ~ CancelRecorded'
    BY <1>1, <1>4, <2>1 DEF CancelRecorded
  <2> QED BY <1>1, <2>1, <2>2
<1>9. ASSUME NEW q \in Proc, proc'[q].place = "recorded" PROVE FALSE
  BY <1>7, <1>9 DEF Writers
<1> QED BY <1>3, <1>5, <1>6, <1>7, <1>8, <1>9 DEF JournalInv, CancelsAreOnRecord, Writers

\* The outcome of a cancel, appended right after its request.
LEMMA JournalCancel ==
  ASSUME TypeOK, JournalInv, NEW p \in Proc, RecordCancel(p)
  PROVE  JournalInv'
<1> DEFINE line == IF proc[p].flag THEN "cancel verified" ELSE "cancel unverified"
<1>0. line \in Line /\ Write(line)
  BY DEF RecordCancel, Line
<1>1. /\ Len(journal') = Len(journal) + 1 /\ Len(journal) \in Nat
      /\ DOMAIN journal' = 1..(Len(journal) + 1) /\ DOMAIN journal = 1..Len(journal)
      /\ \A i \in DOMAIN journal : i \in DOMAIN journal' /\ journal'[i] = journal[i]
      /\ Len(journal) + 1 \in DOMAIN journal' /\ journal'[Len(journal) + 1] = line
      /\ \A i \in DOMAIN journal' : i \in DOMAIN journal \/ i = Len(journal) + 1
  BY <1>0, AppendFacts DEF TypeOK
<1>2. line \in CancelLine /\ line # "torn" /\ (proc[p].flag => line = "cancel verified")
  BY DEF CancelLine
<1> HIDE DEF line
<1>3. /\ proc[p].place = "told"
      /\ \A q \in Proc : proc'[q].place \in Writers => q = p
      /\ proc'[p].place = "recorded" /\ proc'[p].flag = proc[p].flag
  BY DEF RecordCancel, At, Move, TypeOK, Process, Writers, Holding
<1>4. /\ \A i \in DOMAIN journal : journal[i] # "torn" /\ journal[i] \notin CancelLine
      /\ Len(journal) > 0 /\ journal[Len(journal)] = "requested"
  BY <1>1, <1>3 DEF JournalInv, Writers, CancelRecorded
<1>5. TornLineStaysLast'
  BY <1>1, <1>2, <1>4 DEF TornLineStaysLast
<1>6. CancelRecordedOnce'
  <2> SUFFICES ASSUME NEW i \in DOMAIN journal', NEW j \in DOMAIN journal',
                      journal'[i] \in CancelLine
               PROVE  /\ i > 1 /\ journal'[i - 1] = "requested"
                      /\ journal'[j] \in CancelLine => j = i
    BY DEF CancelRecordedOnce
  <2>1. i = Len(journal) + 1 /\ (journal'[j] \in CancelLine => j = i)
    BY <1>1, <1>4
  <2>2. journal'[i - 1] = "requested"
    BY <1>1, <1>4, <2>1
  <2> QED BY <1>1, <1>4, <2>1, <2>2
<1>7. CancelledIsVerified'
  <2> SUFFICES ASSUME status = "cancelled"
               PROVE  \E i \in DOMAIN journal' : journal'[i] = "cancel verified"
    BY DEF CancelledIsVerified, RecordCancel
  <2>1. PICK i \in DOMAIN journal : journal[i] = "cancel verified"
    BY DEF JournalInv, CancelsAreOnRecord, CancelledIsVerified
  <2>2. i \in DOMAIN journal' /\ journal'[i] = "cancel verified"
    BY <1>1, <2>1
  <2> QED BY <2>2
<1>8. journal' # <<>> /\ \A i \in DOMAIN journal' : journal'[i] # "torn"
  <2>1. Len(journal') # 0
    BY <1>1
  <2>2. \A i \in DOMAIN journal' : journal'[i] # "torn"
    BY <1>1, <1>2, <1>4
  <2> QED BY <2>1, <2>2
<1>9. proc[p].flag => Verified'
  <2> SUFFICES ASSUME proc[p].flag PROVE \E i \in DOMAIN journal' : journal'[i] = "cancel verified"
    BY DEF Verified
  <2>1. Len(journal) + 1 \in DOMAIN journal' /\ journal'[Len(journal) + 1] = "cancel verified"
    BY <1>1, <1>2
  <2> QED BY <2>1
<1> QED BY <1>3, <1>5, <1>6, <1>7, <1>8, <1>9 DEF JournalInv, CancelsAreOnRecord, Writers

\* What the steps that write no line do to the places.
LEMMA PlacesQuiet ==
  ASSUME TypeOK, [Next]_vars, UNCHANGED journal
  PROVE  \A p \in Proc :
           /\ proc'[p].place \in Writers => proc[p].place \in Writers
           /\ proc'[p].place = "told" => proc[p].place = "told"
           /\ proc'[p].place = "recorded" /\ proc'[p].flag =>
                proc[p].place = "recorded" /\ proc[p].flag
<1> DEFINE Fine == \A q \in Proc :
           /\ proc'[q].place \in Writers => proc[q].place \in Writers
           /\ proc'[q].place = "told" => proc[q].place = "told"
           /\ proc'[q].place = "recorded" /\ proc'[q].flag =>
                proc[q].place = "recorded" /\ proc[q].flag
<1>0. \A line \in Line : Write(line) => FALSE
  BY DEF Write, TypeOK
<1>a. ASSUME NEW p \in Proc, NEW next \in {"spawn", "acquire"}, Sweep(p, next) PROVE Fine
  BY <1>a DEF Sweep, StopUnit, Move, TypeOK, Process, Idle, Writers, Driving
<1>b. ASSUME NEW p \in Proc, NEW verb \in Verbs, Relaunch(p, verb) PROVE Fine
  BY <1>b DEF Relaunch, TypeOK, Process, Writers, Driving
<1>c. ASSUME NEW p \in Proc, Return(p) PROVE Fine
  BY <1>c DEF Return, Idle, TypeOK, Process, Writers, Driving
<1>d. ASSUME NEW p \in Proc, NEW verb \in Verbs, NEW place \in Places \ Writers, Begin(p, verb, place)
      PROVE  Fine
  BY <1>d DEF Begin, TypeOK, Process, Writers, Driving
<1>1. ASSUME NEW p \in Proc, Start(p) \/ Approve(p) \/ Cancel(p) PROVE Fine
  BY <1>1, <1>d DEF Start, Approve, Cancel, Places, Writers, Driving, Verbs
<1>2. ASSUME NEW p \in Proc, Resume(p) \/ Retry(p) \/ RecordDecision(p) PROVE Fine
  BY <1>2, <1>b, <1>c DEF Resume, Retry, RecordDecision, Verbs
<1>3. CASE ApplyDefault \/ CrashCheck \/ CrashLooks
  BY <1>3, <1>d, RunLifecycleAssumption DEF ApplyDefault, CrashCheck, CrashLooks, Places, Writers, Driving, Verbs
<1>4. ASSUME NEW p \in Proc, SweepBeforeSpawn(p) \/ Enter(p) PROVE Fine
  BY <1>4, <1>a DEF SweepBeforeSpawn, Enter
<1>5. ASSUME NEW p \in Proc, Spawn(p) PROVE Fine
  <2>1. \A q \in Proc : \/ proc'[q] = proc[q]
                        \/ proc'[q].place \in {"idle", "enter"}
    <3>1. Idle.place = "idle"
      BY DEF Idle
    <3>2. [proc[p] EXCEPT !.place = "enter", !.inUnit = (kind = "systemd")].place = "enter"
      BY DEF TypeOK, Process
    <3> QED BY <1>5, <3>1, <3>2 DEF Spawn, TypeOK
  <2> QED BY <2>1 DEF Writers, Driving
<1>6. ASSUME NEW p \in Proc, AcquireRun(p) PROVE Fine
  <2>1. Move(p, "bookend") => Fine
    BY DEF Move, TypeOK, Process, Writers, Driving
  <2> QED BY <1>6, <2>1, <1>c DEF AcquireRun
<1>7. ASSUME NEW p \in Proc, Bookend(p) PROVE Fine
  <2>1. (IF journal = <<>> THEN "started" ELSE "resume") \in Line
    BY DEF Line
  <2> QED BY <1>7, <2>1, <1>0, <1>c DEF Bookend
<1>8. ASSUME NEW p \in Proc, Open(p) \/ StopShort(p) \/ Done(p) PROVE Fine
  BY <1>8 DEF Open, StopShort, Done, At, Move, TypeOK, Process, Writers, Driving
<1>9. ASSUME NEW p \in Proc, Work(p) \/ Summarise(p) PROVE Fine
  BY <1>9, <1>0 DEF Work, Summarise, Line
<1>10. ASSUME NEW p \in Proc, SuspendAsking(p) PROVE Fine
  BY <1>10 DEF SuspendAsking, At, TypeOK, Process, Writers, Driving
<1>11. ASSUME NEW p \in Proc, Release(p) \/ FinishCancel(p) PROVE Fine
  BY <1>11, <1>c DEF Release, FinishCancel
<1>12. CASE RecordCrash \/ LookAway
  BY <1>12, <1>c, RunLifecycleAssumption DEF RecordCrash, LookAway
<1>13. ASSUME NEW p \in Proc, RequestCancel(p) PROVE Fine
  BY <1>13 DEF RequestCancel, Move, TypeOK, Process, Writers, Driving
<1>14. ASSUME NEW p \in Proc, KillScope(p) PROVE Fine
  BY <1>14, <1>c DEF KillScope, StopUnit, Idle, TypeOK, Process, Writers, Driving
<1>15. ASSUME NEW p \in Proc, TakeForCancel(p) PROVE Fine
  BY <1>15, <1>c, <1>0 DEF TakeForCancel, Line
<1>16. ASSUME NEW p \in Proc, RecordCancel(p) PROVE Fine
  <2>1. (IF proc[p].flag THEN "cancel verified" ELSE "cancel unverified") \in Line
    BY DEF Line
  <2> QED BY <1>16, <2>1, <1>0 DEF RecordCancel
<1>17. ASSUME NEW p \in Proc, Die(p) PROVE Fine
  BY <1>17 DEF Die, Idle, TypeOK, Process, Writers, Driving
<1>18. CASE Drain \/ UNCHANGED vars
  BY <1>18 DEF Drain, vars
<1> QED BY <1>1, <1>2, <1>3, <1>4, <1>5, <1>6, <1>7, <1>8, <1>9, <1>10, <1>11, <1>12, <1>13,
           <1>14, <1>15, <1>16, <1>17, <1>18 DEF Next, Step, Operator

LEMMA JournalStep == TypeOK /\ TypeOK' /\ JournalInv /\ [Next]_vars => JournalInv'
<1> SUFFICES ASSUME TypeOK, TypeOK', JournalInv, [Next]_vars PROVE JournalInv'
  OBVIOUS
<1>1. CASE UNCHANGED journal
  <2>1. status' = "cancelled" => status = "cancelled" \/ Verified
    <3>1. ASSUME NEW p \in Proc, FinishCancel(p), status' = "cancelled" PROVE Verified
      BY <3>1 DEF FinishCancel, At, JournalInv
    <3> QED BY <3>1 DEF Next, Step, Operator, vars, Start, Resume, Retry, Approve, RecordDecision,
                       ApplyDefault, SweepBeforeSpawn, Spawn, Enter, AcquireRun, Bookend, Open,
                       Work, SuspendAsking, StopShort, Summarise, Done, Release, Cancel,
                       RequestCancel, KillScope, TakeForCancel, RecordCancel, CrashCheck,
                       CrashLooks, RecordCrash, LookAway, Die, Drain
  <2> QED BY <1>1, <2>1, PlacesQuiet, JournalQuiet
<1>2. ASSUME NEW p \in Proc, Bookend(p), journal' # journal PROVE JournalInv'
  <2> DEFINE line == IF journal = <<>> THEN "started" ELSE "resume"
  <2>1. line \in Line \ CancelLine /\ line # "torn"
    BY DEF Line, CancelLine
  <2> HIDE DEF line
  <2>2. Write(line) /\ Readable /\ Move(p, "open") /\ lock' = lock /\ status' = status
    BY <1>2 DEF Bookend, line
  <2>3. lock = p
    BY <1>2 DEF Bookend, At, TypeOK, Holding
  <2>4. \A q \in Proc \ {p} : proc[q].place \notin Holding /\ proc'[q].place \notin Holding
    BY <2>2, <2>3 DEF TypeOK
  <2>5. proc'[p].place = "open"
    BY <2>2 DEF Move, TypeOK, Process
  <2> QED BY <2>1, <2>2, <2>3, <2>4, <2>5, JournalPlain
<1>3. ASSUME NEW p \in Proc, Work(p) \/ Summarise(p) PROVE JournalInv'
  <2>1. /\ proc[p].place = "drive" /\ lock = p /\ lock' = p
        /\ proc'[p].place \in Driving
    BY <1>3 DEF Work, Summarise, Move, At, TypeOK, Process, Holding, Driving
  <2>2. Readable
    BY <2>1, ReadableMeans DEF JournalInv, Writers, Driving
  <2>3. \A q \in Proc \ {p} : proc[q].place \notin Holding /\ proc'[q].place \notin Holding
    BY <2>1 DEF TypeOK
  <2>4. PICK line \in {"result", "summary"} : Write(line)
    BY <1>3 DEF Work, Summarise
  <2>5. line \in Line \ CancelLine /\ line # "torn"
    BY DEF Line, CancelLine
  <2>6. UNCHANGED status /\ proc'[p].place # "told" /\ proc'[p].place # "recorded"
    BY <1>3, <2>1 DEF Work, Summarise, Driving
  <2> QED BY <2>1, <2>2, <2>3, <2>4, <2>5, <2>6, JournalPlain
<1>4. ASSUME NEW p \in Proc, TakeForCancel(p), journal' # journal PROVE JournalInv'
  <2>1. /\ Write("requested") /\ Readable /\ ~ CancelRecorded /\ Move(p, "told")
        /\ lock = Nobody /\ lock' = p /\ status' = status
    BY <1>4 DEF TakeForCancel
  <2>2. \A q \in Proc \ {p} : proc[q].place \notin Holding /\ proc'[q].place \notin Holding
    BY <2>1, RunLifecycleAssumption DEF TypeOK
  <2>3. proc'[p].place = "told"
    BY <2>1 DEF Move, TypeOK, Process
  <2>4. "requested" \in Line \ CancelLine
    BY DEF Line, CancelLine
  <2> QED BY <2>1, <2>2, <2>3, <2>4, JournalPlain
<1>5. ASSUME NEW p \in Proc, RecordCancel(p) PROVE JournalInv'
  BY <1>5, JournalCancel
<1>6. ASSUME NEW p \in Proc, Die(p), journal' # journal PROVE JournalInv'
  <2>1. /\ Write("torn") /\ Readable
        /\ proc[p].place \in {"bookend", "drive", "told"} \/ lock = Nobody
        /\ status' = status /\ proc' = [proc EXCEPT ![p] = Idle]
    BY <1>6 DEF Die
  <2>2. lock = p \/ lock = Nobody
    BY <2>1 DEF TypeOK, Holding, Driving
  <2>3. proc'[p].place = "idle"
    BY <2>1 DEF TypeOK, Idle
  <2>4. \A q \in Proc \ {p} : proc[q].place \notin Holding /\ proc'[q].place \notin Holding
    BY <2>1, <2>2, RunLifecycleAssumption DEF TypeOK
  <2>5. "torn" \in Line \ CancelLine /\ "idle" \notin Writers
    BY DEF Line, CancelLine, Writers, Driving
  <2> QED BY <2>1, <2>2, <2>3, <2>4, <2>5, JournalPlain
<1> QED BY <1>1, <1>2, <1>3, <1>4, <1>5, <1>6
        DEF Next, Step, Operator, vars, Start, Resume, Retry, Approve, RecordDecision,
            ApplyDefault, SweepBeforeSpawn, Spawn, Enter, AcquireRun, Open, SuspendAsking,
            StopShort, Done, Release, Cancel, RequestCancel, KillScope, FinishCancel,
            CrashCheck, CrashLooks, RecordCrash, LookAway, Drain

LEMMA JournalAlways == Spec => []JournalInv
<1>1. Spec => []TypeOK
  BY TypeCorrect
<1>2. TypeOK /\ TypeOK' /\ JournalInv /\ [Next]_vars => JournalInv'
  BY JournalStep
<1> QED BY <1>1, <1>2, JournalInit, PTL DEF Spec

\* Whatever dies, and wherever: nobody appends behind a torn line, because every
\* writer reads the journal first and lines() raises (journal_jsonl.py).
THEOREM TornLineIsLast == Spec => []TornLineStaysLast
<1>1. JournalInv => TornLineStaysLast
  BY DEF JournalInv
<1> QED BY <1>1, JournalAlways, PTL

\* However many cancel at once, one outcome is on record, right after its
\* request, and state.json says cancelled only when that outcome was verified
\* (cancel.py resolve_cancel).
THEOREM CancelsStayOnRecord == Spec => []CancelsAreOnRecord
<1>1. JournalInv => CancelsAreOnRecord
  BY DEF JournalInv
<1> QED BY <1>1, JournalAlways, PTL

-----------------------------------------------------------------------------
(* Whom the crash pass accuses.  A run that has its opening line and says  *)
(* running has a coordinator at work on it, or has lost one.               *)

CancelPlaces == {"kill", "take", "told", "recorded"}

LossInv ==
  /\ status = "absent" => journal = <<>> /\ \A p \in Proc : proc[p].place = "idle"
  /\ status = "running" /\ journal = <<>> =>
       \A p \in Proc : proc[p].place \notin CancelPlaces
  /\ status = "running" /\ journal # <<>> =>
       lost \/ \E p \in Proc : proc[p].place \in Driving
  /\ \A p \in Proc : proc[p].place = "crash" => lost

LEMMA LossInit == Init => LossInv
BY DEF Init, LossInv, Idle

\* A step that leaves the status and the journal alone, of a run that exists.
LEMMA LossQuiet ==
  ASSUME LossInv, UNCHANGED <<status, journal>>, status # "absent", lost => lost',
         \A q \in Proc :
           /\ proc[q].place \in Driving => proc'[q].place \in Driving \/ lost'
           /\ proc'[q].place \in CancelPlaces =>
                proc[q].place \in CancelPlaces \/ status # "running"
           /\ proc'[q].place = "crash" => proc[q].place = "crash" \/ lost
  PROVE  LossInv'
BY DEF LossInv

LEMMA LossStep == TypeOK /\ JournalInv /\ LossInv /\ [Next]_vars => LossInv'
<1> SUFFICES ASSUME TypeOK, JournalInv, LossInv, [Next]_vars PROVE LossInv'
  OBVIOUS
<1> DEFINE Fine ==
      \A q \in Proc :
        /\ proc[q].place \in Driving => proc'[q].place \in Driving \/ lost'
        /\ proc'[q].place \in CancelPlaces =>
             proc[q].place \in CancelPlaces \/ status # "running"
        /\ proc'[q].place = "crash" => proc[q].place = "crash" \/ lost
<1>a. ASSUME NEW p \in Proc, ~ At(p, "idle") PROVE status # "absent"
  BY <1>a DEF At, LossInv
<1>b. ASSUME NEW p \in Proc, Return(p), proc[p].place \notin Driving PROVE Fine
  BY <1>b DEF Return, Idle, TypeOK, Process, CancelPlaces
<1>c. ASSUME NEW p \in Proc, NEW place \in Places, Move(p, place),
             proc[p].place \in Driving => place \in Driving \/ lost',
             place \in CancelPlaces => proc[p].place \in CancelPlaces,
             place # "crash"
      PROVE  Fine
  BY <1>c DEF Move, TypeOK, Process
<1>d. ASSUME NEW p \in Proc, NEW verb \in Verbs, Relaunch(p, verb), proc[p].place \notin Driving
      PROVE  Fine
  BY <1>d DEF Relaunch, TypeOK, Process, CancelPlaces
<1>e. ASSUME NEW p \in Proc, NEW next \in {"spawn", "acquire"}, Sweep(p, next),
             proc[p].place \notin Driving
      PROVE  Fine /\ (lost => lost')
  <2>1. next \in Places /\ next \notin CancelPlaces
    BY DEF Places, CancelPlaces
  <2>2. CASE Move(p, next) /\ UNCHANGED lost
    BY <1>c, <1>e, <2>1, <2>2
  <2>3. ASSUME NEW confirmed \in BOOLEAN, NEW to \in Process,
               StopUnit(confirmed, [proc EXCEPT ![p] = to]), to.place \in {next, "idle"}
        PROVE  Fine /\ (lost => lost')
    <3>1. \A q \in Members : proc'[q].place = "idle" /\ (proc[q].place \in Driving => lost')
      BY <2>3 DEF StopUnit, Members, Idle
    <3>2. \A q \in Proc \ Members : q # p => proc'[q] = proc[q]
      BY <2>3 DEF StopUnit, TypeOK
    <3>3. p \notin Members => proc'[p].place \in {next, "idle"}
      BY <2>3 DEF StopUnit, TypeOK
    <3>4. lost => lost'
      BY <2>3 DEF StopUnit
    <3> QED BY <1>e, <3>1, <3>2, <3>3, <3>4 DEF CancelPlaces, Members
  <2>4. [proc[p] EXCEPT !.place = next] \in Process /\ Idle \in Process
    BY <2>1, IdleType DEF TypeOK, Process
  <2>5. [proc[p] EXCEPT !.place = next].place = next /\ Idle.place = "idle"
    BY DEF TypeOK, Process, Idle
  <2>6. [proc EXCEPT ![p] = [@ EXCEPT !.place = next]]
          = [proc EXCEPT ![p] = [proc[p] EXCEPT !.place = next]]
    BY DEF TypeOK
  <2> QED BY <1>e, <2>2, <2>3, <2>4, <2>5, <2>6 DEF Sweep
<1>1. ASSUME NEW p \in Proc, Start(p) PROVE LossInv'
  <2>1. /\ journal' = <<>> /\ status' = "running"
        /\ \A q \in Proc : proc'[q].place \in {"idle", "spawn", "enter"}
    BY <1>1 DEF Start, Begin, LossInv, TypeOK, Process
  <2> QED BY <2>1 DEF LossInv, CancelPlaces
<1>2. ASSUME NEW p \in Proc, Resume(p) \/ Retry(p) PROVE LossInv'
  <2>1. Fine
    BY <1>2, <1>d DEF Resume, Retry, At, Verbs, Driving
  <2> QED BY <1>2, <2>1, LossQuiet DEF Resume, Retry
<1>3. ASSUME NEW p \in Proc, Approve(p) \/ Cancel(p) PROVE LossInv'
  <2>1. Fine
    BY <1>3 DEF Approve, Cancel, Begin, Undecided, At, TypeOK, Process, CancelPlaces, Driving
  <2> QED BY <1>3, <2>1, LossQuiet DEF Approve, Cancel, Undecided
<1>4. ASSUME NEW p \in Proc, RecordDecision(p) PROVE LossInv'
  <2>1. Fine
    BY <1>4, <1>b, <1>d DEF RecordDecision, At, Verbs, Driving
  <2> QED BY <1>4, <2>1, <1>a, LossQuiet DEF RecordDecision, At
<1>5. CASE ApplyDefault
  <2>1. Fine
    BY <1>5, RunLifecycleAssumption DEF ApplyDefault, Begin, At, TypeOK, Process, CancelPlaces, Driving
  <2> QED BY <1>5, <2>1, LossQuiet DEF ApplyDefault, Undecided
<1>6. ASSUME NEW p \in Proc, SweepBeforeSpawn(p) \/ Enter(p) PROVE LossInv'
  <2>1. Fine /\ (lost => lost')
    BY <1>6, <1>e DEF SweepBeforeSpawn, Enter, At, Driving
  <2> QED BY <1>6, <2>1, <1>a, LossQuiet DEF SweepBeforeSpawn, Enter, At
<1>7. ASSUME NEW p \in Proc, Spawn(p) PROVE LossInv'
  <2>1. Fine
    <3>1. \A q \in Proc : \/ proc'[q] = proc[q]
                          \/ /\ proc'[q].place \in {"idle", "enter"}
                             /\ proc[q].place \in {"idle", "spawn"}
      <4>1. Idle.place = "idle"
        BY DEF Idle
      <4>2. [proc[p] EXCEPT !.place = "enter", !.inUnit = (kind = "systemd")].place = "enter"
        BY DEF TypeOK, Process
      <4> QED BY <1>7, <4>1, <4>2 DEF Spawn, At, TypeOK
    <3> QED BY <3>1 DEF CancelPlaces, Driving
  <2> QED BY <1>7, <2>1, <1>a, LossQuiet DEF Spawn, At
<1>8. ASSUME NEW p \in Proc, AcquireRun(p) PROVE LossInv'
  <2>1. "bookend" \in Places /\ "bookend" \notin CancelPlaces
    BY DEF Places, CancelPlaces
  <2>2. Fine
    BY <1>8, <2>1, <1>b, <1>c DEF AcquireRun, At, Driving
  <2> QED BY <1>8, <2>2, <1>a, LossQuiet DEF AcquireRun, At
<1>9. ASSUME NEW p \in Proc, Bookend(p) PROVE LossInv'
  <2>1. CASE Return(p) /\ UNCHANGED journal
    <3>1. Fine
      BY <1>9, <2>1, <1>b DEF Bookend, At, Driving
    <3> QED BY <1>9, <2>1, <3>1, <1>a, LossQuiet DEF Bookend, At
  <2>2. CASE Write(IF journal = <<>> THEN "started" ELSE "resume") /\ Move(p, "open")
    <3>1. journal' # <<>>
      BY <2>2 DEF Write, TypeOK
    <3>2. status' = status /\ lost' = lost /\ status # "absent"
      BY <1>9, <1>a DEF Bookend, At
    <3>3. proc'[p].place = "open" /\ \A q \in Proc \ {p} : proc'[q] = proc[q]
      BY <2>2 DEF Move, TypeOK, Process
    <3> QED BY <3>1, <3>2, <3>3 DEF LossInv, Driving
  <2> QED BY <1>9, <2>1, <2>2 DEF Bookend
<1>10. ASSUME NEW p \in Proc, Open(p) PROVE LossInv'
  <2>1. /\ status' = "running" /\ journal' = journal /\ lost' = lost
        /\ proc'[p].place = "drive" /\ \A q \in Proc \ {p} : proc'[q] = proc[q]
    BY <1>10 DEF Open, TypeOK, Process
  <2>2. journal' # <<>>
    BY <1>10, <2>1 DEF Open, At, JournalInv, Writers, Driving
  <2> QED BY <2>1, <2>2 DEF LossInv, Driving
<1>11. ASSUME NEW p \in Proc, Work(p) \/ Summarise(p) PROVE LossInv'
  <2>1. journal' # <<>>
    BY <1>11 DEF Work, Summarise, Write, TypeOK
  <2>2. /\ status' = status /\ lost' = lost /\ proc'[p].place \in Driving
        /\ \A q \in Proc \ {p} : proc'[q] = proc[q]
    BY <1>11 DEF Work, Summarise, At, Move, TypeOK, Process, Driving
  <2>3. status # "absent"
    BY <1>11, <1>a DEF Work, Summarise, At
  <2> QED BY <2>1, <2>2, <2>3 DEF LossInv, Driving
<1>12. ASSUME NEW p \in Proc, SuspendAsking(p) \/ StopShort(p) \/ Done(p) PROVE LossInv'
  <2>1. /\ status' \notin {"absent", "running"} /\ lost' = lost
        /\ \A q \in Proc : proc'[q].place = "crash" => proc[q].place = "crash"
    BY <1>12 DEF SuspendAsking, StopShort, Done, Move, TypeOK, Process
  <2> QED BY <2>1 DEF LossInv
<1>13. ASSUME NEW p \in Proc, Release(p) PROVE LossInv'
  <2>1. Fine
    BY <1>13, <1>b DEF Release, At, Driving
  <2> QED BY <1>13, <2>1, <1>a, LossQuiet DEF Release, At
<1>14. ASSUME NEW p \in Proc, RequestCancel(p) \/ FinishCancel(p) PROVE LossInv'
  <2>1. /\ status' \notin {"absent", "running"} /\ lost' = lost
        /\ \A q \in Proc : proc'[q].place = "crash" => proc[q].place = "crash"
    BY <1>14 DEF RequestCancel, FinishCancel, Move, Return, Idle, TypeOK, Process
  <2> QED BY <2>1 DEF LossInv
<1>15. ASSUME NEW p \in Proc, KillScope(p) PROVE LossInv'
  <2>1. Fine /\ (lost => lost')
    BY <1>15, <1>b DEF KillScope, StopUnit, Members, At, Idle, TypeOK, Process, CancelPlaces, Driving
  <2> QED BY <1>15, <2>1, <1>a, LossQuiet DEF KillScope, At
<1>16. ASSUME NEW p \in Proc, TakeForCancel(p) PROVE LossInv'
  <2>1. CASE Return(p) /\ UNCHANGED journal
    <3>1. Fine
      BY <1>16, <2>1, <1>b DEF TakeForCancel, At, Driving
    <3> QED BY <1>16, <2>1, <3>1, <1>a, LossQuiet DEF TakeForCancel, At
  <2>2. CASE lock = Nobody /\ Write("requested") /\ Move(p, "told")
    <3>1. journal' # <<>> /\ status' = status /\ lost' = lost
      BY <1>16, <2>2 DEF TakeForCancel, Write, TypeOK
    <3>2. status # "absent" /\ (status = "running" => journal # <<>>)
      BY <1>16, <1>a DEF TakeForCancel, At, LossInv, CancelPlaces
    <3>3. \A q \in Proc : proc[q].place \notin Driving
      BY <2>2, RunLifecycleAssumption DEF TypeOK, Holding
    <3>4. proc'[p].place = "told" /\ \A q \in Proc \ {p} : proc'[q] = proc[q]
      BY <2>2 DEF Move, TypeOK, Process
    <3> QED BY <3>1, <3>2, <3>3, <3>4 DEF LossInv
  <2> QED BY <1>16, <2>1, <2>2 DEF TakeForCancel
<1>17. ASSUME NEW p \in Proc, RecordCancel(p) PROVE LossInv'
  <2>1. journal' # <<>>
    <3>1. (IF proc[p].flag THEN "cancel verified" ELSE "cancel unverified") \in Line
      BY DEF Line
    <3>2. Len(journal') = Len(journal) + 1 /\ Len(journal) \in Nat
      BY <1>17, <3>1, AppendFacts DEF RecordCancel, TypeOK
    <3>3. Len(journal') # 0
      BY <3>2
    <3> QED BY <3>3
  <2>2. journal # <<>>
    BY <1>17 DEF RecordCancel, At, JournalInv, Writers
  <2>3. /\ status' = status /\ lost' = lost /\ proc[p].place = "told" /\ proc'[p].place = "recorded"
        /\ \A q \in Proc \ {p} : proc'[q] = proc[q]
    BY <1>17 DEF RecordCancel, At, Move, TypeOK, Process
  <2>4. status # "absent"
    BY <1>17, <1>a DEF RecordCancel, At
  <2> QED BY <2>1, <2>2, <2>3, <2>4 DEF LossInv, Driving
<1>18. CASE CrashCheck
  <2>1. lost
    BY <1>18, RunLifecycleAssumption DEF CrashCheck, LooksDead, LossInv, TypeOK, Holding
  <2>2. Fine
    BY <1>18, <2>1, RunLifecycleAssumption DEF CrashCheck, Begin, At, TypeOK, Process, CancelPlaces, Driving
  <2> QED BY <1>18, <2>2, LossQuiet DEF CrashCheck, LooksDead
<1>23. CASE CrashLooks
  <2>1. Fine
    BY <1>23, RunLifecycleAssumption DEF CrashLooks, Begin, At, TypeOK, Process, CancelPlaces, Driving
  <2> QED BY <1>23, <2>1, LossQuiet DEF CrashLooks
<1>24. CASE LookAway
  <2>1. proc[Timer].place = "look"
    BY <1>24 DEF LookAway, At
  <2>2. status # "absent"
    BY <2>1, <1>a, RunLifecycleAssumption DEF At
  <2>3. Fine
    BY <1>24, <2>1, <1>b, RunLifecycleAssumption DEF LookAway, Driving
  <2> QED BY <1>24, <2>2, <2>3, LossQuiet DEF LookAway
<1>19. CASE RecordCrash
  <2>1. /\ status' \notin {"absent", "running"} /\ lost' = lost
        /\ \A q \in Proc : proc'[q].place = "crash" => proc[q].place = "crash"
    BY <1>19, RunLifecycleAssumption DEF RecordCrash, Return, Idle, TypeOK, Process
  <2> QED BY <2>1 DEF LossInv
<1>20. ASSUME NEW p \in Proc, Die(p) PROVE LossInv'
  <2>1. /\ status' = status /\ proc' = [proc EXCEPT ![p] = Idle] /\ status # "absent"
        /\ lost' = (lost \/ proc[p].place \in Driving \/ journal' # journal)
    BY <1>20, <1>a DEF Die
  <2>2. /\ proc'[p].place = "idle" /\ \A q \in Proc \ {p} : proc'[q] = proc[q]
    BY <2>1 DEF TypeOK, Idle
  <2>3. journal' = <<>> => journal = <<>>
    BY <1>20 DEF Die, Write, TypeOK
  <2> QED BY <2>1, <2>2, <2>3 DEF LossInv, CancelPlaces
<1>21. CASE Drain
  BY <1>21 DEF Drain, LossInv
<1>22. CASE UNCHANGED vars
  BY <1>22 DEF vars, LossInv
<1> QED BY <1>1, <1>2, <1>3, <1>4, <1>5, <1>6, <1>7, <1>8, <1>9, <1>10, <1>11, <1>12, <1>13,
           <1>14, <1>15, <1>16, <1>17, <1>18, <1>19, <1>20, <1>21, <1>22, <1>23, <1>24
        DEF Next, Step, Operator

LEMMA LossAlways == Spec => []LossInv
<1>1. Spec => []TypeOK /\ []JournalInv
  BY TypeCorrect, JournalAlways, PTL
<1>2. TypeOK /\ JournalInv /\ LossInv /\ [Next]_vars => LossInv'
  BY LossStep
<1> QED BY <1>1, <1>2, LossInit, PTL DEF Spec

\* crash.py records a crash only of a run one of whose coordinators vanished
\* after its opening line: never of one that is only starting, and never of one
\* that ended.
THEOREM CrashedWasReallyLost == Spec => CrashedWasLost
<1>1. LossInv /\ [Next]_vars => [status' = "crashed" => status = "crashed" \/ lost]_vars
  <2> SUFFICES ASSUME LossInv, Next, status' = "crashed", status # "crashed" PROVE lost
    BY DEF vars
  <2>1. RecordCrash
    BY DEF Next, Step, Operator, Start, Resume, Retry, Approve, RecordDecision,
           ApplyDefault, SweepBeforeSpawn, Spawn, Enter, AcquireRun, Bookend, Open, Work,
           SuspendAsking, StopShort, Summarise, Done, Release, Cancel, RequestCancel,
           KillScope, TakeForCancel, RecordCancel, FinishCancel, CrashCheck, CrashLooks,
           LookAway, Die, Drain
  <2> QED BY <2>1, RunLifecycleAssumption DEF RecordCrash, At, LossInv
<1> QED BY <1>1, LossAlways, PTL DEF Spec, CrashedWasLost

-----------------------------------------------------------------------------
(* What a verb read before it acts.                                        *)

Launching == {"launch", "spawn", "enter", "acquire", "bookend", "ended"} \cup Driving

\* Of each process, by its place.
SawOK(record) ==
  /\ record.place \in Launching =>
       /\ record.saw \notin {"cancelling", "cancelled"}
       /\ record.saw = "done" => record.verb = "retry"
  /\ record.place = "record" => record.saw = "suspended"
  /\ record.place = "crash" => record.saw = "running"
  /\ record.place \in {"request"} \cup CancelPlaces => record.saw \notin {"done", "cancelled"}
  /\ record.place = "request" => record.saw # "cancelling"

SawInv == \A p \in Proc : SawOK(proc[p])

LEMMA SawInit == Init => SawInv
BY DEF Init, SawInv, SawOK, Idle, Launching, Driving, CancelPlaces

LEMMA SawIdle == SawOK(Idle)
BY DEF SawOK, Idle, Launching, Driving, CancelPlaces

\* Places a process moves on to without reading the status again.
LEMMA SawMoves ==
  ASSUME TypeOK, SawInv, NEW p \in Proc, NEW place \in Places,
         \/ proc[p].place \in Launching /\ place \in Launching
         \/ proc[p].place \in {"request"} \cup CancelPlaces /\ place \in CancelPlaces
  PROVE  /\ SawOK([proc[p] EXCEPT !.place = place])
         /\ \A b \in BOOLEAN : SawOK([proc[p] EXCEPT !.place = place, !.flag = b])
         /\ \A b \in BOOLEAN : SawOK([proc[p] EXCEPT !.place = place, !.inUnit = b])
BY DEF TypeOK, Process, SawInv, SawOK, Launching, Driving, CancelPlaces

LEMMA SawStep == TypeOK /\ SawInv /\ [Next]_vars => SawInv'
<1> SUFFICES ASSUME TypeOK, SawInv, [Next]_vars PROVE SawInv'
  OBVIOUS
<1> USE RunLifecycleAssumption
<1>a. ASSUME NEW p \in Proc, Return(p) PROVE SawInv'
  BY <1>a, SawIdle DEF Return, SawInv, TypeOK
<1>b. ASSUME NEW p \in Proc, NEW place \in Places, Move(p, place),
             \/ proc[p].place \in Launching /\ place \in Launching
             \/ proc[p].place \in {"request"} \cup CancelPlaces /\ place \in CancelPlaces
      PROVE  SawInv'
  BY <1>b, SawMoves DEF Move, SawInv, TypeOK
<1>c. ASSUME NEW p \in Proc, NEW verb \in Verbs, NEW place \in Places, Begin(p, verb, place),
             SawOK([place |-> place, verb |-> verb, saw |-> status, inUnit |-> FALSE, flag |-> FALSE])
      PROVE  SawInv'
  BY <1>c DEF Begin, SawInv, TypeOK
<1>d. ASSUME NEW p \in Proc, NEW verb \in Verbs, Relaunch(p, verb),
             IF verb = "approve" THEN proc[p].saw = "suspended"
             ELSE status \notin {"cancelling", "cancelled"} /\ (status = "done" => verb = "retry")
      PROVE  SawInv'
  <2>1. PICK place \in {"launch", "enter"} :
          proc' = [proc EXCEPT ![p] = [place |-> place, verb |-> verb,
                                       saw |-> IF verb = "approve" THEN proc[p].saw ELSE status,
                                       inUnit |-> FALSE, flag |-> FALSE]]
    BY <1>d DEF Relaunch, TypeOK
  <2>2. SawOK([place |-> place, verb |-> verb,
               saw |-> IF verb = "approve" THEN proc[p].saw ELSE status,
               inUnit |-> FALSE, flag |-> FALSE])
    BY <1>d DEF SawOK, Launching, Driving, CancelPlaces
  <2> QED BY <2>1, <2>2 DEF SawInv, TypeOK
<1>e. ASSUME NEW confirmed \in BOOLEAN, NEW others \in [Proc -> Process], StopUnit(confirmed, others),
             \A q \in Proc : SawOK(others[q])
      PROVE  SawInv'
  BY <1>e, SawIdle DEF StopUnit, SawInv, TypeOK
<1>1. ASSUME NEW p \in Proc, Start(p) PROVE SawInv'
  <2>1. PICK place \in {"spawn", "enter"} : Begin(p, "start", place)
    BY <1>1 DEF Start
  <2>2. SawOK([place |-> place, verb |-> "start", saw |-> status, inUnit |-> FALSE, flag |-> FALSE])
    BY <1>1 DEF Start, SawOK, Launching, Driving, CancelPlaces
  <2> QED BY <2>1, <2>2, <1>c DEF Places, Verbs
<1>2. ASSUME NEW p \in Proc, Resume(p) \/ Retry(p) PROVE SawInv'
  BY <1>2, <1>d DEF Resume, Retry, Verbs
<1>3. ASSUME NEW p \in Proc, Approve(p) PROVE SawInv'
  <2>1. SawOK([place |-> "record", verb |-> "approve", saw |-> status, inUnit |-> FALSE, flag |-> FALSE])
    BY <1>3 DEF Approve, Undecided, SawOK, Launching, Driving, CancelPlaces
  <2> QED BY <1>3, <2>1, <1>c DEF Approve, Places, Verbs
<1>4. ASSUME NEW p \in Proc, RecordDecision(p) PROVE SawInv'
  <2>1. proc[p].saw = "suspended"
    BY <1>4 DEF RecordDecision, At, SawInv, SawOK
  <2> QED BY <1>4, <2>1, <1>a, <1>d DEF RecordDecision, Verbs
<1>5. CASE ApplyDefault
  <2>1. SawOK([place |-> "launch", verb |-> "deadline", saw |-> status, inUnit |-> FALSE, flag |-> FALSE])
    BY <1>5 DEF ApplyDefault, Undecided, SawOK, Launching, Driving, CancelPlaces
  <2> QED BY <1>5, <2>1, <1>c DEF ApplyDefault, Places, Verbs
<1>6. ASSUME NEW p \in Proc, SweepBeforeSpawn(p) \/ Enter(p) PROVE SawInv'
  <2>1. PICK next \in {"spawn", "acquire"} : Sweep(p, next)
    BY <1>6 DEF SweepBeforeSpawn, Enter
  <2>2. proc[p].place \in Launching /\ next \in Launching /\ next \in Places
    BY <1>6 DEF SweepBeforeSpawn, Enter, At, Launching, Places
  <2>3. CASE Move(p, next)
    BY <2>2, <2>3, <1>b
  <2>4. ASSUME NEW confirmed \in BOOLEAN, NEW to \in Process, SawOK(to),
               StopUnit(confirmed, [proc EXCEPT ![p] = to])
        PROVE  SawInv'
    <3>1. [proc EXCEPT ![p] = to] \in [Proc -> Process]
      BY DEF TypeOK
    <3>2. \A q \in Proc : SawOK([proc EXCEPT ![p] = to][q])
      BY <2>4 DEF TypeOK, SawInv
    <3> QED BY <2>4, <3>1, <3>2, <1>e
  <2>5. [proc[p] EXCEPT !.place = next] \in Process /\ SawOK([proc[p] EXCEPT !.place = next])
    BY <2>2, SawMoves DEF TypeOK, Process
  <2>6. Idle \in Process /\ SawOK(Idle)
    BY IdleType, SawIdle
  <2> QED BY <2>1, <2>3, <2>4, <2>5, <2>6 DEF Sweep
<1>7. ASSUME NEW p \in Proc, Spawn(p) PROVE SawInv'
  <2>1. SawOK([proc[p] EXCEPT !.place = "enter", !.inUnit = (kind = "systemd")])
    <3>1. "enter" \in Places /\ "enter" \in Launching /\ proc[p].place \in Launching
      BY <1>7 DEF Spawn, At, Launching, Places
    <3> QED BY <3>1, SawMoves
  <2> QED BY <1>7, <2>1, SawIdle DEF Spawn, SawInv, TypeOK
<1>8. ASSUME NEW p \in Proc, AcquireRun(p) PROVE SawInv'
  BY <1>8, <1>a, <1>b DEF AcquireRun, At, Launching, Places
<1>9. ASSUME NEW p \in Proc, Bookend(p) PROVE SawInv'
  BY <1>9, <1>a, <1>b DEF Bookend, At, Launching, Driving, Places
<1>10. ASSUME NEW p \in Proc, Open(p) PROVE SawInv'
  <2>1. SawOK([proc[p] EXCEPT !.place = "drive", !.flag = decided])
    <3>1. "drive" \in Places /\ "drive" \in Launching /\ proc[p].place \in Launching
      BY <1>10 DEF Open, At, Launching, Driving, Places
    <3> QED BY <3>1, SawMoves DEF TypeOK
  <2>2. proc' = [proc EXCEPT ![p] = [proc[p] EXCEPT !.place = "drive", !.flag = decided]]
    BY <1>10 DEF Open, TypeOK
  <2> QED BY <2>1, <2>2 DEF SawInv, TypeOK
<1>11. ASSUME NEW p \in Proc, Work(p) PROVE SawInv'
  BY <1>11 DEF Work, SawInv
<1>12. ASSUME NEW p \in Proc, SuspendAsking(p) PROVE SawInv'
  <2>1. SawOK([proc[p] EXCEPT !.place = "ended"])
    <3>1. "ended" \in Places /\ "ended" \in Launching /\ proc[p].place \in Launching
      BY <1>12 DEF SuspendAsking, At, Launching, Driving, Places
    <3> QED BY <3>1, SawMoves
  <2>2. \A q \in Proc : SawOK([proc[q] EXCEPT !.flag = TRUE])
    BY DEF TypeOK, Process, SawInv, SawOK
  <2> QED BY <1>12, <2>1, <2>2 DEF SuspendAsking, SawInv, TypeOK
<1>13. ASSUME NEW p \in Proc, StopShort(p) \/ Done(p) \/ Summarise(p) PROVE SawInv'
  BY <1>13, <1>b DEF StopShort, Done, Summarise, At, Launching, Driving, Places
<1>14. ASSUME NEW p \in Proc, Release(p) \/ FinishCancel(p) PROVE SawInv'
  BY <1>14, <1>a DEF Release, FinishCancel
<1>15. ASSUME NEW p \in Proc, Cancel(p) PROVE SawInv'
  <2> DEFINE place == IF status = "cancelling" THEN "kill" ELSE "request"
  <2>1. SawOK([place |-> place, verb |-> "cancel", saw |-> status, inUnit |-> FALSE, flag |-> FALSE])
    BY <1>15 DEF Cancel, SawOK, Launching, Driving, CancelPlaces
  <2>2. place \in Places /\ "cancel" \in Verbs
    BY DEF Places, Verbs
  <2> HIDE DEF place
  <2>3. Begin(p, "cancel", place)
    BY <1>15 DEF Cancel, place
  <2> QED BY <2>1, <2>2, <2>3, <1>c
<1>16. ASSUME NEW p \in Proc, RequestCancel(p) \/ RecordCancel(p) PROVE SawInv'
  BY <1>16, <1>b DEF RequestCancel, RecordCancel, At, CancelPlaces, Places
<1>17. ASSUME NEW p \in Proc, KillScope(p) PROVE SawInv'
  <2>1. \A b \in BOOLEAN : SawOK([proc[p] EXCEPT !.place = "take", !.flag = b])
    <3>1. "take" \in Places /\ "take" \in CancelPlaces /\ proc[p].place \in CancelPlaces
      BY <1>17 DEF KillScope, At, CancelPlaces, Places
    <3> QED BY <3>1, SawMoves
  <2>2. CASE proc' = [proc EXCEPT ![p].place = "take", ![p].flag = (kind = "systemd")]
    <3>1. proc' = [proc EXCEPT ![p] = [proc[p] EXCEPT !.place = "take", !.flag = (kind = "systemd")]]
      BY <2>2 DEF TypeOK
    <3> QED BY <2>1, <3>1 DEF SawInv, TypeOK
  <2>3. ASSUME NEW confirmed \in BOOLEAN,
               StopUnit(confirmed, [proc EXCEPT ![p].place = "take", ![p].flag = confirmed])
        PROVE  SawInv'
    <3> DEFINE others == [proc EXCEPT ![p].place = "take", ![p].flag = confirmed]
    <3>1. /\ others \in [Proc -> Process]
          /\ others[p] = [proc[p] EXCEPT !.place = "take", !.flag = confirmed]
          /\ \A q \in Proc \ {p} : others[q] = proc[q]
      BY DEF TypeOK, Process, Places
    <3> HIDE DEF others
    <3>2. \A q \in Proc : SawOK(others[q])
      BY <2>1, <3>1 DEF SawInv
    <3>3. StopUnit(confirmed, others)
      BY <2>3 DEF others
    <3> QED BY <3>1, <3>2, <3>3, <1>e
  <2> QED BY <1>17, <1>a, <2>2, <2>3 DEF KillScope
<1>18. ASSUME NEW p \in Proc, TakeForCancel(p) PROVE SawInv'
  BY <1>18, <1>a, <1>b DEF TakeForCancel, At, CancelPlaces, Places
<1>19. CASE CrashCheck
  <2>1. SawOK([place |-> "crash", verb |-> "crash", saw |-> status, inUnit |-> FALSE, flag |-> FALSE])
    BY <1>19 DEF CrashCheck, LooksDead, SawOK, Launching, Driving, CancelPlaces
  <2> QED BY <1>19, <2>1, <1>c DEF CrashCheck, Places, Verbs
<1>20. CASE RecordCrash \/ LookAway
  BY <1>20, <1>a DEF RecordCrash, LookAway
<1>23. CASE CrashLooks
  <2>1. SawOK([place |-> "look", verb |-> "crash", saw |-> status, inUnit |-> FALSE, flag |-> FALSE])
    BY DEF SawOK, Launching, Driving, CancelPlaces
  <2> QED BY <1>23, <2>1, <1>c DEF CrashLooks, Places, Verbs
<1>21. ASSUME NEW p \in Proc, Die(p) PROVE SawInv'
  BY <1>21, SawIdle DEF Die, SawInv, TypeOK
<1>22. CASE Drain \/ UNCHANGED vars
  BY <1>22 DEF Drain, vars, SawInv
<1> QED BY <1>1, <1>2, <1>3, <1>4, <1>5, <1>6, <1>7, <1>8, <1>9, <1>10, <1>11, <1>12, <1>13,
           <1>14, <1>15, <1>16, <1>17, <1>18, <1>19, <1>20, <1>21, <1>22, <1>23
        DEF Next, Step, Operator

LEMMA SawAlways == Spec => []SawInv
<1>1. Spec => []TypeOK
  BY TypeCorrect
<1>2. TypeOK /\ SawInv /\ [Next]_vars => SawInv'
  BY SawStep
<1> QED BY <1>1, <1>2, SawInit, PTL DEF Spec

\* Done, cancelling and cancelled are left only by a verb that had read another
\* status before, by a retry of a done run, or by the cancel that finishes: the
\* guards of run.py are all on what a verb read, so nobody else can.
THEOREM StaleVerbsStandAside == Spec => StaleVerbsAside
<1> DEFINE Aside ==
      \A p \in Proc :
        /\ status \in {"done", "cancelling", "cancelled"}
        /\ status' # status
        /\ proc'[p] # proc[p]
        => \/ proc[p].saw # status
           \/ status = "done" /\ proc[p].verb = "retry"
           \/ status = "cancelling" /\ status' = "cancelled"
<1>1. TypeOK /\ SawInv /\ [Next]_vars => [Aside]_vars
  <2> SUFFICES ASSUME TypeOK, SawInv, Next, NEW q \in Proc,
                      status \in {"done", "cancelling", "cancelled"},
                      status' # status, proc'[q] # proc[q]
               PROVE  \/ proc[q].saw # status
                      \/ status = "done" /\ proc[q].verb = "retry"
                      \/ status = "cancelling" /\ status' = "cancelled"
    BY DEF vars
  <2>1. \E p \in Proc : \/ Open(p) \/ SuspendAsking(p) \/ StopShort(p) \/ Done(p)
                         \/ RequestCancel(p) \/ FinishCancel(p) \/ (RecordCrash /\ p = Timer)
    BY RunLifecycleAssumption
       DEF Next, Step, Operator, Start, Resume, Retry, Approve, RecordDecision,
           ApplyDefault, SweepBeforeSpawn, Spawn, Enter, AcquireRun, Bookend, Work,
           Summarise, Release, Cancel, KillScope, TakeForCancel, RecordCancel, CrashCheck,
           CrashLooks, LookAway, Die, Drain
  <2>2. ASSUME NEW p \in Proc, Open(p) \/ StopShort(p) \/ Done(p)
        PROVE  q = p /\ proc[p].place \in Launching
    BY <2>2 DEF Open, StopShort, Done, At, Move, TypeOK, Launching, Driving
  <2>3. ASSUME NEW p \in Proc, SuspendAsking(p)
        PROVE  \/ q = p /\ proc[p].place \in Launching
               \/ proc[q].place = "record"
    BY <2>3 DEF SuspendAsking, At, TypeOK, Launching, Driving
  <2>4. ASSUME NEW p \in Proc, RequestCancel(p)
        PROVE  q = p /\ proc[p].place = "request"
    BY <2>4 DEF RequestCancel, At, Move, TypeOK
  <2>5. ASSUME NEW p \in Proc, FinishCancel(p)
        PROVE  q = p /\ proc[p].place = "recorded" /\ status' \in {"cancelling", "cancelled"}
    BY <2>5 DEF FinishCancel, At, Return, TypeOK
  <2>6. ASSUME RecordCrash PROVE q = Timer /\ proc[Timer].place = "crash"
    BY <2>6 DEF RecordCrash, At, Return, TypeOK
  <2>7. SawOK(proc[q])
    BY DEF SawInv
  <2> QED BY <2>1, <2>2, <2>3, <2>4, <2>5, <2>6, <2>7 DEF SawOK, CancelPlaces
<1>2. Spec => []TypeOK /\ []SawInv
  BY TypeCorrect, SawAlways, PTL
<1> QED BY <1>1, <1>2, PTL DEF Spec, StaleVerbsAside

=============================================================================
