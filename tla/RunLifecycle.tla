---------------------------- MODULE RunLifecycle ----------------------------
(***************************************************************************)
(* The verbs of `agentdag run` over one run: start, resume, retry,         *)
(* approve, cancel, and the timer's pass over deadlines and crashes        *)
(* (adapters/cli/commands/run.py, application/kernel/cancel.py, crash.py,  *)
(* run.py).  Each verb is a process that reads state.json and acts later   *)
(* on what it read.  Only the run lock and the exclusive files stand       *)
(* between them, and state.json is also written without the lock.          *)
(*                                                                         *)
(* The lock is one atomic step here (RunLock has its system calls): a dead *)
(* holder's lock is broken by whoever asks next, so it counts as free.     *)
(* Signals reach every process of a systemd scope; the executors a dead    *)
(* coordinator leaves behind keep its scope up for a while.                *)
(***************************************************************************)
EXTENDS Naturals, Sequences, SequencesExt, FiniteSets

CONSTANTS
  Proc,         \* the processes: verbs of operators and coordinators
  Timer,        \* the one the systemd timer runs
  Kinds,        \* the scope kinds a host may offer
  MaxLaunches,  \* bound: coordinators launched
  MaxDeaths,    \* bound: processes that die
  Nobody        \* the lock is free

ASSUME RunLifecycleAssumption ==
  /\ Timer \in Proc
  /\ Nobody \notin Proc
  /\ Kinds \subseteq {"systemd", "none"}
  /\ MaxLaunches \in Nat
  /\ MaxDeaths \in Nat

VARIABLES
  kind,      \* which scope this host has, fixed
  status,    \* the status in state.json
  decided,   \* the latest question has its decision file (none asked: yes)
  journal,   \* the journal, as kinds of lines
  lock,      \* who holds the run lock
  proc,      \* the processes
  unit,      \* the run's scope: no unit, active, or deactivating
  launches,  \* launches made
  deaths,    \* processes that died
  lost,      \* history: a coordinator ended without its final status
  swept      \* history: how many launches there had been when a sweep last
             \* stopped a process

vars == <<kind, status, decided, journal, lock, proc, unit, launches, deaths,
          lost, swept>>

\* RunStatus; a run suspended on a refusing provider asks nobody, and is
\* "waiting" here.
Status == {"absent", "running", "suspended", "waiting", "done", "failed",
           "crashed", "cancelling", "cancelled"}

Line == {"started", "resume", "result", "summary", "requested",
         "cancel verified", "cancel unverified", "torn"}

CancelLine == {"cancel verified", "cancel unverified"}

Verbs == {"none", "start", "resume", "retry", "approve", "deadline", "cancel",
          "crash"}

\* Where a process is.  A coordinator runs from "enter" to "ended"; from
\* "open" to "report" it has journalled its opening and owes a final status.
Driving == {"open", "drive", "report"}
Places == {"idle", "launch", "spawn", "record", "crash", "look",
           "enter", "acquire", "bookend", "ended",
           "request", "kill", "take", "told", "recorded"} \cup Driving

\* Where a process has the lock: nobody journals or ends a run without it.
Holding == {"bookend", "ended", "told", "recorded", "crash", "look"} \cup Driving

\* saw is the status the verb read when it began, flag what it must remember:
\* that the decision was folded, that its question is outdated, that the kill
\* was verified.
Process == [place : Places, verb : Verbs, saw : Status, inUnit : BOOLEAN,
            flag : BOOLEAN]

Idle == [place |-> "idle", verb |-> "none", saw |-> "absent",
         inUnit |-> FALSE, flag |-> FALSE]

TypeOK ==
  /\ kind \in Kinds
  /\ status \in Status
  /\ decided \in BOOLEAN
  /\ journal \in Seq(Line)
  /\ lock \in Proc \cup {Nobody}
  /\ proc \in [Proc -> Process]
  /\ unit \in {"gone", "active", "stopping"}
  /\ launches \in 0..MaxLaunches
  /\ deaths \in 0..MaxDeaths
  /\ lost \in BOOLEAN
  /\ swept \in 0..MaxLaunches
  /\ \A p \in Proc : lock = p <=> proc[p].place \in Holding

Init ==
  /\ kind \in Kinds
  /\ status = "absent"
  /\ decided = TRUE
  /\ journal = <<>>
  /\ lock = Nobody
  /\ proc = [p \in Proc |-> Idle]
  /\ unit = "gone"
  /\ launches = 0
  /\ deaths = 0
  /\ lost = FALSE
  /\ swept = 0

-----------------------------------------------------------------------------
(* Processes, the lock, the journal and the scope *)

At(p, place) == proc[p].place = place

\* Some process reads the status now and will act on it later.
Begin(p, verb, place) ==
  proc' = [proc EXCEPT ![p] = [place |-> place, verb |-> verb, saw |-> status,
                               inUnit |-> FALSE, flag |-> FALSE]]

Move(p, place) == proc' = [proc EXCEPT ![p].place = place]

\* The command returns, with an error or not; an emptied unit goes away.
Return(p) ==
  /\ proc' = [proc EXCEPT ![p] = Idle]
  /\ unit' = IF proc[p].inUnit THEN "gone" ELSE unit

\* Reading the journal raises on a line a crash has torn.
Readable == "torn" \notin ToSet(journal)

Write(line) == journal' = Append(journal, line)

CancelRecorded == \E i \in DOMAIN journal : journal[i] \in CancelLine

Members == {p \in Proc : proc[p].inUnit}

\* Only a systemd unit can be asked for by name from another process, and
\* only the state "active" counts as alive.
UnitAlive == kind = "systemd" /\ unit = "active"

\* Stopping the unit signals all its processes.  Executors may outlast the
\* poll of the cgroup: then the kill is not confirmed.
StopUnit(confirmed, others) ==
  /\ proc' = [p \in Proc |-> IF p \in Members THEN Idle ELSE others[p]]
  /\ lock' = IF lock \in Members THEN Nobody ELSE lock
  /\ lost' = (lost \/ \E p \in Members : proc[p].place \in Driving)
  /\ unit' = IF confirmed THEN "gone" ELSE "stopping"

\* The sweep before a launch: nothing to do, or the unit is stopped, and
\* unless that is confirmed the launch is given up.
Sweep(p, next) ==
  \/ /\ ~ UnitAlive
     /\ Move(p, next)
     /\ UNCHANGED <<lock, lost, unit, swept>>
  \/ /\ UnitAlive
     /\ \E confirmed \in BOOLEAN :
          StopUnit(confirmed,
                   [proc EXCEPT ![p] = IF confirmed THEN [@ EXCEPT !.place = next]
                                                    ELSE Idle])
     /\ swept' = launches

-----------------------------------------------------------------------------
(* The verbs that launch a coordinator *)

\* In the background by way of a sweep and a new process, or in this one.
Relaunch(p, verb) ==
  /\ launches < MaxLaunches
  /\ launches' = launches + 1
  /\ \E place \in {"launch", "enter"} :
       proc' = [proc EXCEPT ![p] = [place |-> place, verb |-> verb,
                                    saw |-> IF verb = "approve" THEN @.saw ELSE status,
                                    inUnit |-> FALSE, flag |-> FALSE]]

\* state.json says running before a coordinator exists.
Start(p) ==
  /\ At(p, "idle")
  /\ status = "absent"
  /\ launches < MaxLaunches
  /\ launches' = launches + 1
  /\ status' = "running"
  /\ \E place \in {"spawn", "enter"} : Begin(p, "start", place)
  /\ UNCHANGED <<kind, decided, journal, lock, unit, deaths, lost, swept>>

\* Fault: only a done run is refused.
ResumeCancelled(p) ==
  /\ At(p, "idle")
  /\ status \notin {"absent", "done", "cancelling"}
  /\ Relaunch(p, "resume")
  /\ UNCHANGED <<kind, status, decided, journal, lock, unit, deaths, lost, swept>>

Resume(p) ==
  /\ At(p, "idle")
  /\ status \notin {"absent", "done", "cancelled", "cancelling"}
  /\ Relaunch(p, "resume")
  /\ UNCHANGED <<kind, status, decided, journal, lock, unit, deaths, lost, swept>>

\* Needs a failed record; of a run that seems to be running it only writes
\* the grant, which changes nothing here.
Grantable == Readable /\ "result" \in ToSet(journal)

Retry(p) ==
  /\ At(p, "idle")
  /\ status \notin {"absent", "running", "cancelled", "cancelling"}
  /\ Grantable
  /\ Relaunch(p, "retry")
  /\ UNCHANGED <<kind, status, decided, journal, lock, unit, deaths, lost, swept>>

Undecided == status = "suspended" /\ ~ decided

Approve(p) ==
  /\ At(p, "idle")
  /\ Undecided
  /\ Begin(p, "approve", "record")
  /\ UNCHANGED <<kind, status, decided, journal, lock, unit, launches, deaths,
                 lost, swept>>

\* The decision file is written once; whoever is late, or has answered a
\* question that has its file, is refused.
RecordDecision(p) ==
  /\ At(p, "record")
  /\ \/ /\ decided \/ proc[p].flag
        /\ Return(p)
        /\ UNCHANGED <<decided, launches>>
     \/ /\ ~ decided
        /\ ~ proc[p].flag
        /\ decided' = TRUE
        /\ \/ Relaunch(p, "approve") /\ UNCHANGED unit
           \/ Return(p) /\ UNCHANGED launches
  /\ UNCHANGED <<kind, status, journal, lock, deaths, lost, swept>>

\* The timer holds the lock while it decides; it relaunches what it decided.
ApplyDefault ==
  /\ At(Timer, "idle")
  /\ lock = Nobody
  /\ Undecided
  /\ decided' = TRUE
  /\ launches < MaxLaunches
  /\ launches' = launches + 1
  /\ Begin(Timer, "deadline", "launch")
  /\ UNCHANGED <<kind, status, journal, lock, unit, deaths, lost, swept>>

SweepBeforeSpawn(p) ==
  /\ At(p, "launch")
  /\ Sweep(p, "spawn")
  /\ UNCHANGED <<kind, status, decided, journal, launches, deaths>>

\* The background process is a child inside the unit; systemd refuses a name
\* in use, and then nothing is launched.
Spawn(p) ==
  /\ At(p, "spawn")
  /\ \/ /\ kind = "systemd"
        /\ unit # "gone"
        /\ proc' = [proc EXCEPT ![p] = Idle]
        /\ UNCHANGED unit
     \/ /\ kind = "none" \/ unit = "gone"
        /\ \E child \in Proc \ {p, Timer} :
             /\ At(child, "idle")
             /\ proc' = [proc EXCEPT
                           ![p] = Idle,
                           ![child] = [proc[p] EXCEPT !.place = "enter",
                                                      !.inUnit = (kind = "systemd")]]
        /\ unit' = IF kind = "systemd" THEN "active" ELSE unit
  /\ UNCHANGED <<kind, status, decided, journal, lock, launches, deaths, lost, swept>>

-----------------------------------------------------------------------------
(* The coordinator *)

Enter(p) ==
  /\ At(p, "enter")
  /\ Sweep(p, "acquire")
  /\ UNCHANGED <<kind, status, decided, journal, launches, deaths>>

AcquireRun(p) ==
  /\ At(p, "acquire")
  /\ \/ lock = Nobody /\ lock' = p /\ Move(p, "bookend") /\ UNCHANGED unit
     \/ lock # Nobody /\ Return(p) /\ UNCHANGED lock
  /\ UNCHANGED <<kind, status, decided, journal, launches, deaths, lost, swept>>

\* Fault: the journal is not read before the opening line is appended.
BookendBlind(p) ==
  /\ At(p, "bookend")
  /\ Write(IF journal = <<>> THEN "started" ELSE "resume")
  /\ Move(p, "open")
  /\ UNCHANGED <<kind, status, decided, lock, unit, launches, deaths, lost, swept>>

\* The opening line: a start only over an empty journal.  A torn line, a
\* module that reads the clock or foreign arguments raise before it.
Bookend(p) ==
  /\ At(p, "bookend")
  /\ \/ /\ Readable
        /\ Write(IF journal = <<>> THEN "started" ELSE "resume")
        /\ Move(p, "open")
        /\ UNCHANGED <<lock, unit>>
     \/ /\ Return(p)
        /\ lock' = Nobody
        /\ UNCHANGED journal
  /\ UNCHANGED <<kind, status, decided, launches, deaths, lost, swept>>

\* What is decided by now is folded in, then state.json says running.
Open(p) ==
  /\ At(p, "open")
  /\ status' = "running"
  /\ proc' = [proc EXCEPT ![p].place = "drive", ![p].flag = decided]
  /\ UNCHANGED <<kind, decided, journal, lock, unit, launches, deaths, lost, swept>>

Work(p) ==
  /\ At(p, "drive")
  /\ Last(journal) # "result"
  /\ Write("result")
  /\ UNCHANGED <<kind, status, decided, lock, proc, unit, launches, deaths, lost, swept>>

\* The program asks: the question it asked before if no decision on it was
\* folded, else a new one, and who still answers the old one is late.
SuspendAsking(p) ==
  /\ At(p, "drive")
  /\ status' = "suspended"
  /\ decided' = (decided /\ ~ proc[p].flag)
  /\ proc' = [q \in Proc |->
                IF q = p THEN [proc[q] EXCEPT !.place = "ended"]
                ELSE IF At(q, "record") /\ proc[p].flag THEN [proc[q] EXCEPT !.flag = TRUE]
                ELSE proc[q]]
  /\ UNCHANGED <<kind, journal, lock, unit, launches, deaths, lost, swept>>

\* The provider refuses, or the program raises.
StopShort(p) ==
  /\ At(p, "drive")
  /\ status' \in {"waiting", "failed"}
  /\ Move(p, "ended")
  /\ UNCHANGED <<kind, decided, journal, lock, unit, launches, deaths, lost, swept>>

Summarise(p) ==
  /\ At(p, "drive")
  /\ Write("summary")
  /\ Move(p, "report")
  /\ UNCHANGED <<kind, status, decided, lock, unit, launches, deaths, lost, swept>>

Done(p) ==
  /\ At(p, "report")
  /\ status' = "done"
  /\ Move(p, "ended")
  /\ UNCHANGED <<kind, decided, journal, lock, unit, launches, deaths, lost, swept>>

Release(p) ==
  /\ At(p, "ended")
  /\ lock' = Nobody
  /\ Return(p)
  /\ UNCHANGED <<kind, status, decided, journal, launches, deaths, lost, swept>>

-----------------------------------------------------------------------------
(* Cancel, and the crash pass *)

\* Writes nothing of a run already cancelling, and refuses a finished one.
Cancel(p) ==
  /\ At(p, "idle")
  /\ status \notin {"absent", "done", "failed", "cancelled"}
  /\ Begin(p, "cancel", IF status = "cancelling" THEN "kill" ELSE "request")
  /\ UNCHANGED <<kind, status, decided, journal, lock, unit, launches, deaths,
                 lost, swept>>

\* The status read is a while ago, and the lock is not asked for.
RequestCancel(p) ==
  /\ At(p, "request")
  /\ status' = "cancelling"
  /\ Move(p, "kill")
  /\ UNCHANGED <<kind, decided, journal, lock, unit, launches, deaths, lost, swept>>

\* A cancel on record is only reported.  Otherwise the unit is stopped;
\* without a unit to ask for nothing is killed and nothing verified.
KillScope(p) ==
  /\ At(p, "kill")
  /\ \/ /\ CancelRecorded \/ ~ Readable
        /\ Return(p)
        /\ UNCHANGED <<lock, lost>>
     \/ /\ ~ CancelRecorded /\ Readable /\ ~ UnitAlive
        /\ proc' = [proc EXCEPT ![p].place = "take", ![p].flag = (kind = "systemd")]
        /\ UNCHANGED <<lock, lost, unit>>
     \/ /\ ~ CancelRecorded /\ Readable /\ UnitAlive
        /\ \E confirmed \in BOOLEAN :
             StopUnit(confirmed, [proc EXCEPT ![p].place = "take", ![p].flag = confirmed])
  /\ UNCHANGED <<kind, status, decided, journal, launches, deaths, swept>>

\* Fault: the journal is not read again under the lock.
TakeForCancelBlind(p) ==
  /\ At(p, "take")
  /\ \/ /\ lock = Nobody /\ Readable
        /\ lock' = p
        /\ Write("requested")
        /\ Move(p, "told")
        /\ UNCHANGED unit
     \/ /\ lock # Nobody \/ ~ Readable
        /\ Return(p)
        /\ UNCHANGED <<lock, journal>>
  /\ UNCHANGED <<kind, status, decided, launches, deaths, lost, swept>>

\* Only with the lock, and only if nobody recorded a cancel meanwhile.
TakeForCancel(p) ==
  /\ At(p, "take")
  /\ \/ /\ lock = Nobody /\ ~ CancelRecorded /\ Readable
        /\ lock' = p
        /\ Write("requested")
        /\ Move(p, "told")
        /\ UNCHANGED unit
     \/ /\ lock # Nobody \/ CancelRecorded \/ ~ Readable
        /\ Return(p)
        /\ UNCHANGED <<lock, journal>>
  /\ UNCHANGED <<kind, status, decided, launches, deaths, lost, swept>>

RecordCancel(p) ==
  /\ At(p, "told")
  /\ Write(IF proc[p].flag THEN "cancel verified" ELSE "cancel unverified")
  /\ Move(p, "recorded")
  /\ UNCHANGED <<kind, status, decided, lock, unit, launches, deaths, lost, swept>>

FinishCancel(p) ==
  /\ At(p, "recorded")
  /\ status' = IF proc[p].flag THEN "cancelled" ELSE "cancelling"
  /\ lock' = Nobody
  /\ Return(p)
  /\ UNCHANGED <<kind, decided, journal, launches, deaths, lost, swept>>

\* Faults: a starting run is accused; only a run that had a unit is noticed.
CrashCheckEager ==
  /\ At(Timer, "idle")
  /\ lock = Nobody
  /\ status = "running"
  /\ lock' = Timer
  /\ Begin(Timer, "crash", "crash")
  /\ UNCHANGED <<kind, status, decided, journal, unit, launches, deaths, lost, swept>>

CrashCheckOfUnits ==
  /\ At(Timer, "idle")
  /\ kind = "systemd" /\ unit = "gone"
  /\ lock = Nobody
  /\ status = "running"
  /\ journal # <<>>
  /\ lock' = Timer
  /\ Begin(Timer, "crash", "crash")
  /\ UNCHANGED <<kind, status, decided, journal, unit, launches, deaths, lost, swept>>

\* A run that claims to be running while its lock is free was lost, unless
\* its journal is empty: then it is starting.
LooksDead == lock = Nobody /\ status = "running" /\ journal # <<>>

CrashCheck ==
  /\ At(Timer, "idle")
  /\ LooksDead
  /\ lock' = Timer
  /\ Begin(Timer, "crash", "crash")
  /\ UNCHANGED <<kind, status, decided, journal, unit, launches, deaths, lost, swept>>

\* Every other tick finds the lock free as well, takes it to look, and lets it
\* go: a launch or a cancel that asks in between is turned away.
CrashLooks ==
  /\ At(Timer, "idle")
  /\ lock = Nobody /\ status # "absent" /\ ~ LooksDead
  /\ lock' = Timer
  /\ Begin(Timer, "crash", "look")
  /\ UNCHANGED <<kind, status, decided, journal, unit, launches, deaths, lost, swept>>

LookAway ==
  /\ At(Timer, "look")
  /\ lock' = Nobody
  /\ Return(Timer)
  /\ UNCHANGED <<kind, status, decided, journal, launches, deaths, lost, swept>>

RecordCrash ==
  /\ At(Timer, "crash")
  /\ status' = "crashed"
  /\ lock' = Nobody
  /\ Return(Timer)
  /\ UNCHANGED <<kind, decided, journal, launches, deaths, lost, swept>>

-----------------------------------------------------------------------------
(* What the system does *)

\* A process dies between two steps, or inside an append, which tears the
\* line.  The executors of a dead coordinator keep its unit for a while.
Die(p) ==
  /\ ~ At(p, "idle")
  /\ deaths < MaxDeaths
  /\ deaths' = deaths + 1
  /\ proc' = [proc EXCEPT ![p] = Idle]
  /\ lock' = IF lock = p THEN Nobody ELSE lock
  /\ unit' \in IF ~ proc[p].inUnit THEN {unit}
               ELSE IF At(p, "drive") THEN {"gone", "active"} ELSE {"gone"}
  /\ \/ UNCHANGED journal
     \/ /\ \/ proc[p].place \in {"bookend", "drive", "told"}
           \/ At(p, "take") /\ lock = Nobody /\ ~ CancelRecorded
        /\ Readable
        /\ Write("torn")
  /\ lost' = (lost \/ proc[p].place \in Driving \/ journal' # journal)
  /\ UNCHANGED <<kind, status, decided, launches, swept>>

\* What lingered in the unit ends.
Drain ==
  /\ unit # "gone"
  /\ Members = {}
  /\ unit' = "gone"
  /\ UNCHANGED <<kind, status, decided, journal, lock, proc, launches, deaths,
                 lost, swept>>

\* A process goes on with what it began.
Step(p) ==
  \/ RecordDecision(p) \/ SweepBeforeSpawn(p) \/ Spawn(p)
  \/ Enter(p) \/ AcquireRun(p) \/ Bookend(p) \/ Open(p) \/ Work(p)
  \/ SuspendAsking(p) \/ StopShort(p) \/ Summarise(p) \/ Done(p) \/ Release(p)
  \/ RequestCancel(p) \/ KillScope(p) \/ TakeForCancel(p) \/ RecordCancel(p)
  \/ FinishCancel(p)

Operator(p) ==
  Start(p) \/ Resume(p) \/ Retry(p) \/ Approve(p) \/ Cancel(p)

Next ==
  \/ \E p \in Proc : Step(p) \/ Die(p)
  \/ \E p \in Proc \ {Timer} : Operator(p)
  \/ ApplyDefault \/ CrashCheck \/ CrashLooks \/ RecordCrash \/ LookAway
  \/ Drain

Spec == Init /\ [][Next]_vars

\* A process that lives goes on, and the timer keeps ticking.  Nothing is
\* assumed of operators, nor of a program: what it waits for has no bound.
Fairness ==
  /\ \A p \in Proc : WF_vars(~ At(p, "drive") /\ Step(p))
  /\ WF_vars(CrashCheck) /\ WF_vars(RecordCrash) /\ WF_vars(LookAway)
  /\ WF_vars(Drain)

LiveSpec == Spec /\ Fairness

-----------------------------------------------------------------------------
(* Properties *)

\* Whoever cancels, and however often, one outcome is journalled, right after
\* its request (cancel.py resolve_cancel).
CancelRecordedOnce ==
  \A i, j \in DOMAIN journal :
    journal[i] \in CancelLine =>
      /\ i > 1 /\ journal[i - 1] = "requested"
      /\ journal[j] \in CancelLine => j = i

\* A run says cancelled only when its journal says that this was verified.
CancelledIsVerified ==
  status = "cancelled" => \E i \in DOMAIN journal : journal[i] = "cancel verified"

\* A cancel is on record: its outcome once, after its request, and the status
\* never ahead of it.
CancelsAreOnRecord == CancelRecordedOnce /\ CancelledIsVerified

\* Every writer reads before it appends, so nothing ever follows the line a
\* crash tore (journal_jsonl.py lines).
TornLineStaysLast ==
  \A i \in DOMAIN journal : journal[i] = "torn" => i = Len(journal)

\* The crash pass accuses no run that is only starting, and none that ended
\* as it should: some coordinator did vanish after its opening line.
CrashedWasLost == [][status' = "crashed" => status = "crashed" \/ lost]_vars

\* A run that is done, cancelling or cancelled is taken out of that status
\* only by a verb that read it before, by a retry of a done one, or by the
\* cancel that finishes.
StaleVerbsAside ==
  [][\A p \in Proc :
       /\ status \in {"done", "cancelling", "cancelled"}
       /\ status' # status
       /\ proc'[p] # proc[p]
       => \/ proc[p].saw # status
          \/ status = "done" /\ proc[p].verb = "retry"
          \/ status = "cancelling" /\ status' = "cancelled"]_vars

\* Every program that is driven returns or dies.
ProgramsReturn == \A p \in Proc : []<> ~ At(p, "drive")

\* If they do, a run that journalled its opening does not say running for
\* ever: its coordinator ends it, or the timer notices that it is gone.
RunningEnds ==
  ProgramsReturn => ((status = "running" /\ journal # <<>>) ~> status # "running")

\* cancel.py:36 and :252, run.py:1443: the sweep of a fresh run is always a
\* safe no-op, its unit was never started.
FreshSweepIsNoOp == swept # 1

=============================================================================
