-------------------------------- MODULE Fleet --------------------------------
(***************************************************************************)
(* Graph A's fan-out: one branch per fleet member clones a worktree, takes  *)
(* a manifest of the run root, lets a session migrate the clone, gates it   *)
(* and scans what changed; the rows are tallied when every branch is out.   *)
(*                                                                         *)
(* Code modelled: the branch of application/workflows/graph_a.py and the    *)
(* map, work, gate and scan primitives of application/kernel/context.py     *)
(* with the run-wide token ceiling.  One model row is spent from.  The      *)
(* dispatch loop is Dispatch, the push that follows is PushList; a retry    *)
(* grant (Dispatch) and another model row are left out.                     *)
(*                                                                         *)
(* The coordinator is one event loop: a branch gives way only while its     *)
(* session runs, since git, the gate and the manifest are blocking calls.   *)
(***************************************************************************)
EXTENDS Naturals, Sequences, FiniteSets

CONSTANTS
  N,                \* fleet members, in file order
  Parallel,         \* the run-wide semaphore
  MaxContinuations, \* policy.max_continuations
  NodeCap,          \* the work node's token budget
  Ceiling,          \* run_limits.tokens_per_row
  Over,             \* bound: what one request may cost
  Reports,          \* bound: what a terminal message may report spent
  MaxLaunches,      \* bound: launches of the coordinator
  MaxStray          \* bound: writes to paths nobody declared

ASSUME FleetAssumption ==
  /\ N \in Nat \ {0} /\ Parallel \in Nat \ {0} /\ MaxContinuations \in Nat
  /\ NodeCap \in Nat \ {0} /\ Ceiling \in Nat \ {0} /\ Over \in Nat
  /\ Reports \subseteq Nat
  /\ MaxLaunches \in Nat /\ MaxStray \in Nat

Branch == 1..N

VARIABLES
  launch,   \* how many launches there were
  up,       \* a coordinator is running the map
  disk,     \* the run root: a version per place, 0 for absent
  works,    \* journal: the links w_migrate@b has a result for
  gates,    \* journal: g_test@b's result
  scans,    \* journal: g_scan@b's result, and the launch that took it
  started,  \* journal: branches with a started line of their work node
  pc,       \* where each branch is
  link,     \* the continuation each branch's work node is at
  before,   \* each branch's manifest
  cap,      \* the token cap each session was given
  charged,  \* tokens_by_row of this launch
  fresh,    \* of those, what this launch's own sessions reported
  declared, \* branches whose write set this launch has dispatched
  row,      \* the branch's tally row, "none" while it has no outcome
  tally,    \* the rows last tallied
  strayIn   \* the launch in which b's work or gate last wrote astray

journalVars == <<works, gates, scans, started>>
launchVars == <<pc, link, before, cap, charged, fresh, declared, row>>
vars == <<launch, up, disk, journalVars, launchVars, tally, strayIn>>

-----------------------------------------------------------------------------
(* The run root: worktrees, staging clones and everything else.            *)

Place == [kind : {"wt", "staging"}, of : Branch] \cup [kind : {"loose"}, of : {0}]
Wt(b) == [kind |-> "wt", of |-> b]
Staging(b) == [kind |-> "staging", of |-> b]
Loose == [kind |-> "loose", of |-> 0]

Half == 1
Whole == 2
Worked == 3

Manifest == [Place -> Nat]
NoManifest == [p \in Place |-> 0]

\* Fault: the clone goes straight to its worktree.
ClonedInPlace(b) == [disk EXCEPT ![Wt(b)] = Half]
\* A crash or a git failure part way leaves the staging directory.
PartClone(b) == [disk EXCEPT ![Staging(b)] = Half]

\* _ensure_worktree: nothing when the tree exists, else a clone renamed into place.
EnsureWorktree(b) ==
  IF disk[Wt(b)] # 0 THEN disk ELSE [disk EXCEPT ![Staging(b)] = 0, ![Wt(b)] = Whole]

\* Faults: a scan judging by its own node's write set, and one blind outside the worktrees.
WatchedOnly(b) == {Wt(b)} \cup {Staging(c) : c \in Branch}
OnlyWorktrees == {p \in Place : p.kind # "loose"}

\* What a scan excuses: every write set declared so far, and the staging clones.
ScanAllowed(b) ==
  {Wt(c) : c \in declared \cup {b}} \cup {Staging(c) : c \in Branch}

Watched == Place
Stray(b) == {p \in Watched : before[b][p] # disk[p]} \ ScanAllowed(b)

-----------------------------------------------------------------------------
(* The ceiling on what a row may spend.                                     *)

\* Fault: the session gets its declared cap whatever is left.
CapAsDeclared == NodeCap
HasHeadroom == charged < Ceiling
CapToHeadroom == IF NodeCap < Ceiling - charged THEN NodeCap ELSE Ceiling - charged

\* Passing its cap only asks a session for its handover: the request that
\* passed it is followed by those of the grace, and the last is interrupted.
HANDOVER_GRACE_TURNS == 3
Excess == (1 + HANDOVER_GRACE_TURNS) * Over

-----------------------------------------------------------------------------
(* The event loop.                                                          *)

Blocking == {"work", "gate", "scan"}
LoopFree == up /\ \A b \in Branch : pc[b] \notin Blocking
Slots == {b \in Branch : pc[b] \notin {"queued", "out"}}

Init ==
  /\ launch = 0 /\ up = FALSE
  /\ disk = NoManifest
  /\ works = [b \in Branch |-> <<>>]
  /\ gates = [b \in Branch |-> "none"]
  /\ scans = [b \in Branch |-> [verdict |-> "none", in |-> 0]]
  /\ started = {}
  /\ pc = [b \in Branch |-> "queued"]
  /\ link = [b \in Branch |-> 0]
  /\ before = [b \in Branch |-> NoManifest]
  /\ cap = [b \in Branch |-> 0]
  /\ charged = 0 /\ fresh = 0
  /\ declared = {}
  /\ row = [b \in Branch |-> "none"]
  /\ tally = [b \in Branch |-> "none"]
  /\ strayIn = [b \in Branch |-> 0]

\* A launch starts the program over.
Launch ==
  /\ ~ up /\ launch < MaxLaunches
  /\ up' = TRUE /\ launch' = launch + 1
  /\ UNCHANGED <<disk, journalVars, launchVars, tally, strayIn>>

\* The process is gone, and with it the totals and the write sets gathered.
Ends ==
  /\ up' = FALSE
  /\ pc' = [b \in Branch |-> "queued"]
  /\ link' = [b \in Branch |-> 0]
  /\ before' = [b \in Branch |-> NoManifest]
  /\ cap' = [b \in Branch |-> 0]
  /\ charged' = 0 /\ fresh' = 0
  /\ declared' = {}
  /\ row' = [b \in Branch |-> "none"]

\* What a crash leaves on disk and in the journal is all the next launch has.
Crash ==
  /\ up /\ Ends
  /\ UNCHANGED <<launch, disk, journalVars, tally, strayIn>>

\* The semaphore admits branches in the order gather started them.
Admitted(b) ==
  /\ LoopFree /\ pc[b] = "queued"
  /\ \A c \in Branch : c < b => pc[c] # "queued"
  /\ Cardinality(Slots) < Parallel

\* The branch leaves the map, with the row it tallied or without one.
Leave(b, outcome) ==
  /\ pc' = [pc EXCEPT ![b] = "out"]
  /\ row' = [row EXCEPT ![b] = outcome]

\* _branch up to the work node's dispatch, which declares the write set.
Begin(b) ==
  /\ Admitted(b)
  /\ disk' = EnsureWorktree(b)
  /\ before' = [before EXCEPT ![b] = disk']
  /\ declared' = declared \cup {b}
  /\ pc' = [pc EXCEPT ![b] = "work"]
  /\ UNCHANGED <<launch, up, journalVars, link, cap, charged, fresh, row, tally, strayIn>>

\* git fails: map turns the raise into a record no journal holds.
CloneFails(b) ==
  /\ Admitted(b) /\ disk[Wt(b)] = 0
  /\ disk' = PartClone(b)
  /\ Leave(b, "none")
  /\ UNCHANGED <<launch, up, journalVars, link, before, cap, charged, fresh, declared,
                 tally, strayIn>>

\* The process goes while git is cloning.
CrashInClone(b) ==
  /\ Admitted(b) /\ disk[Wt(b)] = 0
  /\ disk' = PartClone(b)
  /\ Ends
  /\ UNCHANGED <<launch, journalVars, tally, strayIn>>

-----------------------------------------------------------------------------
(* The work node, its continuations and its session.                        *)

\* Where a result of the work node sends its branch.
After(b, status) ==
  CASE status = "done" -> /\ pc' = [pc EXCEPT ![b] = "gate"]
                          /\ UNCHANGED <<link, row>>
    [] status = "failed" -> Leave(b, "work-failed") /\ UNCHANGED link
    [] OTHER -> /\ pc' = [pc EXCEPT ![b] = "work"]
                /\ link' = [link EXCEPT ![b] = @ + 1]
                /\ UNCHANGED row

AtWork(b) == up /\ pc[b] = "work"
InJournal(b) == link[b] < Len(works[b])

\* The journal serves the link, and its tokens are charged again.
ServeWork(b) ==
  /\ AtWork(b) /\ InJournal(b)
  /\ LET result == works[b][link[b] + 1]
     IN /\ charged' = charged + result.spent
        /\ After(b, result.status)
  /\ UNCHANGED <<launch, up, disk, journalVars, before, cap, fresh, declared, tally, strayIn>>

\* Past the last link, or with nothing left under the ceiling: a failed record.
RefuseWork(b) ==
  /\ AtWork(b) /\ ~ InJournal(b)
  /\ link[b] > MaxContinuations \/ ~ HasHeadroom
  /\ works' = [works EXCEPT ![b] = Append(@, [status |-> "failed", spent |-> 0])]
  /\ started' = started \cup {b}
  /\ After(b, "failed")
  /\ UNCHANGED <<launch, up, disk, gates, scans, before, cap, charged, fresh, declared,
                 tally, strayIn>>

StartSession(b) ==
  /\ AtWork(b) /\ ~ InJournal(b)
  /\ link[b] <= MaxContinuations /\ HasHeadroom
  /\ started' = started \cup {b}
  /\ cap' = [cap EXCEPT ![b] = CapToHeadroom]
  /\ pc' = [pc EXCEPT ![b] = "session"]
  /\ UNCHANGED <<launch, up, disk, works, gates, scans, link, before, charged, fresh, declared,
                 row, tally, strayIn>>

InSession(b) == LoopFree /\ pc[b] = "session"

SessionWrites(b) ==
  /\ InSession(b) /\ disk[Wt(b)] # Worked
  /\ disk' = [disk EXCEPT ![Wt(b)] = Worked]
  /\ UNCHANGED <<launch, up, journalVars, launchVars, tally, strayIn>>

\* A write to a path no node declared, by a tool the write hook does not see.
WroteAstray(b) ==
  /\ disk[Loose] < MaxStray
  /\ disk' = [disk EXCEPT ![Loose] = @ + 1]
  /\ strayIn' = [strayIn EXCEPT ![b] = launch]

SessionStrays(b) ==
  /\ InSession(b) /\ WroteAstray(b)
  /\ UNCHANGED <<launch, up, journalVars, launchVars, tally>>

\* What is charged is what the terminal message reports: nothing when none
\* came, though the session spent.
SessionEnds(b) ==
  /\ InSession(b)
  /\ \E spent \in {s \in Reports : s <= cap[b] + Excess}, status \in {"done", "failed", "needs_continuation"} :
       /\ works' = [works EXCEPT ![b] = Append(@, [status |-> status, spent |-> spent])]
       /\ charged' = charged + spent
       /\ fresh' = fresh + spent
       /\ After(b, status)
  /\ UNCHANGED <<launch, up, disk, gates, scans, started, before, cap, declared, tally, strayIn>>

\* Quota or credential: Suspended is raised, and gather keeps it from the run.
ProviderRefuses(b) ==
  /\ InSession(b)
  /\ Leave(b, "none")
  /\ UNCHANGED <<launch, up, disk, journalVars, link, before, cap, charged, fresh, declared,
                 tally, strayIn>>

-----------------------------------------------------------------------------
(* The gate, the scan and the tally.                                        *)

AtGate(b) == up /\ pc[b] = "gate"

ServeGate(b) ==
  /\ AtGate(b) /\ gates[b] # "none"
  /\ pc' = [pc EXCEPT ![b] = "scan"]
  /\ UNCHANGED <<launch, up, disk, journalVars, link, before, cap, charged, fresh, declared,
                 row, tally, strayIn>>

\* The gate's command runs in the worktree; it too can write elsewhere.
RunGate(b) ==
  /\ AtGate(b) /\ gates[b] = "none"
  /\ \E verdict \in {"green", "red"} : gates' = [gates EXCEPT ![b] = verdict]
  /\ WroteAstray(b) \/ UNCHANGED <<disk, strayIn>>
  /\ pc' = [pc EXCEPT ![b] = "scan"]
  /\ UNCHANGED <<launch, up, works, scans, started, link, before, cap, charged, fresh, declared,
                 row, tally>>

\* The scan's verdict, served or taken now, and the branch's row.
Scan(b) ==
  /\ up /\ pc[b] = "scan"
  /\ scans' = [scans EXCEPT ![b] =
       IF @.verdict # "none" THEN @
       ELSE [verdict |-> IF Stray(b) = {} THEN "clean" ELSE "stray", in |-> launch]]
  /\ Leave(b, IF gates[b] = "green" /\ scans'[b].verdict = "clean" THEN "passed" ELSE "failed")
  /\ UNCHANGED <<launch, up, disk, works, gates, started, link, before, cap, charged, fresh,
                 declared, tally, strayIn>>

\* _row_of: a branch without an outcome is tallied as failed work.
RowOf(b) == IF row[b] = "none" THEN "work-failed" ELSE row[b]

\* gather returns when every branch is out; what follows ends or suspends the launch.
TallyRows ==
  /\ up /\ \A b \in Branch : pc[b] = "out"
  /\ tally' = [b \in Branch |-> RowOf(b)]
  /\ Ends
  /\ UNCHANGED <<launch, disk, journalVars, strayIn>>

Next ==
  \/ Launch \/ Crash \/ TallyRows
  \/ \E b \in Branch :
       \/ Begin(b) \/ CloneFails(b) \/ CrashInClone(b)
       \/ ServeWork(b) \/ RefuseWork(b) \/ StartSession(b)
       \/ SessionWrites(b) \/ SessionStrays(b) \/ SessionEnds(b) \/ ProviderRefuses(b)
       \/ ServeGate(b) \/ RunGate(b) \/ Scan(b)

Spec == Init /\ [][Next]_vars

-----------------------------------------------------------------------------
(* Properties.                                                              *)

Pc == {"queued", "work", "session", "gate", "scan", "out"}
Result == [status : {"done", "failed", "needs_continuation"}, spent : Nat]

\* Every variable keeps its type.
TypeOK ==
  /\ launch \in Nat /\ up \in BOOLEAN
  /\ disk \in Manifest
  /\ works \in [Branch -> Seq(Result)]
  /\ gates \in [Branch -> {"none", "green", "red"}]
  /\ scans \in [Branch -> [verdict : {"none", "clean", "stray"}, in : Nat]]
  /\ started \subseteq Branch /\ declared \subseteq Branch
  /\ pc \in [Branch -> Pc] /\ link \in [Branch -> Nat]
  /\ before \in [Branch -> Manifest] /\ cap \in [Branch -> Nat]
  /\ charged \in Nat /\ fresh \in Nat
  /\ row \in [Branch -> {"none", "work-failed", "failed", "passed"}]
  /\ tally \in [Branch -> {"none", "work-failed", "failed", "passed"}]
  /\ strayIn \in [Branch -> Nat]

\* No branch is failed for a sibling's work or the coordinator's own clones:
\* a scan that found something is one before which a body wrote astray.
NoFalseStray ==
  \A b \in Branch : scans[b].verdict = "stray" => disk[Loose] > 0

\* What a branch writes astray is found by its own scan when one launch saw
\* the manifest, the write and the scan.
StrayIsCaught ==
  \A b \in Branch : scans[b].verdict = "clean" => strayIn[b] # scans[b].in

\* A session, a gate and a scan only ever see a finished clone, whatever
\* crash or git failure came before (graph_a.py _ensure_worktree).
WorksInAWholeClone ==
  \A b \in Branch : pc[b] \in {"work", "session", "gate", "scan"} => disk[Wt(b)] >= Whole

\* However the branches overlap, what a launch's own sessions report passes
\* the row's ceiling by at most one cap for each other slot and, for every
\* slot, the requests a handover takes (context.py: headroom is read when a
\* session starts, and charged when it ends).
SpendIsBounded ==
  fresh <= Ceiling + (Parallel - 1) * NodeCap + Parallel * Excess

\* Not what the code does (context.py scan: a write to a path nobody declared
\* is caught either way): a branch that passed never wrote astray.
PassedWroteNothingAstray ==
  \A b \in Branch : tally[b] = "passed" => strayIn[b] = 0

\* Not what the code does (graph_a.py _row_of: a branch has no outcome only by
\* raising outside any dispatch): a branch out without a row dispatched nothing.
NoRowMeansNoDispatch ==
  \A b \in Branch : up /\ pc[b] = "out" /\ row[b] = "none" => b \notin started
=============================================================================
