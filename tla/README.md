# A TLA+ verification of agentdag

agentdag runs graphs of nodes (deterministic code, model sessions, plans
written by a planner, human approvals) under a coordinator. The coordinator may
die at any moment and be started again over the same run directory: everything
it needs to go on is in an append-only journal. This directory holds TLA+ models
of that machinery, the TLC runs that check them, and theorems about them that
TLAPS has checked.

Paths below are relative to `src/src/agentdag/`.

## The system

### Components

| Component | Code | State it keeps | Operations | What is hard | What makes it correct |
|---|---|---|---|---|---|
| Dispatch, journal, replay | `kernel/dispatch.py`, `kernel/replay.py`, `domain/keys.py`, `domain/journal.py` | the journal; per launch the replay index, the records by node, the dispatched keys | dispatch a node: key, serve or run, started and result line | a crash between any two lines; concurrent nodes sharing one journal; grants that arrive while a run runs | a call is recorded once; nothing recorded runs again; a record is computed from the records its node's dependencies hold; a relaunch repeats only what a crash or suspend cut off |
| Coordinator primitives | `kernel/context.py` | the chain position of each dispatch, folded decisions and grants, the run-wide semaphore, token totals | work, code, gate, map, reduce, stage, approve, apply | retry, continuation and grant interact in one loop | chains stay within their allowance; grants are honoured and matched exactly |
| Run bookends | `kernel/run.py` | `state.json`, the opening and summary lines | open, fold, run the program, write the final status | a crash before or after each | a finished run dispatches nothing more |
| Run lock | `adapters/kernel/lock_file.py` | the `lock` file | acquire, break a stale lock, release | system calls of several processes interleave; holders die | one coordinator at a time; a crash locks nobody out |
| Graph A | `workflows/graph_a.py`, `domain/graph_a.py` | worktrees, tally, push list | work, gate, read HEAD, tally, stage, approve, apply | commits move under a decision; the push and its marker are not one step | only what was approved, and passed its gate, is pushed, once |
| Approval | `kernel/approve.py`, `run approve`, the deadline pass | decision files, `state.json` cursor | ask, answer, apply the default when overdue | two operators and the timer answer at once; the list changes after it was read | first answer stands; the answer binds the exact list |
| Plan execution | `kernel/execute.py`, `kernel/subtree.py` | per plan the pending entries, tasks in flight, refutation, failure; run-wide slots, budget, ids | launch ready entries, settle, stop and wait, re-plan, descend | nested loops of tasks share slots and budget; a condition refutes while others run | no task outlives its pass; nothing is dispatched before its deps; failures and refusals reach the root |
| Plan acceptance | `kernel/plan_validate.py`, `kernel/planner.py`, `kernel/root.py`, `kernel/registry.py` | reasons of refused plans, grants of a person | validate, re-ask, plan the root | a person's answers and rounds of re-planning across relaunches | an accepted plan is acyclic, closed and settleable |
| Conditions | `domain/condition.py` | none | evaluate three-valued | absent fields under negation and quantifiers | agrees with the two-valued meaning of every completion |
| Cancel, crash, scope | `kernel/cancel.py`, `kernel/crash.py`, `adapters/kernel/scope_*.py` | `state.json`, the systemd scope | cancel, sweep, report a crash | verbs race the coordinator over `state.json` without the lock | a cancelled run stays cancelled, a live one is not swept |
| Command line | `adapters/cli/commands/run.py` | none of its own | start, resume, retry, approve, cancel, deadline and crash passes | each verb reads state, then acts | no verb acts on a state that is gone |
| Journal file | `adapters/kernel/journal_jsonl.py` | the file, the audit file | append, read all | a line torn by a crash | every whole line is read back |
| Executor and handover | `adapters/kernel/executor_claude.py`, `hooks_claude.py`, `domain/handover.py` | one session's counters, deadline, node directory | stream a session, count, ask for a handover, interrupt, classify, stamp | bounds, stop notice, deadline and a late answer arrive in any order; usage repeats per message | a stopped session is a handover or a deadline, for its true cause, after its grace |
| Isolation scan | `adapters/kernel/isolation_scan.py`, `domain/scan.py` | manifests of the run root | before/after diff | its window overlaps the siblings' work | no branch fails for another's work, a stray write is found |
| Settings | `_resolve_settings`, `_settings_of` of `commands/run.py`, `domain/models.py` | the settings stored with a run | read configuration at start, take stored settings up again | a blank, an absent and an empty list differ; configuration changes between launches | boundaries open only on purpose and a run keeps what it started with |
| Policy and admission | `domain/validate.py`, `domain/policy.py`, `adapters/kernel/policy_yaml.py` | none | admit specs, resolve a role to a row | specs come one at a time; two routes to a row | no cycle is admitted, a placed spec has a wired row |
| Confinement | `hooks_claude.py`, `build_options_env`, `domain/scan.py`, `domain/scrub.py` | none | judge a tool call, build an environment, scrub a value | four boundaries drawn by different code over links and `..` | what one permits no other reports; nothing undecided gets in, nothing secret out |
| The rest | summary, notification, workflow checks, the spike command, composition, configuration, mail, logging | none that a run depends on over time | | | see Not modelled |

### How they interact

The command line starts a coordinator. It takes the **run lock**, then opens the
run: the **journal** is read once into the **replay index**, grant and decision
files that operators wrote meanwhile are folded in as lines, `state.json` says
RUNNING. The program (graph A, or a goal's plan executed by the **plan loop**)
calls the **primitives**; each of them goes through **dispatch**, which serves a
recorded result or runs a body between a started and a result line. Whatever
needs a person or a provider that refuses raises a suspend: running bodies are
waited out, `state.json` says WAITING with a cursor, and the process ends.
Operators, the deadline timer and other processes act only through files beside
the journal, which the next launch folds.

## The modules

| Module | What it is | Checked by |
|---|---|---|
| `Dispatch` | durable execution of a graph: launches, replay, retry, continuation, grants, crash, suspend | `Dispatch*.cfg` through `MCDispatch`, which holds graph shapes |
| `ResultOnce` | the abstract promise of the dispatcher | as property `ImplementsResultOnce` of `Dispatch` |
| `RunLock` | the lock file, one system call per step | `RunLock*.cfg` |
| `RunLifecycle` | the verbs, the timer, the coordinator's bookends, the scope and `state.json` | `RunLifecycle*.cfg` |
| `Session` | one dispatch of a model node inside its executor | `Session*.cfg` through `MCSession`, which holds usages |
| `Fleet` | graph A up to its tally: clone, session, gate, scan, the row's token ceiling | `Fleet*.cfg` |
| `PushList` | graph A from its gates to its pushes: tally, approval, markers | `Push*.cfg` |
| `RootLadder` | plan, plan again, ask a person, over relaunches | `RootLadder*.cfg` |
| `PlanLoop` | nested plan loops sharing slots and budget | `PlanLoop*.cfg` |
| `PlanRules`, `PolicyRules`, `SettingsRules`, `ConfineRules`, `TextRules` | what the kernel decides by rule, as operators | `Rules*.cfg` through `Rules` (the step that applies a rule, the properties) and `MCRules` (the inputs) |
| `DispatchProofs`, `RunLifecycleProofs`, `SessionProofs`, `FleetProofs`, `PushListProofs`, `PlanLoopProofs`, `RootLadderProofs` | theorems about the module they are named after | TLAPS |
| `GuardProofs` | theorems about what guards a run: `RunLock`, and `Rules` with the rules it applies | TLAPS |

`PROJECT.json` maps each definition to its lines. Operators whose comment
begins with "Fault" are defective variants of the definition that follows them;
no specification uses them, and each shows that a property is able to fail.

The modules meet at these seams. A node of `Dispatch` that is a model node runs
one `Session` per call; its outcomes are the ones `Dispatch` chooses among. The
launches of `Dispatch`, `PushList`, `Fleet` and `RootLadder` are what a
coordinator of `RunLifecycle` does between its opening line and its final
status, one at a time because of `RunLock`. `Fleet` ends where `PushList`
begins, at the gated branches. One pass of `RootLadder` is a whole run of
`PlanLoop`, whose granted rounds are the ladder's; what either accepts is judged
by `PlanRules`. They are composed by assumption, not in one state space: each
lets the other side do anything its interface allows.

### Dispatch

The journal is a sequence of opening, started, result, grant and summary lines,
and is the only state that survives `Crash`. A launch (`Launch`, `ListGrants`,
`FoldGrant`, `StartProgram`) lists the grant files, folds each in as a line, and
indexes the journal. The index is built from what the journal holds then, so a
file that arrives later waits for the next launch. A node's loop (`Begin`,
`Serve` or `Start` then `Finish` or `Suspend`) is `Dispatcher.dispatch` inside
the coordinator's `_dispatch`: compute the key from work, link and the records
of the dependencies; serve the record filed under *this node and this key*, or
run the body; then retry a transient failure of a code node, follow a handover,
honour a grant, or return. `GrantRetry` is the operator's `run retry`, which
resolves the node's latest result line and refuses what no retry can reach.

A node is dispatched by the program itself or inside a branch of a `map`
(`Branch`). What raises in a branch, `Suspended` included, is gathered
(`context.py:977`, `_branch_record`): the branch is lost (`Lose`,
`BranchRaises`, `Suspend`), the program goes on, and what reads the branch reads
nothing of the lost node. Only outside a branch does a `Suspended` leave the
program (`EndSuspended`). So a run may write its summary over a started line
that has no result, and a relaunch of it dispatches that node once more, without
a grant. `FinishedRunDispatchesNothing` therefore speaks of a finish that lost
no branch and a launch that loses none; `DispatchLost.cfg` shows the rest.

Abstractions: a key is the tuple of the fields that are hashed; a record is its
position in the journal, which is sound because a record carries its measured
duration and no two hash alike. Bodies are their outcomes. A program is its
dependencies: it comes to a node when what it reads is out. The summary line
carries which nodes were lost, for the properties alone.

### RunLock

`TryCreate`, `Write`, `Read`, `Unlink`, `CreateAgain` and the two halves of
`release` are separate steps, as they are separate system calls; `Die` may come
between any two. A file is named by its creator, so a process that writes after
its file was unlinked changes nothing the path leads to. Whether a holder is
alive is answered correctly: reading `/proc` is not modelled.

### PushList

Each repository's branch works, records, is gated, and has its HEAD read *live*.
The heads that passed are the payload of the approve node; it is named by its
content, so a change of any head is another question. A decision file is
written once (`Answer`), by whoever read the question or by the deadline pass
(`ApplyDueDefault`) from the cursor in `state.json`; `Launch` folds the files
into the journal. `Apply` runs attempts: for each repository skip what a done
marker names, otherwise write the attempted marker, check HEAD and the target,
push, write the done marker. `Crash` may come between any two, `MoveHead` is
somebody's hand in a worktree, `GrantApply` and `GrantGate` are `run retry`.

Modelled more coarsely than the code: commits lie on one line of history and
nobody else pushes to the target; the fold of several decision files is one step
(a crash in the middle is completed by the next launch, and folding is
idempotent); a failed work node or scan counts as a failed gate; a grant made
while the run runs counts as made between launches, since only a launch reads
it; a grant that the code would refuse as out of reach may be made (more
behaviours, not fewer); after `run retry --no-relaunch` the next launch counts
as a retry. Cancel is left to the module on the verbs. The program's `resumed`
list and the intent files are bookkeeping for the report and left out.

### PlanLoop

A plan is named by the node whose planner wrote it, 0 for the root. Its loop is
`Launch` (start every pending entry whose deps landed, in plan order, as far as
the budget goes), `Settle` (absorb what returned, check the conditions),
`Barrier` and `Drain` (wait the pass out), then one of `Fail`, `Return`,
`Exhaust`, `GrantMore`, `AskReplan`; `Replan` and `Replanned` give it a new
plan. An entry's task is `Enter` (a slot, then the scope), then `Finish`, or
for a plan entry `Descend` and one day its loop's `Leave`. What a planner
writes, which condition refutes and whether `done_when` settles are free
choices: every plan of the bounded size, with every acyclic dependency, is
tried.

Left out: a dep on a node of an outer plan (always landed), plans without a
planner (written by hand, never re-planned), the text of briefs, the deadline
arithmetic (the barrier may give up at any time while something is in its
scope), and replay, which is `Dispatch`'s subject. A root plan has at least one
entry: the validator wants its `done_when` to read a state-changing record.

### RunLifecycle

Each verb is a process: it reads `state.json` (`saw`) and acts later on what it
read. `Start`, `Resume`, `Retry`, `Approve` and `ApplyDefault` lead through
`SweepBeforeSpawn` and `Spawn` (inside or outside a systemd unit) to a
coordinator: `Enter` sweeps a stale scope, `AcquireRun` takes the lock,
`Bookend` reads the journal and writes the opening line, `Open` says RUNNING,
`Work` appends lines, and it ends by `SuspendAsking`, `StopShort` or `Summarise`
and `Done`, then `Release`. `Cancel` is `RequestCancel`, `KillScope`,
`TakeForCancel`, `RecordCancel`, `FinishCancel`; the timer's `CrashCheck` and
`RecordCrash` accuse a run that lost its coordinator, and on any other run whose
lock is free a tick takes the lock, looks and lets it go (`CrashLooks`,
`LookAway`), which may turn a launch or a cancel away. `Die` is any process gone
at any step, inside an append too: then the journal ends in a torn line.

The lock is one atomic step here. Approval is one question and whether its
decision exists; grants are the verb that makes them. The answer of systemd is
gone, active or stopping; a coordinator's executors may outlive it (`Drain`).

### Session

The executor folds each streamed message into what it has spent (`FoldSpend`,
one entry per request id), observes it at the turn seam (`Armed`, `Observe`,
`GraceRunsOut`) and interrupts; `Tick` is the deadline's clock, `StopSubtree`
the loop's stop notice, `EndStream`, `Conclude` and `Probe` the exit ladder.
`Return`, `KeepAsWritten`, `Stamp` and `Record` are the coordinator's half. The
provider streams anything. `Redispatch` is the same call run again in the same
node directory after a crash or a suspend.

Abstractions: the grace counter stops at three, interrupts are counted once,
the policy's action on a refusal is chosen when it is needed, and the usage of
one request never shrinks from one message to the next. The limits are fixed by
the configuration; absent ones are a value of the constants.

### Fleet

A branch is `Begin` (clone and manifest in one step, since git and the manifest
are blocking calls on one event loop), `ServeWork` or `StartSession` ..
`SessionEnds`, `ServeGate` or `RunGate`, `Scan`, and leaves with a row or, when
its work node raised, with none. `TallyRows` waits for all. The disk holds a
version per clone, per staging directory and for everything else in the run
root. `CloneFails`, `CrashInClone` and `Crash` cut a clone short;
`SessionStrays` is a body writing where nobody declared. Work is charged when it
ends, and a session is capped to what was left when it started. Crossing the cap
only arms the handover, so a session may report its cap and `Excess` more: the
request that crosses it and the `HANDOVER_GRACE_TURNS` of its grace, each of at
most `Over` tokens. What is charged is what the terminal message reports, one of
`Reports`; a session that ends without one charges nothing, though it spent.
That nothing more is asked after the interrupt, and that the messages' usage
adds up to the terminal report, is assumed of the provider.

### RootLadder

A planner dispatch is named by what its brief says, so that an identical brief
is served from the journal; a question is named by what its payload says, so
that an identical question is answered. `PlanRoot` plans under the root's rules,
`RunPass` runs the plan in force and charges the budget, `Replan` writes the
next plan. When an allowance is spent `AskForRound`, `AskForMore` and
`AskForBudget` look up the answers this launch folded and otherwise suspend.
Every launch walks the ladder from the bottom over those journals. A cost and a
verdict of a pass are chosen once and kept, as a journal keeps them.

### The rules

`Rules` is a machine of one step, `Deciding`: it is given an input of one of
nine kinds (`Input`) and asked for the answer (`Decide`). `PlanRules` has the
three-valued conditions, every rule of `validate_plan`, the renaming of accepted
entries and what `dispatch_planner` journals; `PolicyRules` admission and the
two routes to a policy row; `SettingsRules` how configuration becomes the
settings of a run and how a relaunch takes them up; `ConfineRules` the matcher,
the hooks, the shell rules, the scan, the environments, the credential copy and
the scrubber; `TextRules` what a text shown to a person must be and how it is
made so. The properties compare two of these with each other, or one with a
reference: a verdict against every completion of its records, an accepted plan
against the plan as written, the hook against the scan. A path is a sequence of
segments, a text a sequence of character kinds, a literal a pair of type and
number. A condition and a value about to be written are trees, each a sequence
of nodes in which every node comes after its kids and the root is last; what the
code computes by recursion (`evaluate`, `_can_settle_true`, `_matches`, `_real`,
`_reaches`, `scrub`) is a function over the positions of such a sequence. A text
is escaped and folded in one pass that carries what the last line holds: a line
break of the text closes the line it ends, as splitting the text into lines and
folding each does.

`RulesAssumption` says what the inputs are, in these parts:

- `RecordsAssumption`: conditions are trees as above, and for one whose
  comparisons each read a field of their own the records are rich enough to make
  them come out in any combination. Fields are independent facts in the code;
  only the exactness of the shape test needs this.
- `PlansAssumption`: what pydantic has parsed (entries in a sequence, every
  acceptance, `holds` and `done_when` a condition), and `NodeIds` has as many
  fresh ids as a plan may have entries, no two alike and none of them in use: it
  counts upwards.
- `PolicyAssumption`: specs come in sequence, a row's rank is an integer.
- `ConfigsAssumption`: the packaged configuration names words for each list, and
  splitting a string at its commas gives at least one.
- `CallsAssumption`: the paths the coordinator builds are absolute (`_real`
  resolves them first), the path of a call is the model's and absolute or
  relative, a link is told by where it leads in the end, a node's directory is
  under `nodes/` and its name no pattern, and its write set is declared.
- texts are made of the four character kinds, and values are trees.

TLC evaluates it for the inputs of `MCRules` on every run of `Rules`.

The hooks hand the path of a call to `os.path.realpath`, which takes a relative
one from the coordinator's directory (`hooks_claude.py:171`, `:269`), while the
tool takes it from the node's. `BoundariesAgree` is about the calls in which the
two are the same file (`JudgedAsMeant`): every absolute path, and a relative one
of a node that works where the coordinator does. Of other relative paths, as
`Grep` and `Glob` may be given, neither half is claimed.

`AcceptedMeansTheSame` compares all that the code reads of a plan while it runs
(`Reading`): which entries may start, the dep records each is handed, what its
acceptance says, whether `holds` and whether `done_when` does. It does so over
every choice of which of the plan's entries and of the graph's nodes have a
record, each from `NodeRecords`. `Plan.deps` is renamed too and read by nothing.

## What the runs check

Twelve runs. Ten pass; two find what the code does against what it says.

| Run | Bounds | Shows |
|---|---|---|
| `dispatch` | a branch of a code node and the model node that reads it, 2 attempts, 1 continuation, 3 launches, 1 grant, `FairSpec` | `RedispatchNeedsRelaunch`, `GrantIsHonoured`, `RepeatsAreEarned`, the refinement of `ResultOnce`, `LaunchEnds` |
| `dispatch_twins` | two branches of identical work and their reader outside the map, 2 launches, 1 grant | `OwnAndFresh`: equal keys never mix two nodes up; `FinishedRunDispatchesNothing` |
| `run_lock` | 4 processes | `ExclusiveUnlessRaced` |
| `run_lifecycle` | 2 operators' processes and the timer, with and without systemd, 2 launches, 1 death, `LiveSpec` | `CancelsAreOnRecord`, `TornLineStaysLast`, `CrashedWasLost`, `StaleVerbsAside`, `RunningEnds` |
| `run_lifecycle_sweep` | 1 launch, nobody dies | violates `FreshSweepIsNoOp` |
| `session` | 4 requests of 2 messages, a cap of 3, a ceiling of 2, a deadline of 0, a clock of 1, 2 dispatches | `StoppedIsNotDone`, `GraceIsPerRequest`, `ArmedForCause` |
| `fleet` | 2 branches, 2 slots, 1 continuation, budgets of 2 under a ceiling of 3, requests of 1, reports of 0, 2 or 6, 2 launches, 1 stray write | `NoFalseStray`, `StrayIsCaught`, `WorksInAWholeClone`, `SpendIsBounded` |
| `fleet_refused` | the same | violates `NoRowMeansNoDispatch` |
| `push_list` | 2 repositories of 2 commits, 2 attempts, 3 launches, 1 move, 1 grant, 1 open question | `PushedUnderApproval`, `GatedUnlessMoved`, `EachPushedOnce`, `MayHaveLandedIsTold`, `DoneMeansLanded` |
| `root_ladder` | 2 reasons, 1 fact, 1 re-plan, a base of 2 nodes, passes of up to 2, 3 launches, 2 grants, `WF_vars(Program)` | `EveryRoundIsPaidFor`, `EachQuestionOnce`, `LaunchEnds` |
| `plan_loop` | 2 slots, plans of 3 entries, 3 deep, 4 ids, budget 3, 1 re-plan, 1 granted round, `LiveSpec` | `DepsLandFirst`, `NothingLeftRunning`, `FailuresSurface`, `DoneIsWhole`, `RunEnds` |
| `rules` | the sets of `MCRules`, 4 records a node may have, lines of 3 octets, texts of 6 | `ConditionsAreHonest`, `AcceptedMeansTheSame`, `AdmittedCanRun`, `SettingsStand`, `BoundariesAgree`, `NothingLeaks`, `RenderedIsAccepted` |

The type invariants, and the promises that are theorems but add nothing to a
run (`OneResultPerCall`, `JournalIsCausal`, `DecisionsAreFinal`,
`RefusedOnlyByLive`), are proved and not listed again.

### The bounds

Three launches are a crash, a relaunch that crashes again and one that
completes: a fourth starts from a journal of the same kinds of lines. One grant
may be written before, during or after any launch. Four lock processes are a
dead holder, two that break its lock and one that comes later. In
`run_lifecycle` two operators and the timer are the fewest in which a verb, the
coordinator another verb spawned and an accusation overlap; two launches are the
first one and one that finds its remains. In `session` four requests are the one
that arms and the three of its grace; two messages to a request are enough to
count one twice; both bounds and the deadline are on at once, so each may come
first, and a clock of one is past the deadline. The bounds being numbers there,
an absent one is not tried: it arms nothing. In `fleet` two sessions overlap in
the ceiling's check, and the second finds less than its budget; the reports are
no tokens, a whole budget and the most a budget allows. Two repositories
let one push land before the other fails, and one hand-made move is enough for
every race of a check with its use. In `root_ladder` two grants are one of each
of two kinds or two rounds of one. Three plan levels are a plan, its parent and
a grandparent that stops them both; three entries are the fewest in which a peer
returns while a dep is in flight; two slots let siblings run side by side, and
two plan entries that kept their slots would already block the leaf below them;
four ids and a budget of three exhaust the budget below, beside and at the root.
The inputs of `rules` are conditions two levels deep over two entries, plans of
two entries over all dependency choices, two specs offered after an id came
twice, and one link on a disk. Deadlock is not checked: each model may stop, at
its bound on launches or because the run is over.

### Fairness

`FairSpec` of `Dispatch` assumes weak fairness of each node's steps but
`Finish`, and of the launch's own; `LiveSpec` of `PlanLoop` of `Enter` and of
each loop that is not waiting for a planner. The event loop runs whatever is
ready, and the semaphore serves its waiters in order, so whoever waits for a
slot gets a free one. Weak fairness is enough for `Enter`: entries and
re-plannings are bounded by the budget and the allowances, so slots are not
taken forever by others.

That a body ends is nowhere assumed: the executor reads its deadline only when a
message arrives (`executor_claude.py:1346`), so a provider that streams nothing
is never timed out, and a gate's command has no timeout at all. Three liveness
properties are about what the kernel itself adds to that, and have it as their
premise: `LaunchEnds` of `Dispatch` (every body ends), `RunEnds` of `PlanLoop`
(`DispatchesEnd`) and `RunningEnds` of `RunLifecycle` (`ProgramsReturn`).
`LaunchEnds` of `RootLadder` assumes `WF_vars(Program)`, in whose steps a
planner's dispatch and a whole pass are taken to return: it says that the ladder
does not go round, and nothing of a planner that hangs.

`LiveSpec` of `RunLifecycle` assumes that a process that lives goes on outside
its program, that the timer keeps ticking, since systemd starts it, and that
what drains in a unit's control group ends. Nothing is assumed of operators, of
crashes, of relaunches or of the barrier's bound.

## Where code and documentation part

Two findings are runs of the project and quoted in `PROJECT.json`:

- a provider refusal raised inside a branch's dispatch is gathered by `map`: the
  launch does not suspend, the branch is tallied as failed work and the run goes
  on (`fleet_refused`);
- under systemd a background coordinator sweeps the scope it was started in and
  stops itself: `cancel.py:255` calls the sweep of a fresh run "always a safe
  no-op" because its unit "was never started", but the child that
  `SystemdScope.start` runs inside the unit goes through `_run_foreground`,
  finds the unit active and stops it, before it takes the lock
  (`run_lifecycle_sweep`). Under systemd, then, only foreground launches get any
  further in the model, as in the code.

The other statements the code does not keep have a configuration each, which
TLC refutes when it is run by hand (`tlc -config <cfg> <module>`):

| Configuration | Violates | The statement | What happens |
|---|---|---|---|
| `DispatchLost.cfg` (`MCDispatch`) | `FinishedIsReplayed` | `docs/execution-model.md:121`: replaying a finished run dispatches nothing at all | a branch that suspended was lost and the run finished; the relaunch starts its body again, without a grant |
| `DispatchSharedKey.cfg` (`MCDispatch`) | `SharedKeyRunsOnce` | `docs/execution-model.md:75`: two nodes that are the same call share a key, "so the second is served the first's record without running" | the index is by node and key: both run |
| `RunLockRace.cfg` (`RunLock`) | `Exclusive` | `lock_file.py:3`: "At most one live coordinator may hold a run directory at a time" | two processes inside acquire at once, one breaking a file the other just made, both hold |
| `PushRaced.cfg` (`PushList`) | `PushedUnderApproval` | `docs/execution-model.md:201`: immediately before performing, the applier re-reads what it acts on | HEAD is compared, then pushed by name |
| `PushUngated.cfg` (`PushList`) | `PushedWasGated` | `graph_a.py:248`: "AFTER the gate, so the sha staged for the push is the one it saw" | a relaunch is served the old gate and reads HEAD live |
| `PlanLoopStop.cfg` (`PlanLoop`) | `StopStartsNothing` | `execute.py:23`: stopping a subtree means "start nothing further" | entries queued for a slot start, nested plans go on |
| `PlanLoopRefused.cfg` (`PlanLoop`) | `RefusedBlocksDependents` | `execute.py:909`: a refused entry's "dependents never become ready" | its planner's record is done, so they do |
| `PlanLoopStuck.cfg` (`PlanLoop`) | `StuckSubtreeFails` | `execute.py:681`: "a stuck subtree fails rather than being re-planned around" | a nested stuck subtree fails nothing |
| `RootLadderRules.cfg` (`RootLadder`) | `DoneUnderTheRootsRules` | `plan_validate.py:105`: the run's own top-level plan must not be settleable without work | `_replan` passes `is_root=False`: once the root's plan refuted, the run ends done by a `done_when` the root's rules never met |
| `SessionAsWritten.cfg` (`MCSession`) | `AsWrittenIsTheNodes` | `domain/handover.py:71`: the record "exactly as the node left it" | after a crash behind the stamp, a redispatch keeps the stamped file as the node's |
| `RulesDone.cfg` (`MCRules`) | `DoneNeedsWork` | `composition/kernel.py:496`, `registry.py:152`: a root's `done_when` needs real evidence | a clean scan satisfies `stray != 0`: its do-nothing value is declared as 0 and recorded as an empty list |
| `FleetStray.cfg` (`Fleet`) | `PassedWroteNothingAstray` | `context.py:802`: a write to a path nobody declared "is caught either way" | a stray write of a launch that crashed before the scan is in the next launch's manifest |

### Read off the code while modelling it

**What a relaunch can run again.** `NodeIds` (`execute.py:168`) mints ids in the
order in which plans are accepted. Two sub-planners that run side by side are
accepted in the order they finish; on a relaunch both are served from the
journal and are accepted in the order the loop reaches them. When the orders
differ, the entries of the two plans swap ids. A result is looked up by node id
*and* key (`replay.py`), so each swapped entry misses although its key is
journalled, and a body that had finished is run again, in a new node directory.
`docs/execution-model.md:112` says every other dispatch is served and its body
does not run. The same holds for the ids of a re-plan, whose goal names its
landing entry by a minted id: with it the planner's own brief, and so its key,
changes, and the planner is asked again. Nothing wrong is *served*:
`OwnAndFresh` holds because both halves of the lookup must match. `PlanLoop`
mints ids in every order but has no journal, and `Dispatch` has a journal but
fixed ids, so no run shows this; a model of it is the composition the last
section names first.

**Planning.** A re-planning dispatch takes a slot but is not charged to
`max_nodes_per_run` (`execute.py:578`). The root's state-change rule orders a
fact against a literal of another type: the `TypeError` escapes
`dispatch_planner`, so a planner's dispatch may end without the line that
explains it, on every relaunch again. An entry whose own id equals an admitted
one points at a different node after the renaming. `watched` is not renamed; a
plan that names a real node there excludes that node's declared writes from the
scan. `_build_scan` takes its manifest when the scan is dispatched.
`_conservative` is not, under a negation or `!=`. A re-plan with the reasons and
evidence of an earlier one is served from the journal. The do-nothing facts
`composition/kernel.py:634` declares for a scan give `stray` as 0 where
`context.py:880` records a list.

**Settings and policy.** `parallel: 0` is refused by pydantic and not by the
command. Stored denylists are not constrained when they are read back, and a
run's empty `deny_tools` falls back to the executor's own. Of two policy rows
with one alias the table keeps the last and `resolve` takes the first.
`validate_spec` and `validate_dispatchable` are called by nothing in `src/`, so
the half of `AdmittedCanRun` that is about cycles is about code kept in reserve.
`RelaunchKeepsSettings` says little more than that `_settings_of` takes the
stored ones up; the substance of `SettingsStand` is its other half.
`tokens_by_row` starts at zero on each launch, so the ceiling is per launch.

**Cancel.** Under the scope that can verify nothing the outcome is journalled
once as unverified. A cancel before the first coordinator journals anything
makes the first launch write `resume`. `request_cancel` writes `state.json`
without the lock, so it and a coordinator that ends may overwrite each other:
`StaleVerbsAside` lets both through, since either read the status before, and
constrains only the verbs that come later. The live folding that
`CancelRequestedLine` describes exists nowhere. A unit that is "deactivating"
does not count as alive.

**Sessions.** Requests and a deadline after the interrupt interrupt again, and
the deadline reclassifies a handover as cancelled. An interrupt that raises, or
a `KernelError` inside the broad guard, is recorded as a transient executor
error. Requests whose
messages interleave are counted again. A redispatch may surface the `plan.json`
or `handover.json` of the crashed attempt.

## What is proved

Every theorem is for all values of the constants under the module's named
assumption, and checked to the last leaf.

**`DispatchProofs`** (any graph, work, limits). `TypeCorrect`.
`RecordedOnce`: `OneResultPerCall`. `Implements`: `Dispatch` refines
`ResultOnce`. Both rest on `OnceInv`. That no call is recorded twice is not
inductive: one must know that a body runs only for a call the index lacks
(`BodiesUnserved`), and, since the index is as old as the launch, that a result
the index lacks was recorded by this launch for a link its node has moved past
(`PastUnindexed`). Links only grow, and the records of dependencies do not
change while a node is dispatched (`DepsDone`), so the current call is new.
`RecordsAreFresh`, `CausalJournal` and `GrantsHonoured` rest on `FreshInv`,
which adds that a running program has all grants its launch listed. A node that
was lost holds no record (`LostHoldNothing`), so what reads it is keyed by its
absence, and only nodes of a branch are ever lost.

`RepeatsNeedRelaunch` rests on `RelaunchInv`: a call started since the last
opening line belongs to a node that runs it or is past it, and a call without a
served result has none, since the index is complete but for this launch.
`RepeatsEarned` rests on `EarnedInv`: the call a node is about to make has a
record that led to it (`CallsEarned`), and only nodes that are no code hand
over, up to the bound (`Bounded`). The budget is then counted: the calls within
the allowance map one to one into it (`AllowanceBound`), every other one into
the grant that paid for it (`PaidBound`). `FinishedStaysFinished` is the
determinism of replay. While a program runs, each node that is out with a record
has a trail of links whose records, with the journal's grants, lead from the
first to the current one (`Trails`); at a finish that lost nothing these trails
answer the whole program, and as long as no grant is folded a later launch that
loses nothing cannot leave them (`Replayed`): each call it makes has its record
in the index, which is the one recorded, since no call has two. A launch that
loses a branch may leave them, so the invariant speaks of its nodes only while
nothing is lost.

**`GuardProofs`, the lock** (any number of processes). `NoRaceExclusion` and
`CrashesStrandNobody` rest on `LockInv`, which says, until two processes were
inside acquire at once, whom the path names at each point of acquire.
`LockIsAtomic` ties the lock to its one-step form in `RunLifecycle`: while
acquisitions do not overlap, a system call leaves the holders alone, lets one
process in where nobody was, or lets the only one go.

**`GuardProofs`, the rules** (any inputs `RulesAssumption` admits). Every answer
is the rule's of its input (`EveryAnswerIsJudged`), so each invariant of the
`rules` run becomes a statement about the rules' operators, for conditions,
plans, paths, texts and values of any size.

- `ConditionsHold`. By induction from the kids up, more records turn no verdict
  reached into another but by raising (`SettledNodes`); a condition that is true
  of some records passes the shape test (`SettledMaySettle`). For the converse a
  choice is made from the root down of what each node is to say, in a tree in
  which no node has two parents (`EveryNodeIsTold`), and the records that give
  the leaves those verdicts make the whole come out so (`ToldComesOut`).
- `AdmissionHolds`. `_reaches` computes a set closed under deps after at most as
  many rounds as there are nodes, since each round but the last adds one
  (`ReachedIsClosed`); a spec whose deps do not reach it closes no cycle
  (`JoiningKeepsAcyclic`), also when it replaces one of its id. The cheapest row
  exists because ranks are integers and the rows finitely many
  (`CheapestExists`).
- `AcceptanceHolds`. The renaming is injective on the entries (`MappingFacts`),
  so a leaf reads the same record under either id (`RenamedLeafReads`), and the
  evaluator's verdicts agree node by node (`RemapReadsTheSame`), for any records
  of the entries and of the graph. With that the acceptance of each entry,
  `holds` and `done_when` read alike; that a dep has a record under one id just
  when it has one under the other gives what may start and what it is handed.
- `SettingsHold` splits on what shape each configured value has.
- `BoundariesHold`. A resolved path holds no link and no `..`
  (`RealPathIsReal`), resolving goes through the resolved form of every
  directory on the way (`RealPathThrough`), and a path that matches a glob
  begins as the glob does up to its first wildcard (`GlobFacts`). So, of a call
  whose path the hook takes as the tool does, a write let through is covered by
  the patterns the scan excuses (`ScanCovers`), and for whatever globs a node
  declared it lands below each beginning of one of them that is free of
  wildcards.
- `NothingUndecidedLeaves`. Whether a node is under a secret's key is the least
  solution of an equation from the root down (`SecrecyFromAbove`), and the
  scrubber puts no kids under such a key (`SecretsHaveNoKids`).
- `RenderingHolds`. Each character appended keeps the folded text narrow and the
  width carried equal to its last line's (`FoldedStep`); a narrow text is folded
  into itself (`FoldFacts`), and a cut one keeps room for its mark
  (`ClampFacts`), which is where the bounds have to be two at least.

**`RunLifecycleProofs`** (any number of processes, launches and deaths).
`TypeCorrect` includes that the lock is held exactly at the places that hold it.
`TornLineIsLast` and `CancelsStayOnRecord` rest on `JournalInv`: whoever is past
the read under the lock has a journal without a torn line, whoever wrote a
request has it as the last line and no outcome yet, and whoever recorded a
verified outcome has it there. `CrashedWasReallyLost` rests on `LossInv`: a run
that has its opening and says running has a coordinator at work or has lost one,
and a crash verdict is only reached after a loss. `StaleVerbsStandAside` rests
on `SawInv`: at each place of a verb, what it may have read.

**`SessionProofs`** (any stream, any limits). `GraceCountsRequests` rests on
`SeamInv`: from the request that armed the handover on, each one is counted
once; and while nothing armed it, nothing seen is past a bound.
`StoppedIsNeverDone` adds `ExitInv`: the outcome is what the exit ladder makes
of a stream that was neither armed nor late. `ArmedHasItsCause` rests on
`CauseInv`: what armed the handover stays true, since a subtree goes on stopping
and neither the session's total nor what one of its requests saw ever shrinks.
The total is a recursive function; that it is nothing for no request and no less
for more are the lemmas `TotalOfNone` and `TotalGrows`.

**`FleetProofs`** (any number of branches, slots, launches). `OnlyStrayIsStray`,
`StraysAreCaught` and `ClonesAreFinished` rest on `FleetInv`: clones are renamed
into place whole (`ClonesAreWhole`), since a branch took its manifest only
declared worktrees changed (`WindowIsHonest`), and a branch that was scanned is
out (`ScansCloseWindows`). `SpendStaysBounded` rests on `SpendInv`. The session
that started last was held to what the row then had left; every other one runs
in another slot and may still add its whole budget and `Excess`. So either
there is room for all that run (`RoomWithout`), or one of them is the latest and
there is room beside it (`RoomWith`).

**`PushListProofs`** (any fleet, history, bounds). `TypeCorrect` and
`DecisionsStand` hold outright. `OnlyApprovedIsPushed`, `PushedOnce`,
`LandedIsTold`, `DoneIsLanded` and `PushedAsGated` assume `~ MovesMidPush`: the
configuration `PushRaced.cfg` is what happens otherwise. Their invariants build
on each other: `ApprovalInv` (an effect in progress belongs to an approved offer
and was checked), `MarkerInv` (the target is never behind what was pushed, and
every push left its attempted marker), `LandedInv` (a done marker, a record and
the part of an attempt already behind it all stand for pushes that happened),
`GateInv` (heads tallied agree with the gate's record of worktrees nobody
moved).

**`PlanLoopProofs`** (any limits, any plans). `TypeCorrect` includes the
budget: however many loops launch, `spent` stays within `MaxNodes`; its one
hard step is that the entries bought in a launch are an initial segment of the
ready ones, so there are no more of them than the last one counts (`BoughtFits`,
`GreatestId`). `DepsFirst` rests on `DepsInv`: ids not minted name nothing, so
accepting a plan takes nobody's record away, and a loop runs only while its
entry's task waits below, so leaving it takes back nothing that landed.
`NothingStaysRunning` rests on `TreeInv`: who is under whom is fixed when a plan
is accepted (`TreeShape`), and a loop that is not over runs under loops that are
still working on a pass, because each has the next one down as a task in flight
(`TreeFlow`). `FailuresReachTheTop` rests on `SurfaceInv`: a failure or refusal
is always with a task that returned, in the progress of a loop that is not over,
or in the run's outcome. `DoneMeansWhole` rests on `PassInv`: a finished pass
nobody refuted and nothing failed has landed every entry, since among the
entries left the one of least id would be ready (`LeastId`,
`NothingReadyIsWhole`).

**`RootLadderProofs`** (any planner, any allowances, launches and grants; no
reason a planner gives is called `refuted`, the name the ladder keeps for
itself). `TypeCorrect` rests on `RecordInv`. For the other two, a launch's
control state is a *place*, and journal and answers determine at most one step
from each place (`OneWay`): every launch retraces one walk from the bottom, and
more journal or answers only prolong it (`WalkGrows`). `QuestionsAskedOnce`
rests on `WalkInv`: a running launch is on the walk, and a question is open only
where the walk stops, which is one place (`OneWait`); with `LaunchInv`, the
rounds it spent are the grants it folded, so it is never served one twice.
`RoundsArePaidFor` counts: along the walk no place of planning comes twice with
the same attempt (`OneAttempt`), so planner dispatches map one to one into pairs
of a round and an attempt within it, and each round past the first has its own
grant.

### Induction

The library's induction theorems take an operator as a parameter, which no
installed prover instantiates. `EveryNumber` of `GuardProofs` is the same for
sets (a set of naturals with 0 and closed under successor has them all), derived
from the least element principle. With it, a recursive function is shown to
satisfy its equation by building a solution step by step (`StepByStep`) and
unfolding the definition's CHOOSE over it; facts about it follow by induction
over its domain. `SessionProofs` does the same for its total.

### Model-checked only

Liveness (`LaunchEnds` of `Dispatch` and `RootLadder`, `RunningEnds`, `RunEnds`)
is out of the prover's reach. Every invariant and every action property of a
passing run is a theorem.

## Not modelled

- **Run summary** (`summary.py`, the summary line's contents): a fold of the
  journal into a report, written once and read by nothing in the run.
- **Notification**: best effort, changes no state. Which notifier a
  configuration builds is in `SettingsRules`.
- **Workflow and dispatchable checks**: static checks of Python source, and of
  declarations that nothing in `src/` calls yet.
- **The single-shot graph A command**: the spike that the workflow replaced, one
  pass without journal, crash or resume.
- **Configuration, mail, logging**: generic plumbing. Of **composition** only
  the op registry and the refusal of unwired executors are modelled; the rest
  wires ports to adapters.
- Inside modelled parts: `/proc` (whether a lock holder lives is answered
  correctly), subprocess handling, file modes and path checks of the run store,
  the barrier's deadline arithmetic (it may give up at any time), `reduce` and
  other bodies without an effect, what the provider's SDK does, printing and
  listing, and the sandbox, which has one adapter that does nothing.

## What could follow

1. `PlanLoop` over the journal of `Dispatch`, with ids minted on each launch:
   the property would be that a finished body is served on every relaunch, which
   the section above says fails, and how much runs again.
2. `Fleet` and `PushList` in one state space, so that a grant of `run retry`
   reaches a branch's session as well as its gate.
3. The rules of `PlanRules` whose promises the code does not keep in full
   (`DoneNeedsWork`, what `_conservative` excludes) proved for the plans for
   which they hold.
