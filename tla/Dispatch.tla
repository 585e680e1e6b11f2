------------------------------ MODULE Dispatch ------------------------------
(***************************************************************************)
(* Durable execution of one run: a workflow program walks a graph of       *)
(* nodes, every dispatch is bracketed in the journal by a started and a    *)
(* result line, and a relaunch re-executes the program from the top with   *)
(* every recorded result served back instead of run again.                 *)
(*                                                                         *)
(* Code modelled: application/kernel/dispatch.py (the dispatcher),         *)
(* application/kernel/replay.py (the index), the retry, continuation and   *)
(* grant loop and the map of application/kernel/context.py, the launch of  *)
(* application/kernel/run.py and the grant the `run retry` verb writes.    *)
(*                                                                         *)
(* Data abstractions.  A record is named by the journal position of its    *)
(* result line, which stands for its content hash: a record carries its    *)
(* measured duration, so two executions never hash alike.  A journal key   *)
(* is the tuple of what is hashed into it.  One process at a time writes   *)
(* the journal (the lock is module RunLock).                               *)
(*                                                                         *)
(* A node is dispatched by the program itself or in a branch of a map.  A  *)
(* branch that raises, Suspended included, is lost: map hands the program  *)
(* a failed record in its place that no journal holds, and the program     *)
(* goes on without the branch (graph_a.py _migrate).                       *)
(***************************************************************************)
EXTENDS Naturals, Sequences, FiniteSets

CONSTANTS
  Node,             \* the nodes the program dispatches
  Deps,             \* Deps[n]: the nodes whose records enter n's key
  Work,             \* Work[n]: spec identity, brief and input; twins share it
  Branch,           \* Branch[n]: the nodes of n's branch of a map, {} outside one
  CodeNode,         \* nodes whose kind the coordinator retries on its own
  MaxAttempts,      \* policy.max_attempts
  MaxContinuations, \* policy.max_continuations
  MaxLaunches,      \* bound: launches of the coordinator
  MaxGrants         \* bound: retry grants an operator records

ASSUME DispatchAssumption ==
  /\ Deps \in [Node -> SUBSET Node]
  /\ Branch \in [Node -> SUBSET Node]
  /\ \A n \in Node : \A m \in Branch[n] : n \in Branch[n] /\ Branch[m] = Branch[n]
  /\ CodeNode \subseteq Node
  /\ MaxAttempts \in Nat \ {0}
  /\ MaxContinuations \in Nat
  /\ MaxLaunches \in Nat
  /\ MaxGrants \in Nat

VARIABLES
  journal,    \* the append-only journal, the only state replay reads
  inbox,      \* retry grant files, written by the operator at any time
  phase,      \* "down", "opening", "folding" (its grants) or "running"
  index,      \* the replay index of this launch: results and grants
  due,        \* the grant files this launch listed before its program
  records,    \* records[n]: position of the record the program has of n, 0 if none
  at,         \* at[n]: attempt and continuation of the spec being dispatched
  pc          \* where n's dispatch loop is

vars == <<journal, inbox, phase, index, due, records, at, pc>>

launchVars == <<index, due, records, at, pc>>

-----------------------------------------------------------------------------
(* Journal lines, keys and calls.                                          *)

\* A link of a node's retry and continuation chain.
Link == [attempt : Nat, continuation : Nat]

FirstLink == [attempt |-> 0, continuation |-> 0]

\* prefix[d] is the record of dependency d, 0 for a node that is none.
Key == [work : {Work[n] : n \in Node}, link : Link, prefix : [Node -> Nat]]

\* The identity results and grants are filed under: a key carries no node id.
Call == [node : Node, key : Key]

Status == {"done", "failed", "needs_continuation"}

OpenLine == [event : {"open"}]
\* Which nodes were lost is what properties say of a finish, no field of the line.
SummaryLine == [event : {"summary"}, lost : SUBSET Node]
StartedLine == [event : {"started"}, call : Call]
GrantLine == [event : {"grant"}, call : Call]
ResultLine == [event : {"result"}, call : Call, status : Status,
                transient : BOOLEAN]

Line == OpenLine \cup SummaryLine \cup StartedLine \cup GrantLine
          \cup ResultLine

At(event) == {i \in DOMAIN journal : journal[i].event = event}

\* Every grant folded into the journal so far.
GrantsIn == {journal[i].call : i \in At("grant")}

\* Fault: a transient failure is not indexed.
LatestLasting ==
  {i \in At("result") :
     /\ ~ journal[i].transient
     /\ \A j \in At("result") : journal[j].call = journal[i].call => j <= i}

\* The latest result line of each call.
LatestResults ==
  {i \in At("result") :
     \A j \in At("result") : journal[j].call = journal[i].call => j <= i}

ReplayIndex == [results |-> LatestResults, grants |-> GrantsIn]

-----------------------------------------------------------------------------
(* One dispatch: its key, and whether its record earns another one.        *)

CallOf(n) ==
  [node |-> n,
   key  |-> [work   |-> Work[n],
             link   |-> at[n],
             prefix |-> [d \in Node |->
                           IF d \in Deps[n] THEN records[d] ELSE 0]]]

\* Fault: the index is keyed by the key alone.
ServedByKey(n) ==
  {i \in index.results : journal[i].call.key = CallOf(n).key}

\* The recorded results this launch's index holds for n's current call.
Served(n) == {i \in index.results : journal[i].call = CallOf(n)}

\* What the body can end with.  "empty" claims success and reports nothing,
\* "red" is a failure that ran and answered, "raised" one that raised.
Outcome(n) ==
  IF at[n].continuation > MaxContinuations
  THEN {"chain_limit"}
  ELSE {"done", "empty", "red", "raised"}
         \cup (IF n \in CodeNode THEN {} ELSE {"handover"})

\* The result line a body's outcome is completed into.
ResultOf(n, outcome) ==
  [event     |-> "result",
   call      |-> CallOf(n),
   status    |-> CASE outcome = "done"     -> "done"
                   [] outcome = "handover" -> "needs_continuation"
                   [] OTHER                -> "failed",
   transient |-> outcome = "raised"]

AutoRetries(n, line) ==
  /\ at[n].attempt + 1 < MaxAttempts
  /\ n \in CodeNode
  /\ line.status = "failed"
  /\ line.transient

\* Fault: a grant is matched by its node alone.
GrantedByNode(line) ==
  /\ line.status = "failed"
  /\ \E call \in index.grants : call.node = line.call.node

Granted(line) == line.status = "failed" /\ line.call \in index.grants

Retries(n, line) == AutoRetries(n, line) \/ Granted(line)

Continues(line) == line.status = "needs_continuation"

\* Fault: a retry dispatches the same link again.
SameLink(n, line) ==
  IF Retries(n, line)
  THEN at[n]
  ELSE [attempt |-> 0, continuation |-> at[n].continuation + 1]

NextLink(n, line) ==
  IF Retries(n, line)
  THEN [at[n] EXCEPT !.attempt = @ + 1]
  ELSE [attempt |-> 0, continuation |-> at[n].continuation + 1]

\* A record came back, from the body or from the index: the loop dispatches
\* the next link or returns the record to the program.
Land(n, line, position) ==
  /\ records' = [records EXCEPT ![n] = position]
  /\ IF Retries(n, line) \/ Continues(line)
     THEN /\ at' = [at EXCEPT ![n] = NextLink(n, line)]
          /\ pc' = [pc EXCEPT ![n] = "call"]
     ELSE /\ pc' = [pc EXCEPT ![n] = "done"]
          /\ UNCHANGED at

-----------------------------------------------------------------------------
(* The program.                                                            *)

Out == {"done", "lost"}

\* Faults: the dependencies are not awaited; all of them must have succeeded.
BeginUnready(n) ==
  /\ phase = "running"
  /\ pc[n] = "idle"
  /\ \A m \in Node : pc[m] # "suspended"
  /\ pc' = [pc EXCEPT ![n] = "call"]
  /\ UNCHANGED <<journal, inbox, phase, index, due, records, at>>

BeginAfterSuccess(n) ==
  /\ \A d \in Deps[n] : records[d] # 0 /\ journal[records[d]].status = "done"
  /\ BeginUnready(n)

\* The program comes to a node when its dependencies are out, and to none once
\* Suspended is on its way out of it.
Reaches(n) ==
  /\ phase = "running"
  /\ pc[n] = "idle"
  /\ \A d \in Deps[n] : pc[d] \in Out
  /\ \A m \in Node : pc[m] # "suspended"

Begin(n) ==
  /\ Reaches(n)
  /\ pc' = [pc EXCEPT ![n] = "call"]
  /\ UNCHANGED <<journal, inbox, phase, index, due, records, at>>

\* Something raised in n's branch at n: nothing more of the branch is begun, and
\* what reads the branch reads nothing of n.
Lose(n) ==
  /\ pc' = [m \in Node |-> IF m = n \/ (m \in Branch[n] /\ pc[m] = "idle") THEN "lost" ELSE pc[m]]
  /\ records' = [m \in Node |-> IF pc'[m] = "lost" THEN 0 ELSE records[m]]

\* A branch raises between its dispatches: a clone fails, a node is refused
\* before its dispatch.
BranchRaises(n) ==
  /\ Reaches(n)
  /\ Branch[n] # {}
  /\ Lose(n)
  /\ UNCHANGED <<journal, inbox, phase, index, due, at>>

\* The journal already holds this call's result: no line, no body.
Serve(n) ==
  /\ phase = "running"
  /\ pc[n] = "call"
  /\ \E i \in Served(n) : Land(n, journal[i], i)
  /\ UNCHANGED <<journal, inbox, phase, index, due>>

\* Fault: the index is not consulted before a body is started.
StartUnserved(n) ==
  /\ phase = "running"
  /\ pc[n] = "call"
  /\ journal' = Append(journal, [event |-> "started", call |-> CallOf(n)])
  /\ pc' = [pc EXCEPT ![n] = "body"]
  /\ UNCHANGED <<inbox, phase, index, due, records, at>>

Start(n) ==
  /\ phase = "running"
  /\ pc[n] = "call"
  /\ Served(n) = {}
  /\ journal' = Append(journal, [event |-> "started", call |-> CallOf(n)])
  /\ pc' = [pc EXCEPT ![n] = "body"]
  /\ UNCHANGED <<inbox, phase, index, due, records, at>>

Finish(n) ==
  /\ phase = "running"
  /\ pc[n] = "body"
  /\ \E outcome \in Outcome(n) :
       /\ journal' = Append(journal, ResultOf(n, outcome))
       /\ Land(n, ResultOf(n, outcome), Len(journal) + 1)
  /\ UNCHANGED <<inbox, phase, index, due>>

\* The provider refused and the policy says suspend: the body raises
\* Suspended, which is never recorded, so its started line stays unmatched.
\* Outside a map it makes its way out of the program.
Suspend(n) ==
  /\ phase = "running"
  /\ pc[n] = "body"
  /\ n \notin CodeNode
  /\ at[n].continuation <= MaxContinuations
  /\ IF Branch[n] = {}
     THEN pc' = [pc EXCEPT ![n] = "suspended"] /\ UNCHANGED records
     ELSE Lose(n)
  /\ UNCHANGED <<journal, inbox, phase, index, due, at>>

-----------------------------------------------------------------------------
(* Launches.                                                               *)

Idle ==
  /\ index' = [results |-> {}, grants |-> {}]
  /\ due' = {}
  /\ records' = [n \in Node |-> 0]
  /\ at' = [n \in Node |-> FirstLink]
  /\ pc' = [n \in Node |-> "idle"]

\* A launch opens: the bookend line, then the index over the journal.
Launch ==
  /\ phase = "down"
  /\ Cardinality(At("open")) < MaxLaunches
  /\ phase' = "opening"
  /\ journal' = Append(journal, [event |-> "open"])
  /\ index' = ReplayIndex
  /\ UNCHANGED <<inbox, due, records, at, pc>>

ListGrants ==
  /\ phase = "opening"
  /\ phase' = "folding"
  /\ due' = inbox
  /\ UNCHANGED <<journal, inbox, index, records, at, pc>>

FoldGrant ==
  /\ phase = "folding"
  /\ \E call \in due \ GrantsIn :
       journal' = Append(journal, [event |-> "grant", call |-> call])
  /\ UNCHANGED <<inbox, phase, launchVars>>

\* Fault: the grants just folded stay invisible to this launch.
StartProgramStale ==
  /\ phase = "folding"
  /\ due \subseteq GrantsIn
  /\ phase' = "running"
  /\ UNCHANGED <<journal, inbox, index, due, records, at, pc>>

\* The index is older than the lines just folded: its grants are reloaded.
StartProgram ==
  /\ phase = "folding"
  /\ due \subseteq GrantsIn
  /\ phase' = "running"
  /\ index' = [index EXCEPT !.grants = GrantsIn]
  /\ UNCHANGED <<journal, inbox, due, records, at, pc>>

\* No dispatch is in flight.
Quiet == \A n \in Node : pc[n] \notin {"call", "body"}

Lost == {n \in Node : pc[n] = "lost"}

\* The program returns, whatever its map lost.
EndDone ==
  /\ phase = "running"
  /\ \A n \in Node : pc[n] \in Out
  /\ phase' = "down"
  /\ journal' = Append(journal, [event |-> "summary", lost |-> Lost])
  /\ Idle
  /\ UNCHANGED inbox

\* The program lets Suspended through once its other branches came back.
EndSuspended ==
  /\ phase = "running"
  /\ Quiet
  /\ \E n \in Node : pc[n] = "suspended"
  /\ phase' = "down"
  /\ Idle
  /\ UNCHANGED <<journal, inbox>>

\* The process dies, or the program raises: neither writes a journal line.
Crash ==
  /\ phase # "down"
  /\ phase' = "down"
  /\ Idle
  /\ UNCHANGED <<journal, inbox>>

\* `run retry`: the node's latest record failed, and the next launch can walk
\* to its attempt.  At most one grant per call; no coordinator is involved.
LatestOf(n) ==
  {i \in At("result") :
     /\ journal[i].call.node = n
     /\ \A j \in At("result") : journal[j].call.node = n => j <= i}

\* The key of n's latest record at one attempt.
KeyAtAttempt(n, a) ==
  {journal[i].call :
     i \in {i \in At("result") :
              /\ journal[i].call.node = n
              /\ journal[i].call.key.link.attempt = a
              /\ \A j \in At("result") :
                   /\ journal[j].call.node = n
                   /\ journal[j].call.key.link.attempt = a
                   => j <= i}}

Reachable(n, target) ==
  \A a \in 0 .. target - 1 :
    a + 1 < MaxAttempts \/ \E call \in KeyAtAttempt(n, a) : call \in inbox

GrantRetry(n) ==
  /\ Cardinality(inbox) < MaxGrants
  /\ \E i \in LatestOf(n) :
       /\ journal[i].status = "failed"
       /\ Reachable(n, journal[i].call.key.link.attempt)
       /\ journal[i].call \notin inbox
       /\ inbox' = inbox \cup {journal[i].call}
  /\ UNCHANGED <<journal, phase, launchVars>>

-----------------------------------------------------------------------------

Init ==
  /\ journal = <<>>
  /\ inbox = {}
  /\ phase = "down"
  /\ index = [results |-> {}, grants |-> {}]
  /\ due = {}
  /\ records = [n \in Node |-> 0]
  /\ at = [n \in Node |-> FirstLink]
  /\ pc = [n \in Node |-> "idle"]

Step(n) == Begin(n) \/ Serve(n) \/ Start(n) \/ Finish(n)

Next ==
  \/ \E n \in Node : Step(n) \/ BranchRaises(n) \/ Suspend(n) \/ GrantRetry(n)
  \/ Launch \/ ListGrants \/ FoldGrant \/ StartProgram
  \/ EndDone \/ EndSuspended \/ Crash

Spec == Init /\ [][Next]_vars

\* The event loop runs every ready branch and the coordinator goes on.  That a
\* body ends is never assumed: the executor reads its deadline only when a
\* message arrives, and a gate's command has none.  Nor is it assumed that
\* anything is launched, crashes, raises, suspends or is granted.
Fairness ==
  /\ \A n \in Node : WF_vars(Begin(n)) /\ WF_vars(Serve(n)) /\ WF_vars(Start(n))
  /\ WF_vars(ListGrants) /\ WF_vars(FoldGrant) /\ WF_vars(StartProgram)
  /\ WF_vars(EndDone) /\ WF_vars(EndSuspended)

FairSpec == Spec /\ Fairness

-----------------------------------------------------------------------------
(* Properties.                                                             *)

\* Every variable has its type; a record held in memory is one the journal
\* holds, for both come from the same result (dispatch.py:237-239).
TypeOK ==
  /\ journal \in Seq(Line)
  /\ inbox \subseteq Call
  /\ phase \in {"down", "opening", "folding", "running"}
  /\ index \in [results : SUBSET Nat, grants : SUBSET Call]
  /\ index.results \subseteq At("result")
  /\ due \subseteq Call
  /\ records \in [Node -> {0} \cup At("result")]
  /\ at \in [Node -> Link]
  /\ pc \in [Node -> {"idle", "call", "body", "suspended", "lost", "done"}]

\* A call is recorded at most once, over every launch, crash and grant: what
\* "runs its body once and records it" promises (dispatch.py:66).
OneResultPerCall ==
  \A i, j \in At("result") : journal[i].call = journal[j].call => i = j

\* A body runs again only for a call whose last run left no result, and never
\* twice in one launch: the crash window is the only way to repeat work.
RedispatchNeedsRelaunch ==
  \A i, j \in At("started") :
    i < j /\ journal[i].call = journal[j].call =>
      /\ \E o \in At("open") : i < o /\ o < j
      /\ \A r \in At("result") : journal[r].call = journal[j].call => j < r

\* What a finished node hands its program is its own record, at the link its
\* loop stopped at, computed from the very records its dependencies hold in
\* this launch: replay never mixes generations of a subtree.
OwnAndFresh ==
  \A n \in Node : pc[n] = "done" =>
    /\ records[n] \in At("result")
    /\ journal[records[n]].call = CallOf(n)

\* A result is younger than every result its key was computed from, and each of
\* those is a result of that dependency (execution-model.md section 3); a
\* dependency without a result is in a branch of a map.
JournalIsCausal ==
  \A i \in At("started") \cup At("result") :
    LET prefix == journal[i].call.key.prefix
    IN  \A d \in Deps[journal[i].call.node] :
          \/ prefix[d] = 0 /\ Branch[d] # {}
          \/ /\ prefix[d] \in At("result")
             /\ prefix[d] < i
             /\ journal[prefix[d]].call.node = d

\* The same work and prefix, one node: the links of one chain.
SameChain(call, other) ==
  /\ call.node = other.node
  /\ call.key.work = other.key.work
  /\ call.key.prefix = other.key.prefix

\* The result line j earns the started line i its place in the chain.
Earns(j, i) ==
  LET from == journal[j].call.key.link
      to == journal[i].call.key.link
  IN  /\ j < i
      /\ SameChain(journal[j].call, journal[i].call)
      /\ \/ /\ to = [from EXCEPT !.attempt = @ + 1]
            /\ journal[j].status = "failed"
            /\ \/ /\ journal[i].call.node \in CodeNode
                  /\ journal[j].transient
                  /\ to.attempt < MaxAttempts
               \/ \E g \in At("grant") :
                    g < i /\ journal[g].call = journal[j].call
         \/ /\ to = [attempt |-> 0, continuation |-> from.continuation + 1]
            /\ journal[j].status = "needs_continuation"

\* Nothing is attempted again or continued unless a journaled record earned
\* it: a transient failure of a code node under the ceiling, a failure an
\* operator granted for this node, or a handover (context.py:1312-1346).
EveryAttemptIsEarned ==
  \A i \in At("started") :
    \/ journal[i].call.key.link = FirstLink
    \/ \E j \in At("result") : Earns(j, i)

\* One grant buys one attempt: past the automatic allowance, a chain has at
\* most as many links as grants folded for it (context.py:1479-1482).
RepeatsAreBudgeted ==
  \A i \in At("started") :
    LET chain == {journal[j].call : j \in
                    {j \in At("started") :
                       SameChain(journal[j].call, journal[i].call)}}
        granted == {call \in GrantsIn : SameChain(call, journal[i].call)}
        allowance == IF journal[i].call.node \in CodeNode
                     THEN MaxAttempts ELSE MaxContinuations + 2
    IN  Cardinality(chain) <= allowance + Cardinality(granted)

\* Every link of a chain was earned by a record, and no chain is longer than
\* its records, its grants and the allowance pay for.
RepeatsAreEarned == EveryAttemptIsEarned /\ RepeatsAreBudgeted

\* A grant file an operator wrote before the launch listed its inbox is acted
\* on by that launch: no node ends on the failure it was granted for.
GrantIsHonoured ==
  \A n \in Node :
    phase = "running" /\ pc[n] = "done"
      /\ journal[records[n]].status = "failed"
    => journal[records[n]].call \notin due

\* Relaunching a finished run runs nothing, whatever failed in it, until a grant
\* is folded (execution-model.md section 5); unless the finish lost a branch, or
\* this launch did, for then there is a record missing that replay could serve.
FinishedRunDispatchesNothing ==
  \A s \in At("summary"), n \in Node :
    journal[s].lost = {} /\ pc[n] = "body" =>
      \/ \E g \in At("grant") : s < g
      \/ Lost # {}

\* Not what the code does (execution-model.md:121: replay a finished run and
\* nothing is dispatched at all): it is so even of a finish that lost a branch.
FinishedIsReplayed ==
  \A s \in At("summary"), n \in Node : pc[n] = "body" => \E g \in At("grant") : s < g

\* Nothing but a body holds a launch up: when every body ends, retries,
\* handovers and grants run out and the launch ends, whatever it lost.
LaunchEnds ==
  (\A n \in Node : []<>(pc[n] # "body")) => (phase # "down" ~> phase = "down")

Running == {CallOf(n) : n \in {n \in Node : pc[n] = "body"}}

Recorded == {journal[i].call : i \in At("result")}

\* The journal, the replay index and the launches together implement the
\* promise of ResultOnce: one body at a time per call, one result at most.
RO == INSTANCE ResultOnce WITH running <- Running, recorded <- Recorded

ImplementsResultOnce == RO!Spec

\* What execution-model.md says of two nodes that are the same call: the
\* second is served the first's record without running.
SharedKeyRunsOnce ==
  \A i, j \in At("started") :
    journal[i].call.key = journal[j].call.key
    => journal[i].call.node = journal[j].call.node

=============================================================================
