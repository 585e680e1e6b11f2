------------------------------ MODULE PushList -----------------------------
(***************************************************************************)
(* The end of the fleet migration (workflows/graph_a.py): per repository a *)
(* branch works in a worktree and is gated; the passed heads are the push  *)
(* list a person is asked about; the approved list is pushed, each push    *)
(* between two markers (context.py, apply).  The coordinator may crash     *)
(* between any two steps and is relaunched; operators, the deadline timer  *)
(* and somebody's hand-run git act beside it.                              *)
(*                                                                         *)
(* Commits are numbered along one line of history: a push is accepted if   *)
(* the target's commit is not after the pushed one.  A payload is named by *)
(* its content, as its hash names it: the head staged for each repository, *)
(* or Absent.  A branch that failed at any step counts as failed at its    *)
(* gate.  The dispatches that only replay (discover, tally, stage, and the *)
(* approve node's own record) keep no state here; Dispatch models them.    *)
(***************************************************************************)
EXTENDS Integers, FiniteSets, Sequences

CONSTANTS
  Repos,         \* how many repositories the fleet has, numbered in file order
  Commits,       \* the last commit of the line of history
  MaxAttempts,   \* policy.max_attempts
  MovesMidPush,  \* may HEAD move between a push and the check before it?
  MaxLaunches, MaxMoves, MaxGrants, MaxAsking   \* bounds, for TLC

ASSUME PushListAssumption ==
  /\ {Repos, Commits, MaxAttempts, MaxLaunches, MaxMoves, MaxGrants, MaxAsking}
       \subseteq Nat
  /\ MovesMidPush \in BOOLEAN

Repo == 1 .. Repos
Commit == 0 .. Commits
Absent == -1
Payload == [Repo -> Commit \cup {Absent}]
Intents(p) == {r \in Repo : p[r] # Absent}
Nothing == [r \in Repo |-> Absent]
Verdict == {"approve", "hold"}
Outcome == {"done", "transient", "fatal"}
Phase == {"down", "folding", "branches", "approve", "dispatch", "apply",
          "check", "push", "mark", "ending"}

\* Inside the body of an apply attempt.
Applying == {"apply", "check", "push", "mark"}

VARIABLES
  head,       \* what HEAD of each worktree points at
  target,     \* what the branch of each push target points at
  worked,     \* journal: the branches whose work is recorded
  gates,      \* journal: per branch, the set of its current gate record
  answers,    \* the decision files: payload -> verdict
  folded,     \* journal: the decisions folded into it
  applied,    \* journal: per payload, the outcomes of its apply attempts
  recent,     \* journal: the payload of its latest apply record
  granted,    \* journal: the <<payload, attempt>> granted another attempt
  attempted,  \* the attempted/ markers, <<repository, commit>>
  done,       \* the done/ markers
  status,     \* state.json's status
  cursor,     \* state.json's cursor: the payload a suspended run waits on
  retrying,   \* "run retry" was called since the last launch
  phase,      \* where the coordinator is
  at,         \* where each branch is
  row,        \* the heads this launch tallied
  offer,      \* the payload on offer in this launch
  todo,       \* the repositories the running apply attempt still has to do
  warned,     \* may_have_landed, as the effect at hand was told
  asking,     \* the answers of operators who read the question
  pushed,     \* history: what was pushed, and under which payload
  moved,      \* history: the worktrees somebody moved by hand
  launches, moves, grants   \* counters, for the bounds

world == <<head, target>>
branches == <<worked, gates>>
decisions == <<answers, folded>>
applies == <<applied, recent>>
markers == <<attempted, done>>
state == <<status, cursor>>
volatile == <<phase, at, row, offer, todo, warned>>
counts == <<launches, moves, grants>>
vars == <<world, branches, decisions, applies, granted, markers, state,
          retrying, volatile, asking, pushed, moved, counts>>

Push == [repo : Repo, commit : Commit, payload : Payload]
Places == {"work", "worked", "gate", "head", "ready"}

-----------------------------------------------------------------------------
(* The coordinator's launches.                                             *)

Answered(p) == p \in DOMAIN folded
Extend(f, x, y) == [z \in DOMAIN f \cup {x} |-> IF z = x THEN y ELSE f[z]]

\* Leaving the run directory: nothing in memory survives.
Idle ==
  /\ phase' = "down"
  /\ at' = [r \in Repo |-> "work"]
  /\ row' = Nothing
  /\ offer' = Nothing
  /\ todo' = {}
  /\ warned' = FALSE

\* A relaunch folds the decision files it lists.  A finished run is relaunched
\* by "run retry" only.
Launch ==
  /\ phase = "down"
  /\ launches < MaxLaunches
  /\ status # "done" \/ retrying
  /\ phase' = "folding"
  /\ folded' = answers
  /\ retrying' = FALSE
  /\ launches' = launches + 1
  /\ UNCHANGED <<world, branches, answers, applies, granted, markers, state,
                 at, row, offer, todo, warned, asking, pushed, moved, moves, grants>>

\* Until here state.json still holds the cursor of the last launch.
Run ==
  /\ phase = "folding"
  /\ phase' = "branches"
  /\ status' = "running"
  /\ cursor' = Nothing
  /\ UNCHANGED <<world, branches, decisions, applies, granted, markers,
                 retrying, at, row, offer, todo, warned, asking, pushed, moved, counts>>

Crash ==
  /\ phase # "down"
  /\ Idle
  /\ UNCHANGED <<world, branches, decisions, applies, granted, markers, state,
                 retrying, asking, pushed, moved, counts>>

-----------------------------------------------------------------------------
(* The branches.                                                           *)

Arrive(r, place) == at' = [at EXCEPT ![r] = place]

\* Fault: the work is done again on every launch.
WorkUnserved(r) ==
  /\ phase = "branches"
  /\ at[r] = "work"
  /\ Arrive(r, "worked")
  /\ \E c \in {head[r], head[r] + 1} \cap Commit :
       head' = [head EXCEPT ![r] = c]
  /\ UNCHANGED <<target, branches, decisions, applies, granted, markers, state,
                 retrying, phase, row, offer, todo, warned, asking, pushed,
                 moved, counts>>

\* The body of the work node, which may commit; served if it is recorded.
Work(r) ==
  /\ phase = "branches"
  /\ at[r] = "work"
  /\ IF r \in worked
     THEN /\ Arrive(r, "gate")
          /\ UNCHANGED head
     ELSE /\ Arrive(r, "worked")
          /\ \E c \in {head[r], head[r] + 1} \cap Commit :
               head' = [head EXCEPT ![r] = c]
  /\ UNCHANGED <<target, branches, decisions, applies, granted, markers, state,
                 retrying, phase, row, offer, todo, warned, asking, pushed,
                 moved, counts>>

RecordWork(r) ==
  /\ phase = "branches"
  /\ at[r] = "worked"
  /\ worked' = worked \cup {r}
  /\ Arrive(r, "gate")
  /\ UNCHANGED <<world, gates, decisions, applies, granted, markers, state,
                 retrying, phase, row, offer, todo, warned, asking, pushed,
                 moved, counts>>

\* The gate's record is keyed by its command and directory, not by the commit.
Gate(r) ==
  /\ phase = "branches"
  /\ at[r] = "gate"
  /\ IF gates[r] # {}
     THEN UNCHANGED gates
     ELSE \E ok \in BOOLEAN :
            gates' = [gates EXCEPT ![r] = {[commit |-> head[r], passed |-> ok]}]
  /\ Arrive(r, "head")
  /\ UNCHANGED <<world, worked, decisions, applies, granted, markers, state,
                 retrying, phase, row, offer, todo, warned, asking, pushed,
                 moved, counts>>

\* HEAD is read live, after the gate's record, on every launch.
ReadHead(r) ==
  /\ phase = "branches"
  /\ at[r] = "head"
  /\ row' = [row EXCEPT ![r] = IF \E g \in gates[r] : g.passed
                               THEN head[r] ELSE Absent]
  /\ Arrive(r, "ready")
  /\ UNCHANGED <<world, branches, decisions, applies, granted, markers, state,
                 retrying, phase, offer, todo, warned, asking, pushed, moved, counts>>

\* The tally and the stage node: an empty push list is offered to nobody.
Tally ==
  /\ phase = "branches"
  /\ \A r \in Repo : at[r] = "ready"
  /\ offer' = row
  /\ phase' = IF Intents(row) = {} THEN "ending" ELSE "approve"
  /\ UNCHANGED <<world, branches, decisions, applies, granted, markers, state,
                 retrying, at, row, todo, warned, asking, pushed, moved, counts>>

-----------------------------------------------------------------------------
(* The approve node, and those who answer it.                              *)

\* Fault: an answer is looked up by its node, whatever it was given for.
FoldedByNode(p) == {folded[q] : q \in DOMAIN folded}

\* The decision folded for exactly this payload.
FoldedDecision(p) == IF Answered(p) THEN {folded[p]} ELSE {}

\* No decision for this payload: the run suspends on it and exits.
Ask ==
  /\ phase = "approve"
  /\ FoldedDecision(offer) = {}
  /\ status' = "suspended"
  /\ cursor' = offer
  /\ Idle
  /\ UNCHANGED <<world, branches, decisions, applies, granted, markers,
                 retrying, asking, pushed, moved, counts>>

Decided ==
  /\ phase = "approve"
  /\ \E v \in FoldedDecision(offer) :
       phase' = IF v = "approve" THEN "dispatch" ELSE "ending"
  /\ UNCHANGED <<world, branches, decisions, applies, granted, markers, state,
                 retrying, at, row, offer, todo, warned, asking, pushed, moved, counts>>

\* The program returned.
End ==
  /\ phase = "ending"
  /\ status' = "done"
  /\ cursor' = Nothing
  /\ Idle
  /\ UNCHANGED <<world, branches, decisions, applies, granted, markers,
                 retrying, asking, pushed, moved, counts>>

\* "run approve" reads state.json and the decision file of its payload ...
ReadQuestion(v) ==
  /\ status = "suspended"
  /\ cursor \notin DOMAIN answers
  /\ Cardinality(asking) < MaxAsking
  /\ asking' = asking \cup {<<cursor, v>>}
  /\ UNCHANGED <<world, branches, decisions, applies, granted, markers, state,
                 retrying, volatile, pushed, moved, counts>>

\* ... and links the decision into place later, if nobody else has.
Answer(p, v) ==
  /\ <<p, v>> \in asking
  /\ asking' = asking \ {<<p, v>>}
  /\ answers' = IF p \in DOMAIN answers THEN answers ELSE Extend(answers, p, v)
  /\ UNCHANGED <<world, branches, folded, applies, granted, markers, state,
                 retrying, volatile, pushed, moved, counts>>

\* The deadline owner, under the run's lock: a due question is held.
ApplyDueDefault ==
  /\ phase = "down"
  /\ status = "suspended"
  /\ cursor \notin DOMAIN answers
  /\ answers' = Extend(answers, cursor, "hold")
  /\ UNCHANGED <<world, branches, folded, applies, granted, markers, state,
                 retrying, volatile, asking, pushed, moved, counts>>

-----------------------------------------------------------------------------
(* The apply node: each intent between its two markers.                    *)

Key(r) == <<r, offer[r]>>

\* The repository whose intent is next, in file order.
IsNext(r) == r \in todo /\ \A q \in todo : r <= q

Last(p) == applied[p][Len(applied[p])]

\* A transient failure is retried by itself, any failure if it was granted.
Retried(p) ==
  \/ Last(p) = "transient" /\ Len(applied[p]) < MaxAttempts
  \/ Last(p) # "done" /\ <<p, Len(applied[p])>> \in granted

\* The node's last attempt is served, or one more attempt begins.
Apply ==
  /\ phase = "dispatch"
  /\ IF applied[offer] = <<>> \/ Retried(offer)
     THEN /\ phase' = "apply"
          /\ todo' = Intents(offer)
     ELSE /\ phase' = "ending"
          /\ UNCHANGED todo
  /\ UNCHANGED <<world, branches, decisions, applies, granted, markers, state,
                 retrying, at, row, offer, warned, asking, pushed, moved, counts>>

\* Fault: an intent once attempted is taken for done.
SkipAttempted(r) ==
  /\ phase = "apply"
  /\ IsNext(r)
  /\ Key(r) \in attempted
  /\ todo' = todo \ {r}
  /\ UNCHANGED <<world, branches, decisions, applies, granted, markers, state,
                 retrying, phase, at, row, offer, warned, asking, pushed, moved, counts>>

SkipDone(r) ==
  /\ phase = "apply"
  /\ IsNext(r)
  /\ Key(r) \in done
  /\ todo' = todo \ {r}
  /\ UNCHANGED <<world, branches, decisions, applies, granted, markers, state,
                 retrying, phase, at, row, offer, warned, asking, pushed, moved, counts>>

\* Fault: the wrong marker is read.
AttemptUntold(r) ==
  /\ phase = "apply"
  /\ IsNext(r)
  /\ Key(r) \notin done
  /\ warned' = (Key(r) \in done)
  /\ attempted' = attempted \cup {Key(r)}
  /\ phase' = "check"
  /\ UNCHANGED <<world, branches, decisions, applies, granted, done, state,
                 retrying, at, row, offer, todo, asking, pushed, moved, counts>>

Attempt(r) ==
  /\ phase = "apply"
  /\ IsNext(r)
  /\ Key(r) \notin done
  /\ warned' = (Key(r) \in attempted)
  /\ attempted' = attempted \cup {Key(r)}
  /\ phase' = "check"
  /\ UNCHANGED <<world, branches, decisions, applies, granted, done, state,
                 retrying, at, row, offer, todo, asking, pushed, moved, counts>>

\* The attempt's record, and the dispatch loop it returns to.
Record(outcome) ==
  /\ applied' = [applied EXCEPT ![offer] = Append(@, outcome)]
  /\ recent' = offer
  /\ todo' = {}
  /\ phase' = "dispatch"

\* Fault: the target is not read back.
CheckUnread(r) ==
  /\ phase = "check"
  /\ IsNext(r)
  /\ IF head[r] = offer[r]
     THEN /\ phase' = "push"
          /\ UNCHANGED <<applies, todo>>
     ELSE Record("fatal")
  /\ UNCHANGED <<world, branches, decisions, granted, markers, state, retrying,
                 at, row, offer, warned, asking, pushed, moved, counts>>

\* Already there; or to be pushed; or not the approved commit any more.
Check(r) ==
  /\ phase = "check"
  /\ IsNext(r)
  /\ IF target[r] = offer[r]
     THEN /\ phase' = "mark"
          /\ UNCHANGED <<applies, todo>>
     ELSE IF head[r] = offer[r]
     THEN /\ phase' = "push"
          /\ UNCHANGED <<applies, todo>>
     ELSE Record("fatal")
  /\ UNCHANGED <<world, branches, decisions, granted, markers, state, retrying,
                 at, row, offer, warned, asking, pushed, moved, counts>>

\* What goes out is the commit HEAD points at now.
GitPush(r) ==
  /\ phase = "push"
  /\ IsNext(r)
  /\ target[r] <= head[r]
  /\ target' = [target EXCEPT ![r] = head[r]]
  /\ pushed' = Append(pushed, [repo |-> r, commit |-> head[r], payload |-> offer])
  /\ phase' = "mark"
  /\ UNCHANGED <<head, branches, decisions, applies, granted, markers, state,
                 retrying, at, row, offer, todo, warned, asking, moved, counts>>

\* The push is refused, or git fails: a transient failure of the whole node.
PushFails(r) ==
  /\ phase = "push"
  /\ IsNext(r)
  /\ Record("transient")
  /\ UNCHANGED <<world, branches, decisions, granted, markers, state, retrying,
                 at, row, offer, warned, asking, pushed, moved, counts>>

Mark(r) ==
  /\ phase = "mark"
  /\ IsNext(r)
  /\ done' = done \cup {Key(r)}
  /\ todo' = todo \ {r}
  /\ phase' = "apply"
  /\ UNCHANGED <<world, branches, decisions, applies, granted, attempted, state,
                 retrying, at, row, offer, warned, asking, pushed, moved, counts>>

RecordDone ==
  /\ phase = "apply"
  /\ todo = {}
  /\ Record("done")
  /\ UNCHANGED <<world, branches, decisions, granted, markers, state, retrying,
                 at, row, offer, warned, asking, pushed, moved, counts>>

-----------------------------------------------------------------------------
(* Operators between launches, and hands in the worktrees at any time.     *)

\* "run retry" of the apply node, whose latest record must be a failure; a
\* grant is read at a launch.
GrantApply ==
  /\ phase = "down"
  /\ grants < MaxGrants
  /\ applied[recent] # <<>>
  /\ Last(recent) # "done"
  /\ <<recent, Len(applied[recent])>> \notin granted
  /\ granted' = granted \cup {<<recent, Len(applied[recent])>>}
  /\ retrying' = TRUE
  /\ grants' = grants + 1
  /\ UNCHANGED <<world, branches, decisions, applies, markers, state, volatile,
                 asking, pushed, moved, launches, moves>>

\* "run retry" of a red gate: the next launch runs it again.
GrantGate(r) ==
  /\ phase = "down"
  /\ grants < MaxGrants
  /\ \E g \in gates[r] : ~g.passed
  /\ gates' = [gates EXCEPT ![r] = {}]
  /\ retrying' = TRUE
  /\ grants' = grants + 1
  /\ UNCHANGED <<world, worked, decisions, applies, granted, markers, state,
                 volatile, asking, pushed, moved, launches, moves>>

\* git run by hand in a worktree: a commit, or a reset to an earlier one.
MoveHead(r, c) ==
  /\ moves < MaxMoves
  /\ MovesMidPush \/ phase # "push"
  /\ c # head[r]
  /\ head' = [head EXCEPT ![r] = c]
  /\ moved' = moved \cup {r}
  /\ moves' = moves + 1
  /\ UNCHANGED <<target, branches, decisions, applies, granted, markers, state,
                 retrying, volatile, asking, pushed, launches, grants>>

-----------------------------------------------------------------------------

Init ==
  /\ head = [r \in Repo |-> 0]
  /\ target = [r \in Repo |-> 0]
  /\ worked = {}
  /\ gates = [r \in Repo |-> {}]
  /\ answers = [p \in {} |-> "hold"]
  /\ folded = answers
  /\ applied = [p \in Payload |-> <<>>]
  /\ recent = Nothing
  /\ granted = {}
  /\ attempted = {}
  /\ done = {}
  /\ status = "running"
  /\ cursor = Nothing
  /\ retrying = FALSE
  /\ phase = "down"
  /\ at = [r \in Repo |-> "work"]
  /\ row = Nothing
  /\ offer = Nothing
  /\ todo = {}
  /\ warned = FALSE
  /\ asking = {}
  /\ pushed = <<>>
  /\ moved = {}
  /\ launches = 0 /\ moves = 0 /\ grants = 0

Branch(r) == Work(r) \/ RecordWork(r) \/ Gate(r) \/ ReadHead(r)

Perform(r) ==
  SkipDone(r) \/ Attempt(r) \/ Check(r) \/ GitPush(r) \/ PushFails(r) \/ Mark(r)

Coordinator ==
  \/ Run \/ Tally \/ Ask \/ Decided \/ Apply \/ RecordDone \/ End
  \/ \E r \in Repo : Branch(r) \/ Perform(r)

Next ==
  \/ Launch \/ Coordinator \/ Crash \/ ApplyDueDefault \/ GrantApply
  \/ \E v \in Verdict : ReadQuestion(v) \/ \E p \in Payload : Answer(p, v)
  \/ \E r \in Repo : GrantGate(r) \/ \E c \in Commit : MoveHead(r, c)

Spec == Init /\ [][Next]_vars

-----------------------------------------------------------------------------
(* Properties.                                                             *)

\* Every variable has its type, and only a running apply attempt has intents
\* to do.
TypeOK ==
  /\ head \in [Repo -> Commit] /\ target \in [Repo -> Commit]
  /\ worked \subseteq Repo
  /\ gates \in [Repo -> SUBSET [commit : Commit, passed : BOOLEAN]]
  /\ DOMAIN answers \subseteq Payload /\ DOMAIN folded \subseteq Payload
  /\ answers \in [DOMAIN answers -> Verdict] /\ folded \in [DOMAIN folded -> Verdict]
  /\ applied \in [Payload -> Seq(Outcome)]
  /\ granted \subseteq Payload \X Nat
  /\ attempted \subseteq Repo \X Commit /\ done \subseteq Repo \X Commit
  /\ status \in {"running", "suspended", "done"}
  /\ recent \in Payload /\ cursor \in Payload /\ row \in Payload /\ offer \in Payload
  /\ phase \in Phase
  /\ at \in [Repo -> Places]
  /\ todo \subseteq IF phase \in Applying THEN Intents(offer) ELSE {}
  /\ retrying \in BOOLEAN /\ warned \in BOOLEAN
  /\ asking \subseteq Payload \X Verdict
  /\ pushed \in Seq(Push)
  /\ moved \subseteq Repo
  /\ launches \in Nat /\ moves \in Nat /\ grants \in Nat

\* Was commit c of repository r pushed?
Landed(r, c) == \E i \in DOMAIN pushed : pushed[i].repo = r /\ pushed[i].commit = c

\* What execution-model.md:201-204 promises: nothing leaves the process but the
\* very commits a person approved, over restarts, changed payloads and moved
\* worktrees (perform_push).
PushedUnderApproval ==
  \A i \in DOMAIN pushed :
    LET p == pushed[i].payload IN
    /\ p \in DOMAIN answers
    /\ answers[p] = "approve"
    /\ p[pushed[i].repo] = pushed[i].commit

Gated(r, c) == [commit |-> c, passed |-> TRUE] \in gates[r]

\* What graph_a.py:248 says: the commit that is pushed is the one the gate saw.
PushedWasGated ==
  \A i \in DOMAIN pushed : Gated(pushed[i].repo, pushed[i].commit)

\* The part of it that holds: no crash, repeated work or retry of a gate gets
\* an ungated commit pushed from a worktree nobody moved by hand.
GatedUnlessMoved ==
  \A i \in DOMAIN pushed :
    pushed[i].repo \notin moved => Gated(pushed[i].repo, pushed[i].commit)

\* No crash between a push and its marker, and no retry of the apply node,
\* makes the run push a commit it has already pushed there (execution-model.md,
\* section 7: the target is read back).
EachPushedOnce ==
  \A i, j \in DOMAIN pushed :
    pushed[i].repo = pushed[j].repo /\ pushed[i].commit = pushed[j].commit => i = j

\* The effect is told that it may have landed whenever it has
\* (context.py, _may_have_landed), whichever launch or attempt that was in.
MayHaveLandedIsTold ==
  \A r \in Repo :
    phase \in {"check", "push"} /\ IsNext(r) /\ Landed(r, offer[r]) => warned

\* An apply record that is done stands for pushes that all happened, also when
\* they took several attempts and launches (_apply_one, "already-done").
DoneMeansLanded ==
  \A p \in Payload :
    applied[p] # <<>> /\ Last(p) = "done" =>
      \A r \in Intents(p) : p[r] = 0 \/ Landed(r, p[r])

\* A decision once recorded is final, whoever raced to record another
\* (run_store_fs.py, write_decision), and the journal holds the same.
DecisionsAreFinal ==
  [][/\ \A p \in DOMAIN answers : p \in DOMAIN answers' /\ answers'[p] = answers[p]
     /\ \A p \in DOMAIN folded' : p \in DOMAIN answers' /\ folded'[p] = answers'[p]]_vars

=============================================================================
