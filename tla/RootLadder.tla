------------------------------ MODULE RootLadder ------------------------------
(***************************************************************************)
(* The root of a planned run: a planner is dispatched until its plan is     *)
(* accepted, a plan whose condition refutes is planned again, and whenever  *)
(* an allowance is spent a person is asked, once, whether to go on.  Three  *)
(* questions end a launch: no acceptable plan, a condition that keeps       *)
(* refuting, and a spent node budget.                                       *)
(*                                                                         *)
(* Code modelled: application/kernel/root.py, the re-planning loop of       *)
(* application/kernel/execute.py, the program of workflows/plan_goal.py and *)
(* the approve primitive as they use it.  One pass over a plan's entries    *)
(* is one step (PlanLoop has the inside of it), what a pass costs and       *)
(* settles is fixed by its journal the first time it runs.                  *)
(*                                                                         *)
(* A dispatch is named by what its brief says; an identical brief is served *)
(* from the journal.  A question is named by what its payload says.         *)
(***************************************************************************)
EXTENDS Naturals, FiniteSets

CONSTANTS
  Reason,      \* why a validator or a parser turns a plan down
  Fact,        \* what a planner's record shows in the next brief's evidence
  MaxReplans,  \* run_limits.max_replans
  Base,        \* run_limits.max_nodes_per_run
  MaxCost,     \* bound: nodes one pass dispatches
  MaxLaunches, \* bound: launches of the coordinator
  MaxGrants    \* bound: grants a person gives

ASSUME LadderAssumption ==
  /\ MaxReplans \in Nat /\ Base \in Nat \ {0} /\ MaxCost \in Nat \ {0}
  /\ MaxLaunches \in Nat /\ MaxGrants \in Nat
  /\ "none" \notin Reason \cup Fact
  /\ "refuted" \notin Reason \* a tag of the other question

VARIABLES
  dispatches, \* journal: what each planner dispatch produced
  passes,     \* journal: what each pass over a plan cost and settled
  opened,     \* questions put to a person
  decisions,  \* the answers on record, one to a question
  launches,   \* how many launches there were
  folded,     \* the answers this launch read at its start
  pc,         \* where this launch's program is
  tries,      \* re-plans of the round and rounds granted, on either ladder
  last,       \* the planner's record in this launch, and why it was refused
  plan,       \* the plan in force
  accepted,   \* plans accepted by this launch: its node ids are minted so
  charged,    \* nodes this launch has charged
  asked,      \* questions this launch had answered
  outcome     \* how the run finished

durable == <<dispatches, passes, opened, decisions>>
ladder == <<tries, last, plan, accepted, charged, asked>>
vars == <<durable, launches, folded, pc, ladder, outcome>>

-----------------------------------------------------------------------------
(* Briefs, records and questions.                                           *)

Abandon == "abandon"
Grant == "grant"

NoBrief == [ladder |-> "none", why |-> "none", evidence |-> "none", granted |-> 0, round |-> 0]
NoRecord == [brief |-> NoBrief, says |-> "none", sound |-> FALSE, fact |-> "none"]
NoTries == [replans |-> 0, granted |-> 0]
NotFinished == [how |-> "running", sound |-> FALSE]

\* What a planner can leave: a plan (sound if the root's own rules would take
\* it), a plan or file refused for a reason, or a refusal that binds the account.
Says == {"plan", "account"} \cup Reason
Record(brief) == [brief : {brief}, says : Says, sound : BOOLEAN, fact : Fact]

\* Fault: the granted round is not named.
AskWithoutRound ==
  [ladder |-> "first", why |-> last.why, evidence |-> last.record.fact,
   granted |-> 0, round |-> 0]

\* _ask and the evidence _brief appends; the first ask names nothing.
Ask ==
  [ladder |-> "first", why |-> last.why, evidence |-> last.record.fact,
   granted |-> tries.granted, round |-> 0]

\* _replan_goal: the landing entry's id, minted for this accepted plan alone.
ReplanGoal ==
  [ladder |-> "again", why |-> "none", evidence |-> "none", granted |-> 0, round |-> accepted]

\* What tells one question from another; at is the base of its deadline.
Question(node, why, count, ref, at) ==
  [node |-> node, why |-> why, count |-> count, ref |-> ref, at |-> at]

\* Fault: the deadline is read from the clock.
ExhaustedByClock == Question("planning", last.why, 0, last.record.brief, launches)

\* _exhausted and _refuted: both point at the planner dispatch that failed.
Exhausted == Question("planning", last.why, 0, last.record.brief, 0)
Refuted == Question("planning", "refuted", tries.granted, last.record.brief, 0)

GrantsOn(node) == {d \in folded : d.question.node = node /\ d.decision = Grant}

\* with_budget_grants: every granted budget question buys another whole base.
Limit == Base * (1 + Cardinality(GrantsOn("budget")))
SpentBudget == Question("budget", "spent", Limit, NoBrief, 0)

Answer(question) == {d \in folded : d.question = question}

-----------------------------------------------------------------------------
(* The launch.                                                              *)

Forget ==
  /\ tries' = NoTries
  /\ last' = [record |-> NoRecord, why |-> "none"]
  /\ plan' = NoRecord
  /\ accepted' = 0
  /\ charged' = 0
  /\ asked' = {}

Init ==
  /\ dispatches = {} /\ passes = {} /\ opened = {} /\ decisions = {}
  /\ launches = 0 /\ folded = {}
  /\ pc = "down"
  /\ tries = NoTries
  /\ last = [record |-> NoRecord, why |-> "none"]
  /\ plan = NoRecord
  /\ accepted = 0 /\ charged = 0 /\ asked = {}
  /\ outcome = NotFinished

\* Every launch walks the ladder from the bottom, on the answers folded at its start.
Launch ==
  /\ pc = "down" /\ outcome = NotFinished /\ launches < MaxLaunches
  /\ launches' = launches + 1
  /\ folded' = decisions
  /\ pc' = "plan"
  /\ UNCHANGED <<durable, ladder, outcome>>

\* The process is gone: what is in the journal is what the next launch has.
LaunchOver ==
  /\ pc' = "down"
  /\ folded' = {}
  /\ Forget

Crash ==
  /\ pc \notin {"down", "error"}
  /\ LaunchOver
  /\ UNCHANGED <<durable, launches, outcome>>

Finish(how, sound) ==
  /\ outcome' = [how |-> how, sound |-> sound]
  /\ LaunchOver

\* approve: an answer already served in this launch stops the ladder for good,
\* a question nobody answered is put on record and the launch suspends.
AskPerson(question, Granted, Abandoned) ==
  IF Answer(question) = {}
  THEN /\ opened' = opened \cup {question}
       /\ LaunchOver
       /\ UNCHANGED outcome
  ELSE /\ UNCHANGED opened
       /\ IF question \in asked
          THEN pc' = "error" /\ UNCHANGED <<folded, ladder, outcome>>
          ELSE IF \E d \in Answer(question) : d.decision = Grant THEN Granted ELSE Abandoned

\* Fault: what is applied when nobody answers is the option that spends.
SpendByDefault == Grant

\* What the deadline owner applies unattended.
Default == Abandon

Records(question, decision, by) ==
  /\ question \in opened /\ ~ \E d \in decisions : d.question = question
  /\ decisions' = decisions \cup {[question |-> question, decision |-> decision, by |-> by]}
  /\ UNCHANGED <<dispatches, passes, opened, launches, folded, pc, ladder, outcome>>

GrantsGiven == {d \in decisions : d.decision = Grant /\ d.by = "person"}

PersonDecides(question) ==
  \/ Cardinality(GrantsGiven) < MaxGrants /\ Records(question, Grant, "person")
  \/ Records(question, Abandon, "person")

DeadlineDecides(question) == Records(question, Default, "system")

-----------------------------------------------------------------------------
(* Planning.                                                                *)

\* One planner dispatch: served when the journal knows the brief, else run.
Dispatched(brief, record) ==
  IF \E d \in dispatches : d.brief = brief
  THEN record \in dispatches /\ record.brief = brief /\ UNCHANGED dispatches
  ELSE /\ record \in Record(brief)
       /\ record.sound => record.says = "plan"
       /\ dispatches' = dispatches \cup {record}

Candidates(brief) == {d \in dispatches : d.brief = brief} \cup Record(brief)

RoundHasMore == tries.replans < MaxReplans

\* Fault: an attempt does not count.
Uncounted == tries
Counted == [tries EXCEPT !.replans = @ + 1]

\* validate_plan: only the first ladder asks for the root's own rules.
RootReason(record) ==
  CASE record.says = "plan" /\ record.sound -> "none"
    [] record.says = "plan" /\ ~ record.sound -> "root_rule"
    [] OTHER -> record.says

Take(record) ==
  /\ plan' = record
  /\ accepted' = accepted + 1
  /\ pc' = "pass"

\* run_root: plan, plan again while the round lasts, then ask.
PlanRoot ==
  /\ pc = "plan"
  /\ \E record \in Candidates(Ask) :
       /\ Dispatched(Ask, record)
       /\ last' = [record |-> record, why |-> RootReason(record)]
       /\ CASE RootReason(record) = "none" ->
                 /\ Take(record)
                 /\ tries' = NoTries
                 /\ UNCHANGED <<charged, asked, folded, outcome>>
            [] RootReason(record) # "none" /\ record.says # "account" ->
                 /\ IF RoundHasMore
                    THEN tries' = Counted /\ pc' = "plan"
                    ELSE UNCHANGED tries /\ pc' = "exhausted"
                 /\ UNCHANGED <<plan, accepted, charged, asked, folded, outcome>>
            [] OTHER -> pc' = "abandoned" /\ UNCHANGED <<tries, plan, accepted, charged, asked, folded, outcome>>
  /\ UNCHANGED <<passes, opened, decisions, launches>>

\* A refusal that binds the account: no other dispatch and no grant can help.
AbandonRoot ==
  /\ pc = "abandoned"
  /\ Finish("abandoned", FALSE)
  /\ UNCHANGED <<durable, launches>>

NextRound(where) ==
  /\ tries' = [replans |-> 0, granted |-> tries.granted + 1]
  /\ pc' = where
  /\ UNCHANGED <<folded, last, plan, accepted, charged, outcome>>

AskForRound ==
  /\ pc = "exhausted"
  /\ AskPerson(Exhausted, NextRound("plan") /\ asked' = asked \cup {Exhausted},
               Finish("abandoned", FALSE))
  /\ UNCHANGED <<dispatches, passes, decisions, launches>>

-----------------------------------------------------------------------------
(* Passes over the plan in force.                                           *)

Pass == {p \in passes : p.of = plan.brief}

\* The charge precedes each dispatch, served ones included.
RunPass ==
  /\ pc = "pass"
  /\ \E cost \in 1..MaxCost, settles \in {"done", "short", "refuted"} :
       LET pass == [of |-> plan.brief, cost |-> cost, settles |-> settles]
       IN /\ IF Pass = {} THEN passes' = passes \cup {pass}
             ELSE pass \in Pass /\ UNCHANGED passes
          /\ IF charged + cost > Limit
             THEN pc' = "spent" /\ charged' = Limit /\ UNCHANGED <<folded, tries, last, plan, accepted, asked, outcome>>
             ELSE IF settles = "refuted"
             THEN /\ charged' = charged + cost
                  /\ pc' = IF RoundHasMore THEN "replan" ELSE "refuted"
                  /\ UNCHANGED <<folded, tries, last, plan, accepted, asked, outcome>>
             ELSE Finish(settles, plan.sound)
  /\ UNCHANGED <<dispatches, opened, decisions, launches>>

\* _replan: whatever plan is in force gives way to one judged as a sub-plan's.
Replan ==
  /\ pc = "replan"
  /\ \E record \in Candidates(ReplanGoal) :
       /\ Dispatched(ReplanGoal, record)
       /\ IF record.says = "plan"
          THEN /\ Take(record)
               /\ last' = [record |-> record, why |-> "none"]
               /\ tries' = Counted
               /\ UNCHANGED <<charged, asked, folded, outcome>>
          ELSE Finish("short", FALSE)
  /\ UNCHANGED <<passes, opened, decisions, launches>>

AskForMore ==
  /\ pc = "refuted"
  /\ AskPerson(Refuted, NextRound("replan") /\ asked' = asked \cup {Refuted},
               Finish("short", FALSE))
  /\ UNCHANGED <<dispatches, passes, decisions, launches>>

\* A grant served here is one the start of the launch did not apply.
AskForBudget ==
  /\ pc = "spent"
  /\ AskPerson(SpentBudget, pc' = "error" /\ UNCHANGED <<folded, ladder, outcome>>,
               Finish("short", FALSE))
  /\ UNCHANGED <<dispatches, passes, decisions, launches>>

Program ==
  \/ PlanRoot \/ AbandonRoot \/ AskForRound
  \/ RunPass \/ Replan \/ AskForMore \/ AskForBudget

Next ==
  \/ Launch \/ Crash \/ Program
  \/ \E question \in opened : PersonDecides(question) \/ DeadlineDecides(question)

Spec == Init /\ [][Next]_vars /\ WF_vars(Program)

-----------------------------------------------------------------------------
(* Properties.                                                              *)

\* Every planner dispatch beyond a round is one a person granted: replayed,
\* crashed and relaunched, a run nobody watches never plans past its allowance.
EveryRoundIsPaidFor ==
  LET Of(l) == Cardinality({d \in dispatches : d.brief.ladder = l})
      Again(d) == d.question.why = "refuted"
      granted == {d \in GrantsGiven : d.question.node = "planning"}
      atLeastOne == IF MaxReplans = 0 THEN 1 ELSE MaxReplans
  IN /\ Of("first") <= (1 + MaxReplans) * (1 + Cardinality({d \in granted : ~ Again(d)}))
     /\ Of("again") <= MaxReplans + atLeastOne * Cardinality({d \in granted : Again(d)})

\* No launch is ever served an answer it already acted on, nor a budget grant
\* its start did not apply (the KernelErrors of root.py are unreachable).
NeverServedTwice == pc # "error"

\* A run waits for one answer at a time: however often it is relaunched before
\* anybody answered, it comes back to the question that stands.
OneOpenQuestion ==
  Cardinality({q \in opened : ~ \E d \in decisions : d.question = q}) <= 1

\* Each question is asked once and its answer acted on once (root.py _granted,
\* _granted_more and _budget_answered).
EachQuestionOnce == OneOpenQuestion /\ NeverServedTwice

\* Every launch ends, if the dispatches and passes it waits for return, which
\* Program takes for granted: the ladder never goes round on served answers.
LaunchEnds == pc \notin {"down", "error"} ~> pc \in {"down", "error"}

\* Not what the code does (plan_validate.py validate_plan: the run's own
\* top-level plan must not be settleable without work): a run that finished
\* done finished under a plan the root's rules were applied to.
DoneUnderTheRootsRules == outcome.how = "done" => outcome.sound
=============================================================================
