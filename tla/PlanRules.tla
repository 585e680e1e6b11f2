----------------------------- MODULE PlanRules -----------------------------
(***************************************************************************)
(* How a plan a planner wrote is judged: the three-valued conditions, the   *)
(* registered ops, the rules of validate_plan, the reallocation of the      *)
(* entries' ids and what dispatch_planner makes of a planner's record.      *)
(* Everything here is a pure operator; module Rules applies it to inputs.   *)
(*                                                                         *)
(* A condition is the sequence of its tree's nodes, each after its kids,    *)
(* the root last.  A node has k, "cmp" (with entry, field, op, value),      *)
(* "all", "any" or "not", and kids, their positions.  A value is a pair of  *)
(* its type and a number: a string stands as its rank in lexicographic      *)
(* order, and the one list is the empty one.  A record of a node is         *)
(* [status, facts], facts a function from key_fact names to values.         *)
(***************************************************************************)
EXTENDS Integers, Sequences, FiniteSets, SequencesExt

Int_(n) == <<"int", n>>
Str(rank) == <<"str", rank>>
EmptyList == <<"list", 0>>

\* NodeStatus.value, by its rank among the status words a plan may compare.
DoneWord == Str(1)
FailedWord == Str(2)

Cmp(entry, field, op, value) ==
    <<[k |-> "cmp", kids |-> <<>>, entry |-> entry, field |-> field, op |-> op, value |-> value]>>

\* The nodes of the conditions one behind the other, then their parent.
Group(kind, conds) ==
    LET behind(done, c) ==
            [nodes |-> done.nodes \o [n \in DOMAIN c |->
                           [c[n] EXCEPT !.kids = [i \in DOMAIN @ |-> @[i] + Len(done.nodes)]]],
             roots |-> Append(done.roots, Len(done.nodes) + Len(c))]
        joined == FoldLeft(behind, [nodes |-> <<>>, roots |-> <<>>], conds)
    IN Append(joined.nodes, [k |-> kind, kids |-> joined.roots])

AllOf(conds) == Group("all", conds)
AnyOf(conds) == Group("any", conds)
Not(cond) == Group("not", <<cond>>)
NoCondition == <<>>

----------------------------------------------------------------------------
(* Conditions: "T" and "F" once settled, "U" while a field is absent, and   *)
(* "raise" when Python would: a corrupt record, or < between types.         *)

ReservedFields == {"status"}

View(record) == [f \in DOMAIN record.facts \cup ReservedFields |->
                    IF f = "status" THEN record.status ELSE record.facts[f]]

Ordered(op, a, b) == CASE op = "<" -> a < b [] op = "<=" -> a <= b [] op = ">" -> a > b [] op = ">=" -> a >= b

Truth(b) == IF b THEN "T" ELSE "F"

\* operator.eq and ne compare anything; the four order operators raise across types.
Applied(op, actual, literal) ==
    CASE op = "==" -> Truth(actual = literal)
      [] op = "!=" -> Truth(actual # literal)
      [] op \notin {"==", "!="} /\ actual[1] = literal[1] -> Truth(Ordered(op, actual[2], literal[2]))
      [] OTHER -> "raise"

EvaluateCompare(c, records) ==
    IF c.entry \notin DOMAIN records THEN "U"
    ELSE IF ReservedFields \cap DOMAIN records[c.entry].facts # {} THEN "raise"
    ELSE IF c.field \notin DOMAIN View(records[c.entry]) THEN "U"
    ELSE Applied(c.op, View(records[c.entry])[c.field], c.value)

\* An absence counted against the group, the way a two-valued all() would.
AbsenceIsFalse(verdicts, dominant, other) ==
    IF "raise" \in verdicts THEN "raise"
    ELSE IF dominant \in verdicts THEN dominant
    ELSE IF "U" \in verdicts THEN "F"
    ELSE other

\* One dominant child settles the group, then an undecided one leaves it open.
Combine(verdicts, dominant, other) ==
    IF "raise" \in verdicts THEN "raise"
    ELSE IF dominant \in verdicts THEN dominant
    ELSE IF "U" \in verdicts THEN "U"
    ELSE other

Opposite(verdict) == CASE verdict = "T" -> "F" [] verdict = "F" -> "T" [] OTHER -> verdict

\* Node by node: a leaf is compared, a Not turns a settled verdict over, a group combines.
Verdicts(c, records) ==
    LET verdict[n \in DOMAIN c] ==
            LET kids == {verdict[c[n].kids[i]] : i \in DOMAIN c[n].kids}
            IN CASE c[n].k = "cmp" -> EvaluateCompare(c[n], records)
                 [] c[n].k = "not" -> Opposite(verdict[c[n].kids[1]])
                 [] c[n].k = "all" -> Combine(kids, "F", "T")
                 [] c[n].k = "any" -> Combine(kids, "T", "F")
    IN verdict

Evaluate(c, records) == Verdicts(c, records)[Len(c)]

Leaves(c) == {c[n] : n \in {m \in DOMAIN c : c[m].k = "cmp"}}

ReferencedFields(c) == {<<l.entry, l.field>> : l \in Leaves(c)}

----------------------------------------------------------------------------
(* The registry: for each op the args its model requires and allows, the    *)
(* key_facts a condition may name, and the facts it declares for a run that *)
(* did nothing.  NoFacts is the None of an op whose record is evidence.     *)

NoFacts == [f \in {"no_facts"} |-> EmptyList]

OpSpec(required, allowed, contract, noWork) ==
    [required |-> required, allowed |-> allowed, contract |-> contract, noWork |-> noWork]

WorkContract == {"turns", "first_turn_input_tokens", "context_at_handover", "handover_at_tokens",
                 "grace_used", "grace_expired", "cap_hit", "deadline_hit"}

ApproveArgs == {"text", "artefact_refs", "options", "default", "decide_by"}

\* build_op_registry's six registrations.
Registry ==
    [op \in {"work", "gate:make-test", "scan", "reduce:count", "approve", "plan"} |->
        CASE op = "work" -> OpSpec({}, {}, WorkContract, NoFacts)
          [] op = "gate:make-test" -> OpSpec({}, {}, {"rc"}, [f \in {"rc"} |-> Int_(0)])
          [] op = "scan" -> OpSpec({"watched"}, {"watched"}, {"stray", "unwatched_roots"},
                                   [f \in {"stray", "unwatched_roots"} |->
                                        IF f = "stray" THEN Int_(0) ELSE EmptyList])
          [] op = "reduce:count" -> OpSpec({}, {}, {"count"}, [f \in {"count"} |-> Int_(0)])
          [] op = "approve" -> OpSpec(ApproveArgs \ {"artefact_refs"}, ApproveArgs, {"decision"}, NoFacts)
          [] op = "plan" -> OpSpec({"goal"}, {"goal"}, {}, NoFacts)]

Registered(e) == e.op \in DOMAIN Registry

----------------------------------------------------------------------------
(* validate_plan: a plan is [entries, done, holds, deps]; an entry is       *)
(* [id, op, args, deps, acceptance], args the names it gives.               *)

Ids(plan) == {plan.entries[i].id : i \in DOMAIN plan.entries}
EntryOf(plan, id) == plan.entries[CHOOSE i \in DOMAIN plan.entries :
                                    /\ plan.entries[i].id = id
                                    /\ \A j \in DOMAIN plan.entries : plan.entries[j].id = id => j <= i]

EveryCondition(plan) ==
    {plan.done, plan.holds} \cup {plan.entries[i].acceptance : i \in DOMAIN plan.entries}

OpReasons(plan) == \E i \in DOMAIN plan.entries : ~Registered(plan.entries[i])

DuplicateIdReasons(plan) == Cardinality(Ids(plan)) # Len(plan.entries)

ArgsReasons(plan) ==
    \E i \in DOMAIN plan.entries :
        LET e == plan.entries[i]
        IN /\ Registered(e)
           /\ ~(Registry[e.op].required \subseteq e.args /\ e.args \subseteq Registry[e.op].allowed)

FieldRefReasons(plan, graph, ref) ==
    IF ref[1] \in Ids(plan)
    THEN LET e == EntryOf(plan, ref[1])
         IN Registered(e) /\ ref[2] \notin Registry[e.op].contract \cup ReservedFields
    ELSE ref[1] \notin graph

ContractReasons(plan, graph) ==
    \E c \in EveryCondition(plan) : \E ref \in ReferencedFields(c) : FieldRefReasons(plan, graph, ref)

DepReasons(plan, graph) ==
    \E i \in DOMAIN plan.entries : \E d \in plan.entries[i].deps :
        d \notin graph \cup {plan.entries[j].id : j \in 1..(i - 1)}

SizeReasons(plan, limits) == Len(plan.entries) > limits.maxNodesPerPlan

\* An empty group taken to go either way, like a leaf.
SettleIgnoringShape(c, wanted) == Leaves(c) # {} \/ c[Len(c)].k \in {"all", "any"}

\* _can_settle_true and its dual _can_settle_false: the truth values each node may take.
MaySettle(c) ==
    LET may[n \in DOMAIN c] ==
            {b \in BOOLEAN :
                CASE c[n].k = "cmp" -> TRUE
                  [] c[n].k = "not" -> (~b) \in may[c[n].kids[1]]
                  [] c[n].k \in {"all", "any"} ->
                        IF b = (c[n].k = "all") THEN \A i \in DOMAIN c[n].kids : b \in may[c[n].kids[i]]
                                                ELSE \E i \in DOMAIN c[n].kids : b \in may[c[n].kids[i]]}
    IN may

CanSettle(c, wanted) == wanted \in MaySettle(c)[Len(c)]

RootSettleableReasons(plan) == ~CanSettle(plan.done, TRUE)

\* The record each entry would carry in a run that did nothing, as its op declares it.
NoWorkRecords(plan) ==
    LET told == {id \in Ids(plan) : Registered(EntryOf(plan, id)) /\ Registry[EntryOf(plan, id).op].noWork # NoFacts}
    IN [id \in told |-> [status |-> DoneWord, facts |-> Registry[EntryOf(plan, id).op].noWork]]

\* A comparison on a node outside the plan is replaced by a condition that is always true.
Conservative(c, plan) ==
    [n \in DOMAIN c |-> IF c[n].k = "cmp" /\ c[n].entry \notin Ids(plan)
                        THEN [k |-> "all", kids |-> <<>>] ELSE c[n]]

RootStateChange(plan) == Evaluate(Conservative(plan.done, plan), NoWorkRecords(plan))

\* Every rule runs; the outcome is a refusal if one speaks, unless an evaluation raised.
Refusals(plan, graph, limits, isRoot) ==
    {r \in {"op", "duplicate", "args", "contract", "dep", "size", "settle", "nothing_done"} :
        CASE r = "op" -> OpReasons(plan)
          [] r = "duplicate" -> DuplicateIdReasons(plan)
          [] r = "args" -> ArgsReasons(plan)
          [] r = "contract" -> ContractReasons(plan, graph)
          [] r = "dep" -> DepReasons(plan, graph)
          [] r = "size" -> SizeReasons(plan, limits)
          [] r = "settle" -> isRoot /\ RootSettleableReasons(plan)
          [] r = "nothing_done" -> isRoot /\ RootStateChange(plan) = "T"}

Raises(plan, isRoot) == isRoot /\ RootStateChange(plan) = "raise"

----------------------------------------------------------------------------
(* Acceptance: every entry takes a fresh id and the references follow.      *)

RenamedLeaf(node, new) ==
    IF node.k = "cmp" /\ node.entry \in DOMAIN new THEN [node EXCEPT !.entry = new[@]] ELSE node

\* A remap that does not look under a Not.
RemapTop(c, new) ==
    [n \in DOMAIN c |-> IF \E m \in DOMAIN c : c[m].k = "not" /\ c[m].kids[1] = n THEN c[n]
                        ELSE RenamedLeaf(c[n], new)]

Remap(c, new) == [n \in DOMAIN c |-> RenamedLeaf(c[n], new)]

Renamed(deps, new) == {IF d \in DOMAIN new THEN new[d] ELSE d : d \in deps}

ReallocatedEntry(e, new) ==
    [e EXCEPT !.id = new[e.id], !.deps = Renamed(e.deps, new), !.acceptance = Remap(e.acceptance, new)]

\* NodeIds.allocate hands out the next ids of the run, in entry order; fresh is that sequence.
Mapping(plan, fresh) ==
    [id \in Ids(plan) |-> fresh[CHOOSE i \in DOMAIN plan.entries : plan.entries[i].id = id]]

Reallocated(plan, fresh) ==
    LET new == Mapping(plan, fresh)
    IN [entries |-> [i \in DOMAIN plan.entries |-> ReallocatedEntry(plan.entries[i], new)],
        done |-> Remap(plan.done, new), holds |-> Remap(plan.holds, new), deps |-> Renamed(plan.deps, new)]

NoPlan == [entries |-> <<>>, done |-> AllOf(<<>>), holds |-> NoCondition, deps |-> {}]

\* When the subtree starts an entry: its deps inside the plan have a record each; and
\* the records an entry is handed, of all the nodes it names.
Ready(e, ids, records) == \A d \in e.deps : d \in ids => d \in DOMAIN records
DepRecords(e, records) == {records[d] : d \in e.deps \cap DOMAIN records}

ValidatePlan(plan, graph, limits, isRoot, fresh) ==
    LET why == Refusals(plan, graph, limits, isRoot)
    IN CASE Raises(plan, isRoot) -> [kind |-> "raised", reasons |-> {"TypeError"}, plan |-> NoPlan]
         [] ~Raises(plan, isRoot) /\ why # {} -> [kind |-> "refused", reasons |-> why, plan |-> NoPlan]
         [] OTHER -> [kind |-> "accepted", reasons |-> {}, plan |-> Reallocated(plan, fresh)]

----------------------------------------------------------------------------
(* dispatch_planner: the node's record is [error, file], file what it left  *)
(* as plan.json.  The line journalled says what came of the dispatch.       *)

Errors == {"none", "transient", "deterministic", "auth", "quota", "budget"}
Files == {"missing", "absolute_only", "unparsable", "plan"}

ProviderRefusal(error) == error \in {"auth", "quota"}

NotPlanned(reasons, replannable) ==
    [kind |-> "not_planned", reasons |-> reasons, replannable |-> replannable, plan |-> NoPlan]

PlanOrReasons(record, plan, graph, limits, isRoot, fresh) ==
    CASE ProviderRefusal(record.error) -> NotPlanned({"provider"}, FALSE)
      [] record.error = "budget" -> NotPlanned({"budget"}, FALSE)
      [] record.error \notin {"auth", "quota", "budget"} /\ record.file \in {"missing", "absolute_only"} ->
            NotPlanned({"no_plan"}, TRUE)
      [] record.error \notin {"auth", "quota", "budget"} /\ record.file = "unparsable" ->
            NotPlanned({"unparsable"}, TRUE)
      [] OTHER -> LET v == ValidatePlan(plan, graph, limits, isRoot, fresh)
                  IN IF v.kind = "refused" THEN NotPlanned(v.reasons, TRUE)
                     ELSE [kind |-> IF v.kind = "accepted" THEN "planned" ELSE "raised",
                           reasons |-> v.reasons, replannable |-> TRUE, plan |-> v.plan]

\* _journal runs after the outcome is there: a raise leaves no line at all.
Journalled(outcome) ==
    CASE outcome.kind = "planned" -> "plan_accepted"
      [] outcome.kind = "not_planned" -> "plan_invalidated"
      [] outcome.kind = "raised" -> "none"

----------------------------------------------------------------------------
(* What the bodies themselves emit in a run that did nothing: the planner   *)
(* ran and is done, then each entry whose op needs no executor and no       *)
(* person.  A gate reads 0, a scan an empty list of strays, and a count the *)
(* records that are done by then.                                           *)

BodyFacts(e, records) ==
    CASE e.op = "gate:make-test" -> [f \in {"rc"} |-> Int_(0)]
      [] e.op = "scan" -> [f \in {"stray", "unwatched_roots"} |-> EmptyList]
      [] e.op = "reduce:count" ->
            [f \in {"count"} |-> Int_(Cardinality({id \in DOMAIN records : records[id].status = DoneWord}))]
      [] OTHER -> NoFacts

BodiesOver(entries, records) ==
    LET after[n \in 0..Len(entries)] ==
            IF n = 0 THEN records
            ELSE LET e == entries[n]
                     facts == BodyFacts(e, after[n - 1])
                 IN IF facts = NoFacts THEN after[n - 1]
                    ELSE [id \in DOMAIN after[n - 1] \cup {e.id} |->
                             IF id = e.id THEN [status |-> DoneWord, facts |-> facts] ELSE after[n - 1][id]]
    IN after[Len(entries)]

PlannerAlone == [id \in {"n_planner"} |-> [status |-> DoneWord, facts |-> [f \in {"turns"} |-> Int_(1)]]]

DidNothing(plan) == BodiesOver(plan.entries, PlannerAlone)
=============================================================================
