---------------------------- MODULE PolicyRules ----------------------------
(***************************************************************************)
(* Which specs may be dispatched and on which model row: the refuse rules   *)
(* of validate_spec, the resolution of a role to a row of the policy table, *)
(* and the check that every row on offer has an executor.                   *)
(*                                                                         *)
(* A spec is [id, kind, role, executor, model, deps, requires, writes].     *)
(***************************************************************************)
EXTENDS Integers, Sequences, FiniteSets

CodeKinds == {"gate", "reduce", "wait", "stage", "apply", "approve"}
FanOutKinds == {"map", "batch"}
Kinds == CodeKinds \cup FanOutKinds \cup {"work", "synth", "planner"}

NoRole == "no_role"
NoName == "no_name"

\* ROLE_ORDER: mechanical < standard < deep < top
RoleRank == [mechanical |-> 1, standard |-> 2, deep |-> 3, top |-> 4]
Roles == DOMAIN RoleRank

----------------------------------------------------------------------------
(* Refuse rules.  A rule with nothing to check against is skipped, and a    *)
(* verdict with a skipped rule is not complete.                             *)

ExecutorReasons(spec) ==
    CASE spec.kind \in CodeKinds -> spec.executor # "code"
      [] spec.kind \in FanOutKinds -> spec.executor # NoName
      [] OTHER -> spec.executor = "code"

TierRoleReasons(spec) == spec.role # NoRole /\ spec.kind \in CodeKinds \cup FanOutKinds

\* An absent ceiling closes: a kind nobody capped may not carry a role.
CeilingReasons(spec, limits) ==
    /\ spec.role # NoRole
    /\ \/ spec.kind \notin DOMAIN limits.perKindCeiling
       \/ RoleRank[spec.role] > RoleRank[limits.perKindCeiling[spec.kind]]

\* What an entry of a write set is, as its path segments.
EntryReasons(segments) ==
    \/ segments = <<>>
    \/ segments[1] \in {"/", "*"}
    \/ \E n \in DOMAIN segments :
          Cardinality({i \in 1..n : segments[i] = ".."}) > Cardinality({i \in 1..n : segments[i] # ".."})

WriteSetReasons(spec) == \E entry \in spec.writes : EntryReasons(entry)

SelfDepReasons(spec) == spec.id \in spec.deps

\* Only the deps themselves, not what they depend on.
ReachedDirectly(start, graph) == start

\* What the deps reach by following edges of the graph, at most Cardinality(graph) of them.
Reached(start, graph) ==
    LET step[n \in 0..Cardinality(DOMAIN graph)] ==
            IF n = 0 THEN start
            ELSE step[n - 1] \cup UNION {graph[d] : d \in step[n - 1] \cap DOMAIN graph}
    IN step[Cardinality(DOMAIN graph)]

SpecDepReasons(spec, graph) ==
    \/ SelfDepReasons(spec)
    \/ \E d \in spec.deps : d \notin DOMAIN graph
    \/ spec.id \in Reached(spec.deps, graph)

RequiresReasons(spec, resources) ==
    \E need \in spec.requires :
        need.resource \notin DOMAIN resources \/ need.amount > resources[need.resource]

Skipped(spec, graph, resources) ==
    {r \in {"deps", "requires"} :
        \/ r = "deps" /\ DOMAIN graph = {} /\ spec.deps # {}
        \/ r = "requires" /\ DOMAIN resources = {} /\ spec.requires # {}}

ValidateSpec(spec, limits, graph, resources) ==
    [ok |-> /\ spec.kind \in limits.plannerKinds
            /\ ~ExecutorReasons(spec) /\ ~TierRoleReasons(spec)
            /\ ~CeilingReasons(spec, limits) /\ ~WriteSetReasons(spec)
            /\ IF DOMAIN graph = {} THEN ~SelfDepReasons(spec) ELSE ~SpecDepReasons(spec, graph)
            /\ DOMAIN resources = {} \/ ~RequiresReasons(spec, resources),
     complete |-> Skipped(spec, graph, resources) = {}]

\* Specs admitted one after the other, each checked against the graph of those before it.
Admitted(specs, limits) ==
    LET after[n \in 0..Len(specs)] ==
            IF n = 0 THEN <<>>
            ELSE LET graph == after[n - 1]
                     verdict == ValidateSpec(specs[n], limits, graph, <<>>)
                 IN IF verdict.ok /\ verdict.complete
                    THEN [id \in DOMAIN graph \cup {specs[n].id} |->
                             IF id = specs[n].id THEN specs[n].deps ELSE graph[id]]
                    ELSE graph
    IN after[Len(specs)]

----------------------------------------------------------------------------
(* The policy table: [rows, kindRole].  A row is [alias, executor, rank,    *)
(* available, roles]; Rejected stands for SpecRejected.                     *)

Rejected == [alias |-> NoName, executor |-> NoName]

\* The cheapest available row of the role; the first of the table among equals.
Cheapest(rows, role) ==
    LET fit == {i \in DOMAIN rows : rows[i].available /\ role \in rows[i].roles}
    IN IF fit = {} THEN Rejected
       ELSE rows[CHOOSE i \in fit : \A j \in fit : \/ rows[i].rank < rows[j].rank
                                                   \/ rows[i].rank = rows[j].rank /\ i <= j]

\* A model named is taken wherever it stands, on offer or not.
ResolveNamed(rows, role, model) ==
    LET named == {i \in DOMAIN rows : rows[i].alias = model}
    IN IF named = {} THEN Rejected ELSE rows[CHOOSE i \in named : \A j \in named : i <= j]

ResolveByModel(rows, role, model) ==
    LET named == {i \in DOMAIN rows : rows[i].alias = model}
        row == rows[CHOOSE i \in named : \A j \in named : i <= j]
    IN IF \/ named = {}
          \/ ~row.available
          \/ role # NoRole /\ role \notin row.roles
       THEN Rejected ELSE row

ResolveRow(rows, role, model) ==
    IF model # NoName THEN ResolveByModel(rows, role, model)
    ELSE IF role = NoRole THEN Rejected ELSE Cheapest(rows, role)

\* LoadedPolicy.resolve: a spec without a role takes its kind's.
Resolve(table, spec) ==
    LET role == IF spec.role # NoRole \/ spec.kind \notin DOMAIN table.kindRole
                THEN spec.role ELSE table.kindRole[spec.kind]
    IN ResolveRow(table.rows, role, spec.model)

\* wire_kernel refuses a table offering a row nothing can run.
Wired == {"claude"}
OffersUnwired(table) ==
    \E i \in DOMAIN table.rows : table.rows[i].available /\ table.rows[i].executor \notin Wired

\* The launch resolves with the table only if wiring accepted it.
LaunchResolves(table, spec) == IF OffersUnwired(table) THEN Rejected ELSE Resolve(table, spec)
=============================================================================
