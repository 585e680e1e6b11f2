------------------------------- MODULE Rules -------------------------------
(***************************************************************************)
(* The decisions the kernel takes by rule, each applied to every input of a *)
(* small set: a behaviour is given one input and answers it.  The rules are *)
(* the operators of the modules extended; here are the inputs' shape, the   *)
(* step that applies a rule and the properties of the answers.              *)
(***************************************************************************)
EXTENDS PlanRules, PolicyRules, SettingsRules, ConfineRules, TextRules

CONSTANTS
    Conditions,     \* conditions whose evaluation is examined
    PlansGiven,     \* [record, plan, graph, limits, isRoot]: what a planner's dispatch left
    Records,        \* record maps a condition is read over
    NodeRecords,    \* [status, facts]: what a node named in a plan may have left
    SpecsGiven,     \* [specs, limits]: specs offered one after the other
    TablesGiven,    \* [table, spec]: a policy table and a spec to place on it
    ConfigsGiven,   \* [first, later, packaged]: what run start and a relaunch read
    CallsGiven,     \* [req, own, call, links, declared]: a tool call of a dispatched node
    EnvsGiven,      \* [environ, source, copy]: the coordinator's environment and its credential
    TextsGiven,     \* texts a person may be asked to decide on
    ValuesGiven,    \* values about to be written to the audit trail
    Fresh           \* the next ids NodeIds has for this run

IsSequence(s) == s \in Seq({s[i] : i \in DOMAIN s})

\* A tree as these modules write it: every node after its kids, the root last.
IsTree(t) ==
    /\ IsSequence(t) /\ t # <<>>
    /\ \A n \in DOMAIN t : IsSequence(t[n].kids) /\ \A i \in DOMAIN t[n].kids : t[n].kids[i] \in 1..(n - 1)

\* A condition's tree: a comparison has no kids, a Not has one, and every node but the root one parent.
IsCondition(c) ==
    /\ IsTree(c)
    /\ \A n \in DOMAIN c :
          /\ {"k", "kids"} \subseteq DOMAIN c[n]
          /\ c[n].k \in {"cmp", "all", "any", "not"}
          /\ c[n].k = "cmp" => c[n].kids = <<>> /\ {"entry", "field", "op", "value"} \subseteq DOMAIN c[n]
          /\ c[n].k = "not" => Len(c[n].kids) = 1
    /\ \A n \in DOMAIN c \ {Len(c)} : \E parent \in DOMAIN c :
          \A m \in DOMAIN c : (\E i \in DOMAIN c[m].kids : c[m].kids[i] = n) <=> m = parent

\* The positions of its comparisons.
LeavesOf(c) == {n \in DOMAIN c : c[n].k = "cmp"}

\* Whether each comparison reads a field of its own, which every record can be compared by.
Independent(c) ==
    /\ Cardinality(LeavesOf(c)) = Cardinality(ReferencedFields(c))
    /\ \A n \in LeavesOf(c), r \in Records : EvaluateCompare(c[n], r) # "raise"

\* The records hold whatever fields of their own can say: independent comparisons come out any way.
RecordsAssumption ==
    \A c \in Conditions :
        /\ IsCondition(c)
        /\ Independent(c) => \A held \in SUBSET LeavesOf(c) : \E r \in Records :
              \A n \in LeavesOf(c) : EvaluateCompare(c[n], r) = Truth(n \in held)

\* A plan's entries are a sequence, its done_when a condition and the optional ones, where it
\* has them, too; the run has fresh ids enough for a plan of the size allowed, no two alike
\* and none of them a node's of its graph.
PlansAssumption ==
    /\ IsSequence(Fresh) /\ \A i, j \in DOMAIN Fresh : Fresh[i] = Fresh[j] => i = j
    /\ \A left \in PlansGiven :
          /\ IsSequence(left.plan.entries)
          /\ \A i \in DOMAIN left.plan.entries : {"id", "deps", "acceptance"} \subseteq DOMAIN left.plan.entries[i]
          /\ IsCondition(left.plan.done)
          /\ \A c \in EveryCondition(left.plan) \ {NoCondition} : IsCondition(c)
          /\ left.limits.maxNodesPerPlan \in 0..Len(Fresh)
          /\ \A i \in DOMAIN Fresh : Fresh[i] \notin left.graph

\* A sequence of specs is admitted; a policy's rows are a sequence, each of an integer rank.
PolicyAssumption ==
    /\ \A offer \in SpecsGiven : IsSequence(offer.specs)
    /\ \A place \in TablesGiven :
          IsSequence(place.table.rows) /\ \A i \in DOMAIN place.table.rows : place.table.rows[i].rank \in Int

\* What the packaged configuration holds, and what splitting a string at its commas gives.
ConfigsAssumption ==
    \A config \in ConfigsGiven :
        /\ \A words \in {config.packaged.denyBash, config.packaged.denyTools,
                          config.packaged.tools, config.packaged.gate} : words # <<>>
        /\ \A raw \in {config.first.denyBash, config.first.denyTools} : raw.shape = "joined" => raw.words # <<>>

\* A path a link leads to in the end: nothing on it is a link or a "..".
IsReal(links, p) ==
    IsAbsolute(p) /\ \A k \in 1..Len(p) : p[k] # ".." /\ SubSeq(p, 1, k) \notin DOMAIN links

\* The segments of a glob that may stand for others.
Wildcards == {"*", "**", ".partial-*"}

\* What the coordinator builds is absolute, a call's path either way; a link is told by where it
\* leads in the end; a node's own directory is under nodes/ and no glob for others, and its
\* write set is declared.
CallsAssumption ==
    \A judged \in CallsGiven :
        LET req == judged.req
        IN /\ \A p \in {req.root, req.cwd, judged.own.cwd} \cup req.extra : IsAbsolute(p)
           /\ judged.call.path # NoPath => IsAbsolute(judged.call.path) \/ IsRelative(judged.call.path)
           /\ \A l \in DOMAIN judged.links : IsReal(judged.links, judged.links[l])
           /\ req.nodeDir \in Seq(STRING)
           /\ Under(req.nodeDir, req.root) =>
                 LET own == Below(req.nodeDir, req.root)
                 IN Len(own) > 1 /\ own[1] = "nodes" /\ \A i \in 1..Len(own) : own[i] \notin Wildcards
           /\ \A g \in req.writeSet : g \in Seq(STRING) /\ \E n \in DOMAIN judged.declared : g \in judged.declared[n]

ASSUME RulesAssumption ==
    /\ RecordsAssumption
    /\ PlansAssumption
    /\ PolicyAssumption
    /\ ConfigsAssumption
    /\ CallsAssumption
    /\ \A text \in TextsGiven : text \in Seq(Characters)
    /\ \A v \in ValuesGiven : IsTree(v)

VARIABLES
    topic,          \* which rule the input is for
    given,          \* the input
    asked,          \* whether the rule was asked
    answer          \* what it said

question == <<topic, given, asked, answer>>

Input ==
    /\ asked = FALSE /\ answer = {}
    /\ \/ topic = "condition" /\ given \in Conditions
       \/ topic = "plan" /\ given \in PlansGiven
       \/ topic = "specs" /\ given \in SpecsGiven
       \/ topic = "table" /\ given \in TablesGiven
       \/ topic = "settings" /\ given \in ConfigsGiven
       \/ topic = "call" /\ given \in CallsGiven
       \/ topic = "env" /\ given \in EnvsGiven
       \/ topic = "text" /\ given \in TextsGiven
       \/ topic = "value" /\ given \in ValuesGiven

\* evaluate, over every record map
ReadCondition ==
    /\ topic = "condition"
    /\ answer' = [r \in Records |-> Evaluate(given, r)]

\* dispatch_planner, from the planner's record on
JudgePlan ==
    /\ topic = "plan"
    /\ answer' = PlanOrReasons(given.record, given.plan, given.graph, given.limits, given.isRoot, Fresh)

\* validate_spec, spec by spec: the graph of those it let in
AdmitSpecs ==
    /\ topic = "specs"
    /\ answer' = Admitted(given.specs, given.limits)

\* wire_kernel and LoadedPolicy.resolve
PlaceSpec ==
    /\ topic = "table"
    /\ answer' = LaunchResolves(given.table, given.spec)

\* run start, then a later launch of the same run
ReadSettings ==
    /\ topic = "settings"
    /\ answer' = Launches(given.first, given.later, given.packaged)

\* the request is built, then its hooks judge the call
JudgeCall ==
    /\ topic = "call"
    /\ answer' = [built |-> CwdAccepted(given.links, given.req) /\ BuiltRight(given.req, given.own),
                  allowed |-> Allowed(given.links, given.req, given.own, given.call)]

\* the environments a node and a gate start in, and the node's copy of the credential
BuildEnv ==
    /\ topic = "env"
    /\ answer' = [child |-> ChildEnv(given.environ, given.source), gate |-> GateEnv(given.environ),
                  copy |-> CopyCredential("original", given.copy)]

\* validate_approve_payload, of the text as it is and as it is rendered
RenderText ==
    /\ topic = "text"
    /\ answer' = RenderForOperator(given)

\* scrub, before a value is journalled
WriteDown ==
    /\ topic = "value"
    /\ answer' = Scrub(given)

Decide ==
    /\ ~asked
    /\ asked' = TRUE
    /\ UNCHANGED <<topic, given>>
    /\ \/ ReadCondition
       \/ JudgePlan
       \/ AdmitSpecs
       \/ PlaceSpec
       \/ ReadSettings
       \/ JudgeCall
       \/ BuildEnv
       \/ RenderText
       \/ WriteDown

Deciding == Input /\ [][Decide]_question

Answered(t) == topic = t /\ asked

----------------------------------------------------------------------------

Extends(big, small) == DOMAIN small \subseteq DOMAIN big /\ \A id \in DOMAIN small : big[id] = small[id]

\* A verdict a condition has reached is final: whatever further records land, it is not taken
\* back for another; reading it may only raise, of a record that compares to nothing.
\* condition.py: an absence elsewhere cannot undo a witness.
SettledStays ==
    Answered("condition") =>
        \A small, big \in Records :
            Extends(big, small) /\ answer[small] \in {"T", "F"} => answer[big] \in {answer[small], "raise"}

\* The shape test that refuses a root plan never refuses a condition some records satisfy, and
\* lets through none that no records satisfy unless two of its leaves speak of one field.
SettleableIsExact ==
    Answered("condition") =>
        LET satisfied == \E r \in Records : answer[r] = "T"
            comparable == \A r \in Records : answer[r] # "raise"
        IN comparable =>
           /\ satisfied => CanSettle(given, TRUE)
           /\ CanSettle(given, TRUE) /\ Cardinality(LeavesOf(given)) = Cardinality(ReferencedFields(given)) => satisfied

\* A condition's verdict stands once reached, and the shape test agrees with what records
\* can bring about (condition.py evaluate, plan_validate.py _can_settle_true).
ConditionsAreHonest == SettledStays /\ SettleableIsExact

\* The records a plan's own ids name, seen under the ids it was given on acceptance.
Renumbered(records, new) ==
    [id \in {IF i \in DOMAIN new THEN new[i] ELSE i : i \in DOMAIN records} |->
        records[CHOOSE i \in DOMAIN records : (IF i \in DOMAIN new THEN new[i] ELSE i) = id]]

\* The ids the entries of a plan have in the accepted one.
NewIds(plan, accepted) ==
    [id \in Ids(plan) |-> accepted.entries[CHOOSE i \in DOMAIN plan.entries : plan.entries[i].id = id].id]

Verdict(c, records) == IF c = NoCondition THEN "none" ELSE Evaluate(c, records)

\* All a subtree reads of a plan while it runs: what may start, what each entry is handed and
\* whether it is accepted, whether the plan still holds and whether it is done.
Reading(plan, records) ==
    [ready |-> {i \in DOMAIN plan.entries : Ready(plan.entries[i], Ids(plan), records)},
     handed |-> [i \in DOMAIN plan.entries |-> DepRecords(plan.entries[i], records)],
     accepted |-> [i \in DOMAIN plan.entries |-> Verdict(plan.entries[i].acceptance, records)],
     holds |-> Verdict(plan.holds, records),
     done |-> Evaluate(plan.done, records)]

\* An accepted plan means under its new ids what the planner wrote under its own: the ids are
\* no two alike and no graph node's, and whichever of the plan's entries and of the graph's
\* nodes have a record, and whatever it says, the plan reads it as before (plan_validate.py
\* _reallocated: missing one reference leaves a plan that points at ids no node carries).
AcceptedMeansTheSame ==
    Answered("plan") /\ answer.kind = "planned" =>
        /\ Cardinality(Ids(answer.plan)) = Len(given.plan.entries)
        /\ Ids(answer.plan) \cap given.graph = {}
        /\ \A left \in SUBSET (Ids(given.plan) \cup given.graph) : \A records \in [left -> NodeRecords] :
              Reading(answer.plan, Renumbered(records, NewIds(given.plan, answer.plan)))
                = Reading(given.plan, records)

\* A plan the root accepts is not done in a run that did nothing: its done_when is not true
\* over the records the planner, the gates, the scans and the counts leave by themselves.
DoneNeedsWork ==
    Answered("plan") /\ answer.kind = "planned" /\ given.isRoot =>
        Evaluate(given.plan.done, DidNothing(given.plan)) # "T"

\* Every dep of an accepted plan names an admitted node or an earlier entry of it.
AcceptedDepsPointBack ==
    Answered("plan") /\ answer.kind = "planned" => ~DepReasons(answer.plan, given.graph)

\* A planner's dispatch is explained in the journal: its plan was accepted, or refused and why.
PlannerIsExplained ==
    Answered("plan") => Journalled(answer) # "none"
----------------------------------------------------------------------------

\* Admitting specs one by one never closes a cycle of deps, even when an id comes twice.
AdmittedIsAcyclic ==
    Answered("specs") =>
        \A ids \in SUBSET DOMAIN answer : ids # {} => \E id \in ids : answer[id] \cap ids = {}

\* A spec is placed only on a row that is on offer, that some wired executor runs and that
\* lists the role asked for; and when no model is named, on no dearer row than it must be.
PlacedWhereItRuns ==
    Answered("table") /\ answer # Rejected =>
        LET role == IF given.spec.role # NoRole \/ given.spec.kind \notin DOMAIN given.table.kindRole
                    THEN given.spec.role ELSE given.table.kindRole[given.spec.kind]
        IN /\ answer.available /\ answer.executor \in Wired
           /\ role # NoRole => role \in answer.roles
           /\ given.spec.model = NoName =>
                 \A i \in DOMAIN given.table.rows :
                     LET row == given.table.rows[i]
                     IN row.available /\ role \in row.roles => answer.rank <= row.rank

\* What is let in can run: admitted specs wait in no cycle and a placed one has a row that is
\* wired (validate.py validate_spec, policy_yaml.py LoadedPolicy.resolve).
AdmittedCanRun == AdmittedIsAcyclic /\ PlacedWhereItRuns

\* A boundary opens only where the operator wrote an empty list for it: a blank value, a word
\* that is none or a list of something else never leaves a run without its denylists, and no
\* configuration leaves it without tools or without a gate.
OnlyAnExplicitEmptyOpens ==
    Answered("settings") /\ answer.started =>
        LET explicit(raw) == raw.shape = "list" /\ raw.words = <<>>
        IN /\ answer.start.denyBash = <<>> => explicit(given.first.denyBash)
           /\ answer.start.denyTools = <<>> => explicit(given.first.denyTools)
           /\ answer.start.tools # <<>> /\ answer.start.gate # <<>>

\* A run keeps the settings it was started with: whatever configuration a later launch reads,
\* it wires the same lists, gate, mode and notifier, and the same kind of credential, or
\* refuses to run.
RelaunchKeepsSettings ==
    Answered("settings") /\ answer.started /\ answer.relaunched =>
        /\ answer.again = answer.start
        /\ answer.credential = CredentialFrom(answer.start.credential, given.first.credentialExists)

\* The settings of a run are closed unless opened on purpose, and stay as they were
\* (cli/commands/run.py _resolve_settings and _settings_of).
SettingsStand == OnlyAnExplicitEmptyOpens /\ RelaunchKeepsSettings

\* The hooks judge the path the tool acts on: an absolute one, or a relative one of a node that
\* works where the coordinator does.  Of any other relative path (a Grep or a Glob may be
\* given one) the hooks judge another file than the tool opens.
JudgedAsMeant == From(given.own.cwd, given.call.path) = From(given.req.cwd, given.call.path)

\* A write the hook lets a node make in the run directory is never reported as stray by a
\* scan of that launch, whichever node the scan watches.  scan.py: otherwise the run's own
\* verdict would be incoherent.
PermittedIsNotStray ==
    Answered("call") /\ answer.built /\ answer.allowed /\ given.call.tool \in WriteTools /\ JudgedAsMeant =>
        LET target == RealPath(given.links, From(given.req.cwd, given.call.path))
            root == RealPath(given.links, given.req.root)
            written == [p \in {Below(target, root)} |-> "content"]
        IN StrictlyUnder(target, root) =>
               \A watched \in DOMAIN given.declared :
                   StrayPaths(<<>>, Manifest(written), watched, given.declared[watched], given.declared) = {}

\* No link and no ".." leads a permitted call out of what the node was given, where the hooks
\* judge the path the tool acts on: a write lands where a glob it declared begins, up to its
\* first wildcard, in its own directory or in a workspace, and a confined node's read in its roots.
NoWayAround ==
    Answered("call") /\ answer.built /\ answer.allowed /\ given.call.path # NoPath /\ JudgedAsMeant =>
        LET target == RealPath(given.links, From(given.req.cwd, given.call.path))
            within(p) == Under(target, RealPath(given.links, p))
        IN /\ given.call.tool \in WriteTools =>
                 \/ \E p \in {given.req.nodeDir} \cup given.req.extra : within(p)
                 \/ \E g \in given.req.writeSet : \A n \in 0..Len(g) :
                       (\A i \in 1..n : g[i] \notin Wildcards) => within(given.req.root \o SubSeq(g, 1, n))
           /\ given.call.tool \in ReadTools \cup {"Bash"} /\ given.req.readRoots # Unconfined =>
                 \E p \in given.req.readRoots : within(p)

\* The hooks and the scan draw one boundary, through links and ".." too, for every call whose
\* path means to the node what it means to the coordinator (hooks_claude.py
\* deny_outside_write_set, deny_reads_outside, domain/scan.py stray_paths).
BoundariesAgree == PermittedIsNotStray /\ NoWayAround

\* A node inherits nothing that was not decided on: every variable with a value in its
\* environment, or in a gate's, is on the list, the run's own or the credential.
OnlyDecidedEnvironment ==
    Answered("env") =>
        /\ \A n \in DOMAIN answer.child : answer.child[n] # "" => n \in DOMAIN KnownEnv(given.environ, given.source)
        /\ DOMAIN answer.gate \subseteq AllowlistKeys
        /\ given.copy = "refreshed" => answer.copy = "refreshed"

\* Whether the node is under a key that names a secret, from the root down; "nowhere" without a way to it.
Secrecy(v) ==
    LET under[n \in DOMAIN v] ==
            LET parents == {m \in (n + 1)..Len(v) : \E i \in DOMAIN v[m].kids : n = v[m].kids[i]}
            IN IF n = Len(v) THEN "open"
               ELSE IF \A m \in parents : under[m] = "nowhere" THEN "nowhere"
               ELSE IF IsSecretKey(v[n].key) \/ \E m \in parents : under[m] = "secret" THEN "secret"
               ELSE "open"
    IN under

\* Nothing under a secret's key and nothing shaped like a secret is written down, at any depth.
SecretsStayOff ==
    Answered("value") =>
        \A n \in DOMAIN answer :
            answer[n].k = "leaf" /\ Secrecy(answer)[n] # "nowhere" =>
                /\ answer[n].what # "secret_shaped"
                /\ Secrecy(answer)[n] = "secret" => answer[n].what = "[scrubbed]"

\* Nothing undecided reaches a node and nothing secret reaches the audit trail
\* (executor_claude.py build_options_env, domain/scrub.py scrub).
NothingLeaks == OnlyDecidedEnvironment /\ SecretsStayOff

\* Whatever a model wrote, the text rendered for the operator is one the validator takes, so a
\* run can always ask; and a text it takes already is asked as it stands (approve.py
\* render_for_operator: a payload is bound to its bytes).
RenderedIsAccepted ==
    Answered("text") =>
        /\ ~Blank(given) => TextReasons(answer) = {}
        /\ TextReasons(given) = {} => answer = given
=============================================================================
