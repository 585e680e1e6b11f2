------------------------------ MODULE MCRules ------------------------------
(***************************************************************************)
(* Inputs for module Rules.                                                 *)
(***************************************************************************)
EXTENDS Rules

UpTo2(S) == {<<>>} \cup {<<a>> : a \in S} \cup {<<a, b>> : a, b \in S}
Grown(S) == S \cup {Not(c) : c \in S} \cup {AllOf(ks) : ks \in UpTo2(S)} \cup {AnyOf(ks) : ks \in UpTo2(S)}

LeafA == Cmp("x", "rc", "==", Int_(0))
LeafB == Cmp("y", "rc", "<", Int_(1))
Raising == Cmp("y", "rc", "<", Str(1))
MCConditions == Grown(Grown({LeafA, LeafB})) \cup Grown({LeafA, Not(LeafA), Raising}) \cup {Not(Not(AllOf(<<>>)))}

Rc(n) == [status |-> DoneWord, facts |-> [f \in {"rc"} |-> Int_(n)]]
MCRecords == UNION {[ids -> {Rc(0), Rc(1)}] : ids \in SUBSET {"x", "y"}}

----------------------------------------------------------------------------

\* The admitted node took n-0001.
MCFresh == <<"n-0002", "n-0003">>

Entry(id, what, dep) == [id |-> id, op |-> what[1], args |-> what[2], deps |-> dep, acceptance |-> NoCondition]

Whats == {<<"work", {}>>, <<"gate:make-test", {}>>, <<"scan", {"watched"}>>, <<"scan", {}>>,
          <<"reduce:count", {}>>, <<"judge", {}>>}
EntriesGiven == {Entry(id, what, dep) : id \in {"x", "y", "n-0001"}, what \in Whats,
                                        dep \in {{}, {"n-0001"}, {"x"}, {"zz"}}}

DoneWhens == {Cmp("x", "status", "==", DoneWord), Cmp("x", "status", "<", Int_(3)),
              Cmp("y", "count", ">=", Int_(1)), Cmp("y", "stray", "!=", Int_(0)),
              AllOf(<<Cmp("x", "rc", "==", Int_(0)), Cmp("y", "turns", ">=", Int_(1))>>),
              AnyOf(<<Cmp("x", "rc", "==", Int_(0)), Cmp("y", "turns", ">=", Int_(1))>>),
              AllOf(<<Cmp("x", "rc", "==", Int_(0)), Cmp("y", "count", ">=", Int_(1))>>),
              Not(Cmp("x", "rc", "==", Int_(0))), Cmp("n-0001", "rc", "==", Int_(0)), AnyOf(<<>>)}

\* What the nodes a plan names may have left.
MCNodeRecords == {Rc(0), Rc(1), [status |-> FailedWord, facts |-> [f \in {"turns"} |-> Int_(1)]],
                  [status |-> DoneWord, facts |-> [f \in {"count"} |-> Int_(1)]]}

\* Plans that say when an entry is accepted and how long they hold.
Accepts(e, c) == [e EXCEPT !.acceptance = c]
Conditional ==
    {[entries |-> <<Accepts(Entry("x", <<"gate:make-test", {}>>, {"n-0001"}), own), Accepts(Entry("y", <<"work", {}>>, {"x"}), other)>>,
      done |-> Cmp("y", "status", "==", DoneWord), holds |-> holds, deps |-> {"n-0001"}] :
        own \in {NoCondition, Not(Cmp("x", "rc", "!=", Int_(0)))},
        other \in {NoCondition, AnyOf(<<Cmp("x", "rc", "==", Int_(0)), Not(Cmp("y", "status", "==", DoneWord))>>)},
        holds \in {NoCondition, Cmp("n-0001", "rc", "==", Int_(0)),
                   Not(AllOf(<<Cmp("x", "rc", "==", Int_(1)), Cmp("n-0001", "status", "==", DoneWord)>>))}}

PlanOf(entries, done) == [entries |-> entries, done |-> done, holds |-> NoCondition, deps |-> {}]

Wrote(plan, isRoot, error, file) ==
    [record |-> [error |-> error, file |-> file], plan |-> plan, isRoot |-> isRoot,
     graph |-> IF isRoot THEN {} ELSE {"n-0001"}, limits |-> [maxNodesPerPlan |-> 2]]

MCPlansGiven ==
    {Wrote(PlanOf(es, done), isRoot, "none", "plan") :
        es \in UpTo2(EntriesGiven), done \in DoneWhens, isRoot \in BOOLEAN}
    \cup {Wrote(plan, FALSE, "none", "plan") : plan \in Conditional}
    \cup {Wrote(NoPlan, TRUE, error, file) : error \in Errors, file \in Files}

----------------------------------------------------------------------------

Limits == [plannerKinds |-> Kinds, perKindCeiling |-> [k \in {"work"} |-> "standard"]]
SpecOf(id, deps) == [id |-> id, kind |-> "work", role |-> NoRole, executor |-> NoName, model |-> NoName,
                     deps |-> deps, requires |-> {}, writes |-> {}]
Offers == {SpecOf(id, deps) : id \in {"a", "b", "c"}, deps \in SUBSET {"a", "b", "c"}}
Shaped == {[SpecOf("c", {"a"}) EXCEPT !.kind = k, !.role = r, !.executor = x, !.writes = w] :
              k \in {"work", "gate", "map"}, r \in {NoRole, "standard", "deep"}, x \in {NoName, "code", "claude"},
              w \in {{}, {<<>>}, {<<"wt", "a">>}, {<<"/", "etc">>}, {<<"wt", "..", "..", "x">>}}}
MCSpecsGiven ==
    {[specs |-> <<SpecOf("a", {}), x, y, z>>, limits |-> Limits] : x, y, z \in Offers}
    \cup {[specs |-> <<SpecOf("a", {}), x, SpecOf("a", {"c"})>>, limits |-> Limits] : x \in Shaped}

Rows == [alias : {"m1", "m2"}, executor : {"claude", "other"}, rank : 1..2, available : BOOLEAN,
         roles : {{"standard"}, {"standard", "deep"}}]
MCTablesGiven ==
    {[table |-> [rows |-> <<x, y>>, kindRole |-> [k \in {"planner"} |-> "deep"]],
      spec |-> [kind |-> kind, role |-> role, model |-> model]] :
        x, y \in Rows, kind \in {"work", "planner"}, role \in {NoRole, "standard", "deep"},
        model \in {NoName, "m1", "m3"}}

Raw(shape, words) == [shape |-> shape, words |-> words]
Raws == {Raw("absent", <<>>), Raw("blank", <<>>), Raw("json_text", <<>>), Raw("other", <<>>), Raw("list", <<>>)}
        \cup {Raw(shape, ws) : shape \in {"joined", "list"},
                               ws \in {<<"name">>, <<"phrase">>, <<"name", "blank">>}}
        \cup {Raw("list", <<"name", "nontext">>)}
Absent == Raw("absent", <<>>)
Plain == [denyBash |-> Absent, denyTools |-> Absent, tools |-> Absent, gate |-> Absent, mode |-> "absent",
          notify |-> "absent", parallel |-> 2, hasHost |-> TRUE, credential |-> "", credentialExists |-> FALSE]
Configs ==
    {[Plain EXCEPT !.denyBash = r] : r \in Raws} \cup {[Plain EXCEPT !.denyTools = r] : r \in Raws}
    \cup {[Plain EXCEPT !.tools = r] : r \in Raws} \cup {[Plain EXCEPT !.gate = r] : r \in Raws}
    \cup {[Plain EXCEPT !.mode = m] : m \in {"dontAsk", "bypassPermissions", "plan"}}
    \cup {[Plain EXCEPT !.notify = n, !.hasHost = h] : n \in {"none", "mail", "pager"}, h \in BOOLEAN}
    \cup {[Plain EXCEPT !.credential = c, !.credentialExists = e] : c \in {"", "key"}, e \in BOOLEAN}
    \cup {[Plain EXCEPT !.parallel = p] : p \in 0..1}
Packaged == [denyBash |-> <<"phrase">>, denyTools |-> <<"name">>, tools |-> <<"name", "name">>,
             gate |-> <<"name">>, mode |-> "dontAsk", notify |-> "none"]
MCConfigsGiven == {[first |-> x, later |-> y, packaged |-> Packaged] : x, y \in Configs}

----------------------------------------------------------------------------

Root == <<"/", "runs", "r">>
Declared == [n \in {"w1", "w2", "p"} |->
                CASE n = "w1" -> {<<"wt", "a", "**">>}
                  [] n = "w2" -> {<<"wt", "b", "**">>}
                  [] n = "p" -> {<<"intents", "*">>, <<"manifest", "m">>}]
Req(workspace, roots, writes) ==
    [root |-> Root, nodeDir |-> Root \o <<"nodes", "w1", "h1">>, cwd |-> Root \o <<"wt", "a">>,
     extra |-> workspace, writeSet |-> writes, denyBash |-> {}, denyTools |-> {}, readRoots |-> roots, effort |-> "high"]
Reqs == {Req(ws, roots, Declared["w1"]) :
            ws \in {{}, {<<"/", "ws">>}, {<<"/", "link">>}, {Root \o <<"wt", "b">>}},
            roots \in {Unconfined, {Root \o <<"nodes", "w1", "h1">>, Root \o <<"wt", "a">>}}}
        \cup {Req({}, Unconfined, Declared["p"])}
        \cup {[Req({}, {Root \o <<"wt", "a">>}, Declared["w1"]) EXCEPT !.cwd = Root \o <<"wt", "c">>]}
        \cup {[Req({}, Unconfined, {}) EXCEPT !.cwd = <<"/", "ws">>], [Req({}, Unconfined, {}) EXCEPT !.effort = "vast"]}
Owns == [denyBash : {{"git push"}}, denyTools : {{"WebFetch"}}, mode : {"dontAsk"},
         cwd : {<<"/", "home">>, Root \o <<"wt", "a">>}]

Targets == {NoPath, <<"f">>, <<"..", "b", "f">>, <<"out", "f">>, <<"/", "ws", "f">>, <<"/", "link", "f">>, <<"/", "etc", "f">>, <<"/", "ws">>}
           \cup {Root \o p : p \in {<<"wt", "a", "f">>, <<"wt", "a">>, <<"wt", "b", "f">>, <<"wt", "a", "..", "b", "f">>,
                                     <<"wt", "a", "out", "f">>, <<"wt", "a", "over", "f">>, <<"nodes", "w1", "h1", "plan.json">>,
                                     <<"nodes", "w2", "h1", "f">>, <<"journal.jsonl">>, <<"intents", "push", "i">>, <<"manifest", "m">>, <<"wt", ".partial-a", "f">>}}
LinkMaps == {<<>>, [l \in {<<"/", "link">>, Root \o <<"wt", "a", "out">>, Root \o <<"wt", "a", "over">>} |->
                       CASE l = <<"/", "link">> -> Root \o <<"wt", "b">>
                         [] l = Root \o <<"wt", "a", "out">> -> <<"/", "etc">>
                         [] OTHER -> Root \o <<"wt", "b">>]}
MCCallsGiven ==
    {[req |-> q, own |-> o, links |-> l, declared |-> Declared,
      call |-> [tool |-> t, path |-> p, command |-> c]] :
        q \in Reqs, o \in Owns, l \in LinkMaps, p \in Targets, c \in {{}, {"git push"}},
        t \in {"Write", "NotebookEdit", "Read", "Glob", "Bash", "WebFetch", "TodoWrite"}}

MCEnvsGiven ==
    {[environ |-> [n \in names |-> "inherited"], source |-> source, copy |-> copy] :
        names \in SUBSET {"PATH", "HTTP_PROXY", "SSH_AUTH_SOCK", "CLAUDE_CODE_OAUTH_TOKEN", "HOME"},
        source \in {"keyfile", "copy"}, copy \in {"missing", "refreshed"}}

MCTextsGiven == UNION {[1..n -> {"c", "w", "x", "n"}] : n \in 0..7}

Keys == {<<"content">>, <<"auth", "token">>, <<"input", "tokens">>}
Small == {Leaf(w) : w \in {"opaque", "secret_shaped"}}
Within(kind, v, key) == Append([v EXCEPT ![Len(v)].key = key], [k |-> kind, kids |-> <<Len(v)>>, key |-> Item, what |-> ""])
Nested(S) == S \cup {Within("list", v, Item) : v \in S} \cup {Within("map", v, key) : key \in Keys, v \in S}
MCValuesGiven == Nested(Nested(Nested(Small)))
=============================================================================
