---------------------------- MODULE ConfineRules ----------------------------
(***************************************************************************)
(* What a dispatched node may touch: the hooks that judge its tool calls,   *)
(* the environment and credential it is given, the isolation scan that      *)
(* judges the run directory afterwards, and the scrubbing of what is        *)
(* written down about it.                                                   *)
(*                                                                         *)
(* A path is the sequence of its segments; an absolute one starts with "/". *)
(* A glob is a path whose segments may be "*" or "**".  The symbolic links  *)
(* of the disk are a function from link to target.                          *)
(***************************************************************************)
EXTENDS Integers, Sequences, FiniteSets, SequencesExt

NoPath == <<>>

\* An absolute path has "/" first and nowhere else, a relative one nowhere.
IsAbsolute(p) == p \in Seq(STRING) /\ p # <<>> /\ p[1] = "/" /\ \A i \in 2..Len(p) : p[i] # "/"
IsRelative(p) == p \in Seq(STRING) /\ p # <<>> /\ \A i \in 1..Len(p) : p[i] # "/"

\* The path as a process that works in cwd takes it.
From(cwd, path) == IF IsAbsolute(path) THEN path ELSE cwd \o path

Under(path, root) == IsPrefix(root, path)
StrictlyUnder(path, root) == IsStrictPrefix(root, path)
Below(path, root) == SubSeq(path, Len(root) + 1, Len(path))

\* os.path.realpath: each segment in turn, through links and "..".
RealPath(links, path) ==
    LET at[n \in 0..Len(path)] ==
            IF n = 0 THEN <<>>
            ELSE CASE path[n] = ".." -> IF Len(at[n - 1]) > 1 THEN Front(at[n - 1]) ELSE at[n - 1]
                   [] path[n] # ".." /\ Append(at[n - 1], path[n]) \in DOMAIN links ->
                         links[Append(at[n - 1], path[n])]
                   [] OTHER -> Append(at[n - 1], path[n])
    IN at[Len(path)]

----------------------------------------------------------------------------
(* The one matcher.  fnmatch's * spans "/", so as a segment it stands for   *)
(* one or more of them; a trailing /** also covers the directory itself.    *)

Staging == {".partial-a", ".partial-b"}
SegmentFits(segment, glob) == segment = glob \/ (glob = ".partial-*" /\ segment \in Staging)

\* spans[j]: the lengths of path that the first j segments of the glob stand for.
Fits(path, glob) ==
    LET spans[j \in 0..Len(glob)] ==
            IF j = 0 THEN {0}
            ELSE {i \in 1..Len(path) :
                    IF glob[j] \in {"*", "**"} THEN \E n \in spans[j - 1] : n < i
                    ELSE i - 1 \in spans[j - 1] /\ SegmentFits(path[i], glob[j])}
    IN Len(path) \in spans[Len(glob)]

Matches(path, glob) == Fits(path, glob) \/ (Len(glob) > 1 /\ Last(glob) = "**" /\ path = Front(glob))

IsCovered(path, globs) == \E g \in globs : Matches(path, g)

----------------------------------------------------------------------------
(* The PreToolUse hooks.  A request is [root, nodeDir, cwd, extra, writeSet,*)
(* denyBash, denyTools, readRoots, effort]; a call is [tool, path, command],*)
(* command the set of denylist patterns the command line contains; the      *)
(* executor's own part is [denyBash, denyTools, mode, cwd].  The hooks run  *)
(* in the coordinator: a relative path is judged from its cwd.              *)

WriteTools == {"Write", "Edit", "MultiEdit", "NotebookEdit"}
ReadTools == {"Read", "Grep", "Glob"}
PathlessReadTools == {"Grep", "Glob"}
Unconfined == {"unconfined"}

\* The node's own write set, its own directory, and every extra root whole.
AllowedWrites(links, req) ==
    req.writeSet \cup {Append(Below(req.nodeDir, req.root), "**")}
                 \cup {Append(RealPath(links, x), "**") : x \in req.extra}

\* A write judged by how its path is spelled.
SpelledWrite(links, req, own, call) ==
    /\ call.path # NoPath
    /\ StrictlyUnder(call.path, req.root) /\ IsCovered(Below(call.path, req.root), AllowedWrites(links, req))

\* deny_outside_write_set: relative under the root, absolute under an extra one, else refused.
WriteAllowed(links, req, own, call) ==
    LET target == RealPath(links, From(own.cwd, call.path))
        root == RealPath(links, req.root)
    IN /\ call.path # NoPath
       /\ IF StrictlyUnder(target, root)
          THEN IsCovered(Below(target, root), AllowedWrites(links, req))
          ELSE /\ \E x \in req.extra : StrictlyUnder(target, RealPath(links, x))
               /\ IsCovered(target, AllowedWrites(links, req))

ReadAllowed(links, req, own, call) ==
    IF call.path = NoPath THEN call.tool \in PathlessReadTools
    ELSE \E r \in req.readRoots : Under(RealPath(links, From(own.cwd, call.path)), RealPath(links, r))

\* A denylist while reads are open; no shell at all once they are confined.
BashAllowed(req, own, call) ==
    /\ req.readRoots = Unconfined
    /\ call.command \cap (IF req.denyBash # {} THEN req.denyBash ELSE own.denyBash) = {}

ClosedTools(req, own) == IF req.denyTools # {} THEN req.denyTools ELSE own.denyTools

Allowed(links, req, own, call) ==
    /\ call.tool \notin ClosedTools(req, own)
    /\ call.tool \in WriteTools => WriteAllowed(links, req, own, call)
    /\ call.tool = "Bash" => BashAllowed(req, own, call)
    /\ call.tool \in ReadTools /\ req.readRoots # Unconfined => ReadAllowed(links, req, own, call)

EffortLevels == {"unset", "low", "medium", "high", "xhigh", "max"}
SdkPermissionModes == {"dontAsk", "bypassPermissions"}

\* A request built wrong is a KernelError, before the call spends anything.
BuiltRight(req, own) ==
    /\ req.effort \in EffortLevels /\ own.mode \in SdkPermissionModes
    /\ Under(req.nodeDir, req.root)
    /\ Under(req.cwd, req.root) \/ \E x \in req.extra : Under(req.cwd, x)

\* _recorded_cwd: a workspace is a second root, so never one inside the run's own.
CwdAccepted(links, req) ==
    LET within(p, r) == Under(RealPath(links, p), RealPath(links, r))
    IN /\ \A x \in req.extra : ~within(x, req.root)
       /\ within(req.cwd, req.root) \/ \E x \in req.extra : within(req.cwd, x)

----------------------------------------------------------------------------
(* The isolation scan.  A manifest is a function from the paths under the   *)
(* run root to the hash of their content.                                   *)

ControlFiles == {<<f>> : f \in {"journal.jsonl", "audit.jsonl", "state.json", "lock", "launch.log"}}
Watched(path) == path \notin ControlFiles /\ \A i \in DOMAIN path : i = Len(path) \/ path[i] # ".git"
Manifest(disk) == [p \in {q \in DOMAIN disk : Watched(q)} |-> disk[p]]

DiffManifests(before, after) ==
    {p \in DOMAIN before \cup DOMAIN after :
        p \notin DOMAIN before \/ p \notin DOMAIN after \/ before[p] # after[p]}

Housekeeping == {<<d, "**">> : d \in {"nodes", "manifest", "intents", "artefacts", "done", "attempted",
                                      "decisions", "retries"}} \cup {<<"wt", ".partial-*", "**">>}

\* Only what the watched node declared.
WatchedOnly(watched, writeSet, declared) == writeSet \cup Housekeeping

\* declared maps each node dispatched in this launch to its write set.
ScanAllowed(watched, writeSet, declared) ==
    writeSet \cup Housekeeping \cup UNION {declared[n] : n \in DOMAIN declared \ {watched}}

StrayPaths(before, after, watched, writeSet, declared) ==
    {p \in DiffManifests(before, after) : ~IsCovered(p, ScanAllowed(watched, writeSet, declared))}

----------------------------------------------------------------------------
(* The child's environment: a function from names to values, "" blank.      *)

AllowlistKeys == {"PATH", "HTTP_PROXY"}

\* OAuthTokenFile gives the token, CredentialCopy a private copy in the config directory.
KnownEnv(environ, source) ==
    LET fixed == {"HOME", "CLAUDE_CONFIG_DIR", "REMEMBER_PROMPT_STAMP"}
        token == IF source = "keyfile" THEN {"CLAUDE_CODE_OAUTH_TOKEN"} ELSE {}
    IN [n \in (AllowlistKeys \cap DOMAIN environ) \cup fixed \cup token |->
            IF n \in fixed \cup token THEN "given" ELSE environ[n]]

\* Only the names decided on, with nothing said of the others.
KnownOnly(environ, source) == KnownEnv(environ, source)

BuildOptionsEnv(environ, source) ==
    LET known == KnownEnv(environ, source)
    IN [n \in DOMAIN known \cup DOMAIN environ |-> IF n \in DOMAIN known THEN known[n] ELSE ""]

\* The SDK lays env over the coordinator's own environment.
ChildEnv(environ, source) ==
    LET env == BuildOptionsEnv(environ, source)
    IN [n \in DOMAIN env \cup DOMAIN environ |-> IF n \in DOMAIN env THEN env[n] ELSE environ[n]]

GateEnv(environ) == [n \in AllowlistKeys \cap DOMAIN environ |-> environ[n]]

\* O_EXCL: a copy the node may have refreshed is left alone; a missing source is no error.
CopyCredential(source, copy) == IF source = "missing" \/ copy # "missing" THEN copy ELSE source

----------------------------------------------------------------------------
(* Scrubbing.  A value is the sequence of its tree's nodes, each after its  *)
(* kids: a "map", a "list" or a "leaf", under the key its map has it by.  A *)
(* key is the sequence of its components, and a list's item has none.       *)

SecretComponents == {"token", "tokens", "secret", "secrets", "password", "passwords",
                     "authorization", "authorizations", "credential", "credentials"}

UsageCounts == {<<"input", "tokens">>, <<"output", "tokens">>, <<"cache", "creation", "input", "tokens">>,
                <<"cache", "read", "input", "tokens">>, <<"max", "output", "tokens">>, <<"estimated", "tokens">>,
                <<"estimated", "tokens", "delta">>, <<"ephemeral", "1h", "input", "tokens">>,
                <<"ephemeral", "5m", "input", "tokens">>, <<"truncated", "by", "token", "cap">>}

IsSecretKey(key) == key \notin UsageCounts /\ \E i \in DOMAIN key : key[i] \in SecretComponents

Item == <<>>
Leaf(what) == <<[k |-> "leaf", kids |-> <<>>, key |-> Item, what |-> what]>>

Redacted(node) == [k |-> "leaf", kids |-> <<>>, key |-> node.key, what |-> "[scrubbed]"]

\* Lists written as they are.  "secret_shaped" is a string the token pattern matches, "opaque" one no pattern knows.
ScrubKeys(v) ==
    [n \in DOMAIN v |->
        IF \E m \in DOMAIN v : v[m].k = "list" /\ \E i \in DOMAIN v[m].kids : n = v[m].kids[i] THEN v[n]
        ELSE IF IsSecretKey(v[n].key) \/ (v[n].k = "leaf" /\ v[n].what = "secret_shaped") THEN Redacted(v[n]) ELSE v[n]]

\* Both passes, at every depth; nothing leads to the kids a redacted node had.
Scrub(v) ==
    [n \in DOMAIN v |->
        IF IsSecretKey(v[n].key) \/ (v[n].k = "leaf" /\ v[n].what = "secret_shaped") THEN Redacted(v[n]) ELSE v[n]]
=============================================================================
