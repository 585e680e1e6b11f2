----------------------------- MODULE GuardProofs ----------------------------
(***************************************************************************)
(* Theorems about what guards a run: the lock on its directory, for any    *)
(* number of processes, and the rules its plans, specs, settings, calls,   *)
(* texts and writes are judged by, for any inputs.                         *)
(***************************************************************************)
EXTENDS Rules, RunLock, FiniteSetTheorems, FunctionTheorems, SequenceTheorems,
        WellFoundedInduction, TLAPS

-----------------------------------------------------------------------------
(* The lock.                                                               *)

LEMMA TypeInit == Init => TypeOK
BY RunLockAssumption DEF Init, TypeOK, Places

LEMMA TypeStep == TypeOK /\ [Next]_vars => TypeOK'
BY DEF TypeOK, Places, vars, Next, Step, Open, Write, Read, Unlink, CreateAgain,
       Release, UnlinkOwn, Die, TryCreate, Acquiring, Alive

\* Every reachable state is well typed.
THEOREM TypeCorrect == Spec => []TypeOK
BY TypeInit, TypeStep, PTL DEF Spec

-----------------------------------------------------------------------------
(* Exclusion without races.                                                *)

\* Who holds the lock is whom the path names.
HoldersOwnThePath == \A p \in Holding : file = p /\ p \in written

\* A process that created the file and has not written it yet.
WritersOwnThePath == \A p \in Process : pc[p] = "write" => file = p

\* A process past the liveness check has nobody to break but the dead.
BreakersFindNobody ==
  (\E p \in Process : pc[p] \in {"unlink", "create"}) => Holding = {}

\* The path a breaker unlinked leads nowhere until it creates the file.
BrokenPathsAreFree == \A p \in Process : pc[p] = "create" => file = NoFile

\* A process that released no longer owns the path.
ReleasedLeft == \A p \in Process : pc[p] = "released" => file # p

AloneInAcquire == \A p, q \in Acquiring : p = q

\* The inductive invariant: nothing is claimed once acquisitions overlapped.
LockInv ==
  /\ TypeOK
  /\ ~ raced =>
       /\ AloneInAcquire
       /\ HoldersOwnThePath
       /\ WritersOwnThePath
       /\ BreakersFindNobody
       /\ BrokenPathsAreFree
       /\ ReleasedLeft

LEMMA LockInit == Init => LockInv
BY TypeInit
   DEF Init, LockInv, AloneInAcquire, HoldersOwnThePath, WritersOwnThePath,
       BreakersFindNobody, BrokenPathsAreFree, ReleasedLeft, Acquiring, Holding

LEMMA LockStep == LockInv /\ [Next]_vars => LockInv'
<1> SUFFICES ASSUME LockInv, [Next]_vars, ~ raced' PROVE LockInv'
  BY TypeStep DEF LockInv
<1> USE RunLockAssumption DEF LockInv, AloneInAcquire, HoldersOwnThePath, WritersOwnThePath,
            BreakersFindNobody, BrokenPathsAreFree, ReleasedLeft, Acquiring,
            Holding, TypeOK
<1>0. TypeOK'
  BY TypeStep
<1>1. ASSUME NEW p \in Process, Open(p) PROVE LockInv'
  <2>1. ~ raced /\ Acquiring = {} /\ raced' = FALSE /\ written' = written
    BY <1>1 DEF Open
  <2>2. CASE file = NoFile
    <3>1. /\ file' = p /\ Holding = {}
          /\ \A q \in Process : pc'[q] = IF q = p THEN "write" ELSE pc[q]
      BY <1>1, <2>1, <2>2 DEF Open, TryCreate
    <3>2. \A q \in Process : pc[q] \notin {"write", "read", "unlink", "create"}
      BY <2>1
    <3> QED BY <1>0, <2>1, <3>1, <3>2
  <2>3. CASE file # NoFile
    <3>1. /\ file' = file
          /\ \A q \in Process : pc'[q] = IF q = p THEN "read" ELSE pc[q]
      BY <1>1, <2>3 DEF Open, TryCreate
    <3> QED BY <1>0, <2>1, <3>1
  <2> QED BY <2>2, <2>3
<1>2. ASSUME NEW p \in Process, Write(p) PROVE LockInv'
  BY <1>0, <1>2 DEF Write
<1>3. ASSUME NEW p \in Process, Read(p) PROVE LockInv'
  BY <1>0, <1>3 DEF Read, Readable, Alive
<1>4. ASSUME NEW p \in Process, Unlink(p) PROVE LockInv'
  BY <1>0, <1>4 DEF Unlink
<1>5. ASSUME NEW p \in Process, CreateAgain(p) PROVE LockInv'
  BY <1>0, <1>5, RunLockAssumption DEF CreateAgain, TryCreate
<1>6. ASSUME NEW p \in Process, Release(p) PROVE LockInv'
  BY <1>0, <1>6 DEF Release, Readable
<1>7. ASSUME NEW p \in Process, UnlinkOwn(p) PROVE LockInv'
  BY <1>0, <1>7 DEF UnlinkOwn
<1>8. ASSUME NEW p \in Process, Die(p) PROVE LockInv'
  BY <1>0, <1>8 DEF Die, Alive
<1>9. ASSUME UNCHANGED vars PROVE LockInv'
  BY <1>0, <1>9 DEF vars
<1> QED BY <1>1, <1>2, <1>3, <1>4, <1>5, <1>6, <1>7, <1>8, <1>9 DEF Next, Step

LEMMA LockInvariant == Spec => []LockInv
BY LockInit, LockStep, PTL DEF Spec

\* However many processes there are and wherever they crash, acquisitions that
\* do not overlap exclude each other.
THEOREM NoRaceExclusion == Spec => []ExclusiveUnlessRaced
<1>1. LockInv => ExclusiveUnlessRaced
  BY DEF LockInv, ExclusiveUnlessRaced, Exclusive, HoldersOwnThePath
<1> QED BY <1>1, LockInvariant, PTL

\* A process that meets no other in acquire is refused only while a live
\* process holds the lock: no crash leaves a lock that cannot be taken.
THEOREM CrashesStrandNobody == Spec => RefusedOnlyByLive
<1> DEFINE Justified ==
      \A p \in Process :
        pc[p] # "refused" /\ pc'[p] = "refused" /\ ~ raced' => Holding # {}
<1>1. LockInv /\ [Next]_vars => [Justified]_vars
  <2> SUFFICES ASSUME LockInv, Next, NEW p \in Process, pc[p] # "refused",
                      pc'[p] = "refused", ~ raced'
               PROVE  Holding # {}
    BY DEF vars
  <2>1. PICK q \in Process : Step(q)
    BY DEF Next
  <2>2. q = p /\ (Read(p) \/ CreateAgain(p)) /\ ~ raced
    BY <2>1 DEF LockInv, TypeOK, Step, Open, Write, Read, Unlink, CreateAgain,
                Release, UnlinkOwn, Die, TryCreate
  <2>3. CASE Read(p)
    <3>1. Readable /\ Alive(file) /\ file \in Process
      BY <2>3 DEF Read, LockInv, TypeOK, Readable
    <3>2. pc[file] \in {"held", "releasing", "released"}
      BY <3>1 DEF LockInv, TypeOK, Readable, Alive
    <3>3. pc[file] # "released"
      BY <2>2, <3>1 DEF LockInv, ReleasedLeft
    <3> QED BY <3>1, <3>2, <3>3 DEF Holding
  <2>4. CASE CreateAgain(p)
    BY <2>2, <2>4 DEF CreateAgain, TryCreate, LockInv, BrokenPathsAreFree, TypeOK
  <2> QED BY <2>2, <2>3, <2>4
<1> QED BY <1>1, LockInvariant, PTL DEF Spec, Justified, RefusedOnlyByLive

\* What RunLifecycle takes for granted of the lock: while acquisitions do not
\* overlap, each system call leaves the holders alone, lets one process in where
\* nobody was, or lets the only one go (lock_file.py acquire, release).
THEOREM LockIsAtomic ==
  Spec => [][~ raced' => \/ Holding' = Holding
                             \/ \E p \in Process : {Holding, Holding'} = {{}, {p}}]_vars
<1> DEFINE Atomic ==
      ~ raced' => \/ Holding' = Holding
                  \/ \E p \in Process : {Holding, Holding'} = {{}, {p}}
<1>1. LockInv /\ [Next]_vars => [Atomic]_vars
  <2> SUFFICES ASSUME LockInv, NEW p \in Process, Step(p), ~ raced'
               PROVE  \/ Holding' = Holding
                      \/ {Holding, Holding'} = {{}, {p}}
    BY Zenon DEF Next
  <2> USE DEF Holding
  <2>1. /\ pc \in [Process -> Places] /\ HoldersOwnThePath /\ WritersOwnThePath
        /\ NoFile \notin Process
    BY RunLockAssumption
       DEF LockInv, TypeOK, Step, Open, Write, Read, Unlink,
           CreateAgain, Release, UnlinkOwn, Die
  <2>2. CASE Write(p)
    BY <2>1, <2>2 DEF Write, HoldersOwnThePath, WritersOwnThePath
  <2>3. CASE Release(p) \/ UnlinkOwn(p) \/ Die(p)
    BY <2>1, <2>3 DEF Release, UnlinkOwn, Die, HoldersOwnThePath
  <2>4. CASE Open(p) \/ Read(p) \/ Unlink(p) \/ CreateAgain(p)
    BY <2>1, <2>4 DEF Open, Read, Unlink, CreateAgain, TryCreate, Places
  <2> QED BY <2>2, <2>3, <2>4 DEF Step
<1> QED BY <1>1, LockInvariant, PTL DEF Spec, Atomic

-----------------------------------------------------------------------------
(* Induction, and what sequences have.                                     *)

\* Induction over the numbers, for sets of them.
LEMMA EveryNumber ==
  ASSUME NEW T, 0 \in T, \A n \in Nat : n \in T => n + 1 \in T
  PROVE  \A n \in Nat : n \in T
<1> DEFINE S == {n \in Nat : n \notin T}
<1> SUFFICES ASSUME S # {} PROVE FALSE
  OBVIOUS
<1>1. S \subseteq Nat
  OBVIOUS
<1>2. \E x \in S : \A y \in S : ~ (<<y, x>> \in OpToRel(<, Nat))
  <2> HIDE DEF S
  <2> QED BY <1>1, NatLessThanWellFounded, WFMin, Zenon
<1>3. \E x \in S : \A y \in S : ~ (y < x)
  BY <1>1, <1>2, Zenon DEF OpToRel
<1>4. PICK x \in S : \A y \in S : ~ (y < x)
  BY <1>3
<1>5. x # 0 /\ x - 1 \in Nat /\ x - 1 < x /\ x = (x - 1) + 1
  BY <1>4
<1>6. x - 1 \in T
  BY <1>4, <1>5
<1> QED BY <1>4, <1>5, <1>6

\* What a sequence has.
LEMMA SequenceFacts ==
  ASSUME NEW s, IsSequence(s)
  PROVE  Len(s) \in Nat /\ DOMAIN s = 1..Len(s)
BY DEF IsSequence

-----------------------------------------------------------------------------
(* What a state that was answered holds: an input of its topic, and what   *)
(* the rule of the topic says of it.                                       *)

Judged ==
  /\ asked \in BOOLEAN
  /\ topic = "condition" =>
       given \in Conditions /\ (asked => answer = [r \in Records |-> Evaluate(given, r)])
  /\ topic = "plan" =>
       given \in PlansGiven
         /\ (asked => answer = PlanOrReasons(given.record, given.plan, given.graph, given.limits,
                                             given.isRoot, Fresh))
  /\ topic = "specs" => given \in SpecsGiven /\ (asked => answer = Admitted(given.specs, given.limits))
  /\ topic = "table" => given \in TablesGiven /\ (asked => answer = LaunchResolves(given.table, given.spec))
  /\ topic = "settings" =>
       given \in ConfigsGiven /\ (asked => answer = Launches(given.first, given.later, given.packaged))
  /\ topic = "call" =>
       given \in CallsGiven
         /\ (asked => answer = [built |-> CwdAccepted(given.links, given.req) /\ BuiltRight(given.req, given.own),
                                allowed |-> Allowed(given.links, given.req, given.own, given.call)])
  /\ topic = "env" =>
       given \in EnvsGiven
         /\ (asked => answer = [child |-> ChildEnv(given.environ, given.source), gate |-> GateEnv(given.environ),
                                copy |-> CopyCredential("original", given.copy)])
  /\ topic = "text" => given \in TextsGiven /\ (asked => answer = RenderForOperator(given))
  /\ topic = "value" => given \in ValuesGiven /\ (asked => answer = Scrub(given))

LEMMA EveryAnswerIsJudged == Deciding => []Judged
<1>1. Input => Judged
  BY Zenon DEF Input, Judged
<1>2. ASSUME Judged, Decide PROVE Judged'
  <2>1. asked' = TRUE /\ topic' = topic /\ given' = given
    BY <1>2 DEF Decide
  <2>2. CASE ReadCondition
    BY <1>2, <2>1, <2>2, Zenon DEF Judged, ReadCondition
  <2>3. CASE JudgePlan
    BY <1>2, <2>1, <2>3, Zenon DEF Judged, JudgePlan
  <2>4. CASE AdmitSpecs
    BY <1>2, <2>1, <2>4, Zenon DEF Judged, AdmitSpecs
  <2>5. CASE PlaceSpec
    BY <1>2, <2>1, <2>5, Zenon DEF Judged, PlaceSpec
  <2>6. CASE ReadSettings
    BY <1>2, <2>1, <2>6, Zenon DEF Judged, ReadSettings
  <2>7. CASE JudgeCall
    BY <1>2, <2>1, <2>7, Zenon DEF Judged, JudgeCall
  <2>8. CASE BuildEnv
    BY <1>2, <2>1, <2>8, Zenon DEF Judged, BuildEnv
  <2>9. CASE RenderText
    BY <1>2, <2>1, <2>9, Zenon DEF Judged, RenderText
  <2>10. CASE WriteDown
    BY <1>2, <2>1, <2>10, Zenon DEF Judged, WriteDown
  <2> QED BY <1>2, <2>2, <2>3, <2>4, <2>5, <2>6, <2>7, <2>8, <2>9, <2>10, Zenon DEF Decide
<1>3. Judged /\ [Decide]_question => Judged'
  <2> SUFFICES ASSUME Judged, UNCHANGED question PROVE Judged'
    BY <1>2
  <2> QED BY Zenon DEF question, Judged
<1> QED BY <1>1, <1>3, PTL DEF Deciding

-----------------------------------------------------------------------------
(* Settings.                                                               *)

\* A denylist is empty only when the operator wrote an empty list.
LEMMA EmptyDenylistIsWritten ==
  ASSUME NEW raw, NEW packaged, NEW shaped \in BOOLEAN,
         packaged # <<>>, raw.shape = "joined" => raw.words # <<>>,
         ~ ConfigNameList(raw, packaged, shaped, TRUE).refused,
         ConfigNameList(raw, packaged, shaped, TRUE).words = <<>>
  PROVE  raw.shape = "list" /\ raw.words = <<>>
<1> DEFINE read == IF raw.shape = "absent" THEN Take(packaged) ELSE ConfigWords(raw)
<1>1. ~ read.refused /\ read.words = <<>>
  BY DEF ConfigNameList, Refuse
<1>2. raw.shape # "absent"
  BY <1>1 DEF Take
<1> QED BY <1>1, <1>2 DEF ConfigWords, Take, Refuse

LEMMA ToolsAndGateAreGiven ==
  ASSUME NEW raw, NEW packaged
  PROVE  /\ ~ ConfigTools(raw, packaged).refused => ConfigTools(raw, packaged).words # <<>>
         /\ ~ ConfigGateCommand(raw, packaged).refused => ConfigGateCommand(raw, packaged).words # <<>>
BY DEF ConfigTools, ConfigNameList, ConfigGateCommand, Refuse

LEMMA SettingsJudged == Judged => SettingsStand
<1> SUFFICES ASSUME Judged, Answered("settings"), answer.started
             PROVE  /\ answer.start.denyBash = <<>> => given.first.denyBash.shape = "list" /\ given.first.denyBash.words = <<>>
                    /\ answer.start.denyTools = <<>> => given.first.denyTools.shape = "list" /\ given.first.denyTools.words = <<>>
                    /\ answer.start.tools # <<>> /\ answer.start.gate # <<>>
                    /\ answer.relaunched =>
                         /\ answer.again = answer.start
                         /\ answer.credential = CredentialFrom(answer.start.credential, given.first.credentialExists)
  BY DEF SettingsStand, OnlyAnExplicitEmptyOpens, RelaunchKeepsSettings
<1> DEFINE start == ResolveSettings(given.first, given.packaged)
           again == SettingsOf(start, given.later, given.packaged)
<1>1. given \in ConfigsGiven /\ answer = Launches(given.first, given.later, given.packaged)
  BY DEF Judged, Answered
<1>2. /\ ~ start.refused
      /\ CredentialFrom(start.credential, given.first.credentialExists) # "refused"
      /\ answer.start = start /\ answer.again = again
      /\ answer.relaunched => CredentialFrom(again.credential, given.later.credentialExists) # "refused"
      /\ answer.credential = CredentialFrom(again.credential, given.later.credentialExists)
  BY <1>1 DEF Launches
<1>3. again = start
  BY <1>2 DEF SettingsOf, NoSettings
<1>4. /\ ~ ConfigDenyBash(given.first.denyBash, given.packaged.denyBash).refused
      /\ ~ ConfigDenyTools(given.first.denyTools, given.packaged.denyTools).refused
      /\ ~ ConfigTools(given.first.tools, given.packaged.tools).refused
      /\ ~ ConfigGateCommand(given.first.gate, given.packaged.gate).refused
      /\ start.denyBash = ConfigDenyBash(given.first.denyBash, given.packaged.denyBash).words
      /\ start.denyTools = ConfigDenyTools(given.first.denyTools, given.packaged.denyTools).words
      /\ start.tools = ConfigTools(given.first.tools, given.packaged.tools).words
      /\ start.gate = ConfigGateCommand(given.first.gate, given.packaged.gate).words
  BY <1>2 DEF ResolveSettings
<1>5. /\ given.packaged.denyBash # <<>> /\ given.packaged.denyTools # <<>>
      /\ given.first.denyBash.shape = "joined" => given.first.denyBash.words # <<>>
      /\ given.first.denyTools.shape = "joined" => given.first.denyTools.words # <<>>
  BY <1>1, RulesAssumption, Zenon DEF ConfigsAssumption
<1>6. start.denyBash = <<>> => given.first.denyBash.shape = "list" /\ given.first.denyBash.words = <<>>
  BY <1>4, <1>5, EmptyDenylistIsWritten DEF ConfigDenyBash
<1>7. start.denyTools = <<>> => given.first.denyTools.shape = "list" /\ given.first.denyTools.words = <<>>
  BY <1>4, <1>5, EmptyDenylistIsWritten DEF ConfigDenyTools
<1>8. start.tools # <<>> /\ start.gate # <<>>
  BY <1>4, ToolsAndGateAreGiven
<1>9. answer.relaunched => answer.credential = CredentialFrom(start.credential, given.first.credentialExists)
  BY <1>2, <1>3 DEF CredentialFrom
<1> QED BY <1>2, <1>3, <1>6, <1>7, <1>8, <1>9

\* Whatever a run is started with and whatever a later launch reads, no boundary opens but by
\* an empty list written for it, and the relaunch wires what the start wired or refuses.
THEOREM SettingsHold == Deciding => []SettingsStand
BY EveryAnswerIsJudged, SettingsJudged, PTL

-----------------------------------------------------------------------------
(* What is written down, and what a node inherits.                         *)

ParentsOf(v, n) == {m \in (n + 1)..Len(v) : \E i \in DOMAIN v[m].kids : n = v[m].kids[i]}

\* One node's secrecy, from that of its parents.
SecrecyOf(v, under, n) ==
  IF n = Len(v) THEN "open"
  ELSE IF \A m \in ParentsOf(v, n) : under[m] = "nowhere" THEN "nowhere"
  ELSE IF IsSecretKey(v[n].key) \/ \E m \in ParentsOf(v, n) : under[m] = "secret" THEN "secret"
  ELSE "open"

LEMMA SecrecyFromAbove ==
  ASSUME NEW v, NEW f, NEW g, NEW n, \A m \in (n + 1)..Len(v) : f[m] = g[m]
  PROVE  SecrecyOf(v, f, n) = SecrecyOf(v, g, n)
<1>1. \A m \in ParentsOf(v, n) : f[m] = g[m]
  BY DEF ParentsOf
<1> QED BY <1>1, Zenon DEF SecrecyOf

\* The recursion from the root down defines the secrecy of every node.
LEMMA SecrecyEquation ==
  ASSUME NEW v, IsSequence(v)
  PROVE  \A n \in DOMAIN v : Secrecy(v)[n] = SecrecyOf(v, Secrecy(v), n)
<1> DEFINE N == Len(v)
           Solves(f, d) == \A n \in (N - d + 1)..N : f[n] = SecrecyOf(v, f, n)
           T == {d \in Nat : d <= N => \E f : Solves(f, d)}
<1>1. N \in Nat /\ DOMAIN v = 1..N
  BY DEF IsSequence
<1> HIDE DEF N
<1>2. 0 \in T
  BY <1>1
<1>3. ASSUME NEW d \in Nat, d \in T PROVE d + 1 \in T
  <2> SUFFICES ASSUME d + 1 <= N PROVE \E f : Solves(f, d + 1)
    OBVIOUS
  <2>1. PICK f : Solves(f, d)
    BY <1>1, <1>3
  <2> DEFINE k == N - d
             g == [m \in 1..N |-> IF m = k THEN SecrecyOf(v, f, m) ELSE f[m]]
  <2>2. k \in 1..N /\ N - (d + 1) + 1 = k /\ N - d + 1 = k + 1
    BY <1>1
  <2>3. \A m \in (k + 1)..N : g[m] = f[m]
    BY <1>1, <2>2
  <2>4. g[k] = SecrecyOf(v, f, k)
    BY <2>2
  <2> HIDE DEF g
  <2>5. ASSUME NEW n \in k..N PROVE g[n] = SecrecyOf(v, g, n)
    <3>1. SecrecyOf(v, g, n) = SecrecyOf(v, f, n)
      <4>1. \A m \in (n + 1)..Len(v) : g[m] = f[m]
        BY <1>1, <2>2, <2>3, <2>5 DEF N
      <4> QED BY <4>1, SecrecyFromAbove
    <3>2. CASE n = k
      BY <2>4, <3>1, <3>2
    <3>3. CASE n # k
      <4>1. n \in (k + 1)..N /\ n \in (N - d + 1)..N
        BY <1>1, <2>2, <2>5, <3>3
      <4> QED BY <2>1, <2>3, <3>1, <4>1
    <3> QED BY <3>2, <3>3
  <2> QED BY <2>2, <2>5
<1>4. \E f : Solves(f, N)
  <2>1. N \in T
    <3> HIDE DEF T
    <3> QED BY <1>1, <1>2, <1>3, EveryNumber
  <2> QED BY <1>1, <2>1
<1>5. PICK f : \A n \in 1..N : f[n] = SecrecyOf(v, f, n)
  BY <1>1, <1>4
<1> DEFINE h == [n \in DOMAIN v |-> f[n]]
<1>6. \A n \in DOMAIN v : h[n] = SecrecyOf(v, h, n)
  <2> SUFFICES ASSUME NEW n \in DOMAIN v PROVE f[n] = SecrecyOf(v, h, n)
    OBVIOUS
  <2>1. \A m \in (n + 1)..Len(v) : h[m] = f[m]
    BY <1>1 DEF N
  <2> HIDE DEF h
  <2>2. SecrecyOf(v, h, n) = SecrecyOf(v, f, n)
    BY <2>1, SecrecyFromAbove
  <2> QED BY <1>1, <1>5, <2>2
<1> DEFINE under[n \in DOMAIN v] ==
             LET parents == {m \in (n + 1)..Len(v) : \E i \in DOMAIN v[m].kids : n = v[m].kids[i]}
             IN IF n = Len(v) THEN "open"
                ELSE IF \A m \in parents : under[m] = "nowhere" THEN "nowhere"
                ELSE IF IsSecretKey(v[n].key) \/ \E m \in parents : under[m] = "secret" THEN "secret"
                ELSE "open"
<1>7. h = [n \in DOMAIN v |-> SecrecyOf(v, h, n)]
  <2>1. h = [n \in DOMAIN v |-> h[n]]
    OBVIOUS
  <2> HIDE DEF h
  <2> QED BY <1>6, <2>1
<1>8. under = [n \in DOMAIN v |-> SecrecyOf(v, under, n)]
  <2> HIDE DEF h
  <2> QED BY <1>7 DEF under, SecrecyOf, ParentsOf
<1>9. Secrecy(v) = under
  BY DEF Secrecy, under
<1> HIDE DEF under
<1> QED BY <1>8, <1>9

\* Under a secret's key nothing has kids, and what stands there is the redaction.
LEMMA SecretsHaveNoKids ==
  ASSUME NEW v, IsTree(v), NEW n \in DOMAIN v, Secrecy(Scrub(v))[n] = "secret"
  PROVE  Scrub(v)[n].kids = <<>> /\ Scrub(v)[n].what = "[scrubbed]"
<1> DEFINE N == Len(v)
           S == Scrub(v)
           Bare(m) == S[m].kids = <<>> /\ S[m].what = "[scrubbed]"
           T == {d \in Nat : \A m \in 1..N : m >= N - d /\ Secrecy(S)[m] = "secret" => Bare(m)}
<1>1. N \in Nat /\ DOMAIN v = 1..N
  BY DEF IsTree, IsSequence
<1>2. DOMAIN S = 1..N /\ Len(S) = N
  <2>1. S = [m \in 1..N |-> S[m]] /\ DOMAIN S = 1..N
    BY <1>1 DEF Scrub
  <2> QED BY <1>1, <2>1
<1>3. IsSequence(S)
  <2>1. S = [m \in 1..N |-> S[m]]
    BY <1>1 DEF Scrub
  <2> HIDE DEF S, N
  <2> QED BY <1>1, <1>2, <2>1 DEF IsSequence
<1>4. ASSUME NEW m \in 1..N PROVE S[m] = IF IsSecretKey(v[m].key) \/ (v[m].k = "leaf" /\ v[m].what = "secret_shaped")
                                         THEN Redacted(v[m]) ELSE v[m]
  BY <1>1 DEF Scrub
<1>5. ASSUME NEW m \in 1..N, IsSecretKey(S[m].key) PROVE Bare(m)
  <2>1. Redacted(v[m]).key = v[m].key /\ Redacted(v[m]).kids = <<>> /\ Redacted(v[m]).what = "[scrubbed]"
    BY DEF Redacted
  <2>2. S[m] = Redacted(v[m]) \/ S[m] = v[m]
    BY <1>4
  <2>3. S[m].key = v[m].key
    <3> HIDE DEF S
    <3> QED BY <2>1, <2>2
  <2>4. S[m] = Redacted(v[m])
    <3>1. IsSecretKey(v[m].key)
      BY <1>5, <2>3
    <3> QED BY <1>4, <3>1
  <2> HIDE DEF S
  <2> QED BY <2>1, <2>4
<1>6. ASSUME NEW m \in 1..N, Secrecy(S)[m] = "secret",
             \A p \in (m + 1)..N : Secrecy(S)[p] = "secret" => Bare(p)
      PROVE  Bare(m)
  <2>1. Secrecy(S)[m] = SecrecyOf(S, Secrecy(S), m)
    <3> HIDE DEF S, N
    <3> QED BY <1>2, <1>3, SecrecyEquation
  <2>2. IsSecretKey(S[m].key) \/ \E p \in ParentsOf(S, m) : Secrecy(S)[p] = "secret"
    <3> HIDE DEF S, N
    <3> QED BY <1>6, <2>1 DEF SecrecyOf
  <2>3. \A p \in ParentsOf(S, m) : p \in (m + 1)..N /\ S[p].kids # <<>>
    <3> HIDE DEF S, N
    <3> QED BY <1>2 DEF ParentsOf
  <2> HIDE DEF S, N
  <2> QED BY <1>5, <1>6, <2>2, <2>3
<1> HIDE DEF S, Bare
<1>7. 0 \in T
  <2> SUFFICES ASSUME NEW m \in 1..N, m >= N - 0, Secrecy(S)[m] = "secret" PROVE Bare(m)
    OBVIOUS
  <2>1. (m + 1)..N = {}
    BY <1>1
  <2> QED BY <1>6, <2>1
<1>8. ASSUME NEW d \in Nat, d \in T PROVE d + 1 \in T
  <2> SUFFICES ASSUME NEW m \in 1..N, m >= N - (d + 1), Secrecy(S)[m] = "secret" PROVE Bare(m)
    OBVIOUS
  <2>1. \A p \in (m + 1)..N : p \in 1..N /\ p >= N - d
    BY <1>1
  <2> QED BY <1>6, <1>8, <2>1
<1>9. N \in T
  <2> HIDE DEF T, N
  <2> QED BY <1>1, <1>7, <1>8, EveryNumber
<1>10. n \in 1..N /\ n >= N - N
  BY <1>1
<1> QED BY <1>9, <1>10 DEF S, Bare

LEMMA ScrubbedJudged == Judged => SecretsStayOff
<1> SUFFICES ASSUME Judged, Answered("value"), NEW n \in DOMAIN answer, answer[n].k = "leaf",
                    Secrecy(answer)[n] # "nowhere"
             PROVE  /\ answer[n].what # "secret_shaped"
                    /\ Secrecy(answer)[n] = "secret" => answer[n].what = "[scrubbed]"
  BY DEF SecretsStayOff
<1>1. given \in ValuesGiven /\ answer = Scrub(given)
  BY DEF Judged, Answered
<1>2. IsTree(given)
  BY <1>1, RulesAssumption
<1>3. n \in DOMAIN given
  BY <1>1 DEF Scrub
<1>4. answer[n].what # "secret_shaped"
  BY <1>1, <1>3 DEF Scrub, Redacted
<1> QED BY <1>1, <1>2, <1>3, <1>4, SecretsHaveNoKids

LEMMA EnvironmentJudged == Judged => OnlyDecidedEnvironment
<1> SUFFICES ASSUME Judged, Answered("env")
             PROVE  /\ \A n \in DOMAIN answer.child :
                          answer.child[n] # "" => n \in DOMAIN KnownEnv(given.environ, given.source)
                    /\ DOMAIN answer.gate \subseteq AllowlistKeys
                    /\ given.copy = "refreshed" => answer.copy = "refreshed"
  BY DEF OnlyDecidedEnvironment
<1>1. answer = [child |-> ChildEnv(given.environ, given.source), gate |-> GateEnv(given.environ),
                copy |-> CopyCredential("original", given.copy)]
  BY DEF Judged, Answered
<1>2. ASSUME NEW n \in DOMAIN answer.child, answer.child[n] # ""
      PROVE  n \in DOMAIN KnownEnv(given.environ, given.source)
  <2> DEFINE known == KnownEnv(given.environ, given.source)
             env == BuildOptionsEnv(given.environ, given.source)
  <2>1. DOMAIN env = DOMAIN known \cup DOMAIN given.environ
    BY DEF BuildOptionsEnv
  <2>2. \A m \in DOMAIN env : env[m] = IF m \in DOMAIN known THEN known[m] ELSE ""
    BY DEF BuildOptionsEnv
  <2>3. n \in DOMAIN env /\ answer.child[n] = env[n]
    <3> HIDE DEF env, known
    <3> QED BY <1>1, <1>2, <2>1 DEF ChildEnv, env
  <2> QED BY <1>2, <2>2, <2>3
<1>3. DOMAIN answer.gate \subseteq AllowlistKeys
  BY <1>1 DEF GateEnv
<1>4. given.copy = "refreshed" => answer.copy = "refreshed"
  BY <1>1 DEF CopyCredential
<1> QED BY <1>2, <1>3, <1>4

\* For any environment and any value of any depth: what a node or a gate inherits was decided on,
\* and nothing under a secret's key or shaped like one is written down.
THEOREM NothingUndecidedLeaves == Deciding => []NothingLeaks
<1>1. Judged => NothingLeaks
  BY ScrubbedJudged, EnvironmentJudged DEF NothingLeaks
<1> QED BY <1>1, EveryAnswerIsJudged, PTL

-----------------------------------------------------------------------------
(* Induction over a tree, from the kids up and from the root down.         *)

LEMMA FromTheKidsUp ==
  ASSUME NEW N \in Nat, NEW P, \A n \in 1..N : 1..(n - 1) \subseteq P => n \in P
  PROVE  1..N \subseteq P
<1> DEFINE T == {d \in Nat : d <= N => 1..d \subseteq P}
<1>1. 0 \in T
  OBVIOUS
<1>2. ASSUME NEW d \in Nat, d \in T PROVE d + 1 \in T
  <2> SUFFICES ASSUME d + 1 <= N PROVE 1..(d + 1) \subseteq P
    OBVIOUS
  <2>1. 1..d \subseteq P /\ d + 1 \in 1..N /\ (d + 1) - 1 = d
    BY <1>2
  <2>2. d + 1 \in P
    BY <2>1
  <2> QED BY <2>1, <2>2
<1>3. N \in T
  <2> HIDE DEF T
  <2> QED BY <1>1, <1>2, EveryNumber
<1> QED BY <1>3

LEMMA FromTheRootDown ==
  ASSUME NEW N \in Nat, NEW P, \A n \in 1..N : (n + 1)..N \subseteq P => n \in P
  PROVE  1..N \subseteq P
<1> DEFINE T == {d \in Nat : d <= N => (N - d + 1)..N \subseteq P}
<1>1. 0 \in T
  <2>1. (N - 0 + 1)..N = {}
    OBVIOUS
  <2> QED BY <2>1
<1>2. ASSUME NEW d \in Nat, d \in T PROVE d + 1 \in T
  <2> SUFFICES ASSUME d + 1 <= N PROVE (N - (d + 1) + 1)..N \subseteq P
    OBVIOUS
  <2>1. (N - d + 1)..N \subseteq P
    BY <1>2
  <2>2. N - d \in 1..N /\ N - (d + 1) + 1 = N - d
    OBVIOUS
  <2>3. N - d \in P
    BY <2>1, <2>2
  <2>4. (N - d)..N \subseteq {N - d} \cup (N - d + 1)..N
    OBVIOUS
  <2> QED BY <2>1, <2>2, <2>3, <2>4
<1>3. N \in T
  <2> HIDE DEF T
  <2> QED BY <1>1, <1>2, EveryNumber
<1>4. N - N + 1 = 1
  OBVIOUS
<1> QED BY <1>3, <1>4

LEMMA TreeFacts ==
  ASSUME NEW t, IsTree(t)
  PROVE  /\ Len(t) \in Nat /\ Len(t) >= 1 /\ DOMAIN t = 1..Len(t)
         /\ \A n \in DOMAIN t : \A i \in DOMAIN t[n].kids : t[n].kids[i] \in 1..(n - 1)
<1>1. t \in Seq({t[i] : i \in DOMAIN t}) /\ t # <<>>
  BY DEF IsTree, IsSequence
<1>2. Len(t) \in Nat /\ DOMAIN t = 1..Len(t)
  BY <1>1
<1>3. Len(t) # 0
  BY <1>1
<1> QED BY <1>2, <1>3 DEF IsTree

-----------------------------------------------------------------------------
(* Conditions: one node's verdict and what it may be, from its kids'.      *)

KidsOf(c, n) == {c[n].kids[i] : i \in DOMAIN c[n].kids}

VerdictOf(c, records, verdict, n) ==
  LET kids == {verdict[c[n].kids[i]] : i \in DOMAIN c[n].kids}
  IN CASE c[n].k = "cmp" -> EvaluateCompare(c[n], records)
       [] c[n].k = "not" -> Opposite(verdict[c[n].kids[1]])
       [] c[n].k = "all" -> Combine(kids, "F", "T")
       [] c[n].k = "any" -> Combine(kids, "T", "F")

MayOf(c, may, n) ==
  {b \in BOOLEAN :
    CASE c[n].k = "cmp" -> TRUE
      [] c[n].k = "not" -> (~b) \in may[c[n].kids[1]]
      [] c[n].k \in {"all", "any"} ->
            IF b = (c[n].k = "all") THEN \A i \in DOMAIN c[n].kids : b \in may[c[n].kids[i]]
                                    ELSE \E i \in DOMAIN c[n].kids : b \in may[c[n].kids[i]]}

LEMMA ConditionFacts ==
  ASSUME NEW c, IsCondition(c)
  PROVE  /\ Len(c) \in Nat /\ Len(c) >= 1 /\ DOMAIN c = 1..Len(c)
         /\ \A n \in DOMAIN c : /\ KidsOf(c, n) \subseteq 1..(n - 1)
                                /\ c[n].k \in {"cmp", "all", "any", "not"}
                                /\ c[n].k = "cmp" => KidsOf(c, n) = {}
                                /\ c[n].k = "not" => DOMAIN c[n].kids = {1}
<1>1. IsTree(c)
  BY DEF IsCondition
<1>2. ASSUME NEW n \in DOMAIN c, c[n].k = "not" PROVE DOMAIN c[n].kids = {1}
  <2>1. c[n].kids \in Seq({c[n].kids[i] : i \in DOMAIN c[n].kids}) /\ Len(c[n].kids) = 1
    BY <1>1, <1>2, Zenon DEF IsCondition, IsTree, IsSequence
  <2>2. DOMAIN c[n].kids = 1..Len(c[n].kids)
    BY <2>1
  <2> QED BY <2>1, <2>2
<1>3. \A n \in DOMAIN c : KidsOf(c, n) \subseteq 1..(n - 1)
  BY <1>1, TreeFacts DEF KidsOf
<1>4. \A n \in DOMAIN c : c[n].k \in {"cmp", "all", "any", "not"}
  BY DEF IsCondition
<1>5. \A n \in DOMAIN c : c[n].k = "cmp" => KidsOf(c, n) = {}
  BY DEF IsCondition, KidsOf
<1> QED BY <1>1, <1>2, <1>3, <1>4, <1>5, TreeFacts

LEMMA VerdictFromKids ==
  ASSUME NEW c, IsCondition(c), NEW records, NEW n \in DOMAIN c, NEW f, NEW g, \A m \in 1..(n - 1) : f[m] = g[m]
  PROVE  VerdictOf(c, records, f, n) = VerdictOf(c, records, g, n)
<1>1. \A i \in DOMAIN c[n].kids : f[c[n].kids[i]] = g[c[n].kids[i]]
  BY ConditionFacts DEF KidsOf
<1>2. {f[c[n].kids[i]] : i \in DOMAIN c[n].kids} = {g[c[n].kids[i]] : i \in DOMAIN c[n].kids}
  BY <1>1
<1>3. c[n].k = "not" => f[c[n].kids[1]] = g[c[n].kids[1]]
  BY <1>1, ConditionFacts
<1>4. c[n].k \in {"cmp", "all", "any", "not"}
  BY ConditionFacts
<1> QED BY <1>2, <1>3, <1>4 DEF VerdictOf

LEMMA MayFromKids ==
  ASSUME NEW c, IsCondition(c), NEW n \in DOMAIN c, NEW f, NEW g, \A m \in 1..(n - 1) : f[m] = g[m]
  PROVE  MayOf(c, f, n) = MayOf(c, g, n)
<1>1. \A i \in DOMAIN c[n].kids : f[c[n].kids[i]] = g[c[n].kids[i]]
  BY ConditionFacts DEF KidsOf
<1>2. c[n].k = "not" => f[c[n].kids[1]] = g[c[n].kids[1]]
  BY <1>1, ConditionFacts
<1>3. c[n].k \in {"cmp", "all", "any", "not"}
  BY ConditionFacts
<1> QED BY <1>1, <1>2, <1>3 DEF MayOf

\* The recursion from the leaves up defines the verdict of every node.
LEMMA VerdictEquation ==
  ASSUME NEW c, IsCondition(c), NEW records
  PROVE  \A n \in DOMAIN c : Verdicts(c, records)[n] = VerdictOf(c, records, Verdicts(c, records), n)
<1> DEFINE N == Len(c)
           Solves(f, d) == \A n \in 1..d : f[n] = VerdictOf(c, records, f, n)
           T == {d \in Nat : d <= N => \E f : Solves(f, d)}
<1>1. N \in Nat /\ DOMAIN c = 1..N
  BY ConditionFacts
<1> HIDE DEF N
<1>2. 0 \in T
  OBVIOUS
<1>3. ASSUME NEW d \in Nat, d \in T PROVE d + 1 \in T
  <2> SUFFICES ASSUME d + 1 <= N PROVE \E f : Solves(f, d + 1)
    OBVIOUS
  <2>1. PICK f : Solves(f, d)
    BY <1>1, <1>3
  <2> DEFINE g == [m \in 1..N |-> IF m = d + 1 THEN VerdictOf(c, records, f, m) ELSE f[m]]
  <2>2. (\A m \in 1..d : g[m] = f[m]) /\ g[d + 1] = VerdictOf(c, records, f, d + 1)
    BY <1>1
  <2> HIDE DEF g
  <2>3. ASSUME NEW n \in 1..(d + 1) PROVE g[n] = VerdictOf(c, records, g, n)
    <3>1. n \in DOMAIN c /\ \A m \in 1..(n - 1) : g[m] = f[m]
      BY <1>1, <2>2
    <3>2. VerdictOf(c, records, g, n) = VerdictOf(c, records, f, n)
      BY <3>1, VerdictFromKids
    <3>3. CASE n = d + 1
      BY <2>2, <3>2, <3>3
    <3>4. CASE n # d + 1
      <4>1. n \in 1..d
        BY <3>4
      <4> QED BY <2>1, <2>2, <3>2, <4>1
    <3> QED BY <3>3, <3>4
  <2> QED BY <2>3
<1>4. \E f : Solves(f, N)
  <2>1. N \in T
    <3> HIDE DEF T
    <3> QED BY <1>1, <1>2, <1>3, EveryNumber
  <2> QED BY <1>1, <2>1
<1>5. PICK f : \A n \in 1..N : f[n] = VerdictOf(c, records, f, n)
  BY <1>4
<1> DEFINE h == [n \in DOMAIN c |-> f[n]]
<1>6. \A n \in DOMAIN c : h[n] = VerdictOf(c, records, h, n)
  <2> SUFFICES ASSUME NEW n \in DOMAIN c PROVE f[n] = VerdictOf(c, records, h, n)
    OBVIOUS
  <2>1. \A m \in 1..(n - 1) : h[m] = f[m]
    BY <1>1
  <2> HIDE DEF h
  <2>2. VerdictOf(c, records, h, n) = VerdictOf(c, records, f, n)
    BY <2>1, VerdictFromKids
  <2> QED BY <1>1, <1>5, <2>2
<1> DEFINE verdict[n \in DOMAIN c] ==
             LET kids == {verdict[c[n].kids[i]] : i \in DOMAIN c[n].kids}
             IN CASE c[n].k = "cmp" -> EvaluateCompare(c[n], records)
                  [] c[n].k = "not" -> Opposite(verdict[c[n].kids[1]])
                  [] c[n].k = "all" -> Combine(kids, "F", "T")
                  [] c[n].k = "any" -> Combine(kids, "T", "F")
<1>7. h = [n \in DOMAIN c |-> VerdictOf(c, records, h, n)]
  <2>1. h = [n \in DOMAIN c |-> h[n]]
    OBVIOUS
  <2> HIDE DEF h
  <2> QED BY <1>6, <2>1
<1>8. verdict = [n \in DOMAIN c |-> VerdictOf(c, records, verdict, n)]
  <2> HIDE DEF h
  <2> QED BY <1>7 DEF verdict, VerdictOf
<1>9. Verdicts(c, records) = verdict
  BY DEF Verdicts, verdict
<1> HIDE DEF verdict
<1> QED BY <1>8, <1>9

\* The recursion from the leaves up defines what every node may come to.
LEMMA MayEquation ==
  ASSUME NEW c, IsCondition(c)
  PROVE  \A n \in DOMAIN c : MaySettle(c)[n] = MayOf(c, MaySettle(c), n)
<1> DEFINE N == Len(c)
           Solves(f, d) == \A n \in 1..d : f[n] = MayOf(c, f, n)
           T == {d \in Nat : d <= N => \E f : Solves(f, d)}
<1>1. N \in Nat /\ DOMAIN c = 1..N
  BY ConditionFacts
<1> HIDE DEF N
<1>2. 0 \in T
  OBVIOUS
<1>3. ASSUME NEW d \in Nat, d \in T PROVE d + 1 \in T
  <2> SUFFICES ASSUME d + 1 <= N PROVE \E f : Solves(f, d + 1)
    OBVIOUS
  <2>1. PICK f : Solves(f, d)
    BY <1>1, <1>3
  <2> DEFINE g == [m \in 1..N |-> IF m = d + 1 THEN MayOf(c, f, m) ELSE f[m]]
  <2>2. (\A m \in 1..d : g[m] = f[m]) /\ g[d + 1] = MayOf(c, f, d + 1)
    BY <1>1
  <2> HIDE DEF g
  <2>3. ASSUME NEW n \in 1..(d + 1) PROVE g[n] = MayOf(c, g, n)
    <3>1. n \in DOMAIN c /\ \A m \in 1..(n - 1) : g[m] = f[m]
      BY <1>1, <2>2
    <3>2. MayOf(c, g, n) = MayOf(c, f, n)
      BY <3>1, MayFromKids
    <3>3. CASE n = d + 1
      BY <2>2, <3>2, <3>3
    <3>4. CASE n # d + 1
      <4>1. n \in 1..d
        BY <3>4
      <4> QED BY <2>1, <2>2, <3>2, <4>1
    <3> QED BY <3>3, <3>4
  <2> QED BY <2>3
<1>4. \E f : Solves(f, N)
  <2>1. N \in T
    <3> HIDE DEF T
    <3> QED BY <1>1, <1>2, <1>3, EveryNumber
  <2> QED BY <1>1, <2>1
<1>5. PICK f : \A n \in 1..N : f[n] = MayOf(c, f, n)
  BY <1>4
<1> DEFINE h == [n \in DOMAIN c |-> f[n]]
<1>6. \A n \in DOMAIN c : h[n] = MayOf(c, h, n)
  <2> SUFFICES ASSUME NEW n \in DOMAIN c PROVE f[n] = MayOf(c, h, n)
    OBVIOUS
  <2>1. \A m \in 1..(n - 1) : h[m] = f[m]
    BY <1>1
  <2> HIDE DEF h
  <2>2. MayOf(c, h, n) = MayOf(c, f, n)
    BY <2>1, MayFromKids
  <2> QED BY <1>1, <1>5, <2>2
<1> DEFINE may[n \in DOMAIN c] ==
             {b \in BOOLEAN :
                CASE c[n].k = "cmp" -> TRUE
                  [] c[n].k = "not" -> (~b) \in may[c[n].kids[1]]
                  [] c[n].k \in {"all", "any"} ->
                        IF b = (c[n].k = "all") THEN \A i \in DOMAIN c[n].kids : b \in may[c[n].kids[i]]
                                                ELSE \E i \in DOMAIN c[n].kids : b \in may[c[n].kids[i]]}
<1>7. h = [n \in DOMAIN c |-> MayOf(c, h, n)]
  <2>1. h = [n \in DOMAIN c |-> h[n]]
    OBVIOUS
  <2> HIDE DEF h
  <2> QED BY <1>6, <2>1
<1>8. may = [n \in DOMAIN c |-> MayOf(c, may, n)]
  <2> HIDE DEF h
  <2> QED BY <1>7 DEF may, MayOf
<1>9. MaySettle(c) = may
  BY DEF MaySettle, may
<1> HIDE DEF may
<1> QED BY <1>8, <1>9

-----------------------------------------------------------------------------
(* What a node's verdict says of its kids'.                                *)

Words4 == {"T", "F", "U", "raise"}

LEMMA LeafVerdicts ==
  ASSUME NEW leaf, NEW records
  PROVE  EvaluateCompare(leaf, records) \in Words4
BY DEF EvaluateCompare, Applied, Truth, Words4

LEMMA CombineFacts ==
  ASSUME NEW verdicts, verdicts \subseteq Words4, NEW dominant, NEW other,
         {dominant, other} = {"T", "F"}
  PROVE  /\ Combine(verdicts, dominant, other) \in Words4
         /\ Combine(verdicts, dominant, other) = "raise" <=> "raise" \in verdicts
         /\ Combine(verdicts, dominant, other) = dominant <=> dominant \in verdicts /\ "raise" \notin verdicts
         /\ Combine(verdicts, dominant, other) = other <=> verdicts \subseteq {other}
<1>1. dominant # other /\ dominant \in {"T", "F"} /\ other \in {"T", "F"}
  <2>1. dominant \in {"T", "F"} /\ other \in {"T", "F"} /\ "T" \in {dominant, other} /\ "F" \in {dominant, other}
    OBVIOUS
  <2> QED BY <2>1
<1> QED BY <1>1 DEF Combine, Words4

LEMMA VerdictsAreWords ==
  ASSUME NEW c, IsCondition(c), NEW records
  PROVE  \A n \in DOMAIN c : Verdicts(c, records)[n] \in Words4
<1> DEFINE v == Verdicts(c, records)
           P == {n \in DOMAIN c : v[n] \in Words4}
<1> HIDE DEF v
<1>1. Len(c) \in Nat /\ DOMAIN c = 1..Len(c)
  BY ConditionFacts
<1>2. ASSUME NEW n \in 1..Len(c), 1..(n - 1) \subseteq P PROVE n \in P
  <2>1. n \in DOMAIN c
    BY <1>1
  <2>2. v[n] = VerdictOf(c, records, v, n) /\ c[n].k \in {"cmp", "all", "any", "not"}
    BY <2>1, VerdictEquation, ConditionFacts DEF v
  <2>3. \A i \in DOMAIN c[n].kids : v[c[n].kids[i]] \in Words4
    BY <1>2, <2>1, ConditionFacts DEF KidsOf
  <2>4. {v[c[n].kids[i]] : i \in DOMAIN c[n].kids} \subseteq Words4
    BY <2>3
  <2>5. CASE c[n].k = "cmp"
    BY <2>1, <2>2, <2>5, LeafVerdicts DEF VerdictOf
  <2>6. CASE c[n].k = "not"
    <3>1. v[c[n].kids[1]] \in Words4
      BY <2>1, <2>3, <2>6, ConditionFacts
    <3> QED BY <2>1, <2>2, <2>6, <3>1 DEF VerdictOf, Opposite, Words4
  <2>7. CASE c[n].k = "all"
    <3> DEFINE kids == {v[c[n].kids[i]] : i \in DOMAIN c[n].kids}
    <3>1. v[n] = Combine(kids, "F", "T")
      BY <2>2, <2>7 DEF VerdictOf
    <3> HIDE DEF kids
    <3>2. kids \subseteq Words4
      BY <2>4 DEF kids
    <3>3. Combine(kids, "F", "T") \in Words4
      BY <3>2, CombineFacts
    <3> QED BY <2>1, <3>1, <3>3
  <2>8. CASE c[n].k = "any"
    <3> DEFINE kids == {v[c[n].kids[i]] : i \in DOMAIN c[n].kids}
    <3>1. v[n] = Combine(kids, "T", "F")
      BY <2>2, <2>8 DEF VerdictOf
    <3> HIDE DEF kids
    <3>2. kids \subseteq Words4
      BY <2>4 DEF kids
    <3>3. Combine(kids, "T", "F") \in Words4
      BY <3>2, CombineFacts
    <3> QED BY <2>1, <3>1, <3>3
  <2> QED BY <2>2, <2>5, <2>6, <2>7, <2>8
<1> HIDE DEF P
<1>3. 1..Len(c) \subseteq P
  BY <1>1, <1>2, FromTheKidsUp
<1> QED BY <1>1, <1>3 DEF P, v

\* Node by node: what a verdict is, in terms of the kids.
LEMMA NodeVerdict ==
  ASSUME NEW c, IsCondition(c), NEW records, NEW n \in DOMAIN c
  PROVE  /\ c[n].k = "cmp" => Verdicts(c, records)[n] = EvaluateCompare(c[n], records)
         /\ c[n].k = "not" =>
              /\ KidsOf(c, n) = {c[n].kids[1]}
              /\ Verdicts(c, records)[n] = Opposite(Verdicts(c, records)[c[n].kids[1]])
         /\ c[n].k \in {"all", "any"} =>
              (Verdicts(c, records)[n] = "raise" <=> \E m \in KidsOf(c, n) : Verdicts(c, records)[m] = "raise")
         /\ c[n].k = "all" =>
              /\ Verdicts(c, records)[n] = "T" <=> \A m \in KidsOf(c, n) : Verdicts(c, records)[m] = "T"
              /\ Verdicts(c, records)[n] = "F" <=>
                   /\ Verdicts(c, records)[n] # "raise"
                   /\ \E m \in KidsOf(c, n) : Verdicts(c, records)[m] = "F"
         /\ c[n].k = "any" =>
              /\ Verdicts(c, records)[n] = "F" <=> \A m \in KidsOf(c, n) : Verdicts(c, records)[m] = "F"
              /\ Verdicts(c, records)[n] = "T" <=>
                   /\ Verdicts(c, records)[n] # "raise"
                   /\ \E m \in KidsOf(c, n) : Verdicts(c, records)[m] = "T"
<1> DEFINE v == Verdicts(c, records)
<1> DEFINE kids == {v[c[n].kids[i]] : i \in DOMAIN c[n].kids}
<1>1. v[n] = VerdictOf(c, records, v, n)
  BY VerdictEquation
<1>2. kids = {v[m] : m \in KidsOf(c, n)}
  BY DEF KidsOf
<1>3. KidsOf(c, n) \subseteq DOMAIN c
  BY ConditionFacts
<1>4. kids \subseteq Words4
  <2>1. \A m \in KidsOf(c, n) : v[m] \in Words4
    BY <1>3, VerdictsAreWords
  <2> HIDE DEF kids
  <2> QED BY <1>2, <2>1
<1>5. c[n].k = "cmp" => v[n] = EvaluateCompare(c[n], records)
  BY <1>1 DEF VerdictOf
<1>6. c[n].k = "not" => KidsOf(c, n) = {c[n].kids[1]} /\ v[n] = Opposite(v[c[n].kids[1]])
  BY <1>1, ConditionFacts DEF VerdictOf, KidsOf
<1>7. c[n].k = "all" => v[n] = Combine(kids, "F", "T")
  BY <1>1 DEF VerdictOf
<1>8. c[n].k = "any" => v[n] = Combine(kids, "T", "F")
  BY <1>1 DEF VerdictOf
<1> HIDE DEF kids
<1>9. \A w : w \in kids <=> \E m \in KidsOf(c, n) : v[m] = w
  BY <1>2
<1>10. \A w : kids \subseteq {w} <=> \A m \in KidsOf(c, n) : v[m] = w
  BY <1>2
<1>11. /\ Combine(kids, "F", "T") = "raise" <=> "raise" \in kids
       /\ Combine(kids, "F", "T") = "F" <=> "F" \in kids /\ "raise" \notin kids
       /\ Combine(kids, "F", "T") = "T" <=> kids \subseteq {"T"}
       /\ Combine(kids, "T", "F") = "raise" <=> "raise" \in kids
       /\ Combine(kids, "T", "F") = "T" <=> "T" \in kids /\ "raise" \notin kids
       /\ Combine(kids, "T", "F") = "F" <=> kids \subseteq {"F"}
  BY <1>4, CombineFacts
<1> QED BY <1>5, <1>6, <1>7, <1>8, <1>9, <1>10, <1>11

\* Node by node: which truth values a node may come to.
LEMMA NodeMay ==
  ASSUME NEW c, IsCondition(c), NEW n \in DOMAIN c
  PROVE  /\ c[n].k = "cmp" => MaySettle(c)[n] = BOOLEAN
         /\ c[n].k = "not" => /\ TRUE \in MaySettle(c)[n] <=> FALSE \in MaySettle(c)[c[n].kids[1]]
                              /\ FALSE \in MaySettle(c)[n] <=> TRUE \in MaySettle(c)[c[n].kids[1]]
         /\ c[n].k = "all" => /\ TRUE \in MaySettle(c)[n] <=> \A m \in KidsOf(c, n) : TRUE \in MaySettle(c)[m]
                              /\ FALSE \in MaySettle(c)[n] <=> \E m \in KidsOf(c, n) : FALSE \in MaySettle(c)[m]
         /\ c[n].k = "any" => /\ FALSE \in MaySettle(c)[n] <=> \A m \in KidsOf(c, n) : FALSE \in MaySettle(c)[m]
                              /\ TRUE \in MaySettle(c)[n] <=> \E m \in KidsOf(c, n) : TRUE \in MaySettle(c)[m]
<1> DEFINE may == MaySettle(c)
<1>1. may[n] = MayOf(c, may, n)
  BY MayEquation
<1>2. c[n].k = "cmp" => may[n] = BOOLEAN
  BY <1>1 DEF MayOf
<1>3. ASSUME c[n].k = "not"
      PROVE  /\ TRUE \in may[n] <=> FALSE \in may[c[n].kids[1]]
             /\ FALSE \in may[n] <=> TRUE \in may[c[n].kids[1]]
  <2>1. \A b \in BOOLEAN : b \in may[n] <=> (~b) \in may[c[n].kids[1]]
    BY <1>1, <1>3 DEF MayOf
  <2>2. (~TRUE) = FALSE /\ (~FALSE) = TRUE
    OBVIOUS
  <2> QED BY <2>1, <2>2
<1>4. ASSUME c[n].k \in {"all", "any"}, NEW b \in BOOLEAN
      PROVE  b \in may[n] <=> IF b = (c[n].k = "all") THEN \A m \in KidsOf(c, n) : b \in may[m]
                                                       ELSE \E m \in KidsOf(c, n) : b \in may[m]
  BY <1>1, <1>4 DEF MayOf, KidsOf
<1>5. c[n].k = "all" => /\ TRUE \in may[n] <=> \A m \in KidsOf(c, n) : TRUE \in may[m]
                        /\ FALSE \in may[n] <=> \E m \in KidsOf(c, n) : FALSE \in may[m]
  BY <1>4
<1>6. c[n].k = "any" => /\ FALSE \in may[n] <=> \A m \in KidsOf(c, n) : FALSE \in may[m]
                        /\ TRUE \in may[n] <=> \E m \in KidsOf(c, n) : TRUE \in may[m]
  BY <1>4
<1> QED BY <1>2, <1>3, <1>5, <1>6

-----------------------------------------------------------------------------
(* A settled verdict stands.                                               *)

LEMMA SettledLeaf ==
  ASSUME NEW leaf, NEW small, NEW big, Extends(big, small), EvaluateCompare(leaf, small) # "U"
  PROVE  EvaluateCompare(leaf, big) = EvaluateCompare(leaf, small)
<1>1. leaf.entry \in DOMAIN small
  BY DEF EvaluateCompare
<1>2. leaf.entry \in DOMAIN big /\ big[leaf.entry] = small[leaf.entry]
  BY <1>1 DEF Extends
<1> QED BY <1>1, <1>2, Zenon DEF EvaluateCompare

LEMMA SettledNodes ==
  ASSUME NEW c, IsCondition(c), NEW small, NEW big, Extends(big, small)
  PROVE  \A n \in DOMAIN c :
           Verdicts(c, small)[n] \in {"T", "F"} => Verdicts(c, big)[n] \in {Verdicts(c, small)[n], "raise"}
<1> DEFINE v == Verdicts(c, small)
           w == Verdicts(c, big)
           P == {n \in DOMAIN c : v[n] \in {"T", "F"} => w[n] \in {v[n], "raise"}}
<1> HIDE DEF v, w
<1>1. Len(c) \in Nat /\ DOMAIN c = 1..Len(c)
  BY ConditionFacts
<1>2. ASSUME NEW n \in 1..Len(c), 1..(n - 1) \subseteq P PROVE n \in P
  <2> SUFFICES ASSUME v[n] \in {"T", "F"}, w[n] # "raise" PROVE w[n] = v[n]
    BY <1>1
  <2>1. n \in DOMAIN c /\ c[n].k \in {"cmp", "all", "any", "not"} /\ KidsOf(c, n) \subseteq 1..(n - 1)
    BY <1>1, ConditionFacts
  <2>2. \A m \in KidsOf(c, n) : v[m] \in {"T", "F"} => w[m] \in {v[m], "raise"}
    BY <1>2, <2>1
  <2>3. CASE c[n].k = "cmp"
    <3>1. v[n] = EvaluateCompare(c[n], small) /\ w[n] = EvaluateCompare(c[n], big)
      BY <2>1, <2>3, NodeVerdict DEF v, w
    <3> QED BY <3>1, SettledLeaf
  <2>4. CASE c[n].k = "not"
    <3> DEFINE m == c[n].kids[1]
    <3>1. m \in KidsOf(c, n) /\ v[n] = Opposite(v[m]) /\ w[n] = Opposite(w[m])
      BY <2>1, <2>4, NodeVerdict DEF v, w
    <3> HIDE DEF m
    <3>2. v[m] \in {"T", "F"}
      <4>1. m \in DOMAIN c
        BY <1>1, <2>1, <3>1
      <4>2. v[m] \in Words4
        BY <4>1, VerdictsAreWords DEF v
      <4> QED BY <3>1, <4>2 DEF Opposite, Words4
    <3> QED BY <2>2, <3>1, <3>2 DEF Opposite
  <2>5. CASE c[n].k = "all"
    <3>1. /\ w[n] = "raise" <=> \E m \in KidsOf(c, n) : w[m] = "raise"
          /\ w[n] = "T" <=> \A m \in KidsOf(c, n) : w[m] = "T"
          /\ w[n] = "F" <=> w[n] # "raise" /\ \E m \in KidsOf(c, n) : w[m] = "F"
      BY <2>1, <2>5, NodeVerdict DEF w
    <3>2. /\ v[n] = "T" <=> \A m \in KidsOf(c, n) : v[m] = "T"
          /\ v[n] = "F" => \E m \in KidsOf(c, n) : v[m] = "F"
      BY <2>1, <2>5, NodeVerdict DEF v
    <3> QED BY <2>2, <3>1, <3>2
  <2>6. CASE c[n].k = "any"
    <3>1. /\ w[n] = "raise" <=> \E m \in KidsOf(c, n) : w[m] = "raise"
          /\ w[n] = "F" <=> \A m \in KidsOf(c, n) : w[m] = "F"
          /\ w[n] = "T" <=> w[n] # "raise" /\ \E m \in KidsOf(c, n) : w[m] = "T"
      BY <2>1, <2>6, NodeVerdict DEF w
    <3>2. /\ v[n] = "F" <=> \A m \in KidsOf(c, n) : v[m] = "F"
          /\ v[n] = "T" => \E m \in KidsOf(c, n) : v[m] = "T"
      BY <2>1, <2>6, NodeVerdict DEF v
    <3> QED BY <2>2, <3>1, <3>2
  <2> QED BY <2>1, <2>3, <2>4, <2>5, <2>6
<1> HIDE DEF P
<1>3. 1..Len(c) \subseteq P
  BY <1>1, <1>2, FromTheKidsUp
<1> QED BY <1>1, <1>3 DEF P, v, w

LEMMA SettledJudged == Judged => SettledStays
<1> SUFFICES ASSUME Judged, Answered("condition"), NEW small \in Records, NEW big \in Records,
                    Extends(big, small), answer[small] \in {"T", "F"}
             PROVE  answer[big] \in {answer[small], "raise"}
  BY DEF SettledStays
<1>1. given \in Conditions /\ answer = [r \in Records |-> Evaluate(given, r)]
  BY DEF Judged, Answered
<1>2. IsCondition(given)
  BY <1>1, RulesAssumption DEF RecordsAssumption
<1>3. answer[small] = Verdicts(given, small)[Len(given)] /\ answer[big] = Verdicts(given, big)[Len(given)]
  BY <1>1 DEF Evaluate
<1>4. Len(given) \in DOMAIN given
  BY <1>2, ConditionFacts
<1> QED BY <1>2, <1>3, <1>4, SettledNodes

-----------------------------------------------------------------------------
(* The shape test is exact.                                                *)

LEMMA SettledMaySettle ==
  ASSUME NEW c, IsCondition(c), NEW records
  PROVE  \A n \in DOMAIN c : /\ Verdicts(c, records)[n] = "T" => TRUE \in MaySettle(c)[n]
                             /\ Verdicts(c, records)[n] = "F" => FALSE \in MaySettle(c)[n]
<1> DEFINE v == Verdicts(c, records)
           may == MaySettle(c)
           P == {n \in DOMAIN c : (v[n] = "T" => TRUE \in may[n]) /\ (v[n] = "F" => FALSE \in may[n])}
<1> HIDE DEF v, may
<1>1. Len(c) \in Nat /\ DOMAIN c = 1..Len(c)
  BY ConditionFacts
<1>2. ASSUME NEW n \in 1..Len(c), 1..(n - 1) \subseteq P PROVE n \in P
  <2>1. n \in DOMAIN c /\ c[n].k \in {"cmp", "all", "any", "not"} /\ KidsOf(c, n) \subseteq 1..(n - 1)
    BY <1>1, ConditionFacts
  <2>2. \A m \in KidsOf(c, n) : (v[m] = "T" => TRUE \in may[m]) /\ (v[m] = "F" => FALSE \in may[m])
    BY <1>2, <2>1
  <2>3. CASE c[n].k = "cmp"
    <3>1. may[n] = BOOLEAN
      BY <2>1, <2>3, NodeMay DEF may
    <3> QED BY <2>1, <3>1
  <2>4. CASE c[n].k = "not"
    <3> DEFINE m == c[n].kids[1]
    <3>1. m \in KidsOf(c, n) /\ v[n] = Opposite(v[m])
      BY <2>1, <2>4, NodeVerdict DEF v
    <3>2. /\ TRUE \in may[n] <=> FALSE \in may[m]
          /\ FALSE \in may[n] <=> TRUE \in may[m]
      BY <2>1, <2>4, NodeMay DEF may
    <3> HIDE DEF m
    <3> QED BY <2>1, <2>2, <3>1, <3>2 DEF Opposite
  <2>5. CASE c[n].k = "all"
    <3>1. /\ v[n] = "T" <=> \A m \in KidsOf(c, n) : v[m] = "T"
          /\ v[n] = "F" => \E m \in KidsOf(c, n) : v[m] = "F"
      BY <2>1, <2>5, NodeVerdict DEF v
    <3>2. /\ TRUE \in may[n] <=> \A m \in KidsOf(c, n) : TRUE \in may[m]
          /\ FALSE \in may[n] <=> \E m \in KidsOf(c, n) : FALSE \in may[m]
      BY <2>1, <2>5, NodeMay DEF may
    <3> QED BY <2>1, <2>2, <3>1, <3>2
  <2>6. CASE c[n].k = "any"
    <3>1. /\ v[n] = "F" <=> \A m \in KidsOf(c, n) : v[m] = "F"
          /\ v[n] = "T" => \E m \in KidsOf(c, n) : v[m] = "T"
      BY <2>1, <2>6, NodeVerdict DEF v
    <3>2. /\ FALSE \in may[n] <=> \A m \in KidsOf(c, n) : FALSE \in may[m]
          /\ TRUE \in may[n] <=> \E m \in KidsOf(c, n) : TRUE \in may[m]
      BY <2>1, <2>6, NodeMay DEF may
    <3> QED BY <2>1, <2>2, <3>1, <3>2
  <2> QED BY <2>1, <2>3, <2>4, <2>5, <2>6
<1> HIDE DEF P
<1>3. 1..Len(c) \subseteq P
  BY <1>1, <1>2, FromTheKidsUp
<1> QED BY <1>1, <1>3 DEF P, v, may

\* A verdict that is no error came of comparisons that are none.
LEMMA ErrorsRise ==
  ASSUME NEW c, IsCondition(c), NEW records, Verdicts(c, records)[Len(c)] # "raise"
  PROVE  \A n \in DOMAIN c : Verdicts(c, records)[n] # "raise"
<1> DEFINE v == Verdicts(c, records)
           P == {n \in DOMAIN c : v[n] # "raise"}
<1> HIDE DEF v
<1>1. Len(c) \in Nat /\ DOMAIN c = 1..Len(c)
  BY ConditionFacts
<1>2. ASSUME NEW n \in 1..Len(c), (n + 1)..Len(c) \subseteq P PROVE n \in P
  <2>1. CASE n = Len(c)
    BY <1>1, <2>1 DEF v
  <2>2. CASE n # Len(c)
    <3>1. PICK m \in DOMAIN c : \E i \in DOMAIN c[m].kids : c[m].kids[i] = n
      BY <1>1, <2>2 DEF IsCondition
    <3>2. n \in KidsOf(c, m)
      BY <3>1 DEF KidsOf
    <3>3. n \in 1..(m - 1) /\ m \in 1..Len(c)
      BY <1>1, <3>2, ConditionFacts
    <3>4. v[m] # "raise"
      BY <1>2, <3>3
    <3>5. c[m].k \in {"all", "any", "not"}
      BY <3>2, ConditionFacts
    <3> QED BY <3>2, <3>4, <3>5, NodeVerdict DEF v, Opposite
  <2> QED BY <2>1, <2>2
<1> HIDE DEF P
<1>3. 1..Len(c) \subseteq P
  BY <1>1, <1>2, FromTheRootDown
<1> QED BY <1>1, <1>3 DEF P, v

\* What a node's kid is to come out as for the node to.
Turned(node, verdict) == IF node.k = "not" THEN Opposite(verdict) ELSE verdict

\* Every node can be told what to come out as, from the root's "T" down.
LEMMA EveryNodeIsTold ==
  ASSUME NEW c, IsCondition(c)
  PROVE  \E told : /\ \A n \in DOMAIN c : told[n] \in {"T", "F"}
                  /\ told[Len(c)] = "T"
                  /\ \A p \in DOMAIN c : \A n \in KidsOf(c, p) : told[n] = Turned(c[p], told[p])
<1> DEFINE N == Len(c)
           Told(f, n) == /\ f[n] \in {"T", "F"}
                         /\ n = N => f[n] = "T"
                         /\ \A p \in 1..N : n \in KidsOf(c, p) => f[n] = Turned(c[p], f[p])
           Solves(f, d) == \A n \in (N - d + 1)..N : Told(f, n)
           T == {d \in Nat : d <= N => \E f : Solves(f, d)}
<1>1. N \in Nat /\ N >= 1 /\ DOMAIN c = 1..N /\ \A p \in 1..N : KidsOf(c, p) \subseteq 1..(p - 1)
  BY ConditionFacts
<1>2. ASSUME NEW n \in 1..N, n # N PROVE \E p \in (n + 1)..N : \A q \in 1..N : n \in KidsOf(c, q) <=> q = p
  <2>1. n \in DOMAIN c \ {Len(c)}
    BY <1>1, <1>2
  <2>2. PICK p \in DOMAIN c : \A q \in DOMAIN c : n \in KidsOf(c, q) <=> q = p
    <3>1. PICK p \in DOMAIN c : \A q \in DOMAIN c : (\E i \in DOMAIN c[q].kids : c[q].kids[i] = n) <=> q = p
      BY <2>1, Zenon DEF IsCondition
    <3>2. \A q \in DOMAIN c : n \in KidsOf(c, q) <=> \E i \in DOMAIN c[q].kids : c[q].kids[i] = n
      BY DEF KidsOf
    <3> QED BY <3>1, <3>2
  <2>3. n \in 1..(p - 1)
    BY <1>1, <2>2
  <2> QED BY <1>1, <2>2, <2>3
<1>3. \A n \in 1..N : \A p \in 1..N : n \in KidsOf(c, p) => n < p
  BY <1>1
<1>4. \A node, verdict : verdict \in {"T", "F"} => Turned(node, verdict) \in {"T", "F"}
  BY DEF Turned, Opposite
<1> HIDE DEF N
<1>5. 0 \in T
  BY <1>1
<1>6. ASSUME NEW d \in Nat, d \in T PROVE d + 1 \in T
  <2> SUFFICES ASSUME d + 1 <= N PROVE \E f : Solves(f, d + 1)
    OBVIOUS
  <2>1. PICK f : \A n \in (N - d + 1)..N : Told(f, n)
    BY <1>1, <1>6
  <2> DEFINE k == N - d
  <2>2. k \in 1..N /\ N - (d + 1) + 1 = k /\ N - d + 1 = k + 1
    BY <1>1
  <2>3. \E w \in {"T", "F"} : /\ k = N => w = "T"
                             /\ \A p \in 1..N : k \in KidsOf(c, p) => w = Turned(c[p], f[p])
    <3>1. CASE k = N
      BY <1>1, <1>3, <3>1
    <3>2. CASE k # N
      <4>1. PICK p \in (k + 1)..N : \A q \in 1..N : k \in KidsOf(c, q) <=> q = p
        BY <1>2, <2>2, <3>2
      <4>2. f[p] \in {"T", "F"}
        BY <2>1, <2>2
      <4>3. Turned(c[p], f[p]) \in {"T", "F"}
        BY <1>4, <4>2
      <4> QED BY <3>2, <4>1, <4>3
    <3> QED BY <3>1, <3>2
  <2>4. PICK w \in {"T", "F"} : /\ k = N => w = "T"
                               /\ \A p \in 1..N : k \in KidsOf(c, p) => w = Turned(c[p], f[p])
    BY <2>3
  <2> DEFINE g == [m \in 1..N |-> IF m = k THEN w ELSE f[m]]
  <2>5. g[k] = w /\ \A m \in 1..N : m # k => g[m] = f[m]
    BY <2>2
  <2> HIDE DEF g, k
  <2>6. ASSUME NEW n \in k..N PROVE Told(g, n)
    <3>1. n \in 1..N
      BY <1>1, <2>2
    <3>2. \A p \in 1..N : n \in KidsOf(c, p) => g[p] = f[p]
      BY <1>1, <1>3, <2>2, <2>5, <3>1
    <3>3. CASE n = k
      BY <2>4, <2>5, <3>2, <3>3
    <3>4. CASE n # k
      <4>1. n \in (N - d + 1)..N /\ g[n] = f[n]
        BY <1>1, <2>2, <2>5, <3>1, <3>4
      <4>2. Told(f, n)
        BY <2>1, <4>1
      <4> QED BY <3>2, <4>1, <4>2
    <3> QED BY <3>3, <3>4
  <2> HIDE DEF Told
  <2> QED BY <2>2, <2>6
<1>7. \E f : Solves(f, N)
  <2>1. N \in T
    <3> HIDE DEF T
    <3> QED BY <1>1, <1>5, <1>6, EveryNumber
  <2> QED BY <1>1, <2>1
<1>8. PICK f : \A n \in 1..N : Told(f, n)
  BY <1>1, <1>7
<1>9. \A p \in 1..N : \A n \in KidsOf(c, p) : n \in 1..N
  BY <1>1
<1>10. N \in 1..N
  BY <1>1
<1>11. /\ \A n \in 1..N : f[n] \in {"T", "F"}
       /\ f[N] = "T"
       /\ \A p \in 1..N : \A n \in KidsOf(c, p) : f[n] = Turned(c[p], f[p])
  BY <1>8, <1>9, <1>10
<1> QED BY <1>1, <1>11, Zenon DEF N

\* Comparisons that all come out as told make every node come out as told, if its shape lets it.
LEMMA ToldComesOut ==
  ASSUME NEW c, IsCondition(c), NEW told, NEW records,
         \A n \in DOMAIN c : told[n] \in {"T", "F"},
         \A p \in DOMAIN c : \A n \in KidsOf(c, p) : told[n] = Turned(c[p], told[p]),
         \A n \in LeavesOf(c) : EvaluateCompare(c[n], records) = told[n]
  PROVE  \A n \in DOMAIN c :
           /\ Verdicts(c, records)[n] \in {"T", "F"}
           /\ told[n] = "T" /\ TRUE \in MaySettle(c)[n] => Verdicts(c, records)[n] = "T"
           /\ told[n] = "F" /\ FALSE \in MaySettle(c)[n] => Verdicts(c, records)[n] = "F"
<1> DEFINE v == Verdicts(c, records)
           may == MaySettle(c)
           Out(n) == /\ v[n] \in {"T", "F"}
                     /\ told[n] = "T" /\ TRUE \in may[n] => v[n] = "T"
                     /\ told[n] = "F" /\ FALSE \in may[n] => v[n] = "F"
           P == {n \in DOMAIN c : Out(n)}
<1> HIDE DEF v, may
<1>1. Len(c) \in Nat /\ DOMAIN c = 1..Len(c)
  BY ConditionFacts
<1>2. ASSUME NEW n \in 1..Len(c), 1..(n - 1) \subseteq P PROVE Out(n)
  <2>1. n \in DOMAIN c /\ c[n].k \in {"cmp", "all", "any", "not"} /\ KidsOf(c, n) \subseteq 1..(n - 1)
    BY <1>1, ConditionFacts
  <2>2. \A m \in KidsOf(c, n) : Out(m) /\ told[m] = Turned(c[n], told[n])
    BY <1>2, <2>1
  <2>3. told[n] \in {"T", "F"} /\ v[n] \in Words4
    BY <2>1, VerdictsAreWords DEF v
  <2>4. CASE c[n].k = "cmp"
    <3>1. v[n] = told[n]
      BY <2>1, <2>4, NodeVerdict DEF v, LeavesOf
    <3> QED BY <2>3, <3>1
  <2>5. CASE c[n].k = "not"
    <3> DEFINE m == c[n].kids[1]
    <3>1. m \in KidsOf(c, n) /\ v[n] = Opposite(v[m])
      BY <2>1, <2>5, NodeVerdict DEF v
    <3>2. /\ TRUE \in may[n] <=> FALSE \in may[m]
          /\ FALSE \in may[n] <=> TRUE \in may[m]
      BY <2>1, <2>5, NodeMay DEF may
    <3> HIDE DEF m
    <3>3. Out(m) /\ told[m] = Opposite(told[n])
      BY <2>2, <2>5, <3>1 DEF Turned
    <3> QED BY <2>3, <3>1, <3>2, <3>3 DEF Opposite
  <2>6. CASE c[n].k = "all"
    <3>1. /\ v[n] = "raise" <=> \E m \in KidsOf(c, n) : v[m] = "raise"
          /\ v[n] = "T" <=> \A m \in KidsOf(c, n) : v[m] = "T"
          /\ v[n] = "F" <=> v[n] # "raise" /\ \E m \in KidsOf(c, n) : v[m] = "F"
      BY <2>1, <2>6, NodeVerdict DEF v
    <3>2. /\ TRUE \in may[n] <=> \A m \in KidsOf(c, n) : TRUE \in may[m]
          /\ FALSE \in may[n] <=> \E m \in KidsOf(c, n) : FALSE \in may[m]
      BY <2>1, <2>6, NodeMay DEF may
    <3>3. \A m \in KidsOf(c, n) : Out(m) /\ told[m] = told[n]
      BY <2>2, <2>6 DEF Turned
    <3> QED BY <3>1, <3>2, <3>3
  <2>7. CASE c[n].k = "any"
    <3>1. /\ v[n] = "raise" <=> \E m \in KidsOf(c, n) : v[m] = "raise"
          /\ v[n] = "F" <=> \A m \in KidsOf(c, n) : v[m] = "F"
          /\ v[n] = "T" <=> v[n] # "raise" /\ \E m \in KidsOf(c, n) : v[m] = "T"
      BY <2>1, <2>7, NodeVerdict DEF v
    <3>2. /\ FALSE \in may[n] <=> \A m \in KidsOf(c, n) : FALSE \in may[m]
          /\ TRUE \in may[n] <=> \E m \in KidsOf(c, n) : TRUE \in may[m]
      BY <2>1, <2>7, NodeMay DEF may
    <3>3. \A m \in KidsOf(c, n) : Out(m) /\ told[m] = told[n]
      BY <2>2, <2>7 DEF Turned
    <3> QED BY <3>1, <3>2, <3>3
  <2> QED BY <2>1, <2>4, <2>5, <2>6, <2>7
<1>3. \A n \in 1..Len(c) : 1..(n - 1) \subseteq P => n \in P
  BY <1>1, <1>2
<1> HIDE DEF P, Out
<1>4. 1..Len(c) \subseteq P
  BY <1>1, <1>3, FromTheKidsUp
<1> QED BY <1>1, <1>4 DEF P, Out, v, may

LEMMA SettleableJudged == Judged => SettleableIsExact
<1> SUFFICES ASSUME Judged, Answered("condition"), \A r \in Records : answer[r] # "raise"
             PROVE  /\ (\E r \in Records : answer[r] = "T") => CanSettle(given, TRUE)
                    /\ CanSettle(given, TRUE) /\ Cardinality(LeavesOf(given)) = Cardinality(ReferencedFields(given))
                          => \E r \in Records : answer[r] = "T"
  BY Zenon DEF SettleableIsExact
<1>1. given \in Conditions /\ answer = [r \in Records |-> Evaluate(given, r)]
  BY DEF Judged, Answered
<1> DEFINE c == given
<1>2. IsCondition(c)
  BY <1>1, RulesAssumption DEF RecordsAssumption
<1>3. Len(c) \in DOMAIN c
  BY <1>2, ConditionFacts
<1>4. \A r \in Records : answer[r] = Verdicts(c, r)[Len(c)]
  BY <1>1 DEF Evaluate
<1>5. CanSettle(c, TRUE) <=> TRUE \in MaySettle(c)[Len(c)]
  BY DEF CanSettle
<1>6. ASSUME NEW r \in Records, answer[r] = "T" PROVE CanSettle(c, TRUE)
  BY <1>2, <1>3, <1>4, <1>5, <1>6, SettledMaySettle
<1>7. ASSUME CanSettle(c, TRUE), Cardinality(LeavesOf(c)) = Cardinality(ReferencedFields(c))
      PROVE  \E r \in Records : answer[r] = "T"
  <2>1. ASSUME NEW n \in LeavesOf(c), NEW r \in Records PROVE EvaluateCompare(c[n], r) # "raise"
    <3>1. n \in DOMAIN c /\ c[n].k = "cmp"
      BY DEF LeavesOf
    <3>2. Verdicts(c, r)[n] # "raise"
      BY <1>2, <1>4, <3>1, ErrorsRise
    <3> QED BY <1>2, <3>1, <3>2, NodeVerdict
  <2>2. Independent(c)
    BY <1>7, <2>1 DEF Independent
  <2>3. PICK told : /\ \A n \in DOMAIN c : told[n] \in {"T", "F"}
                    /\ told[Len(c)] = "T"
                    /\ \A p \in DOMAIN c : \A n \in KidsOf(c, p) : told[n] = Turned(c[p], told[p])
    BY <1>2, EveryNodeIsTold
  <2> DEFINE held == {n \in LeavesOf(c) : told[n] = "T"}
  <2>4. PICK r \in Records : \A n \in LeavesOf(c) : EvaluateCompare(c[n], r) = Truth(n \in held)
    <3>1. held \in SUBSET LeavesOf(c)
      OBVIOUS
    <3> HIDE DEF held
    <3> QED BY <1>1, <2>2, <3>1, RulesAssumption, Zenon DEF RecordsAssumption
  <2>5. \A n \in LeavesOf(c) : EvaluateCompare(c[n], r) = told[n]
    BY <2>3, <2>4 DEF Truth, LeavesOf
  <2>6. Verdicts(c, r)[Len(c)] = "T"
    <3>1. TRUE \in MaySettle(c)[Len(c)]
      BY <1>5, <1>7
    <3> QED BY <1>2, <1>3, <2>3, <2>5, <3>1, ToldComesOut
  <2> QED BY <1>4, <2>6
<1> QED BY <1>6, <1>7

\* For any conditions and records: a verdict reached is not taken back, no root plan is refused
\* whose done_when some records satisfy, and one whose comparisons read a field each is let
\* through only if some do.
THEOREM ConditionsHold == Deciding => []ConditionsAreHonest
<1>1. Judged => ConditionsAreHonest
  BY SettledJudged, SettleableJudged DEF ConditionsAreHonest
<1> QED BY <1>1, EveryAnswerIsJudged, PTL

-----------------------------------------------------------------------------
(* What deps reach.                                                        *)

\* The deps of what was reached so far, with it.
Further(far, graph) == far \cup UNION {graph[d] : d \in far \cap DOMAIN graph}

Stepwise(step, start, graph, N) ==
  /\ step[0] = start
  /\ \A n \in 1..N : step[n] = Further(step[n - 1], graph)

LEMMA ReachedEquation ==
  ASSUME NEW start, NEW graph, Cardinality(DOMAIN graph) \in Nat
  PROVE  \E step : /\ Stepwise(step, start, graph, Cardinality(DOMAIN graph))
                   /\ Reached(start, graph) = step[Cardinality(DOMAIN graph)]
<1> DEFINE N == Cardinality(DOMAIN graph)
           T == {d \in Nat : \E f : Stepwise(f, start, graph, d)}
<1>1. N \in Nat
  OBVIOUS
<1> HIDE DEF N
<1>2. 0 \in T
  <2> DEFINE f == [m \in {0} |-> start]
  <2>1. Stepwise(f, start, graph, 0)
    BY DEF Stepwise
  <2> HIDE DEF f
  <2> QED BY <2>1
<1>3. ASSUME NEW d \in Nat, d \in T PROVE d + 1 \in T
  <2>1. PICK f : Stepwise(f, start, graph, d)
    BY <1>3
  <2> DEFINE g == [m \in 0..(d + 1) |-> IF m = d + 1 THEN Further(f[d], graph) ELSE f[m]]
  <2>2. (\A m \in 0..d : g[m] = f[m]) /\ g[d + 1] = Further(f[d], graph)
    OBVIOUS
  <2> HIDE DEF g
  <2>3. g[0] = start
    BY <2>1, <2>2 DEF Stepwise
  <2>4. ASSUME NEW n \in 1..(d + 1) PROVE g[n] = Further(g[n - 1], graph)
    <3>1. n - 1 \in 0..d /\ g[n - 1] = f[n - 1]
      BY <2>2
    <3>2. CASE n = d + 1
      BY <2>2, <3>1, <3>2
    <3>3. CASE n # d + 1
      <4>1. n \in 1..d /\ n \in 0..d
        BY <3>3
      <4> QED BY <2>1, <2>2, <3>1, <4>1 DEF Stepwise
    <3> QED BY <3>2, <3>3
  <2>5. Stepwise(g, start, graph, d + 1)
    BY <2>3, <2>4 DEF Stepwise
  <2> QED BY <2>5
<1>4. N \in T
  <2> HIDE DEF T
  <2> QED BY <1>1, <1>2, <1>3, EveryNumber
<1>5. PICK f : Stepwise(f, start, graph, N)
  BY <1>4
<1> DEFINE h == [n \in 0..N |-> f[n]]
<1>6. \A n \in 0..N : h[n] = IF n = 0 THEN start ELSE Further(h[n - 1], graph)
  <2>1. h[0] = start
    BY <1>1, <1>5 DEF Stepwise
  <2>2. ASSUME NEW n \in 1..N PROVE h[n] = Further(h[n - 1], graph)
    <3>1. n \in 0..N /\ n - 1 \in 0..N
      BY <1>1
    <3>2. h[n] = f[n] /\ h[n - 1] = f[n - 1]
      BY <3>1
    <3> QED BY <1>5, <3>2 DEF Stepwise
  <2>3. \A n \in 0..N : n = 0 \/ n \in 1..N
    BY <1>1
  <2> HIDE DEF h
  <2> QED BY <2>1, <2>2, <2>3
<1>7. h = [n \in 0..N |-> h[n]]
  OBVIOUS
<1> HIDE DEF h
<1> DEFINE step[n \in 0..N] ==
             IF n = 0 THEN start ELSE step[n - 1] \cup UNION {graph[d] : d \in step[n - 1] \cap DOMAIN graph}
<1>8. h = [n \in 0..N |-> IF n = 0 THEN start ELSE Further(h[n - 1], graph)]
  BY <1>6, <1>7
<1>9. step = [n \in 0..N |-> IF n = 0 THEN start ELSE Further(step[n - 1], graph)]
  BY <1>8 DEF step, Further
<1>10. Reached(start, graph) = step[N]
  BY DEF Reached, step, N
<1> HIDE DEF step
<1>11. Stepwise(step, start, graph, N)
  BY <1>1, <1>9 DEF Stepwise
<1> QED BY <1>10, <1>11 DEF N

\* With as many steps as the graph has nodes, everything that can be reached was.
LEMMA ReachedIsClosed ==
  ASSUME NEW start, NEW graph, IsFiniteSet(DOMAIN graph)
  PROVE  /\ start \subseteq Reached(start, graph)
         /\ \A d \in Reached(start, graph) \cap DOMAIN graph : graph[d] \subseteq Reached(start, graph)
<1> DEFINE N == Cardinality(DOMAIN graph)
<1>1. N \in Nat
  BY FS_CardinalityType
<1>2. PICK step : Stepwise(step, start, graph, N) /\ Reached(start, graph) = step[N]
  BY <1>1, ReachedEquation
<1> HIDE DEF N
<1> DEFINE Seen(n) == step[n] \cap DOMAIN graph
           Closed(n) == \A d \in Seen(n) : graph[d] \subseteq step[n]
           T == {n \in Nat : n <= N => /\ start \subseteq step[n]
                                       /\ Closed(n) \/ Cardinality(Seen(n)) >= n + 1}
<1>3. \A n \in 0..N : IsFiniteSet(Seen(n)) /\ Cardinality(Seen(n)) \in Nat /\ Cardinality(Seen(n)) <= N
  BY FS_Subset, FS_CardinalityType DEF N
<1>4. 0 \in T
  <2>1. step[0] = start /\ 0 \in 0..N
    BY <1>1, <1>2 DEF Stepwise
  <2>2. CASE Seen(0) = {}
    BY <2>1, <2>2
  <2>3. CASE Seen(0) # {}
    <3>1. IsFiniteSet(Seen(0)) /\ Cardinality(Seen(0)) \in Nat
      BY <1>3, <2>1
    <3>2. Cardinality(Seen(0)) # 0
      <4> HIDE DEF Seen
      <4> QED BY <2>3, <3>1, FS_EmptySet
    <3> QED BY <2>1, <3>1, <3>2
  <2> QED BY <2>2, <2>3
<1>5. ASSUME NEW n \in Nat, n \in T PROVE n + 1 \in T
  <2> SUFFICES ASSUME n + 1 <= N PROVE /\ start \subseteq step[n + 1]
                                       /\ Closed(n + 1) \/ Cardinality(Seen(n + 1)) >= (n + 1) + 1
    OBVIOUS
  <2>1. n \in 0..N /\ n + 1 \in 0..N /\ n + 1 \in 1..N /\ (n + 1) - 1 = n
    BY <1>1
  <2>2. step[n + 1] = Further(step[n], graph)
    BY <1>2, <2>1 DEF Stepwise
  <2>3. start \subseteq step[n] /\ (Closed(n) \/ Cardinality(Seen(n)) >= n + 1)
    BY <1>1, <1>5, <2>1
  <2>4. step[n] \subseteq step[n + 1] /\ Seen(n) \subseteq Seen(n + 1)
    BY <2>2 DEF Further
  <2>5. \A d \in Seen(n) : graph[d] \subseteq step[n + 1]
    BY <2>2 DEF Further
  <2>6. CASE Seen(n + 1) = Seen(n)
    BY <2>3, <2>4, <2>5, <2>6
  <2>7. CASE Seen(n + 1) # Seen(n)
    <3>1. ~ Closed(n)
      <4> SUFFICES ASSUME Closed(n) PROVE step[n + 1] = step[n]
        BY <2>7
      <4> QED BY <2>2 DEF Further
    <3>2. Cardinality(Seen(n)) < Cardinality(Seen(n + 1))
      <4>1. IsFiniteSet(Seen(n + 1)) /\ Seen(n) \subseteq Seen(n + 1) /\ Seen(n) # Seen(n + 1)
        BY <1>3, <2>1, <2>4, <2>7
      <4> HIDE DEF Seen
      <4>2. Cardinality(Seen(n)) <= Cardinality(Seen(n + 1))
            /\ (Cardinality(Seen(n)) = Cardinality(Seen(n + 1)) => Seen(n) = Seen(n + 1))
        BY <4>1, FS_Subset
      <4>3. Cardinality(Seen(n)) \in Nat /\ Cardinality(Seen(n + 1)) \in Nat
        BY <1>3, <2>1 DEF Seen
      <4> QED BY <4>1, <4>2, <4>3
    <3>3. Cardinality(Seen(n)) \in Nat /\ Cardinality(Seen(n + 1)) \in Nat
      BY <1>3, <2>1
    <3> HIDE DEF Seen, Closed
    <3> QED BY <2>3, <2>4, <3>1, <3>2, <3>3
  <2> QED BY <2>6, <2>7
<1>6. N \in T
  <2> HIDE DEF T
  <2> QED BY <1>1, <1>4, <1>5, EveryNumber
<1>7. start \subseteq step[N] /\ Closed(N)
  <2>1. N \in 0..N /\ Cardinality(Seen(N)) \in Nat /\ Cardinality(Seen(N)) <= N
    BY <1>1, <1>3
  <2> HIDE DEF Seen, Closed
  <2> QED BY <1>1, <1>6, <2>1
<1> QED BY <1>2, <1>7

-----------------------------------------------------------------------------
(* Admission, spec by spec.                                                *)

Acyclic(graph) == \A ids \in SUBSET DOMAIN graph : ids # {} => \E id \in ids : graph[id] \cap ids = {}

Joined(graph, spec) ==
  [id \in DOMAIN graph \cup {spec.id} |-> IF id = spec.id THEN spec.deps ELSE graph[id]]

AdmitOne(graph, spec, limits) ==
  LET verdict == ValidateSpec(spec, limits, graph, <<>>)
  IN IF verdict.ok /\ verdict.complete THEN Joined(graph, spec) ELSE graph

LEMMA JoiningKeepsAcyclic ==
  ASSUME NEW graph, NEW spec, IsFiniteSet(DOMAIN graph), Acyclic(graph),
         \/ spec.deps = {}
         \/ spec.id \notin Reached(spec.deps, graph)
  PROVE  IsFiniteSet(DOMAIN Joined(graph, spec)) /\ Acyclic(Joined(graph, spec))
<1> DEFINE D == DOMAIN graph \cup {spec.id}
<1>1. DOMAIN Joined(graph, spec) = D
  BY DEF Joined
<1>2. IsFiniteSet(D)
  BY FS_AddElement
<1>3. ASSUME NEW id \in D PROVE Joined(graph, spec)[id] = IF id = spec.id THEN spec.deps ELSE graph[id]
  BY DEF Joined
<1>4. ASSUME NEW ids \in SUBSET D, ids # {} PROVE \E id \in ids : Joined(graph, spec)[id] \cap ids = {}
  <2>1. CASE spec.id \notin ids
    <3>1. ids \in SUBSET DOMAIN graph
      BY <2>1
    <3>2. PICK id \in ids : graph[id] \cap ids = {}
      BY <1>4, <3>1 DEF Acyclic
    <3>3. Joined(graph, spec)[id] = graph[id]
      BY <1>3, <2>1, <3>2
    <3> QED BY <3>2, <3>3
  <2>2. CASE spec.id \in ids /\ spec.deps \cap ids = {}
    <3>1. Joined(graph, spec)[spec.id] = spec.deps
      BY <1>3
    <3> QED BY <2>2, <3>1
  <2>3. CASE spec.id \in ids /\ spec.deps \cap ids # {}
    <3> DEFINE R == Reached(spec.deps, graph)
               J == ids \cap R
    <3>1. spec.deps \subseteq R /\ \A d \in R \cap DOMAIN graph : graph[d] \subseteq R
      BY ReachedIsClosed
    <3>2. spec.id \notin R
      BY <2>3
    <3> HIDE DEF R
    <3>3. J # {} /\ J \in SUBSET DOMAIN graph
      BY <2>3, <3>1, <3>2
    <3>4. PICK id \in J : graph[id] \cap J = {}
      BY <3>3 DEF Acyclic
    <3>5. graph[id] \subseteq R /\ id # spec.id /\ id \in ids
      BY <3>1, <3>2, <3>3, <3>4
    <3>6. graph[id] \cap ids = {}
      BY <3>4, <3>5
    <3>7. Joined(graph, spec)[id] = graph[id]
      BY <1>3, <3>5
    <3> QED BY <3>5, <3>6, <3>7
  <2> QED BY <2>1, <2>2, <2>3
<1> HIDE DEF D
<1> QED BY <1>1, <1>2, <1>4 DEF Acyclic

LEMMA AdmittingKeepsAcyclic ==
  ASSUME NEW graph, NEW spec, NEW limits, IsFiniteSet(DOMAIN graph), Acyclic(graph)
  PROVE  LET grown == AdmitOne(graph, spec, limits) IN IsFiniteSet(DOMAIN grown) /\ Acyclic(grown)
<1> DEFINE verdict == ValidateSpec(spec, limits, graph, <<>>)
<1>1. CASE verdict.ok /\ verdict.complete
  <2>1. CASE DOMAIN graph = {}
    <3>1. Skipped(spec, graph, <<>>) = {}
      BY <1>1 DEF ValidateSpec
    <3>2. spec.deps = {}
      BY <2>1, <3>1 DEF Skipped
    <3> QED BY <1>1, <3>2, JoiningKeepsAcyclic DEF AdmitOne
  <2>2. CASE DOMAIN graph # {}
    <3>1. ~ SpecDepReasons(spec, graph)
      BY <1>1, <2>2 DEF ValidateSpec
    <3>2. spec.id \notin Reached(spec.deps, graph)
      BY <3>1 DEF SpecDepReasons
    <3> QED BY <1>1, <3>2, JoiningKeepsAcyclic DEF AdmitOne
  <2> QED BY <2>1, <2>2
<1>2. CASE ~ (verdict.ok /\ verdict.complete)
  BY <1>2 DEF AdmitOne
<1> QED BY <1>1, <1>2

Admitting(after, specs, limits, N) ==
  /\ after[0] = <<>>
  /\ \A n \in 1..N : after[n] = AdmitOne(after[n - 1], specs[n], limits)

LEMMA AdmittedEquation ==
  ASSUME NEW specs, NEW limits, Len(specs) \in Nat
  PROVE  \E after : Admitting(after, specs, limits, Len(specs)) /\ Admitted(specs, limits) = after[Len(specs)]
<1> DEFINE N == Len(specs)
           T == {d \in Nat : \E f : Admitting(f, specs, limits, d)}
<1>1. N \in Nat
  OBVIOUS
<1> HIDE DEF N
<1>2. 0 \in T
  <2> DEFINE f == [m \in {0} |-> <<>>]
  <2>1. Admitting(f, specs, limits, 0)
    BY DEF Admitting
  <2> HIDE DEF f
  <2> QED BY <2>1
<1>3. ASSUME NEW d \in Nat, d \in T PROVE d + 1 \in T
  <2>1. PICK f : Admitting(f, specs, limits, d)
    BY <1>3
  <2> DEFINE g == [m \in 0..(d + 1) |-> IF m = d + 1 THEN AdmitOne(f[d], specs[d + 1], limits) ELSE f[m]]
  <2>2. (\A m \in 0..d : g[m] = f[m]) /\ g[d + 1] = AdmitOne(f[d], specs[d + 1], limits)
    OBVIOUS
  <2> HIDE DEF g
  <2>3. g[0] = <<>>
    BY <2>1, <2>2 DEF Admitting
  <2>4. ASSUME NEW n \in 1..(d + 1) PROVE g[n] = AdmitOne(g[n - 1], specs[n], limits)
    <3>1. n - 1 \in 0..d /\ g[n - 1] = f[n - 1]
      BY <2>2
    <3>2. CASE n = d + 1
      BY <2>2, <3>1, <3>2
    <3>3. CASE n # d + 1
      <4>1. n \in 1..d /\ n \in 0..d
        BY <3>3
      <4> QED BY <2>1, <2>2, <3>1, <4>1 DEF Admitting
    <3> QED BY <3>2, <3>3
  <2>5. Admitting(g, specs, limits, d + 1)
    BY <2>3, <2>4 DEF Admitting
  <2> QED BY <2>5
<1>4. N \in T
  <2> HIDE DEF T
  <2> QED BY <1>1, <1>2, <1>3, EveryNumber
<1>5. PICK f : Admitting(f, specs, limits, N)
  BY <1>4
<1> DEFINE h == [n \in 0..N |-> f[n]]
<1>6. \A n \in 0..N : h[n] = IF n = 0 THEN <<>> ELSE AdmitOne(h[n - 1], specs[n], limits)
  <2>1. h[0] = <<>>
    BY <1>1, <1>5 DEF Admitting
  <2>2. ASSUME NEW n \in 1..N PROVE h[n] = AdmitOne(h[n - 1], specs[n], limits)
    <3>1. n \in 0..N /\ n - 1 \in 0..N
      BY <1>1
    <3>2. h[n] = f[n] /\ h[n - 1] = f[n - 1]
      BY <3>1
    <3> QED BY <1>5, <3>2 DEF Admitting
  <2>3. \A n \in 0..N : n = 0 \/ n \in 1..N
    BY <1>1
  <2> HIDE DEF h
  <2> QED BY <2>1, <2>2, <2>3
<1>7. h = [n \in 0..N |-> h[n]]
  OBVIOUS
<1> HIDE DEF h
<1> DEFINE after[n \in 0..N] ==
             IF n = 0 THEN <<>>
             ELSE LET graph == after[n - 1]
                      verdict == ValidateSpec(specs[n], limits, graph, <<>>)
                  IN IF verdict.ok /\ verdict.complete
                     THEN [id \in DOMAIN graph \cup {specs[n].id} |->
                              IF id = specs[n].id THEN specs[n].deps ELSE graph[id]]
                     ELSE graph
<1>8. h = [n \in 0..N |-> IF n = 0 THEN <<>> ELSE AdmitOne(h[n - 1], specs[n], limits)]
  BY <1>6, <1>7
<1>9. after = [n \in 0..N |-> IF n = 0 THEN <<>> ELSE AdmitOne(after[n - 1], specs[n], limits)]
  BY <1>8 DEF after, AdmitOne, Joined
<1>10. Admitted(specs, limits) = after[N]
  BY DEF Admitted, after, N
<1> HIDE DEF after
<1>11. Admitting(after, specs, limits, N)
  BY <1>1, <1>9 DEF Admitting
<1> QED BY <1>10, <1>11 DEF N

LEMMA AdmittedAcyclic ==
  ASSUME NEW specs, NEW limits, Len(specs) \in Nat
  PROVE  Acyclic(Admitted(specs, limits))
<1> DEFINE N == Len(specs)
<1>1. PICK after : Admitting(after, specs, limits, N) /\ Admitted(specs, limits) = after[N]
  BY AdmittedEquation
<1>2. N \in Nat
  OBVIOUS
<1> HIDE DEF N
<1> DEFINE T == {n \in Nat : n <= N => IsFiniteSet(DOMAIN after[n]) /\ Acyclic(after[n])}
<1>3. 0 \in T
  <2>1. after[0] = <<>> /\ DOMAIN after[0] = {}
    BY <1>1 DEF Admitting
  <2> QED BY <2>1, FS_EmptySet DEF Acyclic
<1>4. ASSUME NEW n \in Nat, n \in T PROVE n + 1 \in T
  <2> SUFFICES ASSUME n + 1 <= N PROVE IsFiniteSet(DOMAIN after[n + 1]) /\ Acyclic(after[n + 1])
    OBVIOUS
  <2>1. n + 1 \in 1..N /\ (n + 1) - 1 = n /\ n <= N
    BY <1>2
  <2>2. after[n + 1] = AdmitOne(after[n], specs[n + 1], limits)
    BY <1>1, <2>1 DEF Admitting
  <2>3. IsFiniteSet(DOMAIN after[n]) /\ Acyclic(after[n])
    BY <1>4, <2>1
  <2> QED BY <2>2, <2>3, AdmittingKeepsAcyclic
<1>5. N \in T
  <2> HIDE DEF T
  <2> QED BY <1>2, <1>3, <1>4, EveryNumber
<1> QED BY <1>1, <1>2, <1>5

-----------------------------------------------------------------------------
(* The row a spec is placed on.                                            *)

\* Among finitely many rows of integer ranks there is a first of the cheapest.
LEMMA CheapestExists ==
  ASSUME NEW rows, NEW N \in Nat, NEW fit \in SUBSET (1..N), fit # {}, \A i \in 1..N : rows[i].rank \in Int
  PROVE  \E i \in fit : \A j \in fit : rows[i].rank < rows[j].rank \/ (rows[i].rank = rows[j].rank /\ i <= j)
<1> DEFINE Before(i, j) == rows[i].rank < rows[j].rank \/ (rows[i].rank = rows[j].rank /\ i <= j)
           Some(n) == fit \cap (1..n)
           T == {n \in Nat : n <= N /\ Some(n) # {} => \E i \in Some(n) : \A j \in Some(n) : Before(i, j)}
<1>1. 0 \in T
  OBVIOUS
<1>2. ASSUME NEW n \in Nat, n \in T PROVE n + 1 \in T
  <2> SUFFICES ASSUME n + 1 <= N, Some(n + 1) # {} PROVE \E i \in Some(n + 1) : \A j \in Some(n + 1) : Before(i, j)
    OBVIOUS
  <2>1. CASE n + 1 \notin fit
    <3>1. Some(n + 1) = Some(n)
      BY <2>1
    <3> QED BY <1>2, <3>1
  <2>2. CASE n + 1 \in fit /\ Some(n) = {}
    <3>1. Some(n + 1) = {n + 1}
      <4>1. \A i \in Some(n + 1) : i = n + 1
        BY <2>2
      <4> QED BY <2>2, <4>1
    <3>2. Before(n + 1, n + 1)
      BY <2>2
    <3> QED BY <3>1, <3>2
  <2>3. CASE n + 1 \in fit /\ Some(n) # {}
    <3>1. PICK i \in Some(n) : \A j \in Some(n) : Before(i, j)
      BY <1>2, <2>3
    <3>2. \A j \in Some(n + 1) : j \in Some(n) \/ j = n + 1
      OBVIOUS
    <3>3. i \in Some(n + 1) /\ n + 1 \in Some(n + 1) /\ i < n + 1 /\ rows[i].rank \in Int /\ rows[n + 1].rank \in Int
      BY <2>3, <3>1
    <3>4. CASE rows[i].rank <= rows[n + 1].rank
      <4>1. Before(i, n + 1)
        BY <3>3, <3>4
      <4> HIDE DEF Before, Some
      <4> QED BY <3>1, <3>2, <3>3, <4>1
    <3>5. CASE ~ (rows[i].rank <= rows[n + 1].rank)
      <4>1. rows[n + 1].rank < rows[i].rank
        BY <3>3, <3>5
      <4>2. ASSUME NEW j \in Some(n) PROVE Before(n + 1, j)
        <5>1. Before(i, j) /\ rows[j].rank \in Int
          BY <3>1, <4>2
        <5> QED BY <3>3, <4>1, <5>1
      <4>3. Before(n + 1, n + 1)
        BY <2>3
      <4> HIDE DEF Before, Some
      <4> QED BY <3>2, <3>3, <4>2, <4>3
    <3> QED BY <3>4, <3>5
  <2> QED BY <2>1, <2>2, <2>3
<1>3. N \in T
  <2> HIDE DEF T
  <2> QED BY <1>1, <1>2, EveryNumber
<1>4. Some(N) = fit
  OBVIOUS
<1> QED BY <1>3, <1>4

LEMMA PlacedOnAnOffer ==
  ASSUME NEW rows, IsSequence(rows), \A i \in DOMAIN rows : rows[i].rank \in Int,
         NEW role, NEW model, ResolveRow(rows, role, model) # Rejected
  PROVE  \E i \in DOMAIN rows :
           /\ ResolveRow(rows, role, model) = rows[i]
           /\ rows[i].available
           /\ role # NoRole => role \in rows[i].roles
           /\ model = NoName => \A j \in DOMAIN rows :
                rows[j].available /\ role \in rows[j].roles => rows[i].rank <= rows[j].rank
<1>1. Len(rows) \in Nat /\ DOMAIN rows = 1..Len(rows)
  BY SequenceFacts
<1>2. CASE model # NoName
  <2> DEFINE named == {i \in DOMAIN rows : rows[i].alias = model}
             i == CHOOSE i \in named : \A j \in named : i <= j
  <2>1. ResolveByModel(rows, role, model) # Rejected /\ ResolveRow(rows, role, model) = ResolveByModel(rows, role, model)
    BY <1>2 DEF ResolveRow
  <2>2. named # {} /\ rows[i].available /\ (role # NoRole => role \in rows[i].roles) /\ ResolveByModel(rows, role, model) = rows[i]
    BY <2>1 DEF ResolveByModel
  <2>3. \E k \in named : \A j \in named : k <= j
    <3>1. named \subseteq Nat
      BY <1>1
    <3>2. \E x \in named : \A y \in named : ~ (<<y, x>> \in OpToRel(<, Nat))
      <4> HIDE DEF named
      <4> QED BY <2>2, <3>1, NatLessThanWellFounded, WFMin, Zenon
    <3>3. \E x \in named : \A y \in named : ~ (y < x)
      BY <3>1, <3>2, Zenon DEF OpToRel
    <3> HIDE DEF named
    <3> QED BY <3>1, <3>3
  <2>4. i \in named
    BY <2>3
  <2> QED BY <1>2, <2>1, <2>2, <2>4
<1>3. CASE model = NoName
  <2> DEFINE fit == {i \in DOMAIN rows : rows[i].available /\ role \in rows[i].roles}
             Best(k) == \A j \in fit : \/ rows[k].rank < rows[j].rank
                                       \/ rows[k].rank = rows[j].rank /\ k <= j
             i == CHOOSE k \in fit : Best(k)
  <2>1. role # NoRole /\ ResolveRow(rows, role, model) = Cheapest(rows, role)
    BY <1>3 DEF ResolveRow
  <2>2. fit # {} /\ Cheapest(rows, role) = rows[i]
    BY <2>1 DEF Cheapest
  <2>3. fit \in SUBSET (1..Len(rows))
    BY <1>1
  <2>4. \E k \in fit : Best(k)
    <3> HIDE DEF fit
    <3> QED BY <1>1, <2>2, <2>3, CheapestExists
  <2>5. i \in fit /\ Best(i)
    <3> HIDE DEF Best, fit
    <3> QED BY <2>4
  <2> HIDE DEF i
  <2>6. \A j \in DOMAIN rows : rows[j].available /\ role \in rows[j].roles => rows[i].rank <= rows[j].rank
    BY <2>5
  <2> QED BY <1>3, <2>1, <2>2, <2>5, <2>6
<1> QED BY <1>2, <1>3

\* What is let in can run (validate.py validate_spec, policy_yaml.py LoadedPolicy.resolve):
\* specs admitted one after the other never wait in a cycle, even when an id comes twice, and a
\* spec is placed on a row on offer that a wired executor runs, of the role asked for and no
\* dearer than it must be.
THEOREM AdmissionHolds == Deciding => []AdmittedCanRun
<1>1. ASSUME Judged PROVE AdmittedIsAcyclic
  <2> SUFFICES ASSUME Answered("specs") PROVE Acyclic(answer)
    BY DEF AdmittedIsAcyclic, Acyclic
  <2>1. given \in SpecsGiven /\ answer = Admitted(given.specs, given.limits)
    BY <1>1 DEF Judged, Answered
  <2>2. IsSequence(given.specs)
    BY <2>1, RulesAssumption DEF PolicyAssumption
  <2> QED BY <2>1, <2>2, SequenceFacts, AdmittedAcyclic
<1>2. ASSUME Judged PROVE PlacedWhereItRuns
  <2> SUFFICES ASSUME Answered("table"), answer # Rejected PROVE PlacedWhereItRuns
    BY Zenon DEF PlacedWhereItRuns
  <2>1. given \in TablesGiven /\ answer = LaunchResolves(given.table, given.spec)
    BY <1>2 DEF Judged, Answered
  <2> DEFINE rows == given.table.rows
             role == IF given.spec.role # NoRole \/ given.spec.kind \notin DOMAIN given.table.kindRole
                     THEN given.spec.role ELSE given.table.kindRole[given.spec.kind]
  <2>2. IsSequence(rows) /\ \A i \in DOMAIN rows : rows[i].rank \in Int
    BY <2>1, RulesAssumption DEF PolicyAssumption
  <2>3. ~ OffersUnwired(given.table) /\ answer = ResolveRow(rows, role, given.spec.model)
    BY <2>1 DEF LaunchResolves, Resolve
  <2>4. \A i \in DOMAIN rows : rows[i].available => rows[i].executor \in Wired
    BY <2>3 DEF OffersUnwired
  <2> HIDE DEF rows, role
  <2>5. PICK i \in DOMAIN rows :
           /\ ResolveRow(rows, role, given.spec.model) = rows[i]
           /\ rows[i].available
           /\ role # NoRole => role \in rows[i].roles
           /\ given.spec.model = NoName => \A j \in DOMAIN rows :
                rows[j].available /\ role \in rows[j].roles => rows[i].rank <= rows[j].rank
    BY <2>2, <2>3, PlacedOnAnOffer
  <2>6. answer = rows[i]
    BY <2>3, <2>5
  <2> QED BY <2>4, <2>5, <2>6 DEF PlacedWhereItRuns, rows, role
<1>3. ASSUME Judged PROVE AdmittedCanRun
  BY <1>1, <1>2, <1>3 DEF AdmittedCanRun
<1> QED BY <1>3, EveryAnswerIsJudged, PTL

-----------------------------------------------------------------------------
(* What an accepted plan is.                                               *)

LEMMA PlannedIsReallocated ==
  ASSUME NEW record, NEW plan, NEW graph, NEW limits, NEW isRoot, NEW fresh,
         PlanOrReasons(record, plan, graph, limits, isRoot, fresh).kind = "planned"
  PROVE  /\ PlanOrReasons(record, plan, graph, limits, isRoot, fresh).plan = Reallocated(plan, fresh)
         /\ ~ DuplicateIdReasons(plan)
         /\ ~ ContractReasons(plan, graph)
         /\ ~ DepReasons(plan, graph)
         /\ ~ SizeReasons(plan, limits)
<1> DEFINE v == ValidatePlan(plan, graph, limits, isRoot, fresh)
           outcome == PlanOrReasons(record, plan, graph, limits, isRoot, fresh)
<1>1. v.kind = "accepted" /\ outcome.plan = v.plan
  <2>1. \A why, again : NotPlanned(why, again).kind = "not_planned"
    BY DEF NotPlanned
  <2> HIDE DEF v
  <2>2. outcome = IF v.kind = "refused" THEN NotPlanned(v.reasons, TRUE)
                  ELSE [kind |-> IF v.kind = "accepted" THEN "planned" ELSE "raised",
                        reasons |-> v.reasons, replannable |-> TRUE, plan |-> v.plan]
    BY <2>1 DEF PlanOrReasons, v
  <2>3. v.kind # "refused"
    BY <2>1, <2>2
  <2> QED BY <2>2, <2>3
<1> DEFINE why == Refusals(plan, graph, limits, isRoot)
<1>2. ~ Raises(plan, isRoot) /\ why = {} /\ v.plan = Reallocated(plan, fresh)
  <2> HIDE DEF why
  <2> QED BY <1>1, Zenon DEF ValidatePlan, why, v
<1>3. \A r \in {"duplicate", "contract", "dep", "size"} : r \notin why
  BY <1>2
<1> QED BY <1>1, <1>2, <1>3 DEF Refusals

LEMMA IdsAreApart ==
  ASSUME NEW plan, IsSequence(plan.entries), ~ DuplicateIdReasons(plan)
  PROVE  \A i, j \in DOMAIN plan.entries : plan.entries[i].id = plan.entries[j].id => i = j
<1> DEFINE D == DOMAIN plan.entries
           f == [i \in D |-> plan.entries[i].id]
<1>1. D = 1..Len(plan.entries) /\ Len(plan.entries) \in Nat
  BY SequenceFacts
<1>2. IsFiniteSet(D) /\ Cardinality(D) = Len(plan.entries)
  BY <1>1, FS_Interval
<1>3. f \in Surjection(D, Ids(plan))
  BY DEF Ids, Surjection
<1>4. Cardinality(Ids(plan)) = Len(plan.entries)
  BY DEF DuplicateIdReasons
<1>5. f \in Injection(D, Ids(plan))
  <2> HIDE DEF D, f
  <2> QED BY <1>2, <1>3, <1>4, FS_Surjection
<1>6. \A i, j \in D : f[i] = f[j] => i = j
  <2> HIDE DEF D, f
  <2>1. f \in [D -> Ids(plan)] /\ \A i, j \in DOMAIN f : f[i] = f[j] => i = j
    BY <1>5 DEF Injection, IsInjective
  <2> QED BY <2>1
<1> QED BY <1>6

\* Every entry takes the fresh id of its place.
LEMMA MappingFacts ==
  ASSUME NEW plan, NEW fresh, IsSequence(plan.entries), ~ DuplicateIdReasons(plan),
         NEW K \in Nat, Len(plan.entries) <= K, \A i, j \in 1..K : fresh[i] = fresh[j] => i = j
  PROVE  LET new == Mapping(plan, fresh)
         IN /\ DOMAIN new = Ids(plan)
            /\ \A i \in DOMAIN plan.entries : new[plan.entries[i].id] = fresh[i]
            /\ \A id, other \in Ids(plan) : new[id] = new[other] => id = other
            /\ \A id \in Ids(plan) : \E i \in 1..K : new[id] = fresh[i]
<1> DEFINE new == Mapping(plan, fresh)
           place(id) == CHOOSE i \in DOMAIN plan.entries : plan.entries[i].id = id
<1>1. DOMAIN plan.entries = 1..Len(plan.entries) /\ Len(plan.entries) \in Nat /\ DOMAIN plan.entries \subseteq 1..K
  BY SequenceFacts
<1>2. DOMAIN new = Ids(plan) /\ \A id \in Ids(plan) : new[id] = fresh[place(id)]
  BY DEF Mapping
<1>3. ASSUME NEW id \in Ids(plan) PROVE place(id) \in DOMAIN plan.entries /\ plan.entries[place(id)].id = id
  BY DEF Ids
<1>4. ASSUME NEW i \in DOMAIN plan.entries PROVE new[plan.entries[i].id] = fresh[i]
  <2>1. plan.entries[i].id \in Ids(plan)
    BY DEF Ids
  <2>2. place(plan.entries[i].id) = i
    <3> HIDE DEF place
    <3> QED BY <1>3, <2>1, IdsAreApart
  <2> HIDE DEF place, new
  <2> QED BY <1>2, <2>1, <2>2
<1>5. ASSUME NEW id \in Ids(plan), NEW other \in Ids(plan), new[id] = new[other] PROVE id = other
  <2> HIDE DEF place, new
  <2>1. fresh[place(id)] = fresh[place(other)] /\ place(id) \in 1..K /\ place(other) \in 1..K
    BY <1>1, <1>2, <1>3, <1>5
  <2>2. place(id) = place(other)
    BY <2>1
  <2> QED BY <1>3, <2>2
<1>6. ASSUME NEW id \in Ids(plan) PROVE \E i \in 1..K : new[id] = fresh[i]
  <2> HIDE DEF place, new
  <2> QED BY <1>1, <1>2, <1>3
<1> QED BY <1>2, <1>4, <1>5, <1>6

LEMMA ReallocatedIds ==
  ASSUME NEW plan, NEW fresh, IsSequence(plan.entries), ~ DuplicateIdReasons(plan),
         \A i \in DOMAIN plan.entries : {"id", "deps", "acceptance"} \subseteq DOMAIN plan.entries[i],
         NEW K \in Nat, Len(plan.entries) <= K, \A i, j \in 1..K : fresh[i] = fresh[j] => i = j
  PROVE  /\ Ids(Reallocated(plan, fresh)) = {fresh[i] : i \in DOMAIN plan.entries}
         /\ Cardinality(Ids(Reallocated(plan, fresh))) = Len(plan.entries)
<1> DEFINE new == Mapping(plan, fresh)
           D == DOMAIN plan.entries
           S == {fresh[i] : i \in D}
           f == [i \in D |-> fresh[i]]
<1>1. D = 1..Len(plan.entries) /\ Len(plan.entries) \in Nat /\ D \subseteq 1..K
  BY SequenceFacts
<1>2. \A i \in D : new[plan.entries[i].id] = fresh[i]
  BY MappingFacts
<1>3. Reallocated(plan, fresh).entries = [i \in D |-> ReallocatedEntry(plan.entries[i], new)]
  BY DEF Reallocated
<1>4. ASSUME NEW i \in D PROVE Reallocated(plan, fresh).entries[i].id = fresh[i]
  <2>1. Reallocated(plan, fresh).entries[i] = ReallocatedEntry(plan.entries[i], new)
    BY <1>3
  <2>2. "id" \in DOMAIN plan.entries[i]
    OBVIOUS
  <2> HIDE DEF new
  <2>3. ReallocatedEntry(plan.entries[i], new).id = new[plan.entries[i].id]
    BY <2>2 DEF ReallocatedEntry
  <2> QED BY <1>2, <2>1, <2>3 DEF new
<1>5. Ids(Reallocated(plan, fresh)) = S
  <2>1. DOMAIN Reallocated(plan, fresh).entries = D
    BY <1>3
  <2> QED BY <1>4, <2>1 DEF Ids
<1>6. IsFiniteSet(D) /\ Cardinality(D) = Len(plan.entries)
  BY <1>1, FS_Interval
<1>7. f \in Surjection(D, S) /\ f \in Injection(D, S)
  <2>1. f \in [D -> S] /\ \A i, j \in DOMAIN f : f[i] = f[j] => i = j
    BY <1>1
  <2> QED BY <2>1 DEF Surjection, Injection, IsInjective
<1>8. Cardinality(S) = Cardinality(D)
  <2> HIDE DEF D, S, f
  <2> QED BY <1>6, <1>7, FS_Surjection
<1> QED BY <1>5, <1>6, <1>8

-----------------------------------------------------------------------------
(* A condition read over renumbered records.                               *)

LEMMA RemapIsCondition ==
  ASSUME NEW c, IsCondition(c), NEW new
  PROVE  /\ IsCondition(Remap(c, new))
         /\ DOMAIN Remap(c, new) = DOMAIN c /\ Len(Remap(c, new)) = Len(c)
         /\ \A n \in DOMAIN c : /\ Remap(c, new)[n] = RenamedLeaf(c[n], new)
                                /\ Remap(c, new)[n].k = c[n].k
                                /\ Remap(c, new)[n].kids = c[n].kids
<1> DEFINE d == Remap(c, new)
<1>1. Len(c) \in Nat /\ Len(c) >= 1 /\ DOMAIN c = 1..Len(c)
  BY ConditionFacts
<1>2. DOMAIN d = DOMAIN c /\ \A n \in DOMAIN c : d[n] = RenamedLeaf(c[n], new)
  BY DEF Remap
<1>3. d = [n \in 1..Len(c) |-> RenamedLeaf(c[n], new)]
  BY <1>1 DEF Remap
<1>4. IsSequence(d) /\ Len(d) = Len(c) /\ d # <<>>
  <2>1. d \in [1..Len(c) -> {d[i] : i \in DOMAIN d}]
    BY <1>1, <1>2, <1>3
  <2> HIDE DEF d
  <2>2. d \in Seq({d[i] : i \in DOMAIN d})
    BY <1>1, <2>1
  <2>3. Len(d) = Len(c)
    BY <1>1, <1>2, <2>2
  <2> QED BY <1>1, <2>2, <2>3 DEF IsSequence
<1> HIDE DEF d
<1>5. ASSUME NEW n \in DOMAIN c
      PROVE  d[n].k = c[n].k /\ d[n].kids = c[n].kids /\ DOMAIN d[n] = DOMAIN c[n]
  <2>1. {"k", "kids"} \subseteq DOMAIN c[n] /\ d[n] = RenamedLeaf(c[n], new)
    BY <1>2 DEF IsCondition
  <2> QED BY <2>1 DEF RenamedLeaf
<1>6. IsTree(d)
  <2>1. IsTree(c)
    BY DEF IsCondition
  <2> QED BY <1>2, <1>4, <1>5, <2>1 DEF IsTree
<1>7. \A n \in DOMAIN c \ {Len(c)} : \E parent \in DOMAIN c :
          \A m \in DOMAIN c : (\E i \in DOMAIN c[m].kids : c[m].kids[i] = n) <=> m = parent
  BY DEF IsCondition
<1>8. ASSUME NEW n \in DOMAIN d \ {Len(d)}
      PROVE  \E parent \in DOMAIN d :
                \A m \in DOMAIN d : (\E i \in DOMAIN d[m].kids : d[m].kids[i] = n) <=> m = parent
  <2>1. n \in DOMAIN c \ {Len(c)}
    BY <1>2, <1>4
  <2>2. PICK parent \in DOMAIN c :
           \A m \in DOMAIN c : (\E i \in DOMAIN c[m].kids : c[m].kids[i] = n) <=> m = parent
    BY <1>7, <2>1
  <2>3. \A m \in DOMAIN d : (\E i \in DOMAIN d[m].kids : d[m].kids[i] = n) <=> m = parent
    BY <1>2, <1>5, <2>2
  <2> QED BY <1>2, <2>2, <2>3
<1>9. \A n \in DOMAIN d :
          /\ {"k", "kids"} \subseteq DOMAIN d[n]
          /\ d[n].k \in {"cmp", "all", "any", "not"}
          /\ d[n].k = "cmp" => d[n].kids = <<>> /\ {"entry", "field", "op", "value"} \subseteq DOMAIN d[n]
          /\ d[n].k = "not" => Len(d[n].kids) = 1
  BY <1>2, <1>5 DEF IsCondition
<1> QED BY <1>2, <1>4, <1>5, <1>6, <1>8, <1>9 DEF IsCondition, d

\* A node's id as the accepted plan has it, and the ids no fresh one can be taken for.
Named(id, new) == IF id \in DOMAIN new THEN new[id] ELSE id
Known(id, new) == id \in DOMAIN new \/ \A own \in DOMAIN new : new[own] # id
Apart(new) == \A id, other \in DOMAIN new : new[id] = new[other] => id = other

LEMMA NamedApart ==
  ASSUME NEW new, Apart(new), NEW i, NEW j, Known(i, new), Known(j, new), Named(i, new) = Named(j, new)
  PROVE  i = j
BY DEF Apart, Known, Named

\* The records under their new ids.
LEMMA RenumberedFacts ==
  ASSUME NEW records, NEW new, Apart(new), \A i \in DOMAIN records : Known(i, new), NEW id, Known(id, new)
  PROVE  LET seen == Renumbered(records, new)
         IN /\ Named(id, new) \in DOMAIN seen <=> id \in DOMAIN records
            /\ id \in DOMAIN records => seen[Named(id, new)] = records[id]
<1> DEFINE seen == Renumbered(records, new)
<1>1. seen = [n \in {Named(i, new) : i \in DOMAIN records} |->
                 records[CHOOSE i \in DOMAIN records : Named(i, new) = n]]
  BY DEF Renumbered, Named
<1> HIDE DEF seen
<1>2. Named(id, new) \in DOMAIN seen => id \in DOMAIN records
  <2> SUFFICES ASSUME Named(id, new) \in DOMAIN seen PROVE id \in DOMAIN records
    OBVIOUS
  <2>1. PICK i \in DOMAIN records : Named(i, new) = Named(id, new)
    BY <1>1
  <2>2. Known(i, new)
    OBVIOUS
  <2>3. i = id
    BY <2>1, <2>2, NamedApart
  <2> QED BY <2>3
<1>3. ASSUME id \in DOMAIN records
      PROVE  Named(id, new) \in DOMAIN seen /\ seen[Named(id, new)] = records[id]
  <2>1. \A i \in DOMAIN records : Named(i, new) = Named(id, new) => i = id
    BY NamedApart
  <2>2. (CHOOSE i \in DOMAIN records : Named(i, new) = Named(id, new)) = id
    BY <1>3, <2>1
  <2>3. Named(id, new) \in {Named(i, new) : i \in DOMAIN records}
    BY <1>3
  <2> QED BY <1>1, <2>2, <2>3
<1> QED BY <1>2, <1>3 DEF seen

LEMMA RenamedLeafReads ==
  ASSUME NEW records, NEW new, Apart(new), \A i \in DOMAIN records : Known(i, new),
         NEW leaf, leaf.k = "cmp", {"k", "kids", "entry", "field", "op", "value"} \subseteq DOMAIN leaf,
         Known(leaf.entry, new)
  PROVE  EvaluateCompare(RenamedLeaf(leaf, new), Renumbered(records, new)) = EvaluateCompare(leaf, records)
<1> DEFINE seen == Renumbered(records, new)
           leafN == RenamedLeaf(leaf, new)
<1>1. /\ leafN.field = leaf.field /\ leafN.op = leaf.op /\ leafN.value = leaf.value
      /\ leafN.entry = Named(leaf.entry, new)
  BY DEF RenamedLeaf, Named
<1>2. /\ Named(leaf.entry, new) \in DOMAIN seen <=> leaf.entry \in DOMAIN records
      /\ leaf.entry \in DOMAIN records => seen[Named(leaf.entry, new)] = records[leaf.entry]
  <2> DEFINE id == leaf.entry
  <2>1. Known(id, new)
    OBVIOUS
  <2> HIDE DEF id
  <2>2. /\ Named(id, new) \in DOMAIN seen <=> id \in DOMAIN records
        /\ id \in DOMAIN records => seen[Named(id, new)] = records[id]
    BY <2>1, RenumberedFacts
  <2> QED BY <2>2 DEF id
<1> HIDE DEF seen, leafN
<1> QED BY <1>1, <1>2 DEF EvaluateCompare, seen, leafN

LEMMA RemapReadsTheSame ==
  ASSUME NEW c, IsCondition(c), NEW records, NEW new, Apart(new), \A i \in DOMAIN records : Known(i, new),
         \A n \in LeavesOf(c) : Known(c[n].entry, new)
  PROVE  Evaluate(Remap(c, new), Renumbered(records, new)) = Evaluate(c, records)
<1> DEFINE d == Remap(c, new)
           seen == Renumbered(records, new)
           v == Verdicts(c, records)
           w == Verdicts(d, seen)
           P == {n \in DOMAIN c : w[n] = v[n]}
<1>1. Len(c) \in Nat /\ Len(c) >= 1 /\ DOMAIN c = 1..Len(c)
  BY ConditionFacts
<1>2. IsCondition(d) /\ DOMAIN d = DOMAIN c /\ Len(d) = Len(c)
  BY RemapIsCondition
<1>3. \A n \in DOMAIN c : v[n] = VerdictOf(c, records, v, n) /\ w[n] = VerdictOf(d, seen, w, n)
  <2> HIDE DEF d, seen
  <2> QED BY <1>2, VerdictEquation
<1>4. \A n \in DOMAIN c : d[n] = RenamedLeaf(c[n], new) /\ d[n].k = c[n].k /\ d[n].kids = c[n].kids
  BY RemapIsCondition
<1>5. ASSUME NEW n \in DOMAIN c, c[n].k = "cmp" PROVE EvaluateCompare(d[n], seen) = EvaluateCompare(c[n], records)
  <2>1. {"k", "kids", "entry", "field", "op", "value"} \subseteq DOMAIN c[n]
    BY <1>5 DEF IsCondition
  <2>2. n \in LeavesOf(c)
    BY <1>5 DEF LeavesOf
  <2> QED BY <1>4, <1>5, <2>1, <2>2, RenamedLeafReads
<1> HIDE DEF v, w, d, seen
<1>6. ASSUME NEW n \in 1..Len(c), 1..(n - 1) \subseteq P PROVE n \in P
  <2>1. n \in DOMAIN c
    BY <1>1
  <2>2. \A m \in 1..(n - 1) : w[m] = v[m]
    BY <1>6
  <2>3. VerdictOf(c, records, w, n) = VerdictOf(c, records, v, n)
    BY <2>1, <2>2, VerdictFromKids
  <2>4. VerdictOf(d, seen, w, n) = VerdictOf(c, records, w, n)
    <3>1. d[n].k = c[n].k /\ d[n].kids = c[n].kids
      BY <1>4, <2>1
    <3>2. c[n].k = "cmp" => EvaluateCompare(d[n], seen) = EvaluateCompare(c[n], records)
      BY <1>5, <2>1
    <3>3. c[n].k \in {"cmp", "all", "any", "not"}
      BY <2>1, ConditionFacts
    <3> QED BY <3>1, <3>2, <3>3 DEF VerdictOf
  <2> QED BY <1>3, <2>1, <2>3, <2>4
<1>7. 1..Len(c) \subseteq P
  <2> HIDE DEF P
  <2> QED BY <1>1, <1>6, FromTheKidsUp
<1>8. w[Len(c)] = v[Len(c)]
  BY <1>1, <1>7
<1> QED BY <1>2, <1>8 DEF Evaluate, v, w, d, seen

\* What the subtree starts and hands over, under either naming.
LEMMA DepsReadTheSame ==
  ASSUME NEW records, NEW new, Apart(new), \A i \in DOMAIN records : Known(i, new),
         NEW e, NEW f, \A d \in e.deps : Known(d, new), f.deps = Renamed(e.deps, new),
         NEW ids, ids = {new[id] : id \in DOMAIN new}
  PROVE  /\ Ready(f, ids, Renumbered(records, new)) <=> Ready(e, DOMAIN new, records)
         /\ DepRecords(f, Renumbered(records, new)) = DepRecords(e, records)
<1> DEFINE seen == Renumbered(records, new)
<1>1. f.deps = {Named(d, new) : d \in e.deps}
  BY DEF Renamed, Named
<1>2. ASSUME NEW d \in e.deps
      PROVE  /\ Named(d, new) \in DOMAIN seen <=> d \in DOMAIN records
             /\ d \in DOMAIN records => seen[Named(d, new)] = records[d]
             /\ Named(d, new) \in ids <=> d \in DOMAIN new
  <2>1. Known(d, new)
    OBVIOUS
  <2>2. /\ Named(d, new) \in DOMAIN seen <=> d \in DOMAIN records
        /\ d \in DOMAIN records => seen[Named(d, new)] = records[d]
    BY <2>1, RenumberedFacts
  <2>3. Named(d, new) \in ids <=> d \in DOMAIN new
    BY <2>1 DEF Known, Named
  <2> QED BY <2>2, <2>3
<1> HIDE DEF seen
<1>3. Ready(f, ids, seen) <=> Ready(e, DOMAIN new, records)
  BY <1>1, <1>2 DEF Ready
<1>4. DepRecords(f, seen) = DepRecords(e, records)
  <2>1. ASSUME NEW x \in DepRecords(f, seen) PROVE x \in DepRecords(e, records)
    BY <1>1, <1>2, <2>1 DEF DepRecords
  <2>2. ASSUME NEW x \in DepRecords(e, records) PROVE x \in DepRecords(f, seen)
    <3>1. PICK d \in e.deps \cap DOMAIN records : x = records[d]
      BY <2>2 DEF DepRecords
    <3>2. Named(d, new) \in f.deps \cap DOMAIN seen /\ seen[Named(d, new)] = x
      BY <1>1, <1>2, <3>1
    <3> QED BY <3>2 DEF DepRecords
  <2> QED BY <2>1, <2>2
<1> QED BY <1>3, <1>4 DEF seen

\* A condition the plan may leave out.
LEMMA OptionalReadsTheSame ==
  ASSUME NEW c, c # NoCondition => IsCondition(c), NEW records, NEW new, Apart(new),
         \A i \in DOMAIN records : Known(i, new), \A n \in LeavesOf(c) : Known(c[n].entry, new)
  PROVE  Verdict(Remap(c, new), Renumbered(records, new)) = Verdict(c, records)
<1>1. CASE c = NoCondition
  <2>1. Remap(c, new) = NoCondition
    BY <1>1 DEF Remap, NoCondition
  <2> QED BY <1>1, <2>1 DEF Verdict
<1>2. CASE c # NoCondition
  <2>1. Remap(c, new) # NoCondition
    <3>1. Len(Remap(c, new)) = Len(c) /\ Len(c) >= 1 /\ Len(c) \in Nat
      BY <1>2, RemapIsCondition, ConditionFacts
    <3> QED BY <3>1 DEF NoCondition
  <2>2. Evaluate(Remap(c, new), Renumbered(records, new)) = Evaluate(c, records)
    BY <1>2, RemapReadsTheSame
  <2> QED BY <1>2, <2>1, <2>2 DEF Verdict
<1> QED BY <1>1, <1>2

-----------------------------------------------------------------------------

\* An accepted plan means under its new ids what the planner wrote under its own (plan_validate.py
\* _reallocated, validate_plan): the ids are the run's fresh ones, no two alike and none of the
\* graph's, and over whatever records its entries and the graph's nodes have, the same entries may
\* start, are handed the same and are accepted, and the plan holds and is done alike.
THEOREM AcceptanceHolds == Deciding => []AcceptedMeansTheSame
<1>1. ASSUME Judged PROVE AcceptedMeansTheSame
  <2> SUFFICES ASSUME Answered("plan"), answer.kind = "planned" PROVE AcceptedMeansTheSame
    BY DEF AcceptedMeansTheSame
  <2> DEFINE plan == given.plan
             new == Mapping(plan, Fresh)
             taken == answer.plan
  <2>1. given \in PlansGiven
        /\ answer = PlanOrReasons(given.record, given.plan, given.graph, given.limits, given.isRoot, Fresh)
    BY <1>1 DEF Judged, Answered
  <2>2. /\ taken = Reallocated(plan, Fresh)
        /\ ~ DuplicateIdReasons(plan)
        /\ ~ ContractReasons(plan, given.graph)
        /\ ~ DepReasons(plan, given.graph)
        /\ ~ SizeReasons(plan, given.limits)
    BY <2>1, PlannedIsReallocated
  <2>3. /\ IsSequence(Fresh) /\ \A i, j \in DOMAIN Fresh : Fresh[i] = Fresh[j] => i = j
        /\ IsSequence(plan.entries)
        /\ \A i \in DOMAIN plan.entries : {"id", "deps", "acceptance"} \subseteq DOMAIN plan.entries[i]
        /\ IsCondition(plan.done)
        /\ \A c \in EveryCondition(plan) \ {NoCondition} : IsCondition(c)
        /\ given.limits.maxNodesPerPlan \in 0..Len(Fresh)
        /\ \A i \in DOMAIN Fresh : Fresh[i] \notin given.graph
    BY <2>1, RulesAssumption DEF PlansAssumption
  <2>4. /\ Len(Fresh) \in Nat /\ DOMAIN Fresh = 1..Len(Fresh)
        /\ Len(plan.entries) \in Nat /\ DOMAIN plan.entries = 1..Len(plan.entries)
    BY <2>3, SequenceFacts
  <2>5. Len(plan.entries) <= Len(Fresh)
    BY <2>2, <2>3, <2>4 DEF SizeReasons
  <2>6. /\ Ids(taken) = {Fresh[i] : i \in DOMAIN plan.entries}
        /\ Cardinality(Ids(taken)) = Len(plan.entries)
    BY <2>2, <2>3, <2>4, <2>5, ReallocatedIds
  <2>7. Ids(taken) \cap given.graph = {}
    BY <2>3, <2>4, <2>5, <2>6
  <2>8. /\ DOMAIN new = Ids(plan)
        /\ \A i \in DOMAIN plan.entries : new[plan.entries[i].id] = Fresh[i]
        /\ \A id, other \in Ids(plan) : new[id] = new[other] => id = other
        /\ \A id \in Ids(plan) : \E i \in 1..Len(Fresh) : new[id] = Fresh[i]
    <3>1. \A i, j \in 1..Len(Fresh) : Fresh[i] = Fresh[j] => i = j
      BY <2>3, <2>4
    <3> HIDE DEF plan
    <3> QED BY <2>2, <2>3, <2>4, <2>5, <3>1, MappingFacts, ZenonT(60) DEF new
  <2>9. /\ DOMAIN taken.entries = DOMAIN plan.entries
        /\ \A i \in DOMAIN plan.entries :
              /\ taken.entries[i].id = new[plan.entries[i].id]
              /\ taken.entries[i].deps = Renamed(plan.entries[i].deps, new)
              /\ taken.entries[i].acceptance = Remap(plan.entries[i].acceptance, new)
        /\ taken.done = Remap(plan.done, new) /\ taken.holds = Remap(plan.holds, new)
    <3>1. /\ taken.entries = [i \in DOMAIN plan.entries |-> ReallocatedEntry(plan.entries[i], new)]
          /\ taken.done = Remap(plan.done, new) /\ taken.holds = Remap(plan.holds, new)
      BY <2>2 DEF Reallocated
    <3> HIDE DEF plan, new, taken
    <3>2. ASSUME NEW i \in DOMAIN plan.entries
          PROVE  /\ taken.entries[i].id = new[plan.entries[i].id]
                 /\ taken.entries[i].deps = Renamed(plan.entries[i].deps, new)
                 /\ taken.entries[i].acceptance = Remap(plan.entries[i].acceptance, new)
      <4>1. taken.entries[i] = ReallocatedEntry(plan.entries[i], new)
        BY <3>1
      <4>2. {"id", "deps", "acceptance"} \subseteq DOMAIN plan.entries[i]
        BY <2>3
      <4> QED BY <4>1, <4>2 DEF ReallocatedEntry
    <3> QED BY <3>1, <3>2
  <2> HIDE DEF plan, new, taken
  <2>10. Apart(new) /\ \A id \in Ids(plan) \cup given.graph : Known(id, new)
    BY <2>3, <2>4, <2>8 DEF Apart, Known
  <2>11. Ids(taken) = {new[id] : id \in DOMAIN new}
    <3>1. ASSUME NEW id \in DOMAIN new PROVE new[id] \in Ids(taken)
      <4>1. PICK i \in DOMAIN plan.entries : id = plan.entries[i].id
        BY <2>8 DEF Ids
      <4> QED BY <2>6, <2>8, <4>1
    <3>2. ASSUME NEW i \in DOMAIN plan.entries PROVE Fresh[i] \in {new[id] : id \in DOMAIN new}
      <4>1. plan.entries[i].id \in DOMAIN new /\ new[plan.entries[i].id] = Fresh[i]
        BY <2>8 DEF Ids
      <4> QED BY <4>1
    <3> QED BY <2>6, <3>1, <3>2
  <2>12. NewIds(plan, taken) = new
    <3>1. ASSUME NEW id \in Ids(plan)
          PROVE  taken.entries[CHOOSE i \in DOMAIN plan.entries : plan.entries[i].id = id].id = new[id]
      <4> DEFINE at == CHOOSE i \in DOMAIN plan.entries : plan.entries[i].id = id
      <4>1. at \in DOMAIN plan.entries /\ plan.entries[at].id = id
        BY <3>1 DEF Ids
      <4> HIDE DEF at
      <4>2. taken.entries[at].id = new[id]
        BY <2>9, <4>1
      <4> QED BY <4>2 DEF at
    <3>2. new = [id \in Ids(plan) |-> new[id]]
      BY <2>8 DEF new, Mapping
    <3>3. NewIds(plan, taken) = [id \in Ids(plan) |-> new[id]]
      BY <3>1 DEF NewIds
    <3> QED BY <3>2, <3>3
  <2>13. ASSUME NEW c \in EveryCondition(plan), NEW n \in LeavesOf(c) PROVE Known(c[n].entry, new)
    <3> SUFFICES ASSUME c[n].entry \notin Ids(plan) PROVE c[n].entry \in given.graph
      BY <2>10
    <3> DEFINE ref == <<c[n].entry, c[n].field>>
    <3>1. ref \in ReferencedFields(c)
      BY DEF ReferencedFields, Leaves, LeavesOf
    <3>2. ~ FieldRefReasons(plan, given.graph, ref)
      BY <2>2, <3>1 DEF ContractReasons
    <3> QED BY <3>2 DEF FieldRefReasons
  <2>14. ASSUME NEW i \in DOMAIN plan.entries, NEW d \in plan.entries[i].deps PROVE Known(d, new)
    <3>1. d \in given.graph \cup {plan.entries[j].id : j \in 1..(i - 1)}
      BY <2>2 DEF DepReasons
    <3>2. 1..(i - 1) \subseteq DOMAIN plan.entries
      BY <2>4
    <3>3. d \in given.graph \cup Ids(plan)
      BY <3>1, <3>2 DEF Ids
    <3> QED BY <2>10, <3>3
  <2>15. ASSUME NEW left \in SUBSET (Ids(plan) \cup given.graph), NEW records \in [left -> NodeRecords]
         PROVE  Reading(taken, Renumbered(records, new)) = Reading(plan, records)
    <3> DEFINE seen == Renumbered(records, new)
    <3>1. \A i \in DOMAIN records : Known(i, new)
      BY <2>10
    <3>2. ASSUME NEW c \in EveryCondition(plan) PROVE Verdict(Remap(c, new), seen) = Verdict(c, records)
      <4>1. c # NoCondition => IsCondition(c)
        BY <2>3
      <4>2. \A n \in LeavesOf(c) : Known(c[n].entry, new)
        BY <2>13
      <4> QED BY <2>10, <3>1, <4>1, <4>2, OptionalReadsTheSame
    <3>3. Verdict(taken.holds, seen) = Verdict(plan.holds, records)
      <4>1. plan.holds \in EveryCondition(plan)
        BY DEF EveryCondition
      <4> QED BY <2>9, <3>2, <4>1
    <3>4. Evaluate(taken.done, seen) = Evaluate(plan.done, records)
      <4>1. plan.done \in EveryCondition(plan)
        BY DEF EveryCondition
      <4>2. \A n \in LeavesOf(plan.done) : Known(plan.done[n].entry, new)
        BY <2>13, <4>1
      <4>3. Evaluate(Remap(plan.done, new), seen) = Evaluate(plan.done, records)
        BY <2>3, <2>10, <3>1, <4>2, RemapReadsTheSame
      <4> QED BY <2>9, <4>3
    <3>5. ASSUME NEW i \in DOMAIN plan.entries
          PROVE  /\ Ready(taken.entries[i], Ids(taken), seen) <=> Ready(plan.entries[i], Ids(plan), records)
                 /\ DepRecords(taken.entries[i], seen) = DepRecords(plan.entries[i], records)
                 /\ Verdict(taken.entries[i].acceptance, seen) = Verdict(plan.entries[i].acceptance, records)
      <4>1. plan.entries[i].acceptance \in EveryCondition(plan)
        BY DEF EveryCondition
      <4>2. Verdict(taken.entries[i].acceptance, seen) = Verdict(plan.entries[i].acceptance, records)
        BY <2>9, <3>2, <4>1
      <4>3. \A d \in plan.entries[i].deps : Known(d, new)
        BY <2>14
      <4>4. taken.entries[i].deps = Renamed(plan.entries[i].deps, new)
        BY <2>9
      <4>5. /\ Ready(taken.entries[i], Ids(taken), seen) <=> Ready(plan.entries[i], DOMAIN new, records)
            /\ DepRecords(taken.entries[i], seen) = DepRecords(plan.entries[i], records)
        BY <2>10, <2>11, <3>1, <4>3, <4>4, DepsReadTheSame
      <4> QED BY <2>8, <4>2, <4>5
    <3> HIDE DEF seen
    <3>6. {i \in DOMAIN taken.entries : Ready(taken.entries[i], Ids(taken), seen)}
            = {i \in DOMAIN plan.entries : Ready(plan.entries[i], Ids(plan), records)}
      BY <2>9, <3>5
    <3>7. [i \in DOMAIN taken.entries |-> DepRecords(taken.entries[i], seen)]
            = [i \in DOMAIN plan.entries |-> DepRecords(plan.entries[i], records)]
      BY <2>9, <3>5
    <3>8. [i \in DOMAIN taken.entries |-> Verdict(taken.entries[i].acceptance, seen)]
            = [i \in DOMAIN plan.entries |-> Verdict(plan.entries[i].acceptance, records)]
      BY <2>9, <3>5
    <3>9. Reading(taken, seen) = Reading(plan, records)
      BY <3>3, <3>4, <3>6, <3>7, <3>8, Zenon DEF Reading
    <3> QED BY <3>9 DEF seen
  <2> QED BY <2>6, <2>7, <2>12, <2>15 DEF AcceptedMeansTheSame, plan, taken
<1> QED BY <1>1, EveryAnswerIsJudged, PTL

-----------------------------------------------------------------------------
(* Where a path leads.                                                     *)

\* The path one segment further on.
Stepped(links, at, segment) ==
  CASE segment = ".." -> IF Len(at) > 1 THEN Front(at) ELSE at
    [] segment # ".." /\ Append(at, segment) \in DOMAIN links -> links[Append(at, segment)]
    [] OTHER -> Append(at, segment)

Walk(at, links, path, N) ==
  /\ at[0] = <<>>
  /\ \A n \in 1..N : at[n] = Stepped(links, at[n - 1], path[n])

LEMMA RealPathEquation ==
  ASSUME NEW links, NEW path \in Seq(STRING)
  PROVE  \E at : Walk(at, links, path, Len(path)) /\ RealPath(links, path) = at[Len(path)]
<1> DEFINE N == Len(path)
           T == {d \in Nat : \E f : Walk(f, links, path, d)}
<1>1. N \in Nat
  BY LenProperties
<1> HIDE DEF N
<1>2. 0 \in T
  <2> DEFINE f == [m \in {0} |-> <<>>]
  <2>1. Walk(f, links, path, 0)
    BY DEF Walk
  <2> HIDE DEF f
  <2> QED BY <2>1
<1>3. ASSUME NEW d \in Nat, d \in T PROVE d + 1 \in T
  <2>1. PICK f : Walk(f, links, path, d)
    BY <1>3
  <2> DEFINE g == [m \in 0..(d + 1) |-> IF m = d + 1 THEN Stepped(links, f[d], path[d + 1]) ELSE f[m]]
  <2>2. (\A m \in 0..d : g[m] = f[m]) /\ g[d + 1] = Stepped(links, f[d], path[d + 1])
    OBVIOUS
  <2> HIDE DEF g
  <2>3. g[0] = <<>>
    BY <2>1, <2>2 DEF Walk
  <2>4. ASSUME NEW n \in 1..(d + 1) PROVE g[n] = Stepped(links, g[n - 1], path[n])
    <3>1. n - 1 \in 0..d /\ g[n - 1] = f[n - 1]
      BY <2>2
    <3>2. CASE n = d + 1
      BY <2>2, <3>1, <3>2
    <3>3. CASE n # d + 1
      <4>1. n \in 1..d /\ n \in 0..d
        BY <3>3
      <4> QED BY <2>1, <2>2, <3>1, <4>1 DEF Walk
    <3> QED BY <3>2, <3>3
  <2>5. Walk(g, links, path, d + 1)
    BY <2>3, <2>4 DEF Walk
  <2> QED BY <2>5
<1>4. N \in T
  <2> HIDE DEF T
  <2> QED BY <1>1, <1>2, <1>3, EveryNumber
<1>5. PICK f : Walk(f, links, path, N)
  BY <1>4
<1> DEFINE h == [n \in 0..N |-> f[n]]
<1>6. \A n \in 0..N : h[n] = IF n = 0 THEN <<>> ELSE Stepped(links, h[n - 1], path[n])
  <2>1. h[0] = <<>>
    BY <1>1, <1>5 DEF Walk
  <2>2. ASSUME NEW n \in 1..N PROVE h[n] = Stepped(links, h[n - 1], path[n])
    <3>1. n \in 0..N /\ n - 1 \in 0..N
      BY <1>1
    <3>2. h[n] = f[n] /\ h[n - 1] = f[n - 1]
      BY <3>1
    <3> QED BY <1>5, <3>2 DEF Walk
  <2>3. \A n \in 0..N : n = 0 \/ n \in 1..N
    BY <1>1
  <2> HIDE DEF h
  <2> QED BY <2>1, <2>2, <2>3
<1>7. h = [n \in 0..N |-> h[n]]
  OBVIOUS
<1> HIDE DEF h
<1> DEFINE at[n \in 0..N] ==
             IF n = 0 THEN <<>>
             ELSE CASE path[n] = ".." -> IF Len(at[n - 1]) > 1 THEN Front(at[n - 1]) ELSE at[n - 1]
                    [] path[n] # ".." /\ Append(at[n - 1], path[n]) \in DOMAIN links ->
                          links[Append(at[n - 1], path[n])]
                    [] OTHER -> Append(at[n - 1], path[n])
<1>8. h = [n \in 0..N |-> IF n = 0 THEN <<>> ELSE Stepped(links, h[n - 1], path[n])]
  BY <1>6, <1>7
<1>9. at = [n \in 0..N |-> IF n = 0 THEN <<>> ELSE Stepped(links, at[n - 1], path[n])]
  BY <1>8 DEF at, Stepped
<1>10. RealPath(links, path) = at[N]
  BY DEF RealPath, at, N
<1> HIDE DEF at
<1>11. Walk(at, links, path, N)
  BY <1>1, <1>9 DEF Walk
<1> QED BY <1>10, <1>11 DEF N

\* What SubSeq makes of a sequence of words.
LEMMA PrefixFacts ==
  ASSUME NEW S, NEW s \in Seq(S), NEW k \in 0..Len(s)
  PROVE  /\ SubSeq(s, 1, k) \in Seq(S)
         /\ Len(SubSeq(s, 1, k)) = k
         /\ \A i \in 1..k : SubSeq(s, 1, k)[i] = s[i]
         /\ \A j \in 0..k : SubSeq(SubSeq(s, 1, k), 1, j) = SubSeq(s, 1, j)
<1>1. Len(s) \in Nat /\ \A i \in 1..Len(s) : s[i] \in S
  BY LenProperties
<1>2. ASSUME NEW j \in 0..Len(s)
      PROVE  /\ SubSeq(s, 1, j) \in Seq(S) /\ Len(SubSeq(s, 1, j)) = j
             /\ \A i \in 1..j : SubSeq(s, 1, j)[i] = s[i]
  <2>1. 1 \in Int /\ j \in Int /\ \A i \in 1..j : s[i] \in S
    BY <1>1
  <2> QED BY <2>1, SubSeqProperties
<1>3. ASSUME NEW j \in 0..k PROVE SubSeq(SubSeq(s, 1, k), 1, j) = SubSeq(s, 1, j)
  <2> DEFINE t == SubSeq(s, 1, k)
             u == SubSeq(t, 1, j)
             w == SubSeq(s, 1, j)
  <2>1. j \in 0..Len(s) /\ k \in Nat /\ j \in Int /\ 1 \in Int
    BY <1>1
  <2>2. t \in Seq(S) /\ Len(t) = k /\ \A i \in 1..k : t[i] = s[i] /\ t[i] \in S
    BY <1>1, <1>2
  <2>3. w \in Seq(S) /\ Len(w) = j /\ \A i \in 1..j : w[i] = s[i]
    BY <1>2, <2>1
  <2> HIDE DEF t
  <2>4. u \in Seq(S) /\ Len(u) = j /\ \A i \in 1..j : u[i] = t[i]
    <3>1. \A i \in 1..j : t[i] \in S
      BY <2>1, <2>2
    <3> QED BY <2>1, <3>1, SubSeqProperties
  <2>5. \A i \in 1..Len(u) : u[i] = w[i]
    BY <2>1, <2>2, <2>3, <2>4
  <2> HIDE DEF u, w
  <2>6. u = w
    BY <2>3, <2>4, <2>5, SeqEqual
  <2> QED BY <2>6 DEF u, w, t
<1> QED BY <1>1, <1>2, <1>3

LEMMA AppendFacts ==
  ASSUME NEW S, NEW s \in Seq(S), NEW x \in S
  PROVE  /\ Append(s, x) \in Seq(S)
         /\ Len(Append(s, x)) = Len(s) + 1
         /\ \A i \in 1..Len(s) : Append(s, x)[i] = s[i]
         /\ Append(s, x)[Len(s) + 1] = x
         /\ \A k \in 0..Len(s) : SubSeq(Append(s, x), 1, k) = SubSeq(s, 1, k)
<1> DEFINE a == Append(s, x)
<1>1. /\ a \in Seq(S) /\ Len(a) = Len(s) + 1 /\ Len(s) \in Nat
      /\ \A i \in 1..Len(s) : a[i] = s[i]
      /\ a[Len(s) + 1] = x
  <2>1. Len(s) \in Nat
    BY LenProperties
  <2>2. a \in Seq(S) /\ Len(a) = Len(s) + 1
    BY AppendProperties
  <2>3. \A i \in 1..Len(s) : a[i] = s[i]
    BY AppendProperties
  <2>4. a[Len(s) + 1] = x
    BY AppendProperties
  <2> QED BY <2>1, <2>2, <2>3, <2>4
<1> HIDE DEF a
<1>2. ASSUME NEW k \in 0..Len(s) PROVE SubSeq(a, 1, k) = SubSeq(s, 1, k)
  <2>1. k \in 0..Len(a) /\ \A i \in 1..k : i \in 1..Len(s)
    BY <1>1
  <2>2. SubSeq(a, 1, k) \in Seq(S) /\ Len(SubSeq(a, 1, k)) = k /\ \A i \in 1..k : SubSeq(a, 1, k)[i] = a[i]
    BY <1>1, <2>1, PrefixFacts
  <2>3. SubSeq(s, 1, k) \in Seq(S) /\ Len(SubSeq(s, 1, k)) = k /\ \A i \in 1..k : SubSeq(s, 1, k)[i] = s[i]
    BY PrefixFacts
  <2>4. \A i \in 1..k : SubSeq(a, 1, k)[i] = SubSeq(s, 1, k)[i]
    BY <1>1, <2>1, <2>2, <2>3
  <2> QED BY <2>2, <2>3, <2>4, SeqEqual
<1> QED BY <1>1, <1>2 DEF a

\* Each step from a real path leads to one.
LEMMA SteppedIsReal ==
  ASSUME NEW links, \A l \in DOMAIN links : IsReal(links, links[l]),
         NEW at, IsReal(links, at), NEW segment \in STRING, segment # "/"
  PROVE  IsReal(links, Stepped(links, at, segment))
<1>1. /\ at \in Seq(STRING) /\ at # <<>> /\ at[1] = "/" /\ \A i \in 2..Len(at) : at[i] # "/"
      /\ \A k \in 1..Len(at) : at[k] # ".." /\ SubSeq(at, 1, k) \notin DOMAIN links
  BY DEF IsReal, IsAbsolute
<1>2. Len(at) \in Nat /\ Len(at) >= 1
  BY <1>1, EmptySeq, LenProperties
<1>3. CASE segment = ".." /\ Len(at) > 1
  <2> DEFINE f == SubSeq(at, 1, Len(at) - 1)
  <2>1. Stepped(links, at, segment) = f
    BY <1>3 DEF Stepped, Front
  <2>2. Len(at) - 1 \in 0..Len(at) /\ Len(at) - 1 >= 1 /\ Len(at) - 1 \in Nat
    BY <1>2, <1>3
  <2>3. /\ f \in Seq(STRING) /\ Len(f) = Len(at) - 1
        /\ \A i \in 1..(Len(at) - 1) : f[i] = at[i] 
        /\ \A j \in 0..(Len(at) - 1) : SubSeq(f, 1, j) = SubSeq(at, 1, j)
    BY <1>1, <2>2, PrefixFacts
  <2> HIDE DEF f
  <2>4. f # <<>>
    BY <2>2, <2>3, EmptySeq
  <2>5. f[1] = "/"
    BY <1>1, <2>2, <2>3
  <2>6. \A i \in 2..Len(f) : f[i] # "/"
    BY <1>1, <1>2, <2>2, <2>3
  <2>7. \A k \in 1..Len(f) : f[k] # ".." /\ SubSeq(f, 1, k) \notin DOMAIN links
    <3> SUFFICES ASSUME NEW k \in 1..Len(f) PROVE f[k] # ".." /\ SubSeq(f, 1, k) \notin DOMAIN links
      OBVIOUS
    <3>1. k \in 1..Len(at) /\ k \in 1..(Len(at) - 1) /\ k \in 0..(Len(at) - 1)
      BY <1>2, <2>2, <2>3
    <3> QED BY <1>1, <2>3, <3>1
  <2> QED BY <2>1, <2>3, <2>4, <2>5, <2>6, <2>7 DEF IsReal, IsAbsolute
<1>4. CASE segment = ".." /\ ~ (Len(at) > 1)
  BY <1>4 DEF Stepped
<1>5. CASE segment # ".." /\ Append(at, segment) \in DOMAIN links
  BY <1>5 DEF Stepped
<1>6. CASE segment # ".." /\ Append(at, segment) \notin DOMAIN links
  <2> DEFINE a == Append(at, segment)
  <2>1. Stepped(links, at, segment) = a
    BY <1>6 DEF Stepped
  <2>2. /\ a \in Seq(STRING) /\ Len(a) = Len(at) + 1
        /\ \A i \in 1..Len(at) : a[i] = at[i]
        /\ a[Len(at) + 1] = segment
        /\ \A k \in 0..Len(at) : SubSeq(a, 1, k) = SubSeq(at, 1, k)
    BY <1>1, AppendFacts
  <2>3. SubSeq(a, 1, Len(a)) = a
    BY <2>2, SubSeqFull
  <2>4. a \notin DOMAIN links
    BY <1>6
  <2> HIDE DEF a
  <2>5. a # <<>> /\ a[1] = "/"
    BY <1>1, <1>2, <2>2, EmptySeq
  <2>6. \A i \in 2..Len(a) : a[i] # "/"
    <3> SUFFICES ASSUME NEW i \in 2..Len(a) PROVE a[i] # "/"
      OBVIOUS
    <3>1. i = Len(at) + 1 \/ (i \in 2..Len(at) /\ i \in 1..Len(at))
      BY <1>2, <2>2
    <3> QED BY <1>1, <2>2, <3>1
  <2>7. \A k \in 1..Len(a) : a[k] # ".." /\ SubSeq(a, 1, k) \notin DOMAIN links
    <3> SUFFICES ASSUME NEW k \in 1..Len(a) PROVE a[k] # ".." /\ SubSeq(a, 1, k) \notin DOMAIN links
      OBVIOUS
    <3>1. (k = Len(at) + 1 /\ k = Len(a)) \/ (k \in 1..Len(at) /\ k \in 0..Len(at))
      BY <1>2, <2>2
    <3> QED BY <1>1, <1>6, <2>2, <2>3, <2>4, <3>1
  <2> QED BY <2>1, <2>2, <2>5, <2>6, <2>7 DEF IsReal, IsAbsolute
<1> QED BY <1>3, <1>4, <1>5, <1>6

LEMMA RealPathIsReal ==
  ASSUME NEW links, \A l \in DOMAIN links : IsReal(links, links[l]), NEW path, IsAbsolute(path)
  PROVE  IsReal(links, RealPath(links, path))
<1> DEFINE N == Len(path)
<1>1. path \in Seq(STRING) /\ path # <<>> /\ path[1] = "/" /\ \A i \in 2..N : path[i] # "/"
  BY DEF IsAbsolute
<1>2. N \in Nat /\ N >= 1 /\ \A i \in 1..N : path[i] \in STRING
  BY <1>1, EmptySeq, LenProperties
<1>3. PICK at : Walk(at, links, path, N) /\ RealPath(links, path) = at[N]
  BY <1>1, RealPathEquation
<1> HIDE DEF N
<1>4. IsReal(links, at[1])
  <2>1. 1 \in 1..N /\ at[1 - 1] = <<>> /\ "/" # ".." /\ 1 - 1 = 0
    BY <1>2, <1>3 DEF Walk
  <2>2. at[1] = Stepped(links, <<>>, "/")
    BY <1>1, <1>3, <2>1 DEF Walk
  <2> DEFINE a == Append(<<>>, "/")
  <2>3. CASE a \in DOMAIN links
    <3>1. Stepped(links, <<>>, "/") = links[a]
      BY <2>1, <2>3 DEF Stepped
    <3> HIDE DEF a
    <3> QED BY <2>2, <2>3, <3>1
  <2>4. CASE a \notin DOMAIN links
    <3>1. Stepped(links, <<>>, "/") = a
      BY <2>1, <2>4 DEF Stepped
    <3>2. a \in Seq(STRING) /\ Len(a) = 1 /\ a[1] = "/" /\ a # <<>>
      <4>1. <<>> \in Seq(STRING) /\ Len(<<>>) = 0
        OBVIOUS
      <4>2. "/" \in STRING
        BY <1>1, <1>2, <2>1
      <4>3. a \in Seq(STRING) /\ Len(a) = Len(<<>>) + 1 /\ a[Len(<<>>) + 1] = "/"
        BY <4>1, <4>2, AppendFacts
      <4>4. a # <<>>
        BY <4>1, <4>3
      <4> HIDE DEF a
      <4> QED BY <4>1, <4>3, <4>4
    <3>3. SubSeq(a, 1, 1) = a
      BY <3>2, SubSeqFull
    <3> HIDE DEF a
    <3>4. \A k \in 1..Len(a) : a[k] # ".." /\ SubSeq(a, 1, k) \notin DOMAIN links
      <4>1. \A k \in 1..Len(a) : k = 1
        BY <3>2
      <4> QED BY <2>1, <2>4, <3>2, <3>3, <4>1
    <3>5. \A i \in 2..Len(a) : a[i] # "/"
      BY <3>2
    <3> QED BY <2>2, <3>1, <3>2, <3>4, <3>5 DEF IsReal, IsAbsolute
  <2> QED BY <2>3, <2>4
<1> DEFINE T == {n \in Nat : n + 1 <= N => IsReal(links, at[n + 1])}
<1>5. 0 \in T
  BY <1>4
<1>6. ASSUME NEW n \in Nat, n \in T PROVE n + 1 \in T
  <2> SUFFICES ASSUME (n + 1) + 1 <= N PROVE IsReal(links, at[(n + 1) + 1])
    OBVIOUS
  <2>1. (n + 1) + 1 \in 1..N /\ (n + 1) + 1 \in 2..N /\ ((n + 1) + 1) - 1 = n + 1 /\ n + 1 <= N
    BY <1>2
  <2>2. at[(n + 1) + 1] = Stepped(links, at[n + 1], path[(n + 1) + 1])
    BY <1>3, <2>1 DEF Walk
  <2>3. path[(n + 1) + 1] \in STRING /\ path[(n + 1) + 1] # "/"
    BY <1>1, <1>2, <2>1
  <2>4. IsReal(links, at[n + 1])
    BY <1>6, <2>1
  <2> QED BY <2>2, <2>3, <2>4, SteppedIsReal
<1>7. N - 1 \in T /\ N - 1 \in Nat /\ (N - 1) + 1 = N
  <2> HIDE DEF T
  <2> QED BY <1>2, <1>5, <1>6, EveryNumber
<1>8. IsReal(links, at[N])
  BY <1>7
<1> QED BY <1>3, <1>8

\* A real path is its own way: what leads to a prefix of it leads on along it.
LEMMA RealPathThrough ==
  ASSUME NEW links, NEW root \in Seq(STRING), NEW rest \in Seq(STRING), NEW target, IsReal(links, target),
         Len(RealPath(links, root)) \in Nat,
         Len(RealPath(links, root)) + Len(rest) <= Len(target),
         SubSeq(target, 1, Len(RealPath(links, root))) = RealPath(links, root),
         \A j \in 1..Len(rest) : target[Len(RealPath(links, root)) + j] = rest[j]
  PROVE  RealPath(links, root \o rest) = SubSeq(target, 1, Len(RealPath(links, root)) + Len(rest))
<1> DEFINE far == Len(RealPath(links, root))
           R == Len(root)
           E == Len(rest)
           path == root \o rest
<1>1. R \in Nat /\ E \in Nat /\ far \in Nat
  BY LenProperties
<1>2. path \in Seq(STRING) /\ Len(path) = R + E /\ \A i \in 1..(R + E) : path[i] = IF i <= R THEN root[i] ELSE rest[i - R]
  BY ConcatProperties
<1>3. PICK at : Walk(at, links, path, Len(path)) /\ RealPath(links, path) = at[Len(path)]
  BY <1>2, RealPathEquation
<1>4. PICK way : Walk(way, links, root, R) /\ RealPath(links, root) = way[R]
  BY RealPathEquation
<1>5. /\ target \in Seq(STRING)
      /\ \A k \in 1..Len(target) : target[k] # ".." /\ SubSeq(target, 1, k) \notin DOMAIN links
  BY DEF IsReal, IsAbsolute
<1>6. Len(target) \in Nat /\ \A k \in 1..Len(target) : target[k] \in STRING
  BY <1>5, LenProperties
<1>7. SubSeq(target, 1, far) = way[R] /\ far + E <= Len(target) /\ \A j \in 1..E : target[far + j] = rest[j]
  BY <1>4
<1> HIDE DEF far, R, E, path
<1> DEFINE A == {n \in Nat : n <= R => at[n] = way[n]}
           B == {n \in Nat : n <= E => at[R + n] = SubSeq(target, 1, far + n)}
<1>8. 0 \in A
  BY <1>3, <1>4 DEF Walk
<1>9. ASSUME NEW n \in Nat, n \in A PROVE n + 1 \in A
  <2> SUFFICES ASSUME n + 1 <= R PROVE at[n + 1] = way[n + 1]
    OBVIOUS
  <2>1. n + 1 \in 1..R /\ n + 1 \in 1..Len(path) /\ (n + 1) - 1 = n /\ n <= R
    BY <1>1, <1>2
  <2>2. at[n + 1] = Stepped(links, at[n], path[n + 1]) /\ way[n + 1] = Stepped(links, way[n], root[n + 1])
    BY <1>3, <1>4, <2>1 DEF Walk
  <2>3. path[n + 1] = root[n + 1] /\ at[n] = way[n]
    BY <1>1, <1>2, <1>9, <2>1
  <2> QED BY <2>2, <2>3
<1>10. R \in A
  <2> HIDE DEF A
  <2> QED BY <1>1, <1>8, <1>9, EveryNumber
<1>11. 0 \in B
  <2>1. at[R] = way[R] /\ R + 0 = R /\ far + 0 = far
    BY <1>1, <1>10
  <2> QED BY <1>7, <2>1
<1>12. ASSUME NEW n \in Nat, n \in B PROVE n + 1 \in B
  <2> SUFFICES ASSUME n + 1 <= E PROVE at[R + (n + 1)] = SubSeq(target, 1, far + (n + 1))
    OBVIOUS
  <2> DEFINE so == SubSeq(target, 1, far + n)
             on == SubSeq(target, 1, far + (n + 1))
  <2>1. /\ R + (n + 1) \in 1..Len(path) /\ (R + (n + 1)) - 1 = R + n /\ n <= E
        /\ R + (n + 1) \in 1..(R + E) /\ ~ (R + (n + 1) <= R) /\ (R + (n + 1)) - R = n + 1
        /\ n + 1 \in 1..E /\ far + (n + 1) \in 1..Len(target) /\ far + (n + 1) \in 0..Len(target)
        /\ far + n \in 0..Len(target) /\ far + (n + 1) = (far + n) + 1 /\ far + n \in Nat
    BY <1>1, <1>2, <1>6, <1>7
  <2>2. at[R + (n + 1)] = Stepped(links, at[R + n], path[R + (n + 1)])
    BY <1>3, <2>1 DEF Walk
  <2>3. path[R + (n + 1)] = target[far + (n + 1)]
    BY <1>2, <1>7, <2>1
  <2>4. at[R + n] = so
    BY <1>12, <2>1
  <2>5. target[far + (n + 1)] # ".." /\ on \notin DOMAIN links /\ target[far + (n + 1)] \in STRING
    BY <1>5, <1>6, <2>1
  <2>6. Append(so, target[far + (n + 1)]) = on
    <3> DEFINE a == Append(so, target[far + (n + 1)])
    <3>1. so \in Seq(STRING) /\ Len(so) = far + n /\ \A i \in 1..(far + n) : so[i] = target[i]
      BY <1>5, <2>1, PrefixFacts
    <3>2. on \in Seq(STRING) /\ Len(on) = far + (n + 1) /\ \A i \in 1..(far + (n + 1)) : on[i] = target[i]
      BY <1>5, <2>1, PrefixFacts
    <3> HIDE DEF so, on
    <3>3. /\ a \in Seq(STRING) /\ Len(a) = Len(so) + 1
          /\ \A i \in 1..Len(so) : a[i] = so[i]
          /\ a[Len(so) + 1] = target[far + (n + 1)]
      BY <2>5, <3>1, AppendFacts
    <3> HIDE DEF a
    <3>4. Len(a) = Len(on)
      BY <2>1, <3>1, <3>2, <3>3
    <3>5. ASSUME NEW i \in 1..Len(a) PROVE a[i] = on[i]
      <4>1. (i \in 1..Len(so) /\ i \in 1..(far + n) /\ i \in 1..(far + (n + 1))) \/ (i = Len(so) + 1 /\ i = far + (n + 1))
        BY <2>1, <3>1, <3>3
      <4>2. far + (n + 1) \in 1..(far + (n + 1))
        BY <1>1
      <4> QED BY <3>1, <3>2, <3>3, <4>1, <4>2
    <3>6. a = on
      BY <3>2, <3>3, <3>4, <3>5, SeqEqual
    <3> QED BY <3>6 DEF a
  <2> HIDE DEF so, on
  <2>7. at[R + (n + 1)] = on
    BY <2>2, <2>3, <2>4, <2>5, <2>6 DEF Stepped
  <2> QED BY <2>7 DEF on
<1>13. E \in B
  <2> HIDE DEF B
  <2> QED BY <1>1, <1>11, <1>12, EveryNumber
<1>14. at[R + E] = SubSeq(target, 1, far + E)
  BY <1>1, <1>13
<1> QED BY <1>2, <1>3, <1>14 DEF path, far, E

-----------------------------------------------------------------------------
(* What a glob matches.                                                    *)

Span(path, glob, before, j) ==
  {i \in 1..Len(path) : IF glob[j] \in {"*", "**"} THEN \E n \in before : n < i
                        ELSE i - 1 \in before /\ SegmentFits(path[i], glob[j])}

Spanning(spans, path, glob, N) ==
  /\ spans[0] = {0}
  /\ \A j \in 1..N : spans[j] = Span(path, glob, spans[j - 1], j)

LEMMA FitsEquation ==
  ASSUME NEW path, NEW glob, Len(glob) \in Nat
  PROVE  \E spans : Spanning(spans, path, glob, Len(glob)) /\ (Fits(path, glob) <=> Len(path) \in spans[Len(glob)])
<1> DEFINE N == Len(glob)
           T == {d \in Nat : \E f : Spanning(f, path, glob, d)}
<1>1. N \in Nat
  OBVIOUS
<1> HIDE DEF N
<1>2. 0 \in T
  <2> DEFINE f == [m \in {0} |-> {0}]
  <2>1. Spanning(f, path, glob, 0)
    BY DEF Spanning
  <2> HIDE DEF f
  <2> QED BY <2>1
<1>3. ASSUME NEW d \in Nat, d \in T PROVE d + 1 \in T
  <2>1. PICK f : Spanning(f, path, glob, d)
    BY <1>3
  <2> DEFINE g == [m \in 0..(d + 1) |-> IF m = d + 1 THEN Span(path, glob, f[d], d + 1) ELSE f[m]]
  <2>2. (\A m \in 0..d : g[m] = f[m]) /\ g[d + 1] = Span(path, glob, f[d], d + 1)
    OBVIOUS
  <2> HIDE DEF g
  <2>3. g[0] = {0}
    BY <2>1, <2>2 DEF Spanning
  <2>4. ASSUME NEW n \in 1..(d + 1) PROVE g[n] = Span(path, glob, g[n - 1], n)
    <3>1. n - 1 \in 0..d /\ g[n - 1] = f[n - 1]
      BY <2>2
    <3>2. CASE n = d + 1
      BY <2>2, <3>1, <3>2
    <3>3. CASE n # d + 1
      <4>1. n \in 1..d /\ n \in 0..d
        BY <3>3
      <4> QED BY <2>1, <2>2, <3>1, <4>1 DEF Spanning
    <3> QED BY <3>2, <3>3
  <2>5. Spanning(g, path, glob, d + 1)
    BY <2>3, <2>4 DEF Spanning
  <2> QED BY <2>5
<1>4. N \in T
  <2> HIDE DEF T
  <2> QED BY <1>1, <1>2, <1>3, EveryNumber
<1>5. PICK f : Spanning(f, path, glob, N)
  BY <1>4
<1> DEFINE h == [n \in 0..N |-> f[n]]
<1>6. \A n \in 0..N : h[n] = IF n = 0 THEN {0} ELSE Span(path, glob, h[n - 1], n)
  <2>1. h[0] = {0}
    BY <1>1, <1>5 DEF Spanning
  <2>2. ASSUME NEW n \in 1..N PROVE h[n] = Span(path, glob, h[n - 1], n)
    <3>1. n \in 0..N /\ n - 1 \in 0..N
      BY <1>1
    <3>2. h[n] = f[n] /\ h[n - 1] = f[n - 1]
      BY <3>1
    <3> QED BY <1>5, <3>2 DEF Spanning
  <2>3. \A n \in 0..N : n = 0 \/ n \in 1..N
    BY <1>1
  <2> HIDE DEF h
  <2> QED BY <2>1, <2>2, <2>3
<1>7. h = [n \in 0..N |-> h[n]]
  OBVIOUS
<1> HIDE DEF h
<1> DEFINE spans[j \in 0..N] ==
             IF j = 0 THEN {0}
             ELSE {i \in 1..Len(path) :
                     IF glob[j] \in {"*", "**"} THEN \E n \in spans[j - 1] : n < i
                     ELSE i - 1 \in spans[j - 1] /\ SegmentFits(path[i], glob[j])}
<1>8. h = [n \in 0..N |-> IF n = 0 THEN {0} ELSE Span(path, glob, h[n - 1], n)]
  BY <1>6, <1>7
<1>9. spans = [n \in 0..N |-> IF n = 0 THEN {0} ELSE Span(path, glob, spans[n - 1], n)]
  BY <1>8 DEF spans, Span
<1>10. Fits(path, glob) <=> Len(path) \in spans[N]
  BY DEF Fits, spans, N
<1> HIDE DEF spans
<1>11. Spanning(spans, path, glob, N)
  <2>1. 0 \in 0..N /\ \A n \in 1..N : n \in 0..N /\ n # 0
    BY <1>1
  <2>2. \A n \in 0..N : spans[n] = IF n = 0 THEN {0} ELSE Span(path, glob, spans[n - 1], n)
    BY <1>9, Zenon
  <2>3. spans[0] = {0}
    BY <2>1, <2>2
  <2>4. ASSUME NEW n \in 1..N PROVE spans[n] = Span(path, glob, spans[n - 1], n)
    BY <2>1, <2>2
  <2> QED BY <2>3, <2>4 DEF Spanning
<1> QED BY <1>10, <1>11 DEF N

\* What fits a glob is at least as long, and begins as the glob does up to its first pattern.
LEMMA FitsFacts ==
  ASSUME NEW path, Len(path) \in Nat, NEW glob, Len(glob) \in Nat, NEW lead \in 0..Len(glob),
         \A i \in 1..lead : glob[i] \notin {"*", "**", ".partial-*"}, Fits(path, glob)
  PROVE  Len(glob) <= Len(path) /\ \A k \in 1..lead : path[k] = glob[k]
<1>1. PICK spans : Spanning(spans, path, glob, Len(glob)) /\ (Fits(path, glob) <=> Len(path) \in spans[Len(glob)])
  BY FitsEquation
<1> DEFINE Begins(i, j) == /\ i \in j..Len(path)
                           /\ j <= lead => i = j
                           /\ \A k \in 1..lead : k <= j => path[k] = glob[k]
           T == {j \in Nat : j <= Len(glob) => \A i \in spans[j] : Begins(i, j)}
<1>2. 0 \in T
  BY <1>1 DEF Spanning
<1>3. ASSUME NEW j \in Nat, j \in T PROVE j + 1 \in T
  <2> SUFFICES ASSUME j + 1 <= Len(glob), NEW i \in spans[j + 1] PROVE Begins(i, j + 1)
    OBVIOUS
  <2>1. j + 1 \in 1..Len(glob) /\ (j + 1) - 1 = j /\ j <= Len(glob)
    OBVIOUS
  <2>2. spans[j + 1] = Span(path, glob, spans[j], j + 1)
    BY <1>1, <2>1 DEF Spanning
  <2>3. \A n \in spans[j] : Begins(n, j)
    BY <1>3, <2>1
  <2>4. i \in 1..Len(path)
    BY <2>2 DEF Span
  <2>5. CASE glob[j + 1] \in {"*", "**"}
    <3>1. PICK n \in spans[j] : n < i
      BY <2>2, <2>5 DEF Span
    <3>2. Begins(n, j)
      BY <2>3, <3>1
    <3>3. ~ (j + 1 <= lead)
      BY <2>5
    <3> QED BY <2>4, <3>1, <3>2, <3>3
  <2>6. CASE glob[j + 1] \notin {"*", "**"}
    <3>1. i - 1 \in spans[j] /\ SegmentFits(path[i], glob[j + 1])
      BY <2>2, <2>6 DEF Span
    <3>2. Begins(i - 1, j)
      BY <2>3, <3>1
    <3>3. j + 1 <= lead => i = j + 1 /\ path[i] = glob[j + 1]
      <4> SUFFICES ASSUME j + 1 <= lead PROVE i = j + 1 /\ path[i] = glob[j + 1]
        OBVIOUS
      <4>1. i - 1 = j /\ j + 1 \in 1..lead
        BY <3>2
      <4>2. glob[j + 1] # ".partial-*"
        BY <4>1
      <4> QED BY <2>4, <3>1, <4>1, <4>2 DEF SegmentFits
    <3> QED BY <2>4, <3>2, <3>3
  <2> QED BY <2>5, <2>6
<1>4. Len(glob) \in T
  <2> HIDE DEF T
  <2> QED BY <1>2, <1>3, EveryNumber
<1>5. Begins(Len(path), Len(glob))
  BY <1>1, <1>4
<1> QED BY <1>5

\* What matches a glob begins as the glob does up to its first wildcard.
LEMMA GlobFacts ==
  ASSUME NEW path \in Seq(STRING), NEW glob \in Seq(STRING), NEW lead \in 0..Len(glob),
         \A i \in 1..lead : glob[i] \notin Wildcards, Matches(path, glob)
  PROVE  lead <= Len(path) /\ \A k \in 1..lead : path[k] = glob[k]
<1>1. Len(path) \in Nat /\ Len(glob) \in Nat
  BY LenProperties
<1>2. CASE Fits(path, glob)
  <2>1. \A i \in 1..lead : glob[i] \notin {"*", "**", ".partial-*"}
    BY DEF Wildcards
  <2>2. Len(glob) <= Len(path) /\ \A k \in 1..lead : path[k] = glob[k]
    BY <1>1, <1>2, <2>1, FitsFacts
  <2> QED BY <1>1, <2>2
<1>3. CASE Len(glob) > 1 /\ Last(glob) = "**" /\ path = Front(glob)
  <2>1. glob[Len(glob)] \in Wildcards
    BY <1>3 DEF Last, Wildcards
  <2>2. lead <= Len(glob) - 1 /\ Len(glob) - 1 \in 0..Len(glob)
    BY <1>1, <1>3, <2>1
  <2>3. path = SubSeq(glob, 1, Len(glob) - 1)
    BY <1>3 DEF Front
  <2>4. Len(path) = Len(glob) - 1 /\ \A k \in 1..(Len(glob) - 1) : path[k] = glob[k]
    BY <2>2, <2>3, PrefixFacts
  <2> QED BY <1>1, <2>2, <2>4
<1> QED BY <1>2, <1>3 DEF Matches

\* A directory's glob, and what matches it.
LEMMA DirectoryFacts ==
  ASSUME NEW path \in Seq(STRING), NEW dir \in Seq(STRING), NEW lead \in 0..Len(dir),
         \A i \in 1..lead : dir[i] \notin {"*", "**", ".partial-*"}, Matches(path, Append(dir, "**"))
  PROVE  Len(dir) <= Len(path) /\ \A k \in 1..lead : path[k] = dir[k]
<1> DEFINE Word == STRING \cup {"**"}
           glob == Append(dir, "**")
<1>1. path \in Seq(Word) /\ dir \in Seq(Word) /\ "**" \in Word
  <2>1. STRING \subseteq Word
    OBVIOUS
  <2> HIDE DEF Word
  <2>2. path \in Seq(Word) /\ dir \in Seq(Word)
    BY <2>1, SeqMonotonic
  <2> QED BY <2>2 DEF Word
<1>2. Len(path) \in Nat /\ Len(dir) \in Nat
  BY LenProperties
<1> HIDE DEF Word
<1>3. /\ Len(glob) = Len(dir) + 1
      /\ \A i \in 1..Len(dir) : glob[i] = dir[i]
      /\ SubSeq(glob, 1, Len(dir)) = SubSeq(dir, 1, Len(dir))
  <2>1. Len(dir) \in 0..Len(dir)
    BY <1>2
  <2> QED BY <1>1, <2>1, AppendFacts
<1>4. Front(glob) = dir
  <2>1. Len(glob) - 1 = Len(dir)
    BY <1>2, <1>3
  <2>2. SubSeq(dir, 1, Len(dir)) = dir
    BY SubSeqFull
  <2> HIDE DEF glob
  <2> QED BY <1>3, <2>1, <2>2 DEF Front
<1> HIDE DEF glob
<1>5. CASE Fits(path, glob)
  <2>1. Len(glob) \in Nat /\ lead \in 0..Len(glob) /\ \A i \in 1..lead : i \in 1..Len(dir)
    BY <1>2, <1>3
  <2>2. \A i \in 1..lead : glob[i] \notin {"*", "**", ".partial-*"}
    BY <1>3, <2>1
  <2>3. Len(glob) <= Len(path) /\ \A k \in 1..lead : path[k] = glob[k]
    BY <1>2, <1>5, <2>1, <2>2, FitsFacts
  <2> QED BY <1>2, <1>3, <2>1, <2>3
<1>6. CASE path = Front(glob)
  <2>1. path = dir
    BY <1>4, <1>6
  <2> QED BY <1>2, <2>1
<1>7. Fits(path, glob) \/ path = Front(glob)
  BY DEF Matches, glob
<1> QED BY <1>5, <1>6, <1>7

\* Whatever is below nodes/ is housekeeping.
LEMMA BelowNodesFits ==
  ASSUME NEW path, Len(path) \in Nat, Len(path) > 1, path[1] = "nodes"
  PROVE  Matches(path, <<"nodes", "**">>)
<1> DEFINE glob == <<"nodes", "**">>
<1>1. Len(glob) = 2 /\ glob[1] = "nodes" /\ glob[2] = "**"
  OBVIOUS
<1> HIDE DEF glob
<1>2. PICK spans : Spanning(spans, path, glob, 2) /\ (Fits(path, glob) <=> Len(path) \in spans[2])
  BY <1>1, FitsEquation
<1>3. spans[0] = {0} /\ spans[1] = Span(path, glob, spans[0], 1) /\ spans[2] = Span(path, glob, spans[1], 2)
  <2>1. 1 \in 1..2 /\ 2 \in 1..2 /\ 1 - 1 = 0 /\ 2 - 1 = 1
    OBVIOUS
  <2> QED BY <1>2, <2>1 DEF Spanning
<1>4. 1 \in spans[1]
  <2>1. 1 \in 1..Len(path) /\ 1 - 1 \in {0} /\ SegmentFits(path[1], glob[1]) /\ glob[1] \notin {"*", "**"}
    BY <1>1 DEF SegmentFits
  <2> QED BY <1>3, <2>1 DEF Span
<1>5. Len(path) \in spans[2]
  <2>1. Len(path) \in 1..Len(path) /\ 1 < Len(path) /\ glob[2] \in {"*", "**"}
    BY <1>1
  <2> QED BY <1>3, <1>4, <2>1 DEF Span
<1> QED BY <1>2, <1>5 DEF Matches, glob

-----------------------------------------------------------------------------
(* The hooks' boundary and the scan's.                                     *)

LEMMA BelowFacts ==
  ASSUME NEW path \in Seq(STRING), NEW root \in Seq(STRING), Under(path, root)
  PROVE  /\ Len(root) \in Nat /\ Len(path) \in Nat /\ Len(root) <= Len(path)
         /\ SubSeq(path, 1, Len(root)) = root
         /\ Below(path, root) \in Seq(STRING)
         /\ Len(Below(path, root)) = Len(path) - Len(root)
         /\ \A i \in 1..(Len(path) - Len(root)) : Below(path, root)[i] = path[Len(root) + i]
         /\ path = root \o Below(path, root)
<1>1. Len(root) \in Nat /\ Len(path) \in Nat /\ \A i \in 1..Len(path) : path[i] \in STRING
  BY LenProperties
<1>2. Len(root) <= Len(path) /\ SubSeq(root, 1, Len(root)) = SubSeq(path, 1, Len(root))
  BY DEF Under, IsPrefix
<1>3. SubSeq(path, 1, Len(root)) = root
  BY <1>2, SubSeqFull
<1>4. /\ Below(path, root) \in Seq(STRING)
      /\ Len(Below(path, root)) = Len(path) - Len(root)
      /\ \A i \in 1..(Len(path) - Len(root)) : Below(path, root)[i] = path[Len(root) + i]
  <2> DEFINE m == Len(root) + 1
  <2>1. m \in Int /\ Len(path) \in Int /\ \A i \in m..Len(path) : path[i] \in STRING
    BY <1>1
  <2>2. /\ SubSeq(path, m, Len(path)) \in Seq(STRING)
        /\ Len(SubSeq(path, m, Len(path))) = IF m <= Len(path) THEN Len(path) - m + 1 ELSE 0
        /\ \A i \in 1..(Len(path) - m + 1) : SubSeq(path, m, Len(path))[i] = path[m + i - 1]
    <3> HIDE DEF m
    <3> QED BY <2>1, SubSeqProperties
  <2>3. Len(path) - m + 1 = Len(path) - Len(root) /\ \A i \in Int : m + i - 1 = Len(root) + i
    BY <1>1
  <2> QED BY <1>1, <1>2, <2>2, <2>3 DEF Below
<1>5. path = root \o Below(path, root)
  <2> DEFINE b == Below(path, root)
  <2> HIDE DEF b
  <2>1. b \in Seq(STRING) /\ Len(b) = Len(path) - Len(root)
        /\ \A i \in 1..(Len(path) - Len(root)) : b[i] = path[Len(root) + i]
    BY <1>4 DEF b
  <2>2. /\ root \o b \in Seq(STRING) /\ Len(root \o b) = Len(root) + Len(b)
        /\ \A i \in 1..(Len(root) + Len(b)) : (root \o b)[i] = IF i <= Len(root) THEN root[i] ELSE b[i - Len(root)]
    BY <2>1, ConcatProperties
  <2>3. Len(root \o b) = Len(path)
    BY <1>1, <2>1, <2>2
  <2>4. \A i \in 1..Len(root) : root[i] = path[i]
    <3>1. Len(root) \in 0..Len(path)
      BY <1>1, <1>2
    <3> QED BY <1>3, <3>1, PrefixFacts
  <2>5. ASSUME NEW i \in 1..Len(path) PROVE path[i] = (root \o b)[i]
    <3>1. CASE i <= Len(root)
      <4>1. i \in 1..Len(root) /\ i \in 1..(Len(root) + Len(b))
        BY <1>1, <2>1, <3>1
      <4> QED BY <2>2, <2>4, <3>1, <4>1
    <3>2. CASE ~ (i <= Len(root))
      <4>1. i - Len(root) \in 1..(Len(path) - Len(root)) /\ Len(root) + (i - Len(root)) = i /\ i \in 1..(Len(root) + Len(b))
        BY <1>1, <2>1, <3>2
      <4> QED BY <2>1, <2>2, <3>2, <4>1
    <3> QED BY <3>1, <3>2
  <2>6. path = root \o b
    BY <2>2, <2>3, <2>5, SeqEqual
  <2> QED BY <2>6 DEF b
<1> QED BY <1>1, <1>2, <1>3, <1>4, <1>5

\* An absolute path is no path below a directory.
LEMMA BelowIsRelative ==
  ASSUME NEW links, NEW target, IsReal(links, target), NEW root, IsReal(links, root), StrictlyUnder(target, root)
  PROVE  /\ Under(target, root)
         /\ Len(Below(target, root)) >= 1
         /\ Below(target, root)[1] # "/"
<1>1. /\ target \in Seq(STRING) /\ \A i \in 2..Len(target) : target[i] # "/"
      /\ root \in Seq(STRING) /\ root # <<>>
  BY DEF IsReal, IsAbsolute
<1>2. Under(target, root) /\ root # target
  BY DEF StrictlyUnder, IsStrictPrefix, Under
<1>3. /\ Len(root) \in Nat /\ Len(target) \in Nat /\ Len(root) <= Len(target)
      /\ SubSeq(target, 1, Len(root)) = root
      /\ Len(Below(target, root)) = Len(target) - Len(root)
      /\ \A i \in 1..(Len(target) - Len(root)) : Below(target, root)[i] = target[Len(root) + i]
  BY <1>1, <1>2, BelowFacts
<1>4. Len(root) # Len(target)
  BY <1>1, <1>2, <1>3, SubSeqFull
<1>5. Len(root) >= 1
  BY <1>1, <1>3, EmptySeq
<1>6. Len(target) - Len(root) >= 1 /\ 1 \in 1..(Len(target) - Len(root)) /\ Len(root) + 1 \in 2..Len(target)
  <2>1. \A a, b \in Nat : a <= b /\ a # b /\ a >= 1 => b - a >= 1 /\ 1 \in 1..(b - a) /\ a + 1 \in 2..b
    OBVIOUS
  <2>2. Len(root) \in Nat /\ Len(target) \in Nat /\ Len(root) <= Len(target)
    BY <1>3
  <2> QED BY <1>4, <1>5, <2>1, <2>2
<1> QED BY <1>1, <1>2, <1>3, <1>6

\* What a permitted write under the run's root is covered by: the write set, or the node's own directory.
LEMMA CoveredWithin ==
  ASSUME NEW links, \A l \in DOMAIN links : IsReal(links, links[l]),
         NEW req, IsAbsolute(req.root), \A x \in req.extra : IsAbsolute(x),
         NEW target, IsReal(links, target), StrictlyUnder(target, RealPath(links, req.root)),
         IsCovered(Below(target, RealPath(links, req.root)), AllowedWrites(links, req))
  PROVE  \E g \in req.writeSet \cup {Append(Below(req.nodeDir, req.root), "**")} :
            Matches(Below(target, RealPath(links, req.root)), g)
<1> DEFINE p == Below(target, RealPath(links, req.root))
<1>1. IsReal(links, RealPath(links, req.root))
  BY RealPathIsReal
<1>2. p \in Seq(STRING) /\ Len(p) >= 1 /\ p[1] # "/"
  <2>1. target \in Seq(STRING) /\ RealPath(links, req.root) \in Seq(STRING)
    BY <1>1 DEF IsReal, IsAbsolute
  <2> QED BY <1>1, <2>1, BelowIsRelative, BelowFacts
<1> HIDE DEF p
<1>3. PICK g \in AllowedWrites(links, req) : Matches(p, g)
  BY DEF IsCovered, p
<1>4. ASSUME NEW x \in req.extra, g = Append(RealPath(links, x), "**") PROVE FALSE
  <2> DEFINE dir == RealPath(links, x)
  <2>1. IsReal(links, dir)
    BY RealPathIsReal
  <2> HIDE DEF dir
  <2>2. dir \in Seq(STRING) /\ dir # <<>> /\ dir[1] = "/"
    BY <2>1 DEF IsReal, IsAbsolute
  <2>3. 1 \in 0..Len(dir)
    BY <2>2, EmptySeq
  <2>4. \A i \in 1..1 : dir[i] \notin {"*", "**", ".partial-*"}
    BY <2>2
  <2>5. Matches(p, Append(dir, "**"))
    BY <1>3, <1>4 DEF dir
  <2>6. \A k \in 1..1 : p[k] = dir[k]
    BY <1>2, <2>2, <2>3, <2>4, <2>5, DirectoryFacts
  <2> QED BY <1>2, <2>2, <2>6
<1> QED BY <1>3, <1>4 DEF AllowedWrites, p

\* A directory a permitted write lies below is where its name leads.
LEMMA CoveredFromBelow ==
  ASSUME NEW links, \A l \in DOMAIN links : IsReal(links, links[l]),
         NEW root, IsAbsolute(root), NEW dir \in Seq(STRING),
         NEW target, IsReal(links, target), StrictlyUnder(target, RealPath(links, root)),
         Len(dir) <= Len(Below(target, RealPath(links, root))),
         \A k \in 1..Len(dir) : Below(target, RealPath(links, root))[k] = dir[k]
  PROVE  Under(target, RealPath(links, root \o dir))
<1> DEFINE R == RealPath(links, root)
           p == Below(target, R)
<1>1. IsReal(links, R)
  BY RealPathIsReal
<1>2. root \in Seq(STRING) /\ R \in Seq(STRING) /\ target \in Seq(STRING) /\ dir \in Seq(STRING)
  BY <1>1 DEF IsReal, IsAbsolute
<1>3. Under(target, R)
  BY <1>1, BelowIsRelative
<1>6. Len(dir) <= Len(p) /\ \A k \in 1..Len(dir) : p[k] = dir[k]
  OBVIOUS
<1> HIDE DEF R
<1>4. /\ Len(R) \in Nat /\ Len(target) \in Nat /\ Len(R) <= Len(target)
      /\ SubSeq(target, 1, Len(R)) = R
      /\ p \in Seq(STRING) /\ Len(p) = Len(target) - Len(R)
      /\ \A i \in 1..(Len(target) - Len(R)) : p[i] = target[Len(R) + i]
  BY <1>2, <1>3, BelowFacts
<1> HIDE DEF p
<1>5. Len(dir) \in Nat /\ Len(dir) \in 0..Len(dir)
  BY <1>2, LenProperties
<1>7. Len(R) + Len(dir) <= Len(target) /\ Len(R) + Len(dir) \in 0..Len(target)
  BY <1>4, <1>5, <1>6
<1>8. ASSUME NEW j \in 1..Len(dir) PROVE target[Len(R) + j] = dir[j]
  <2>1. j \in 1..(Len(target) - Len(R))
    BY <1>4, <1>5, <1>6
  <2> QED BY <1>4, <1>6, <2>1
<1>9. RealPath(links, root \o dir) = SubSeq(target, 1, Len(R) + Len(dir))
  <2>1. /\ Len(RealPath(links, root)) \in Nat
        /\ Len(RealPath(links, root)) + Len(dir) <= Len(target)
        /\ SubSeq(target, 1, Len(RealPath(links, root))) = RealPath(links, root)
        /\ \A j \in 1..Len(dir) : target[Len(RealPath(links, root)) + j] = dir[j]
    BY <1>4, <1>7, <1>8 DEF R
  <2>2. RealPath(links, root \o dir) = SubSeq(target, 1, Len(RealPath(links, root)) + Len(dir))
    BY <1>2, <2>1, RealPathThrough
  <2> QED BY <2>2 DEF R
<1>10. /\ SubSeq(target, 1, Len(R) + Len(dir)) \in Seq(STRING)
       /\ Len(SubSeq(target, 1, Len(R) + Len(dir))) = Len(R) + Len(dir)
  BY <1>2, <1>7, PrefixFacts
<1>11. SubSeq(SubSeq(target, 1, Len(R) + Len(dir)), 1, Len(R) + Len(dir)) = SubSeq(target, 1, Len(R) + Len(dir))
  BY <1>10, SubSeqFull
<1> QED BY <1>7, <1>9, <1>10, <1>11 DEF Under, IsPrefix

\* What is assumed of one call.
CallFacts(one) ==
  LET req == one.req
  IN /\ IsAbsolute(req.root) /\ \A x \in req.extra : IsAbsolute(x)
     /\ IsAbsolute(req.cwd) /\ IsAbsolute(one.own.cwd)
     /\ one.call.path # NoPath => IsAbsolute(one.call.path) \/ IsRelative(one.call.path)
     /\ \A l \in DOMAIN one.links : IsReal(one.links, one.links[l])
     /\ req.nodeDir \in Seq(STRING)
     /\ Under(req.nodeDir, req.root) =>
          LET own == Below(req.nodeDir, req.root)
          IN Len(own) > 1 /\ own[1] = "nodes" /\ \A i \in 1..Len(own) : own[i] \notin Wildcards
     /\ \A g \in req.writeSet : g \in Seq(STRING) /\ \E n \in DOMAIN one.declared : g \in one.declared[n]

LEMMA CallsAreSound == ASSUME NEW one \in CallsGiven PROVE CallFacts(one)
<1>1. CallsAssumption
  BY RulesAssumption
<1> QED BY <1>1, Zenon DEF CallsAssumption, CallFacts

\* A path is absolute from where a process works.
LEMMA FromIsAbsolute ==
  ASSUME NEW cwd, IsAbsolute(cwd), NEW path, IsAbsolute(path) \/ IsRelative(path)
  PROVE  IsAbsolute(From(cwd, path))
<1>1. CASE IsAbsolute(path)
  BY <1>1 DEF From
<1>2. CASE ~ IsAbsolute(path)
  <2>1. IsRelative(path) /\ From(cwd, path) = cwd \o path
    BY <1>2 DEF From
  <2>2. /\ cwd \in Seq(STRING) /\ path \in Seq(STRING) /\ cwd # <<>> /\ cwd[1] = "/"
        /\ (\A i \in 2..Len(cwd) : cwd[i] # "/") /\ (\A i \in 1..Len(path) : path[i] # "/")
    BY <2>1 DEF IsAbsolute, IsRelative
  <2>3. Len(cwd) \in Nat /\ Len(cwd) >= 1 /\ Len(path) \in Nat
    BY <2>2, EmptySeq, LenProperties
  <2>4. /\ cwd \o path \in Seq(STRING) /\ Len(cwd \o path) = Len(cwd) + Len(path)
        /\ \A i \in 1..(Len(cwd) + Len(path)) :
              (cwd \o path)[i] = IF i <= Len(cwd) THEN cwd[i] ELSE path[i - Len(cwd)]
    BY <2>2, ConcatProperties
  <2> DEFINE whole == cwd \o path
  <2> HIDE DEF whole
  <2>5. whole # <<>> /\ whole[1] = "/"
    BY <2>2, <2>3, <2>4, EmptySeq DEF whole
  <2>6. ASSUME NEW i \in 2..Len(whole) PROVE whole[i] # "/"
    <3>1. i \in 1..(Len(cwd) + Len(path))
      BY <2>3, <2>4 DEF whole
    <3>2. CASE i <= Len(cwd)
      BY <2>2, <2>3, <2>4, <3>1, <3>2 DEF whole
    <3>3. CASE ~ i <= Len(cwd)
      <4>1. i - Len(cwd) \in 1..Len(path)
        BY <2>3, <3>1, <3>3
      <4> QED BY <2>2, <2>4, <3>1, <3>3, <4>1 DEF whole
    <3> QED BY <3>2, <3>3
  <2> QED BY <2>1, <2>4, <2>5, <2>6 DEF IsAbsolute, whole
<1> QED BY <1>1, <1>2

\* Where a call leads that is judged as it is meant.
Aim(one) == From(one.own.cwd, one.call.path)

LEMMA AimIsAbsolute ==
  ASSUME NEW one, CallFacts(one), one.call.path # NoPath
  PROVE  IsAbsolute(Aim(one))
<1>1. IsAbsolute(one.own.cwd) /\ (IsAbsolute(one.call.path) \/ IsRelative(one.call.path))
  BY DEF CallFacts
<1> QED BY <1>1, FromIsAbsolute DEF Aim

\* What a permitted write under the root is covered by, as the scan reads it.
LEMMA ScanCovers ==
  ASSUME NEW one, CallFacts(one), Under(one.req.nodeDir, one.req.root), NEW path \in Seq(STRING),
         NEW g \in one.req.writeSet \cup {Append(Below(one.req.nodeDir, one.req.root), "**")}, Matches(path, g),
         NEW watched \in DOMAIN one.declared
  PROVE  IsCovered(path, ScanAllowed(watched, one.declared[watched], one.declared))
<1>1. CASE g \in one.req.writeSet
  <2>1. PICK n \in DOMAIN one.declared : g \in one.declared[n]
    BY <1>1 DEF CallFacts
  <2>2. g \in ScanAllowed(watched, one.declared[watched], one.declared)
    BY <2>1 DEF ScanAllowed
  <2> QED BY <2>2 DEF IsCovered
<1>2. CASE g = Append(Below(one.req.nodeDir, one.req.root), "**")
  <2> DEFINE own == Below(one.req.nodeDir, one.req.root)
  <2>1. own \in Seq(STRING) /\ Len(own) > 1 /\ own[1] = "nodes" /\ \A i \in 1..Len(own) : own[i] \notin Wildcards
    <3>1. one.req.nodeDir \in Seq(STRING) /\ one.req.root \in Seq(STRING)
      BY DEF CallFacts, IsAbsolute
    <3>2. own \in Seq(STRING)
      BY <3>1, BelowFacts
    <3>3. Len(own) > 1 /\ own[1] = "nodes" /\ \A i \in 1..Len(own) : own[i] \notin Wildcards
      BY Zenon DEF CallFacts
    <3> QED BY <3>2, <3>3
  <2>2. Matches(path, Append(own, "**"))
    BY <1>2
  <2> HIDE DEF own
  <2>3. own \in Seq(STRING) /\ Len(own) \in Nat /\ 1 \in 0..Len(own)
    BY <2>1, LenProperties
  <2>4. \A i \in 1..1 : own[i] \notin {"*", "**", ".partial-*"}
    BY <2>1 DEF Wildcards
  <2>5. Len(own) <= Len(path) /\ \A k \in 1..1 : path[k] = own[k]
    BY <2>2, <2>3, <2>4, DirectoryFacts
  <2>6. Len(path) \in Nat /\ Len(path) > 1 /\ path[1] = "nodes"
    BY <2>1, <2>3, <2>5, LenProperties
  <2>7. <<"nodes", "**">> \in ScanAllowed(watched, one.declared[watched], one.declared)
    <3>1. <<"nodes", "**">> \in Housekeeping
      <4> DEFINE kept == {"nodes", "manifest", "intents", "artefacts", "done", "attempted", "decisions", "retries"}
      <4>1. "nodes" \in kept /\ Housekeeping = {<<d, "**">> : d \in kept} \cup {<<"wt", ".partial-*", "**">>}
        BY DEF Housekeeping
      <4> HIDE DEF kept
      <4>2. <<"nodes", "**">> \in {<<d, "**">> : d \in kept}
        BY <4>1
      <4> QED BY <4>1, <4>2
    <3> QED BY <3>1 DEF ScanAllowed
  <2> QED BY <2>6, <2>7, BelowNodesFits DEF IsCovered
<1> QED BY <1>1, <1>2

LEMMA PermittedJudged == Judged => PermittedIsNotStray
<1> SUFFICES ASSUME Judged, Answered("call"), answer.built /\ answer.allowed /\ given.call.tool \in WriteTools,
                    JudgedAsMeant
             PROVE  PermittedIsNotStray
  BY Zenon DEF PermittedIsNotStray
<1> DEFINE target == RealPath(given.links, Aim(given))
           root == RealPath(given.links, given.req.root)
           p == Below(target, root)
           left == [q \in {p} |-> "content"]
<1>0. Aim(given) = From(given.req.cwd, given.call.path)
  BY DEF Aim, JudgedAsMeant
<1>1. /\ given \in CallsGiven
      /\ answer = [built |-> CwdAccepted(given.links, given.req) /\ BuiltRight(given.req, given.own),
                   allowed |-> Allowed(given.links, given.req, given.own, given.call)]
  BY DEF Judged, Answered
<1>2. Under(given.req.nodeDir, given.req.root) /\ WriteAllowed(given.links, given.req, given.own, given.call)
  BY <1>1 DEF BuiltRight, Allowed
<1>3. CallFacts(given)
  BY <1>1, CallsAreSound
<1>4. given.call.path # NoPath
  BY <1>2, Zenon DEF WriteAllowed
<1>5. SUFFICES ASSUME StrictlyUnder(target, root), NEW watched \in DOMAIN given.declared
               PROVE  StrayPaths(<<>>, Manifest(left), watched, given.declared[watched], given.declared) = {}
  BY <1>0 DEF PermittedIsNotStray
<1>6. IsReal(given.links, target) /\ IsReal(given.links, root)
  BY <1>3, <1>4, AimIsAbsolute, RealPathIsReal DEF CallFacts
<1>7. IsCovered(p, AllowedWrites(given.links, given.req))
  BY <1>2, <1>5, Zenon DEF WriteAllowed, Aim
<1>8. PICK g \in given.req.writeSet \cup {Append(Below(given.req.nodeDir, given.req.root), "**")} : Matches(p, g)
  BY <1>3, <1>5, <1>6, <1>7, CoveredWithin DEF CallFacts
<1>9. p \in Seq(STRING)
  <2>1. target \in Seq(STRING) /\ root \in Seq(STRING) /\ Under(target, root)
    BY <1>5, <1>6, BelowIsRelative DEF IsReal, IsAbsolute
  <2> HIDE DEF target, root
  <2> QED BY <2>1, BelowFacts
<1> HIDE DEF p
<1>10. IsCovered(p, ScanAllowed(watched, given.declared[watched], given.declared))
  BY <1>2, <1>3, <1>8, <1>9, ScanCovers
<1>11. \A q \in DiffManifests(<<>>, Manifest(left)) : q = p
  BY DEF DiffManifests, Manifest
<1> QED BY <1>10, <1>11 DEF StrayPaths

LEMMA NoWayAroundJudged == Judged => NoWayAround
<1> SUFFICES ASSUME Judged, Answered("call"), answer.built /\ answer.allowed /\ given.call.path # NoPath,
                    JudgedAsMeant
             PROVE  NoWayAround
  BY Zenon DEF NoWayAround
<1> DEFINE target == RealPath(given.links, Aim(given))
           root == RealPath(given.links, given.req.root)
           p == Below(target, root)
           Within(q) == Under(target, RealPath(given.links, q))
<1>0. Aim(given) = From(given.req.cwd, given.call.path)
  BY DEF Aim, JudgedAsMeant
<1>1. /\ given \in CallsGiven
      /\ answer = [built |-> CwdAccepted(given.links, given.req) /\ BuiltRight(given.req, given.own),
                   allowed |-> Allowed(given.links, given.req, given.own, given.call)]
  BY DEF Judged, Answered
<1>2. Under(given.req.nodeDir, given.req.root) /\ Allowed(given.links, given.req, given.own, given.call)
  BY <1>1 DEF BuiltRight
<1>3. CallFacts(given)
  BY <1>1, CallsAreSound
<1>4. IsReal(given.links, target) /\ IsReal(given.links, root)
  BY <1>3, AimIsAbsolute, RealPathIsReal DEF CallFacts
<1>5. ASSUME given.call.tool \in WriteTools
      PROVE  \/ \E q \in {given.req.nodeDir} \cup given.req.extra : Within(q)
             \/ \E g \in given.req.writeSet : \A n \in 0..Len(g) :
                   (\A i \in 1..n : g[i] \notin Wildcards) => Within(given.req.root \o SubSeq(g, 1, n))
  <2>1. WriteAllowed(given.links, given.req, given.own, given.call)
    BY <1>2, <1>5 DEF Allowed
  <2>2. CASE StrictlyUnder(target, root)
    <3>1. IsCovered(p, AllowedWrites(given.links, given.req))
      BY <2>1, <2>2, Zenon DEF WriteAllowed, Aim
    <3>2. PICK g \in given.req.writeSet \cup {Append(Below(given.req.nodeDir, given.req.root), "**")} : Matches(p, g)
      BY <1>3, <1>4, <2>2, <3>1, CoveredWithin DEF CallFacts
    <3>3. p \in Seq(STRING)
      <4>1. target \in Seq(STRING) /\ root \in Seq(STRING) /\ Under(target, root)
        BY <1>4, <2>2, BelowIsRelative DEF IsReal, IsAbsolute
      <4> HIDE DEF target, root
      <4> QED BY <4>1, BelowFacts
    <3>4. ASSUME NEW dir \in Seq(STRING), Len(dir) <= Len(p), \A k \in 1..Len(dir) : p[k] = dir[k]
          PROVE  Within(given.req.root \o dir)
      BY <1>3, <1>4, <2>2, <3>4, CoveredFromBelow DEF CallFacts
    <3> HIDE DEF p, Within
    <3>5. ASSUME g \in given.req.writeSet, NEW n \in 0..Len(g), \A i \in 1..n : g[i] \notin Wildcards
          PROVE  Within(given.req.root \o SubSeq(g, 1, n))
      <4> DEFINE dir == SubSeq(g, 1, n)
      <4>1. g \in Seq(STRING)
        BY <1>3, <3>5 DEF CallFacts
      <4>2. n <= Len(p) /\ \A k \in 1..n : p[k] = g[k]
        BY <3>2, <3>3, <3>5, <4>1, GlobFacts
      <4>3. dir \in Seq(STRING) /\ Len(dir) = n /\ \A k \in 1..n : dir[k] = g[k]
        BY <4>1, PrefixFacts
      <4> HIDE DEF dir
      <4>4. Len(dir) <= Len(p) /\ \A k \in 1..Len(dir) : p[k] = dir[k]
        BY <4>2, <4>3
      <4>5. Within(given.req.root \o dir)
        BY <3>4, <4>3, <4>4
      <4> QED BY <4>5 DEF dir
    <3>6. CASE g = Append(Below(given.req.nodeDir, given.req.root), "**")
      <4> DEFINE dir == Below(given.req.nodeDir, given.req.root)
      <4>1. dir \in Seq(STRING) /\ given.req.nodeDir = given.req.root \o dir
        <5>1. given.req.nodeDir \in Seq(STRING) /\ given.req.root \in Seq(STRING)
          BY <1>3 DEF CallFacts, IsAbsolute
        <5> QED BY <1>2, <5>1, BelowFacts
      <4>2. \A i \in 1..Len(dir) : dir[i] \notin {"*", "**", ".partial-*"}
        BY <1>2, <1>3 DEF CallFacts, Wildcards
      <4>3. Matches(p, Append(dir, "**"))
        BY <3>2, <3>6
      <4> HIDE DEF dir
      <4>4. Len(dir) \in 0..Len(dir)
        BY <4>1, LenProperties
      <4>5. Len(dir) <= Len(p) /\ \A k \in 1..Len(dir) : p[k] = dir[k]
        BY <3>3, <4>1, <4>2, <4>3, <4>4, DirectoryFacts
      <4>6. Within(given.req.root \o dir)
        BY <3>4, <4>1, <4>5
      <4> QED BY <4>1, <4>6
    <3> QED BY <3>2, <3>5, <3>6
  <2>3. CASE ~ StrictlyUnder(target, root)
    <3>1. PICK x \in given.req.extra : StrictlyUnder(target, RealPath(given.links, x))
      BY <2>1, <2>3, Zenon DEF WriteAllowed, Aim
    <3>2. Under(target, RealPath(given.links, x))
      BY <3>1 DEF StrictlyUnder, IsStrictPrefix, Under
    <3> QED BY <3>2
  <2> QED BY <2>2, <2>3
<1>6. ASSUME given.call.tool \in ReadTools \cup {"Bash"}, given.req.readRoots # Unconfined
      PROVE  \E q \in given.req.readRoots : Within(q)
  <2>1. CASE given.call.tool = "Bash"
    BY <1>2, <1>6, <2>1 DEF Allowed, BashAllowed
  <2>2. CASE given.call.tool \in ReadTools
    <3>1. ReadAllowed(given.links, given.req, given.own, given.call)
      BY <1>2, <1>6, <2>2 DEF Allowed
    <3> QED BY <1>0, <3>1, Zenon DEF ReadAllowed, Aim
  <2> QED BY <1>6, <2>1, <2>2
<1> QED BY <1>0, <1>5, <1>6, Zenon DEF NoWayAround

\* The hooks and the scan draw one boundary, through links and ".." too (hooks_claude.py
\* deny_outside_write_set, domain/scan.py stray_paths), for every call whose path, absolute or not,
\* means to the node what it means to the coordinator: no scan of the launch reports a write a hook
\* let through, and no link leads a permitted write or a confined read out of what the node was given.
THEOREM BoundariesHold == Deciding => []BoundariesAgree
<1>1. Judged => BoundariesAgree
  BY PermittedJudged, NoWayAroundJudged DEF BoundariesAgree
<1> QED BY <1>1, EveryAnswerIsJudged, PTL

-----------------------------------------------------------------------------
(* What is shown to a person fits.                                         *)

\* What a function defined from its value one before is, when each step stays in a set.
LEMMA StepByStep ==
  ASSUME NEW Q, NEW start \in Q, NEW N \in Nat, NEW step \in [1..N -> [Q -> Q]]
  PROVE  \E f \in [0..N -> Q] : f[0] = start /\ \A n \in 1..N : f[n] = step[n][f[n - 1]]
<1> DEFINE Reaches(f, d) == f[0] = start /\ \A n \in 1..d : f[n] = step[n][f[n - 1]]
           T == {d \in Nat : d <= N => \E f \in [0..d -> Q] : Reaches(f, d)}
<1>1. 0 \in T
  <2> DEFINE f == [m \in 0..0 |-> start]
  <2>1. f \in [0..0 -> Q] /\ Reaches(f, 0)
    OBVIOUS
  <2> QED BY <2>1
<1>2. ASSUME NEW d \in Nat, d \in T PROVE d + 1 \in T
  <2> SUFFICES ASSUME d + 1 <= N PROVE \E g \in [0..(d + 1) -> Q] : Reaches(g, d + 1)
    OBVIOUS
  <2>1. PICK f \in [0..d -> Q] : Reaches(f, d)
    BY <1>2
  <2>2. d + 1 \in 1..N /\ f[d] \in Q /\ step[d + 1] \in [Q -> Q]
    OBVIOUS
  <2>3. step[d + 1][f[d]] \in Q
    BY <2>2
  <2> DEFINE g == [m \in 0..(d + 1) |-> IF m = d + 1 THEN step[d + 1][f[d]] ELSE f[m]]
  <2>4. g \in [0..(d + 1) -> Q]
    BY <2>3
  <2>5. g[d + 1] = step[d + 1][f[d]] /\ \A m \in 0..d : g[m] = f[m]
    OBVIOUS
  <2> HIDE DEF g
  <2>6. g[0] = start
    BY <2>1, <2>5
  <2>7. ASSUME NEW n \in 1..(d + 1) PROVE g[n] = step[n][g[n - 1]]
    <3>1. n - 1 \in 0..d /\ g[n - 1] = f[n - 1]
      BY <2>5
    <3>2. CASE n = d + 1
      BY <2>5, <3>1, <3>2
    <3>3. CASE n # d + 1
      <4>1. n \in 1..d /\ n \in 0..d
        BY <3>3
      <4> QED BY <2>1, <2>5, <3>1, <4>1
    <3> QED BY <3>2, <3>3
  <2> QED BY <2>4, <2>6, <2>7
<1>3. N \in T
  <2> HIDE DEF T
  <2> QED BY <1>1, <1>2, EveryNumber
<1> QED BY <1>3

\* A text and a character appended one after the other.
LEMMA ConcatTwo ==
  ASSUME NEW S, NEW s \in Seq(S), NEW a \in S, NEW b \in S
  PROVE  s \o <<a, b>> = Append(Append(s, a), b)
<1>1. Append(s, a) \in Seq(S) /\ <<a>> \in Seq(S) /\ <<b>> \in Seq(S)
  BY AppendProperties
<1>2. Append(s, a) = s \o <<a>> /\ Append(Append(s, a), b) = Append(s, a) \o <<b>>
  BY <1>1, AppendIsConcat
<1>3. (s \o <<a>>) \o <<b>> = s \o (<<a>> \o <<b>>)
  BY <1>1, ConcatAssociative
<1>4. <<a>> \o <<b>> = <<a, b>>
  <2>1. /\ <<a>> \o <<b>> \in Seq(S) /\ Len(<<a>>) = 1 /\ Len(<<b>>) = 1
        /\ Len(<<a>> \o <<b>>) = Len(<<a>>) + Len(<<b>>)
        /\ \A i \in 1..(Len(<<a>>) + Len(<<b>>)) :
              (<<a>> \o <<b>>)[i] = IF i <= Len(<<a>>) THEN <<a>>[i] ELSE <<b>>[i - Len(<<a>>)]
    BY <1>1, ConcatProperties
  <2> DEFINE c == <<a>> \o <<b>>
  <2>2. c \in Seq(S) /\ Len(c) = 2 /\ c[1] = a /\ c[2] = b
    <3>1. Len(<<a>>) + Len(<<b>>) = 2 /\ 1 \in 1..2 /\ 2 \in 1..2 /\ 2 - Len(<<a>>) = 1
      BY <2>1
    <3> QED BY <2>1, <3>1
  <2> HIDE DEF c
  <2>3. <<a, b>> \in Seq(S) /\ Len(<<a, b>>) = 2 /\ <<a, b>>[1] = a /\ <<a, b>>[2] = b
    OBVIOUS
  <2>4. \A i \in 1..Len(c) : c[i] = <<a, b>>[i]
    <3>1. \A i \in 1..2 : i = 1 \/ i = 2
      OBVIOUS
    <3> QED BY <2>2, <2>3, <3>1
  <2>5. c = <<a, b>>
    BY <2>2, <2>3, <2>4, SeqEqual
  <2> QED BY <2>5 DEF c
<1> QED BY <1>2, <1>3, <1>4

\* One character more of a text.
LEMMA PrefixGrows ==
  ASSUME NEW S, NEW s \in Seq(S), NEW n \in 1..Len(s)
  PROVE  SubSeq(s, 1, n) = Append(SubSeq(s, 1, n - 1), s[n])
<1>1. Len(s) \in Nat /\ n - 1 \in 0..Len(s) /\ n \in 0..Len(s) /\ s[n] \in S
  BY LenProperties
<1> DEFINE p == SubSeq(s, 1, n - 1)
           q == SubSeq(s, 1, n)
<1>2. p \in Seq(S) /\ Len(p) = n - 1 /\ \A i \in 1..(n - 1) : p[i] = s[i]
  BY <1>1, PrefixFacts
<1>3. q \in Seq(S) /\ Len(q) = n /\ \A i \in 1..n : q[i] = s[i]
  BY <1>1, PrefixFacts
<1> HIDE DEF p, q
<1>4. /\ Append(p, s[n]) \in Seq(S) /\ Len(Append(p, s[n])) = n
      /\ (\A i \in 1..(n - 1) : Append(p, s[n])[i] = s[i]) /\ Append(p, s[n])[n] = s[n]
  BY <1>1, <1>2, AppendFacts
<1>5. \A i \in 1..Len(q) : q[i] = Append(p, s[n])[i]
  BY <1>3, <1>4
<1>6. q = Append(p, s[n])
  BY <1>3, <1>4, <1>5, SeqEqual
<1> QED BY <1>6 DEF p, q

\* The width of the line at one character, from the width before it.
WidthAt(text, before, n) == IF text[n] = NewLine THEN 0 ELSE before + Octets(text[n])

Texts == Seq(Characters)

LEMMA WidthsEquation ==
  ASSUME NEW text \in Texts
  PROVE  /\ Widths(text) \in [0..Len(text) -> Nat]
         /\ Widths(text)[0] = 0
         /\ \A n \in 1..Len(text) : Widths(text)[n] = WidthAt(text, Widths(text)[n - 1], n)
<1> DEFINE N == Len(text)
           step == [n \in 1..N |-> [before \in Nat |-> WidthAt(text, before, n)]]
<1>1. N \in Nat
  BY LenProperties DEF Texts
<1> HIDE DEF N
<1>2. step \in [1..N -> [Nat -> Nat]]
  BY DEF WidthAt, Octets
<1>3. \A n \in 1..N, before \in Nat : step[n][before] = WidthAt(text, before, n)
  OBVIOUS
<1> HIDE DEF step
<1>4. PICK h \in [0..N -> Nat] : h[0] = 0 /\ \A n \in 1..N : h[n] = step[n][h[n - 1]]
  <2>1. ASSUME NEW Q, Q = Nat PROVE \E f \in [0..N -> Q] : f[0] = 0 /\ \A n \in 1..N : f[n] = step[n][f[n - 1]]
    <3>1. 0 \in Q /\ step \in [1..N -> [Q -> Q]]
      BY <1>2, <2>1
    <3> QED BY ONLY <1>1, <3>1, StepByStep
  <2> QED BY <2>1
<1>5. \A n \in 0..N : h[n] = IF n = 0 \/ text[n] = NewLine THEN 0 ELSE h[n - 1] + Octets(text[n])
  <2>1. ASSUME NEW n \in 1..N PROVE h[n] = WidthAt(text, h[n - 1], n)
    <3>1. h[n - 1] \in Nat
      BY <1>1
    <3> QED BY <1>3, <1>4, <3>1
  <2>2. \A n \in 0..N : n = 0 \/ n \in 1..N
    BY <1>1
  <2> QED BY <1>4, <2>1, <2>2 DEF WidthAt
<1>6. h = [n \in 0..N |-> IF n = 0 \/ text[n] = NewLine THEN 0 ELSE h[n - 1] + Octets(text[n])]
  BY <1>5
<1> DEFINE width[i \in 0..N] == IF i = 0 \/ text[i] = NewLine THEN 0 ELSE width[i - 1] + Octets(text[i])
<1>7. width = [i \in 0..N |-> IF i = 0 \/ text[i] = NewLine THEN 0 ELSE width[i - 1] + Octets(text[i])]
  BY <1>6 DEF width
<1>8. Widths(text) = width
  BY DEF Widths, width, N
<1> HIDE DEF width
<1>9. width[0] = 0
  BY <1>1, <1>7
<1>10. ASSUME NEW n \in 1..N PROVE width[n] = WidthAt(text, width[n - 1], n)
  <2>1. n \in 0..N /\ n # 0
    BY <1>1
  <2> QED BY <1>7, <2>1 DEF WidthAt
<1>11. \A n \in 0..N : width[n] \in Nat
  <2> DEFINE T == {d \in Nat : d <= N => width[d] \in Nat}
  <2>1. 0 \in T
    BY <1>9
  <2>2. ASSUME NEW d \in Nat, d \in T PROVE d + 1 \in T
    <3> SUFFICES ASSUME d + 1 <= N PROVE width[d + 1] \in Nat
      OBVIOUS
    <3>1. width[d] \in Nat /\ d + 1 \in 1..N /\ (d + 1) - 1 = d
      BY <1>1, <2>2
    <3>2. width[d + 1] = WidthAt(text, width[d], d + 1)
      BY <1>10, <3>1
    <3> QED BY <3>1, <3>2 DEF WidthAt, Octets
  <2> HIDE DEF T
  <2>3. \A d \in Nat : d \in T
    BY <2>1, <2>2, EveryNumber
  <2> QED BY <1>1, <2>3 DEF T
<1>12. width \in [0..N -> Nat]
  BY <1>7, <1>11
<1> QED BY <1>8, <1>9, <1>10, <1>12 DEF N

\* Texts that begin alike are as wide where they do.
LEMMA WidthsAgree ==
  ASSUME NEW s \in Texts, NEW t \in Texts, NEW k \in 0..Len(s), k <= Len(t),
         \A i \in 1..k : s[i] = t[i]
  PROVE  \A j \in 0..k : Widths(s)[j] = Widths(t)[j]
<1>1. Len(s) \in Nat /\ Len(t) \in Nat
  BY LenProperties DEF Texts
<1>2. /\ Widths(s)[0] = 0
      /\ \A n \in 1..Len(s) : Widths(s)[n] = WidthAt(s, Widths(s)[n - 1], n)
  BY WidthsEquation
<1>3. /\ Widths(t)[0] = 0
      /\ \A n \in 1..Len(t) : Widths(t)[n] = WidthAt(t, Widths(t)[n - 1], n)
  BY WidthsEquation
<1> DEFINE T == {d \in Nat : d <= k => Widths(s)[d] = Widths(t)[d]}
<1>4. 0 \in T
  BY <1>2, <1>3
<1>5. ASSUME NEW d \in Nat, d \in T PROVE d + 1 \in T
  <2> SUFFICES ASSUME d + 1 <= k PROVE Widths(s)[d + 1] = Widths(t)[d + 1]
    OBVIOUS
  <2>1. Widths(s)[d] = Widths(t)[d] /\ d + 1 \in 1..Len(s) /\ d + 1 \in 1..Len(t) /\ (d + 1) - 1 = d
    BY <1>1, <1>5
  <2>2. s[d + 1] = t[d + 1]
    OBVIOUS
  <2>3. /\ Widths(s)[d + 1] = WidthAt(s, Widths(s)[d], d + 1)
        /\ Widths(t)[d + 1] = WidthAt(t, Widths(t)[d], d + 1)
    BY <1>2, <1>3, <2>1
  <2> QED BY <2>1, <2>2, <2>3 DEF WidthAt
<1> HIDE DEF T
<1>6. \A d \in Nat : d \in T
  BY <1>4, <1>5, EveryNumber
<1> QED BY <1>1, <1>6 DEF T

\* What one character more does to the widths of a text.
LEMMA AppendWidths ==
  ASSUME NEW s \in Texts, NEW ch \in Characters
  PROVE  /\ Append(s, ch) \in Texts /\ Len(Append(s, ch)) = Len(s) + 1 /\ Len(s) \in Nat
         /\ \A i \in 1..Len(s) : Append(s, ch)[i] = s[i]
         /\ Append(s, ch)[Len(s) + 1] = ch
         /\ \A j \in 0..Len(s) : Widths(Append(s, ch))[j] = Widths(s)[j]
         /\ Widths(Append(s, ch))[Len(s) + 1]
               = IF ch = NewLine THEN 0 ELSE Widths(s)[Len(s)] + Octets(ch)
<1> DEFINE a == Append(s, ch)
<1>1. /\ a \in Texts /\ Len(a) = Len(s) + 1 /\ \A i \in 1..Len(s) : a[i] = s[i]
      /\ a[Len(s) + 1] = ch
  BY AppendFacts DEF Texts
<1> HIDE DEF a
<1>2. Len(s) \in Nat
  BY LenProperties DEF Texts
<1>3. \A j \in 0..Len(s) : Widths(a)[j] = Widths(s)[j]
  <2>1. Len(s) \in 0..Len(s) /\ Len(s) <= Len(a) /\ \A i \in 1..Len(s) : s[i] = a[i]
    BY <1>1, <1>2
  <2>2. \A j \in 0..Len(s) : Widths(s)[j] = Widths(a)[j]
    BY <1>1, <2>1, WidthsAgree
  <2> QED BY <2>2
<1>4. Widths(a)[Len(s) + 1] = WidthAt(a, Widths(a)[Len(s)], Len(s) + 1)
  <2>1. Len(s) + 1 \in 1..Len(a) /\ (Len(s) + 1) - 1 = Len(s)
    BY <1>1, <1>2
  <2>2. \A n \in 1..Len(a) : Widths(a)[n] = WidthAt(a, Widths(a)[n - 1], n)
    BY <1>1, WidthsEquation
  <2> QED BY <2>1, <2>2
<1>5. Widths(a)[Len(s)] = Widths(s)[Len(s)]
  BY <1>2, <1>3
<1> QED BY <1>1, <1>2, <1>3, <1>4, <1>5 DEF a, WidthAt

\* Nothing of it is hidden; something of it is seen; and no line of it is too wide.
Clear(s) == \A i \in 1..Len(s) : s[i] # "x"
Shown(s) == \E i \in 1..Len(s) : s[i] # NewLine
Narrow(s) == \A i \in 1..Len(s) : Widths(s)[i] <= MaxLine

\* One character more of a text without hidden ones.
LEMMA AppendClear ==
  ASSUME NEW s \in Texts, NEW ch \in Characters, ch # "x", Clear(s)
  PROVE  Clear(Append(s, ch)) /\ (Shown(s) \/ ch # NewLine => Shown(Append(s, ch)))
<1> DEFINE a == Append(s, ch)
<1>1. /\ Len(a) = Len(s) + 1 /\ Len(s) \in Nat
      /\ \A i \in 1..Len(s) : a[i] = s[i]
      /\ a[Len(s) + 1] = ch
  BY AppendWidths
<1> HIDE DEF a
<1>2. ASSUME NEW i \in 1..Len(a) PROVE a[i] # "x"
  <2>1. i \in 1..Len(s) \/ i = Len(s) + 1
    BY <1>1
  <2> QED BY <1>1, <2>1 DEF Clear
<1>3. ASSUME Shown(s) PROVE Shown(a)
  <2>1. PICK i \in 1..Len(s) : s[i] # NewLine
    BY <1>3 DEF Shown
  <2>2. i \in 1..Len(a) /\ a[i] = s[i]
    BY <1>1
  <2> QED BY <2>1, <2>2 DEF Shown
<1>4. ASSUME ch # NewLine PROVE Shown(a)
  <2>1. Len(s) + 1 \in 1..Len(a)
    BY <1>1
  <2> QED BY <1>1, <1>4, <2>1 DEF Shown
<1> QED BY <1>2, <1>3, <1>4 DEF Clear, a

LEMMA EscapedStep ==
  ASSUME NEW out \in Texts, NEW ch \in Characters
  PROVE  /\ Escaped(out, ch) \in Texts
         /\ Clear(out) => Clear(Escaped(out, ch)) /\ (Shown(out) \/ ch # NewLine => Shown(Escaped(out, ch)))
<1>1. CASE ch # "x"
  <2>1. Escaped(out, ch) = Append(out, ch)
    BY <1>1 DEF Escaped
  <2> QED BY <1>1, <2>1, AppendClear, AppendWidths
<1>2. CASE ch = "x"
  <2>1. "c" \in Characters /\ "c" # "x" /\ "c" # NewLine
    BY DEF Characters, NewLine
  <2>2. Escaped(out, ch) = Append(Append(out, "c"), "c")
    <3>1. out \o <<"c", "c">> = Append(Append(out, "c"), "c")
      BY <2>1, ConcatTwo DEF Texts
    <3> QED BY <1>2, <3>1 DEF Escaped
  <2>3. Append(out, "c") \in Texts /\ Append(Append(out, "c"), "c") \in Texts
    BY <2>1, AppendWidths
  <2>4. ASSUME Clear(out) PROVE Clear(Append(out, "c"))
    BY <2>1, <2>4, AppendClear
  <2>5. ASSUME Clear(out)
        PROVE  Clear(Append(Append(out, "c"), "c")) /\ Shown(Append(Append(out, "c"), "c"))
    <3>1. Clear(Append(out, "c"))
      BY <2>4, <2>5
    <3> QED BY <2>1, <2>3, <3>1, AppendClear
  <2> QED BY <2>2, <2>3, <2>5
<1> QED BY <1>1, <1>2

LEMMA EscapeEquation ==
  ASSUME NEW text \in Texts
  PROVE  \E out \in [0..Len(text) -> Texts] :
            /\ out[0] = <<>>
            /\ \A n \in 1..Len(text) : out[n] = Escaped(out[n - 1], text[n])
            /\ Escape(text) = out[Len(text)]
<1> DEFINE N == Len(text)
           step == [n \in 1..N |-> [before \in Texts |-> Escaped(before, text[n])]]
<1>1. N \in Nat /\ (\A n \in 1..N : text[n] \in Characters) /\ <<>> \in Texts
  BY LenProperties DEF Texts
<1> HIDE DEF N
<1>2. step \in [1..N -> [Texts -> Texts]]
  BY <1>1, EscapedStep
<1>3. \A n \in 1..N, before \in Texts : step[n][before] = Escaped(before, text[n])
  OBVIOUS
<1> HIDE DEF step
<1>4. PICK h \in [0..N -> Texts] : h[0] = <<>> /\ \A n \in 1..N : h[n] = step[n][h[n - 1]]
  <2>1. ASSUME NEW Q, NEW start, Q = Texts, start = <<>>
        PROVE  \E f \in [0..N -> Q] : f[0] = start /\ \A n \in 1..N : f[n] = step[n][f[n - 1]]
    <3>1. start \in Q /\ step \in [1..N -> [Q -> Q]]
      BY <1>1, <1>2, <2>1
    <3> QED BY ONLY <1>1, <3>1, StepByStep
  <2> QED BY <2>1
<1>5. \A n \in 0..N : h[n] = IF n = 0 THEN <<>> ELSE Escaped(h[n - 1], text[n])
  <2>1. ASSUME NEW n \in 1..N PROVE h[n] = Escaped(h[n - 1], text[n])
    <3>1. h[n - 1] \in Texts
      BY <1>1
    <3> QED BY <1>3, <1>4, <3>1
  <2>2. \A n \in 0..N : n = 0 \/ n \in 1..N
    BY <1>1
  <2> QED BY <1>4, <2>1, <2>2
<1>6. h = [n \in 0..N |-> IF n = 0 THEN <<>> ELSE Escaped(h[n - 1], text[n])]
  BY <1>5
<1> DEFINE out[i \in 0..N] == IF i = 0 THEN <<>> ELSE Escaped(out[i - 1], text[i])
<1>7. out = [i \in 0..N |-> IF i = 0 THEN <<>> ELSE Escaped(out[i - 1], text[i])]
  BY <1>6 DEF out
<1>8. Escape(text) = out[N]
  BY DEF Escape, out, N
<1> HIDE DEF out
<1>9. out[0] = <<>> /\ \A n \in 1..N : out[n] = Escaped(out[n - 1], text[n])
  BY <1>1, <1>7
<1>10. \A n \in 0..N : out[n] \in Texts
  <2> DEFINE T == {d \in Nat : d <= N => out[d] \in Texts}
  <2>1. 0 \in T
    BY <1>1, <1>9
  <2>2. ASSUME NEW d \in Nat, d \in T PROVE d + 1 \in T
    <3> SUFFICES ASSUME d + 1 <= N PROVE out[d + 1] \in Texts
      OBVIOUS
    <3>1. out[d] \in Texts /\ d + 1 \in 1..N /\ (d + 1) - 1 = d
      BY <1>1, <2>2
    <3>2. out[d + 1] = Escaped(out[d], text[d + 1])
      BY <1>9, <3>1
    <3> QED BY <1>1, <3>1, <3>2, EscapedStep
  <2> HIDE DEF T
  <2>3. \A d \in Nat : d \in T
    BY <2>1, <2>2, EveryNumber
  <2> QED BY <1>1, <2>3 DEF T
<1>11. out \in [0..N -> Texts]
  BY <1>7, <1>10
<1> QED BY <1>8, <1>9, <1>11 DEF N

\* An escaped text hides nothing, shows what the text did, and is the text when it hid nothing.
LEMMA EscapeFacts ==
  ASSUME NEW text \in Texts
  PROVE  /\ Escape(text) \in Texts /\ Clear(Escape(text))
         /\ Shown(text) => Shown(Escape(text))
         /\ Clear(text) => Escape(text) = text
<1>1. /\ Len(text) \in Nat /\ (\A n \in 1..Len(text) : text[n] \in Characters)
  BY LenProperties DEF Texts
<1>2. PICK out \in [0..Len(text) -> Texts] :
            /\ out[0] = <<>>
            /\ \A n \in 1..Len(text) : out[n] = Escaped(out[n - 1], text[n])
            /\ Escape(text) = out[Len(text)]
  BY EscapeEquation
<1> DEFINE Kept(d) == Clear(out[d]) /\ ((\E i \in 1..d : text[i] # NewLine) => Shown(out[d]))
           T == {d \in Nat : d <= Len(text) => Kept(d)}
           U == {d \in Nat : d <= Len(text) => out[d] = SubSeq(text, 1, d)}
<1>3. 0 \in T
  BY <1>2 DEF Clear
<1>4. ASSUME NEW d \in Nat, d \in T PROVE d + 1 \in T
  <2> SUFFICES ASSUME d + 1 <= Len(text) PROVE Kept(d + 1)
    OBVIOUS
  <2>1. out[d] \in Texts /\ d + 1 \in 1..Len(text) /\ (d + 1) - 1 = d
    BY <1>1
  <2>2. Kept(d) /\ out[d + 1] = Escaped(out[d], text[d + 1]) /\ text[d + 1] \in Characters
    BY <1>1, <1>2, <1>4, <2>1
  <2>3. Clear(out[d]) => Clear(out[d + 1]) /\ (Shown(out[d]) \/ text[d + 1] # NewLine => Shown(out[d + 1]))
    BY <2>1, <2>2, EscapedStep
  <2>4. \A i \in 1..(d + 1) : i \in 1..d \/ i = d + 1
    OBVIOUS
  <2> QED BY <2>2, <2>3, <2>4
<1>5. Kept(Len(text))
  <2> HIDE DEF T
  <2>1. Len(text) \in T
    BY <1>1, <1>3, <1>4, EveryNumber
  <2> QED BY <1>1, <2>1 DEF T
<1>6. ASSUME Clear(text) PROVE Escape(text) = text
  <2>1. 0 \in U
    <3>1. SubSeq(text, 1, 0) = <<>>
      BY SubSeqEmpty
    <3> QED BY <1>2, <3>1
  <2>2. ASSUME NEW d \in Nat, d \in U PROVE d + 1 \in U
    <3> SUFFICES ASSUME d + 1 <= Len(text) PROVE out[d + 1] = SubSeq(text, 1, d + 1)
      OBVIOUS
    <3>1. d + 1 \in 1..Len(text) /\ (d + 1) - 1 = d
      BY <1>1
    <3>2. out[d] = SubSeq(text, 1, d) /\ out[d + 1] = Escaped(out[d], text[d + 1]) /\ text[d + 1] # "x"
      BY <1>1, <1>2, <1>6, <2>2, <3>1 DEF Clear
    <3>3. SubSeq(text, 1, d + 1) = Append(SubSeq(text, 1, d), text[d + 1])
      BY <3>1, PrefixGrows DEF Texts
    <3> QED BY <3>2, <3>3 DEF Escaped
  <2>3. Len(text) \in U
    <3> HIDE DEF U
    <3> QED BY <1>1, <2>1, <2>2, EveryNumber
  <2>4. SubSeq(text, 1, Len(text)) = text
    <3>1. /\ SubSeq(text, 1, Len(text)) \in Texts /\ Len(SubSeq(text, 1, Len(text))) = Len(text)
          /\ \A i \in 1..Len(text) : SubSeq(text, 1, Len(text))[i] = text[i]
      BY <1>1, PrefixFacts DEF Texts
    <3> QED BY <3>1, SeqEqual DEF Texts
  <2> QED BY <1>1, <1>2, <2>3, <2>4
<1>7. out[Len(text)] \in Texts
  BY <1>1
<1> QED BY <1>2, <1>5, <1>6, <1>7 DEF Shown

\* What a text ends in a line of.
EndsAt(s) == Widths(s)[Len(s)]

\* One character more of a narrow text, where its line has room for it.
LEMMA AppendNarrow ==
  ASSUME NEW s \in Texts, NEW ch \in Characters, Narrow(s),
         ch = NewLine \/ EndsAt(s) + Octets(ch) <= MaxLine
  PROVE  /\ Narrow(Append(s, ch))
         /\ EndsAt(Append(s, ch)) = IF ch = NewLine THEN 0 ELSE EndsAt(s) + Octets(ch)
<1> DEFINE a == Append(s, ch)
<1>1. /\ a \in Texts /\ Len(a) = Len(s) + 1 /\ Len(s) \in Nat
      /\ \A j \in 0..Len(s) : Widths(a)[j] = Widths(s)[j]
      /\ Widths(a)[Len(s) + 1] = IF ch = NewLine THEN 0 ELSE Widths(s)[Len(s)] + Octets(ch)
  BY AppendWidths
<1> HIDE DEF a
<1>2. EndsAt(a) = IF ch = NewLine THEN 0 ELSE EndsAt(s) + Octets(ch)
  BY <1>1 DEF EndsAt
<1>3. MaxLine \in Nat
  BY TextAssumption
<1>4. ASSUME NEW i \in 1..Len(a) PROVE Widths(a)[i] <= MaxLine
  <2>1. CASE i = Len(s) + 1
    <3>1. Widths(a)[i] = EndsAt(a)
      BY <1>1, <2>1 DEF EndsAt
    <3> QED BY <1>2, <1>3, <3>1
  <2>2. CASE i # Len(s) + 1
    <3>1. i \in 1..Len(s) /\ i \in 0..Len(s)
      BY <1>1, <2>2
    <3> QED BY <1>1, <3>1 DEF Narrow
  <2> QED BY <2>1, <2>2
<1> QED BY <1>2, <1>4 DEF Narrow, a

\* What folding holds at each character: a narrow text, and the width of its last line.
Folds == {out \in [text : Texts, open : Nat] : out.open <= MaxLine /\ Narrow(out.text) /\ out.open = EndsAt(out.text)}

LEMMA FoldedStep ==
  ASSUME NEW out \in Folds, NEW ch \in Characters
  PROVE  /\ Folded(out, ch) \in Folds
         /\ Clear(out.text) /\ ch # "x" => Clear(Folded(out, ch).text)
         /\ Clear(out.text) /\ ch # "x" /\ (Shown(out.text) \/ ch # NewLine) => Shown(Folded(out, ch).text)
         /\ ch = NewLine \/ out.open + Octets(ch) <= MaxLine => Folded(out, ch).text = Append(out.text, ch)
<1> DEFINE s == out.text
           new == Folded(out, ch)
<1>1. s \in Texts /\ out.open \in Nat /\ out.open <= MaxLine /\ Narrow(s) /\ out.open = EndsAt(s)
  BY DEF Folds
<1>2. MaxLine \in Nat /\ MaxLine >= 2 /\ Octets(ch) \in 1..2 /\ NewLine \in Characters /\ NewLine # "x"
  BY TextAssumption DEF Octets, Characters, NewLine
<1>3. CASE ch = NewLine \/ out.open + Octets(ch) <= MaxLine
  <2> DEFINE open == IF ch = NewLine THEN 0 ELSE out.open + Octets(ch)
  <2>1. new = [text |-> Append(s, ch), open |-> open]
    <3>1. CASE ch = NewLine
      BY <3>1 DEF Folded, Broken
    <3>2. CASE ch # NewLine
      <4>1. ~(out.open + Octets(ch) > MaxLine)
        BY <1>1, <1>2, <1>3, <3>2
      <4> QED BY <3>2, <4>1 DEF Folded, Broken
    <3> QED BY <3>1, <3>2
  <2>2. Append(s, ch) \in Texts
    BY <1>1, AppendWidths
  <2>3. Narrow(Append(s, ch)) /\ EndsAt(Append(s, ch)) = IF ch = NewLine THEN 0 ELSE EndsAt(s) + Octets(ch)
    <3>1. ch = NewLine \/ EndsAt(s) + Octets(ch) <= MaxLine
      BY <1>1, <1>3
    <3> QED BY ONLY <1>1, <3>1, AppendNarrow, ch \in Characters
  <2>4. open \in Nat /\ open <= MaxLine /\ open = EndsAt(Append(s, ch))
    BY <1>1, <1>2, <1>3, <2>3
  <2>5. Clear(s) /\ ch # "x" => Clear(Append(s, ch)) /\ (Shown(s) \/ ch # NewLine => Shown(Append(s, ch)))
    BY <1>1, AppendClear
  <2> HIDE DEF new, s, open
  <2>6. new \in Folds /\ new.text = Append(s, ch)
    BY <2>1, <2>2, <2>3, <2>4 DEF Folds
  <2> QED BY <2>5, <2>6 DEF new, s
<1>4. CASE ~(ch = NewLine \/ out.open + Octets(ch) <= MaxLine)
  <2> DEFINE b == Append(s, NewLine)
  <2>1. new = [text |-> Append(b, ch), open |-> Octets(ch)]
    <3>1. s \o <<NewLine, ch>> = Append(b, ch)
      BY <1>1, <1>2, ConcatTwo DEF Texts
    <3>2. ch # NewLine /\ out.open + Octets(ch) > MaxLine
      BY <1>1, <1>2, <1>4
    <3> HIDE DEF b
    <3> QED BY <3>1, <3>2 DEF Folded, Broken
  <2>2. b \in Texts /\ Narrow(b) /\ EndsAt(b) = 0
    BY <1>1, <1>2, AppendWidths, AppendNarrow
  <2>3. Clear(s) => Clear(b)
    BY <1>1, <1>2, AppendClear
  <2> HIDE DEF b
  <2>4. Append(b, ch) \in Texts
    BY <2>2, AppendWidths
  <2>5. Narrow(Append(b, ch)) /\ EndsAt(Append(b, ch)) = Octets(ch)
    <3>1. EndsAt(b) + Octets(ch) <= MaxLine /\ ch # NewLine /\ EndsAt(b) + Octets(ch) = Octets(ch)
      BY <1>2, <1>4, <2>2
    <3>2. Narrow(Append(b, ch)) /\ EndsAt(Append(b, ch)) = IF ch = NewLine THEN 0 ELSE EndsAt(b) + Octets(ch)
      BY ONLY <2>2, <3>1, AppendNarrow, ch \in Characters
    <3> QED BY <3>1, <3>2
  <2>6. Octets(ch) \in Nat /\ Octets(ch) <= MaxLine /\ ch # NewLine
    BY <1>2, <1>4
  <2>7. Clear(b) /\ ch # "x" => Clear(Append(b, ch)) /\ Shown(Append(b, ch))
    BY <2>2, <2>6, AppendClear
  <2> HIDE DEF new, s
  <2>8. new \in Folds /\ new.text = Append(b, ch)
    BY <2>1, <2>4, <2>5, <2>6 DEF Folds
  <2> QED BY <1>4, <2>3, <2>7, <2>8 DEF new, s
<1> QED BY <1>3, <1>4

LEMMA FoldEquation ==
  ASSUME NEW text \in Texts
  PROVE  \E out \in [0..Len(text) -> Folds] :
            /\ out[0] = [text |-> <<>>, open |-> 0]
            /\ \A n \in 1..Len(text) : out[n] = Folded(out[n - 1], text[n])
            /\ Fold(text) = out[Len(text)].text
<1> DEFINE N == Len(text)
           first == [text |-> <<>>, open |-> 0]
           step == [n \in 1..N |-> [before \in Folds |-> Folded(before, text[n])]]
<1>1. N \in Nat /\ (\A n \in 1..N : text[n] \in Characters)
  BY LenProperties DEF Texts
<1>2. first \in Folds
  <2>1. <<>> \in Texts /\ Len(<<>>) = 0 /\ Widths(<<>>)[0] = 0 /\ MaxLine \in Nat
    <3>1. <<>> \in Texts /\ Len(<<>>) = 0
      BY DEF Texts
    <3> QED BY <3>1, WidthsEquation, TextAssumption
  <2> QED BY <2>1 DEF Folds, Narrow, EndsAt
<1> HIDE DEF N, first
<1>3. step \in [1..N -> [Folds -> Folds]]
  BY <1>1, FoldedStep
<1>4. \A n \in 1..N, before \in Folds : step[n][before] = Folded(before, text[n])
  OBVIOUS
<1> HIDE DEF step
<1>5. PICK h \in [0..N -> Folds] : h[0] = first /\ \A n \in 1..N : h[n] = step[n][h[n - 1]]
  <2>1. ASSUME NEW Q, NEW start, Q = Folds, start = first
        PROVE  \E f \in [0..N -> Q] : f[0] = start /\ \A n \in 1..N : f[n] = step[n][f[n - 1]]
    <3>1. start \in Q /\ step \in [1..N -> [Q -> Q]]
      BY <1>2, <1>3, <2>1
    <3>2. N \in Nat
      BY <1>1
    <3> QED BY ONLY <3>1, <3>2, StepByStep
  <2> QED BY <2>1
<1>6. \A n \in 0..N : h[n] = IF n = 0 THEN first ELSE Folded(h[n - 1], text[n])
  <2>1. ASSUME NEW n \in 1..N PROVE h[n] = Folded(h[n - 1], text[n])
    <3>1. h[n - 1] \in Folds
      BY <1>1
    <3> QED BY <1>4, <1>5, <3>1
  <2>2. \A n \in 0..N : n = 0 \/ n \in 1..N
    BY <1>1
  <2> QED BY <1>5, <2>1, <2>2
<1>7. h = [n \in 0..N |-> IF n = 0 THEN first ELSE Folded(h[n - 1], text[n])]
  BY <1>6
<1> DEFINE out[i \in 0..N] == IF i = 0 THEN [text |-> <<>>, open |-> 0] ELSE Folded(out[i - 1], text[i])
<1>8. out = [i \in 0..N |-> IF i = 0 THEN first ELSE Folded(out[i - 1], text[i])]
  BY <1>7 DEF out, first
<1>9. Fold(text) = out[N].text
  BY DEF Fold, out, N
<1> HIDE DEF out
<1>10. out[0] = first /\ \A n \in 1..N : out[n] = Folded(out[n - 1], text[n])
  BY <1>1, <1>8
<1>11. \A n \in 0..N : out[n] \in Folds
  <2> DEFINE T == {d \in Nat : d <= N => out[d] \in Folds}
  <2>1. 0 \in T
    BY <1>2, <1>10
  <2>2. ASSUME NEW d \in Nat, d \in T PROVE d + 1 \in T
    <3> SUFFICES ASSUME d + 1 <= N PROVE out[d + 1] \in Folds
      OBVIOUS
    <3>1. out[d] \in Folds /\ d + 1 \in 1..N /\ (d + 1) - 1 = d
      BY <1>1, <2>2
    <3>2. out[d + 1] = Folded(out[d], text[d + 1])
      BY <1>10, <3>1
    <3> QED BY <1>1, <3>1, <3>2, FoldedStep
  <2> HIDE DEF T
  <2>3. \A d \in Nat : d \in T
    BY <2>1, <2>2, EveryNumber
  <2> QED BY <1>1, <2>3 DEF T
<1>12. out \in [0..N -> Folds]
  BY <1>8, <1>11
<1> QED BY <1>9, <1>10, <1>12 DEF N, first

\* A folded text is narrow, hides and shows what the text did, and is the text when it was narrow.
LEMMA FoldFacts ==
  ASSUME NEW text \in Texts, Clear(text)
  PROVE  /\ Fold(text) \in Texts /\ Clear(Fold(text)) /\ Narrow(Fold(text))
         /\ Shown(text) => Shown(Fold(text))
         /\ Narrow(text) => Fold(text) = text
<1>1. /\ Len(text) \in Nat /\ (\A n \in 1..Len(text) : text[n] \in Characters /\ text[n] # "x")
  BY LenProperties DEF Texts, Clear
<1>2. PICK out \in [0..Len(text) -> Folds] :
            /\ out[0] = [text |-> <<>>, open |-> 0]
            /\ \A n \in 1..Len(text) : out[n] = Folded(out[n - 1], text[n])
            /\ Fold(text) = out[Len(text)].text
  BY FoldEquation
<1> DEFINE Kept(d) == Clear(out[d].text) /\ ((\E i \in 1..d : text[i] # NewLine) => Shown(out[d].text))
           T == {d \in Nat : d <= Len(text) => Kept(d)}
           U == {d \in Nat : d <= Len(text) => out[d].text = SubSeq(text, 1, d)}
<1>3. 0 \in T
  BY <1>2 DEF Clear
<1>4. ASSUME NEW d \in Nat, d \in T PROVE d + 1 \in T
  <2> SUFFICES ASSUME d + 1 <= Len(text) PROVE Kept(d + 1)
    OBVIOUS
  <2>1. out[d] \in Folds /\ d + 1 \in 1..Len(text) /\ (d + 1) - 1 = d
    BY <1>1
  <2>2. /\ Kept(d) /\ out[d + 1] = Folded(out[d], text[d + 1])
        /\ text[d + 1] \in Characters /\ text[d + 1] # "x"
    BY <1>1, <1>2, <1>4, <2>1
  <2>3. /\ Clear(out[d].text) => Clear(out[d + 1].text)
        /\ Clear(out[d].text) /\ (Shown(out[d].text) \/ text[d + 1] # NewLine) => Shown(out[d + 1].text)
    BY <2>1, <2>2, FoldedStep
  <2>4. \A i \in 1..(d + 1) : i \in 1..d \/ i = d + 1
    OBVIOUS
  <2> QED BY <2>2, <2>3, <2>4
<1>5. Kept(Len(text))
  <2> HIDE DEF T
  <2>1. Len(text) \in T
    BY <1>1, <1>3, <1>4, EveryNumber
  <2> QED BY <1>1, <2>1 DEF T
<1>6. ASSUME Narrow(text) PROVE Fold(text) = text
  <2>1. 0 \in U
    <3>1. SubSeq(text, 1, 0) = <<>>
      BY SubSeqEmpty
    <3>2. out[0].text = <<>>
      BY ONLY <1>2
    <3> QED BY ONLY <3>1, <3>2
  <2>2. ASSUME NEW d \in Nat, d \in U PROVE d + 1 \in U
    <3> SUFFICES ASSUME d + 1 <= Len(text) PROVE out[d + 1].text = SubSeq(text, 1, d + 1)
      OBVIOUS
    <3>1. d + 1 \in 1..Len(text) /\ (d + 1) - 1 = d /\ d \in 0..Len(text) /\ out[d] \in Folds
      BY <1>1
    <3>2. /\ out[d].text = SubSeq(text, 1, d) /\ out[d + 1] = Folded(out[d], text[d + 1])
          /\ text[d + 1] \in Characters
      BY <1>1, <1>2, <2>2, <3>1
    <3> DEFINE p == SubSeq(text, 1, d)
    <3>3. p \in Texts /\ Len(p) = d /\ \A i \in 1..d : p[i] = text[i]
      BY <3>1, PrefixFacts DEF Texts
    <3>4. SubSeq(text, 1, d + 1) = Append(p, text[d + 1])
      BY <3>1, PrefixGrows DEF Texts
    <3> HIDE DEF p
    <3>5. Widths(p)[d] = Widths(text)[d]
      <4>1. d \in 0..Len(p) /\ d <= Len(text)
        BY <3>1, <3>3
      <4>2. \A j \in 0..d : Widths(p)[j] = Widths(text)[j]
        BY <3>3, <4>1, WidthsAgree
      <4> QED BY <4>2
    <3>6. out[d].open = Widths(text)[d]
      BY <3>1, <3>2, <3>3, <3>5 DEF Folds, EndsAt, p
    <3>7. text[d + 1] = NewLine \/ out[d].open + Octets(text[d + 1]) <= MaxLine
      <4>1. Widths(text)[d + 1] = WidthAt(text, Widths(text)[d], d + 1)
        <5>1. \A n \in 1..Len(text) : Widths(text)[n] = WidthAt(text, Widths(text)[n - 1], n)
          BY WidthsEquation
        <5> QED BY <3>1, <5>1
      <4>2. Widths(text)[d + 1] <= MaxLine
        BY <1>6, <3>1 DEF Narrow
      <4> QED BY <3>6, <4>1, <4>2 DEF WidthAt
    <3>8. Folded(out[d], text[d + 1]).text = Append(out[d].text, text[d + 1])
      BY <3>1, <3>2, <3>7, FoldedStep
    <3> QED BY <3>2, <3>4, <3>8 DEF p
  <2>3. Len(text) \in U
    <3> HIDE DEF U
    <3> QED BY <1>1, <2>1, <2>2, EveryNumber
  <2>4. SubSeq(text, 1, Len(text)) = text
    <3>1. /\ SubSeq(text, 1, Len(text)) \in Texts /\ Len(SubSeq(text, 1, Len(text))) = Len(text)
          /\ \A i \in 1..Len(text) : SubSeq(text, 1, Len(text))[i] = text[i]
      BY <1>1, PrefixFacts DEF Texts
    <3> QED BY <3>1, SeqEqual DEF Texts
  <2> QED BY <1>1, <1>2, <2>3, <2>4
<1>7. out[Len(text)] \in Folds
  BY <1>1
<1>8. Fold(text) \in Texts /\ Narrow(Fold(text))
  BY <1>2, <1>7 DEF Folds
<1> QED BY <1>1, <1>2, <1>5, <1>6, <1>8 DEF Shown

\* A cut text is as clear and narrow as it was, shows its mark, and is no longer than allowed.
LEMMA ClampFacts ==
  ASSUME NEW text \in Texts, Clear(text), Narrow(text), Shown(text)
  PROVE  /\ Clamp(text) \in Texts /\ Clear(Clamp(text)) /\ Narrow(Clamp(text)) /\ Shown(Clamp(text))
         /\ Len(Clamp(text)) <= MaxText
         /\ Len(text) <= MaxText => Clamp(text) = text
<1>1. Len(text) \in Nat /\ MaxText \in Nat /\ MaxText >= 2 /\ MaxLine \in Nat /\ MaxLine >= 2
  BY LenProperties, TextAssumption DEF Texts
<1>2. CASE Len(text) <= MaxText
  BY <1>2 DEF Clamp
<1>3. CASE ~(Len(text) <= MaxText)
  <2> DEFINE k == MaxText - 2
             p == SubSeq(text, 1, k)
             b == Append(p, NewLine)
  <2>1. k \in 0..Len(text) /\ k + 2 = MaxText
    BY <1>1, <1>3
  <2>2. NewLine \in Characters /\ NewLine # "x" /\ "c" \in Characters /\ "c" # "x" /\ "c" # NewLine /\ Octets("c") = 1
    BY DEF Characters, NewLine, Octets
  <2>3. Clamp(text) = p \o <<NewLine, "c">>
    <3>1. Len(Truncated) = 2 /\ Truncated = <<NewLine, "c">>
      BY DEF Truncated
    <3> QED BY <1>3, <3>1 DEF Clamp
  <2> HIDE DEF k
  <2>4. p \in Texts /\ Len(p) = k /\ \A i \in 1..k : p[i] = text[i]
    BY <2>1, PrefixFacts DEF Texts
  <2> HIDE DEF p
  <2>5. Clear(p)
    BY <1>1, <2>1, <2>4 DEF Clear
  <2>6. Narrow(p)
    <3>1. k \in 0..Len(p) /\ k <= Len(text)
      BY <1>1, <2>1, <2>4
    <3>2. \A j \in 0..k : Widths(p)[j] = Widths(text)[j]
      BY <2>4, <3>1, WidthsAgree
    <3>3. \A i \in 1..k : i \in 0..k /\ i \in 1..Len(text)
      BY <1>1, <2>1
    <3> QED BY <2>4, <3>2, <3>3 DEF Narrow
  <2>7. b \in Texts /\ Len(b) = k + 1 /\ Clear(b) /\ Narrow(b) /\ EndsAt(b) = 0
    BY <2>2, <2>4, <2>5, <2>6, AppendWidths, AppendClear, AppendNarrow
  <2>8. Clamp(text) = Append(b, "c")
    BY <2>2, <2>3, <2>4, ConcatTwo DEF Texts
  <2> HIDE DEF b
  <2>9. EndsAt(b) + Octets("c") <= MaxLine
    BY <1>1, <2>2, <2>7
  <2>10. /\ Append(b, "c") \in Texts /\ Len(Append(b, "c")) = Len(b) + 1
         /\ Clear(Append(b, "c")) /\ Shown(Append(b, "c"))
    BY <2>2, <2>7, AppendWidths, AppendClear
  <2>11. Narrow(Append(b, "c"))
    BY ONLY <2>2, <2>7, <2>9, AppendNarrow
  <2>12. Len(Append(b, "c")) <= MaxText
    BY <1>1, <2>1, <2>7, <2>10
  <2> QED BY <1>3, <2>8, <2>10, <2>11, <2>12
<1> QED BY <1>2, <1>3

\* A text is taken when it shows something, hides nothing and is neither long nor wide.
LEMMA TakenTexts ==
  ASSUME NEW text \in Texts
  PROVE  /\ TextReasons(text) = {} <=> Shown(text) /\ Clear(text) /\ Narrow(text) /\ Len(text) <= MaxText
         /\ ~Blank(text) <=> Shown(text)
<1>1. DOMAIN text = 1..Len(text) /\ Len(text) \in Nat /\ MaxText \in Nat /\ MaxLine \in Nat
  BY LenProperties, TextAssumption DEF Texts
<1>2. ~Blank(text) <=> Shown(text)
  BY <1>1 DEF Blank, Shown
<1>3. CharacterReasons(text) = {} <=> Clear(text)
  BY <1>1 DEF CharacterReasons, Clear
<1>4. ("wide" \in TextSizeReasons(text)) <=> ~Narrow(text)
  <2>1. \A i \in 1..Len(text) : Widths(text)[i] \in Nat
    <3>1. Widths(text) \in [0..Len(text) -> Nat]
      BY WidthsEquation
    <3> QED BY <1>1, <3>1
  <2>2. (\E i \in 1..Len(text) : Widths(text)[i] > MaxLine) <=> ~Narrow(text)
    BY <1>1, <2>1 DEF Narrow
  <2> QED BY <1>1, <2>2 DEF TextSizeReasons
<1>5. ("empty" \in TextSizeReasons(text)) <=> Blank(text)
  BY DEF TextSizeReasons
<1>6. ("long" \in TextSizeReasons(text)) <=> Len(text) > MaxText
  BY DEF TextSizeReasons
<1>7. TextSizeReasons(text) \subseteq {"empty", "long", "wide"}
  BY DEF TextSizeReasons
<1>8. TextSizeReasons(text) = {} <=> ~Blank(text) /\ ~(Len(text) > MaxText) /\ Narrow(text)
  BY <1>4, <1>5, <1>6, <1>7
<1> QED BY <1>1, <1>2, <1>3, <1>8 DEF TextReasons

\* For any text and any bounds that leave room for the widest character and the mark of a cut: what
\* is rendered of it is taken if anything of it is seen, and a text that is taken is left as it is.
THEOREM RenderingHolds == Deciding => []RenderedIsAccepted
<1>1. ASSUME Judged PROVE RenderedIsAccepted
  <2> SUFFICES ASSUME Answered("text")
               PROVE  /\ ~Blank(given) => TextReasons(answer) = {}
                      /\ TextReasons(given) = {} => answer = given
    BY DEF RenderedIsAccepted
  <2>1. given \in Texts /\ answer = RenderForOperator(given)
    <3>1. given \in TextsGiven /\ answer = RenderForOperator(given)
      BY <1>1, Zenon DEF Judged, Answered
    <3> QED BY <3>1, RulesAssumption DEF Texts
  <2> DEFINE e == Escape(given)
             f == Fold(e)
  <2>2. e \in Texts /\ Clear(e) /\ (Shown(given) => Shown(e)) /\ (Clear(given) => e = given)
    BY <2>1, EscapeFacts
  <2> HIDE DEF e
  <2>3. f \in Texts /\ Clear(f) /\ Narrow(f) /\ (Shown(e) => Shown(f)) /\ (Narrow(e) => f = e)
    BY <2>2, FoldFacts
  <2>4. answer = Clamp(f)
    BY <2>1 DEF RenderForOperator, e
  <2> HIDE DEF f
  <2>5. ASSUME ~Blank(given) PROVE TextReasons(answer) = {}
    <3>1. Shown(f)
      BY <2>1, <2>2, <2>3, <2>5, TakenTexts
    <3>2. answer \in Texts /\ Clear(answer) /\ Narrow(answer) /\ Shown(answer) /\ Len(answer) <= MaxText
      BY <2>3, <2>4, <3>1, ClampFacts
    <3> QED BY <3>2, TakenTexts
  <2>6. ASSUME TextReasons(given) = {} PROVE answer = given
    <3>1. Shown(given) /\ Clear(given) /\ Narrow(given) /\ Len(given) <= MaxText
      BY <2>1, <2>6, TakenTexts
    <3>2. f = given
      BY <2>2, <2>3, <3>1
    <3> QED BY <2>1, <2>4, <3>1, <3>2, ClampFacts
  <2> QED BY <2>5, <2>6
<1> QED BY <1>1, EveryAnswerIsJudged, PTL

=============================================================================
