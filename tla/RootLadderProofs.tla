-------------------------- MODULE RootLadderProofs --------------------------
(***************************************************************************)
(* Theorems about RootLadder for any allowances, any planner, and any      *)
(* number of launches, crashes and grants.                                 *)
(*                                                                         *)
(* What a launch does is a walk that the journal and the answers determine *)
(* and that only gets longer as they grow.                                 *)
(***************************************************************************)
EXTENDS RootLadder, FiniteSetTheorems, TLAPS

-----------------------------------------------------------------------------
(* Walks along a set E of steps between places of S.                        *)

Closed(S, E, T) == \A a, b \in S : a \in T /\ <<a, b>> \in E => b \in T

\* The places a walk from x comes to.
From(S, E, x) == {y \in S : \A T \in SUBSET S : x \in T /\ Closed(S, E, T) => y \in T}

Functional(S, E) == \A a, b, c \in S : <<a, b>> \in E /\ <<a, c>> \in E => b = c

LEMMA FromItself ==
  ASSUME NEW S, NEW E, NEW x \in S
  PROVE  x \in From(S, E, x)
BY DEF From

LEMMA FromOnward ==
  ASSUME NEW S, NEW E, NEW x \in S, NEW y \in From(S, E, x), NEW z \in S, <<y, z>> \in E
  PROVE  z \in From(S, E, x)
BY DEF From, Closed

\* What holds at the start and along every step holds wherever the walk comes.
LEMMA FromStays ==
  ASSUME NEW S, NEW E, NEW x \in S, NEW T \in SUBSET S, x \in T, Closed(S, E, T)
  PROVE  From(S, E, x) \subseteq T
BY DEF From

LEMMA FromGrows ==
  ASSUME NEW S, NEW E, NEW F, NEW x \in S,
         \A a, b \in S : <<a, b>> \in E => <<a, b>> \in F
  PROVE  From(S, E, x) \subseteq From(S, F, x)
BY DEF From, Closed

\* Wherever a walk comes, it got there at once or by its first step.
LEMMA FromFirst ==
  ASSUME NEW S, NEW E, NEW x \in S, NEW y \in From(S, E, x)
  PROVE  y = x \/ \E z \in S : <<x, z>> \in E /\ y \in From(S, E, z)
<1> DEFINE T == {t \in S : t = x \/ \E z \in S : <<x, z>> \in E /\ t \in From(S, E, z)}
<1>1. ASSUME NEW a \in S, NEW b \in S, a \in T, <<a, b>> \in E
      PROVE  b \in T
  <2>1. CASE a = x
    BY <1>1, <2>1, FromItself
  <2>2. CASE a # x
    BY <1>1, <2>2, FromOnward
  <2> QED
    BY <2>1, <2>2
<1>2. Closed(S, E, T)
  BY <1>1 DEF Closed
<1> QED
  BY <1>2, FromStays

\* Of two places a walk comes to, it comes to one from the other.
LEMMA FromOneAnother ==
  ASSUME NEW S, NEW E, NEW x \in S, Functional(S, E),
         NEW y \in From(S, E, x), NEW z \in From(S, E, x)
  PROVE  y \in From(S, E, z) \/ z \in From(S, E, y)
<1> DEFINE T == {t \in S : y \in From(S, E, t) \/ t \in From(S, E, y)}
<1>1. y \in S
  BY DEF From
<1>2. ASSUME NEW a \in S, NEW b \in S, a \in T, <<a, b>> \in E
      PROVE  b \in T
  <2>1. CASE a \in From(S, E, y)
    BY <1>1, <1>2, <2>1, FromOnward
  <2>2. CASE y \in From(S, E, a) /\ a \notin From(S, E, y)
    <3>1. y # a
      BY <1>2, <2>2, FromItself
    <3>2. PICK c \in S : <<a, c>> \in E /\ y \in From(S, E, c)
      BY <1>2, <2>2, <3>1, FromFirst
    <3> QED
      BY <1>2, <3>2 DEF Functional
  <2> QED
    BY <1>2, <2>1, <2>2
<1>3. Closed(S, E, T)
  BY <1>2 DEF Closed
<1> QED
  BY <1>3, FromStays

\* A walk stops at one place only.
LEMMA OneStop ==
  ASSUME NEW S, NEW E, NEW x \in S, Functional(S, E),
         NEW y \in From(S, E, x), \A t \in S : <<y, t>> \notin E,
         NEW z \in From(S, E, x), \A t \in S : <<z, t>> \notin E
  PROVE  y = z
<1>1. y \in S /\ z \in S
  BY DEF From
<1> QED
  BY <1>1, FromOneAnother, FromFirst

-----------------------------------------------------------------------------
(* Types.                                                                  *)

OnFirst == {"plan", "exhausted", "abandoned"}
OnAgain == {"pass", "replan", "refuted"}

Whys == Reason \cup {"none", "root_rule", "account"}
Briefs ==
  [ladder : {"none", "first", "again"}, why : Whys, evidence : Fact \cup {"none"},
   granted : Nat, round : Nat]
Entries ==
  [brief : Briefs, says : Says \cup {"none"}, sound : BOOLEAN, fact : Fact \cup {"none"}]
Costs == [of : Briefs, cost : Nat, settles : {"done", "short", "refuted"}]
Questions ==
  [node : {"planning", "budget"}, why : Whys \cup {"refuted", "spent"}, count : Nat,
   ref : Briefs, at : Nat]
Answers == [question : Questions, decision : {Abandon, Grant}, by : {"person", "system"}]
Tries == [replans : Nat, granted : Nat]
Lasts == [record : Entries, why : Whys]

TypeOK ==
  /\ dispatches \subseteq Entries /\ IsFiniteSet(dispatches)
  /\ passes \subseteq Costs
  /\ opened \subseteq Questions
  /\ decisions \subseteq Answers /\ IsFiniteSet(decisions)
  /\ folded \subseteq decisions
  /\ pc \in OnFirst \cup OnAgain \cup {"down", "spent", "error"}
  /\ tries \in Tries
  /\ last \in Lasts
  /\ plan \in Entries
  /\ accepted \in Nat
  /\ charged \in Nat
  /\ asked \subseteq Questions

-----------------------------------------------------------------------------
(* The walk of a launch: its places, and where journal and answers lead     *)
(* from each.                                                              *)

Place ==
  [pc : OnFirst \cup OnAgain, tries : Tries, last : Lasts, plan : Entries,
   accepted : Nat, charged : Nat]

Start ==
  [pc |-> "plan", tries |-> NoTries, last |-> [record |-> NoRecord, why |-> "none"],
   plan |-> NoRecord, accepted |-> 0, charged |-> 0]

\* Where this launch is.
Here ==
  [pc |-> pc, tries |-> tries, last |-> last, plan |-> plan, accepted |-> accepted,
   charged |-> charged]

\* The briefs and questions of a place.
AskAt(p) ==
  [ladder |-> "first", why |-> p.last.why, evidence |-> p.last.record.fact,
   granted |-> p.tries.granted, round |-> 0]
AgainAt(p) ==
  [ladder |-> "again", why |-> "none", evidence |-> "none", granted |-> 0,
   round |-> p.accepted]
ExhaustedAt(p) == Question("planning", p.last.why, 0, p.last.record.brief, 0)
RefutedAt(p) == Question("planning", "refuted", p.tries.granted, p.last.record.brief, 0)

\* The budget questions granted among the answers A, and what they allow.
Bought(A) == {d \in A : d.question.node = "budget" /\ d.decision = Grant}
LimitOn(A) == Base * (1 + Cardinality(Bought(A)))
SpentAt(n) == Question("budget", "spent", Base * (1 + n), NoBrief, 0)
SpentOn(A) == SpentAt(Cardinality(Bought(A)))

GrantedIn(A, question) == \E d \in A : d.question = question /\ d.decision = Grant

MoreAt(p) == p.tries.replans < MaxReplans
Tried(t) == [t EXCEPT !.replans = @ + 1]

\* Where a place leads: a record, a grant, a pass that refutes.
Planned(p, r) ==
  CASE RootReason(r) = "none" ->
         [pc |-> "pass", tries |-> NoTries, last |-> [record |-> r, why |-> "none"],
          plan |-> r, accepted |-> p.accepted + 1, charged |-> p.charged]
    [] RootReason(r) # "none" /\ r.says # "account" ->
         [pc |-> IF MoreAt(p) THEN "plan" ELSE "exhausted",
          tries |-> IF MoreAt(p) THEN Tried(p.tries) ELSE p.tries,
          last |-> [record |-> r, why |-> RootReason(r)],
          plan |-> p.plan, accepted |-> p.accepted, charged |-> p.charged]
    [] OTHER ->
         [pc |-> "abandoned", tries |-> p.tries, last |-> [record |-> r, why |-> RootReason(r)],
          plan |-> p.plan, accepted |-> p.accepted, charged |-> p.charged]
Onward(p, where) ==
  [pc |-> where, tries |-> [replans |-> 0, granted |-> p.tries.granted + 1],
   last |-> p.last, plan |-> p.plan, accepted |-> p.accepted, charged |-> p.charged]
Passed(p, cost) ==
  [pc |-> IF MoreAt(p) THEN "replan" ELSE "refuted", tries |-> p.tries, last |-> p.last,
   plan |-> p.plan, accepted |-> p.accepted, charged |-> p.charged + cost]
Replanned(p, r) ==
  [pc |-> "pass", tries |-> Tried(p.tries), last |-> [record |-> r, why |-> "none"],
   plan |-> r, accepted |-> p.accepted + 1, charged |-> p.charged]

\* The steps that dispatches D, passes P and answers A determine.
ByRecord(D, p, q) ==
  p.pc = "plan" /\ \E r \in D : r.brief = AskAt(p) /\ q = Planned(p, r)
ByRound(A, p, q) ==
  p.pc = "exhausted" /\ GrantedIn(A, ExhaustedAt(p)) /\ q = Onward(p, "plan")
ByPass(P, A, p, q) ==
  /\ p.pc = "pass"
  /\ \E x \in P : /\ x.of = p.plan.brief /\ x.settles = "refuted"
                  /\ p.charged + x.cost <= LimitOn(A)
                  /\ q = Passed(p, x.cost)
ByPlan(D, p, q) ==
  p.pc = "replan" /\ \E r \in D : r.brief = AgainAt(p) /\ r.says = "plan" /\ q = Replanned(p, r)
ByMore(A, p, q) ==
  p.pc = "refuted" /\ GrantedIn(A, RefutedAt(p)) /\ q = Onward(p, "replan")

Leads(D, P, A, p, q) ==
  \/ ByRecord(D, p, q) \/ ByRound(A, p, q) \/ ByPass(P, A, p, q)
  \/ ByPlan(D, p, q) \/ ByMore(A, p, q)

Steps(D, P, A) == {e \in Place \X Place : Leads(D, P, A, e[1], e[2])}

Walk(D, P, A) == From(Place, Steps(D, P, A), Start)

\* The plan in force at a place costs more than a limit has left.
Over(P, limit, p) == \E x \in P : x.of = p.plan.brief /\ p.charged + x.cost > limit

\* A place where the walk stops for an answer.
Waits(P, A, p, question) ==
  \/ p.pc = "exhausted" /\ question = ExhaustedAt(p)
  \/ p.pc = "refuted" /\ question = RefutedAt(p)
  \/ p.pc = "pass" /\ question = SpentOn(A) /\ Over(P, LimitOn(A), p)

\* A brief has one record, a plan one pass.
Named(D, P) ==
  /\ \A r, s \in D : r.brief = s.brief => r = s
  /\ \A x, y \in P : x.of = y.of => x = y

LEMMA StartTyped == Start \in Place
BY LadderAssumption DEF Start, Place, OnFirst, NoTries, Tries, Lasts, Entries, NoRecord, NoBrief,
   Briefs, Whys, Says

LEMMA StartWalks == \A D, P, A : Start \in Walk(D, P, A)
BY StartTyped, FromItself DEF Walk

LEMMA WalkOn ==
  ASSUME NEW D, NEW P, NEW A, NEW p \in Walk(D, P, A), NEW q \in Place, Leads(D, P, A, p, q)
  PROVE  q \in Walk(D, P, A)
<1>1. p \in Place
  BY DEF Walk, From
<1>2. <<p, q>> \in Steps(D, P, A)
  BY <1>1 DEF Steps
<1> QED
  BY <1>1, <1>2, StartTyped, FromOnward DEF Walk

LEMMA LimitTyped ==
  ASSUME NEW A, IsFiniteSet(A)
  PROVE  /\ IsFiniteSet(Bought(A))
         /\ Cardinality(Bought(A)) \in Nat
         /\ LimitOn(A) \in Nat
<1>1. Bought(A) \in SUBSET A
  BY DEF Bought
<1>2. IsFiniteSet(Bought(A)) /\ Cardinality(Bought(A)) \in Nat
  BY <1>1, FS_Subset, FS_CardinalityType
<1> QED
  BY <1>2, LadderAssumption DEF LimitOn

\* More grants, a larger allowance.
LEMMA LimitGrows ==
  ASSUME NEW B, IsFiniteSet(B), NEW A \in SUBSET B
  PROVE  IsFiniteSet(A) /\ Cardinality(Bought(A)) <= Cardinality(Bought(B))
         /\ LimitOn(A) <= LimitOn(B)
<1>1. Bought(A) \in SUBSET Bought(B)
  BY DEF Bought
<1>2. IsFiniteSet(A)
  BY FS_Subset
<1> DEFINE m == Cardinality(Bought(A))
           n == Cardinality(Bought(B))
<1>3. m \in Nat /\ n \in Nat /\ m <= n
  BY <1>1, <1>2, LimitTyped, FS_Subset
<1>4. LimitOn(A) = Base * (1 + m) /\ LimitOn(B) = Base * (1 + n)
  BY DEF LimitOn
<1> HIDE DEF m, n
<1>5. Base * (1 + m) <= Base * (1 + n)
  BY <1>3, LadderAssumption
<1> QED
  BY <1>2, <1>3, <1>4, <1>5 DEF m, n

LEMMA WalkGrows ==
  ASSUME NEW D, NEW P, NEW A, NEW D2, NEW P2, NEW A2,
         D \subseteq D2, P \subseteq P2, P2 \subseteq Costs, A \in SUBSET A2, IsFiniteSet(A2)
  PROVE  Walk(D, P, A) \subseteq Walk(D2, P2, A2)
<1>1. ASSUME NEW p \in Place, NEW q \in Place, Leads(D, P, A, p, q)
      PROVE  Leads(D2, P2, A2, p, q)
  <2>1. ByRecord(D, p, q) => ByRecord(D2, p, q)
    BY DEF ByRecord
  <2>2. ByRound(A, p, q) => ByRound(A2, p, q)
    BY DEF ByRound, GrantedIn
  <2>3. ByPass(P, A, p, q) => ByPass(P2, A2, p, q)
    <3>1. LimitOn(A) <= LimitOn(A2) /\ LimitOn(A) \in Nat /\ LimitOn(A2) \in Nat
      BY LimitGrows, LimitTyped
    <3> QED
      BY <3>1 DEF ByPass, Place, Costs
  <2>4. ByPlan(D, p, q) => ByPlan(D2, p, q)
    BY DEF ByPlan
  <2>5. ByMore(A, p, q) => ByMore(A2, p, q)
    BY DEF ByMore, GrantedIn
  <2> QED
    BY <1>1, <2>1, <2>2, <2>3, <2>4, <2>5 DEF Leads
<1>2. \A a, b \in Place : <<a, b>> \in Steps(D, P, A) => <<a, b>> \in Steps(D2, P2, A2)
  BY <1>1 DEF Steps
<1> QED
  BY <1>2, StartTyped, FromGrows DEF Walk

\* Briefs and plans being answered once, a place leads to one place.
LEMMA OneWay ==
  ASSUME NEW D, NEW P, NEW A, Named(D, P)
  PROVE  Functional(Place, Steps(D, P, A))
<1>1. ASSUME NEW p \in Place, NEW q \in Place, NEW t \in Place,
             Leads(D, P, A, p, q), Leads(D, P, A, p, t)
      PROVE  q = t
  <2>1. CASE p.pc = "plan"
    BY <1>1, <2>1 DEF Leads, ByRecord, ByRound, ByPass, ByPlan, ByMore, Named
  <2>2. CASE p.pc = "exhausted"
    BY <1>1, <2>2 DEF Leads, ByRecord, ByRound, ByPass, ByPlan, ByMore, Named
  <2>3. CASE p.pc = "pass"
    BY <1>1, <2>3 DEF Leads, ByRecord, ByRound, ByPass, ByPlan, ByMore, Named
  <2>4. CASE p.pc = "replan"
    BY <1>1, <2>4 DEF Leads, ByRecord, ByRound, ByPass, ByPlan, ByMore, Named
  <2>5. CASE p.pc = "refuted"
    BY <1>1, <2>5 DEF Leads, ByRecord, ByRound, ByPass, ByPlan, ByMore, Named
  <2> QED
    BY <1>1, <2>1, <2>2, <2>3, <2>4, <2>5 DEF Leads, ByRecord, ByRound, ByPass, ByPlan, ByMore
<1> QED
  BY <1>1 DEF Functional, Steps

\* Further along the first ladder, or past it.
Past(s, t) ==
  \/ t.pc \notin {"plan", "exhausted"}
  \/ t.tries.granted > s.tries.granted
  \/ /\ t.tries.granted = s.tries.granted
     /\ t.pc = "exhausted" \/ t.tries.replans > s.tries.replans

LEMMA PastOnly ==
  ASSUME NEW D, NEW P, NEW A, NEW s \in Place, s.pc = "plan"
  PROVE  \A t \in From(Place, Steps(D, P, A), s) : t = s \/ Past(s, t)
<1> DEFINE T == {t \in Place : t = s \/ Past(s, t)}
<1>1. ASSUME NEW p \in Place, NEW q \in Place, p \in T, Leads(D, P, A, p, q)
      PROVE  q \in T
  <2>1. /\ p.tries.granted \in Nat /\ p.tries.replans \in Nat
        /\ s.tries.granted \in Nat /\ s.tries.replans \in Nat
    BY DEF Place, Tries
  <2>2. p = s \/ Past(s, p)
    BY <1>1
  <2>3. CASE ByRecord(D, p, q)
    <3>1. PICK r \in D : q = Planned(p, r)
      BY <2>3 DEF ByRecord
    <3>2. CASE q.pc = "plan"
      <4>1. q.tries = [p.tries EXCEPT !.replans = @ + 1]
        BY <3>1, <3>2 DEF Planned, Tried
      <4>2. q.tries.granted = p.tries.granted /\ q.tries.replans = p.tries.replans + 1
        BY <4>1 DEF Place, Tries
      <4> QED
        BY <2>1, <2>2, <2>3, <4>2 DEF Past, ByRecord
    <3>3. CASE q.pc = "exhausted"
      <4>1. q.tries = p.tries
        BY <3>1, <3>3 DEF Planned
      <4> QED
        BY <2>1, <2>2, <2>3, <3>3, <4>1 DEF Past, ByRecord
    <3> QED
      BY <3>2, <3>3 DEF Past
  <2>4. CASE ByRound(A, p, q)
    <3>1. q.pc = "plan" /\ q.tries.granted = p.tries.granted + 1
      BY <2>4 DEF ByRound, Onward
    <3> QED
      BY <2>1, <2>2, <2>4, <3>1 DEF Past, ByRound
  <2>5. CASE ByPass(P, A, p, q) \/ ByPlan(D, p, q) \/ ByMore(A, p, q)
    BY <2>5 DEF ByPass, ByPlan, ByMore, Passed, Replanned, Onward, Past
  <2> QED
    BY <1>1, <2>3, <2>4, <2>5 DEF Leads
<1>2. Closed(Place, Steps(D, P, A), T)
  BY <1>1 DEF Closed, Steps
<1> QED
  BY <1>2, FromStays

\* A walk asks for a plan once for each attempt of each round.
LEMMA OneAttempt ==
  ASSUME NEW D, NEW P, NEW A, Named(D, P), NEW s \in Walk(D, P, A), NEW t \in Walk(D, P, A),
         s.pc = "plan", t.pc = "plan", s.tries = t.tries
  PROVE  s = t
<1>1. s \in Place /\ t \in Place
  BY DEF Walk, From
<1>2. s.tries.granted \in Nat /\ s.tries.replans \in Nat
  BY <1>1 DEF Place, Tries
<1>3. ~ Past(s, t) /\ ~ Past(t, s)
  BY <1>2 DEF Past
<1> QED
  BY <1>1, <1>3, StartTyped, OneWay, FromOneAnother, PastOnly DEF Walk

LEMMA WaitsStill ==
  ASSUME NEW D, NEW P, NEW A, Named(D, P), P \subseteq Costs, IsFiniteSet(A),
         NEW p \in Place, NEW question, Waits(P, A, p, question), ~ GrantedIn(A, question),
         NEW q \in Place
  PROVE  ~ Leads(D, P, A, p, q)
<1>1. CASE p.pc = "exhausted"
  BY <1>1 DEF Waits, Leads, ByRecord, ByRound, ByPass, ByPlan, ByMore
<1>2. CASE p.pc = "refuted"
  BY <1>2 DEF Waits, Leads, ByRecord, ByRound, ByPass, ByPlan, ByMore
<1>3. CASE p.pc = "pass"
  <2>1. PICK x \in P : x.of = p.plan.brief /\ p.charged + x.cost > LimitOn(A)
    BY <1>3 DEF Waits, Over
  <2>2. \A y \in P : y.of = p.plan.brief => y = x
    BY <2>1 DEF Named
  <2>3. p.charged \in Nat /\ x.cost \in Nat /\ LimitOn(A) \in Nat
    BY LimitTyped DEF Place, Costs
  <2>4. ~ ByPass(P, A, p, q)
    BY <2>1, <2>2, <2>3 DEF ByPass
  <2> QED
    BY <1>3, <2>4 DEF Leads, ByRecord, ByRound, ByPlan, ByMore
<1> QED
  BY <1>1, <1>2, <1>3 DEF Waits

\* The walk stops for one answer.
LEMMA OneWait ==
  ASSUME NEW D, NEW P, NEW A, Named(D, P), P \subseteq Costs, IsFiniteSet(A),
         NEW p \in Walk(D, P, A), NEW a, Waits(P, A, p, a), ~ GrantedIn(A, a),
         NEW q \in Walk(D, P, A), NEW b, Waits(P, A, q, b), ~ GrantedIn(A, b)
  PROVE  a = b
<1>1. p \in Place /\ q \in Place
  BY DEF Walk, From
<1>2. \A t \in Place : <<p, t>> \notin Steps(D, P, A) /\ <<q, t>> \notin Steps(D, P, A)
  BY <1>1, WaitsStill DEF Steps
<1>3. p = q
  BY <1>2, StartTyped, OneWay, OneStop DEF Walk
<1> QED
  BY <1>3 DEF Waits

-----------------------------------------------------------------------------
(* Type correctness, and one record to a brief.                            *)

LEMMA TypeInit == Init => TypeOK
<1> SUFFICES ASSUME Init PROVE TypeOK
  OBVIOUS
<1>1. NoRecord \in Entries /\ NoTries \in Tries
  BY DEF NoRecord, NoBrief, NoTries, Entries, Briefs, Whys, Says, Tries
<1>2. last \in Lasts
  BY <1>1 DEF Init, Lasts, Whys
<1> QED
  BY <1>1, <1>2, FS_EmptySet DEF Init, TypeOK

LEMMA OverTyped ==
  ASSUME LaunchOver
  PROVE  /\ pc' = "down" /\ folded' = {} /\ asked' = {}
         /\ tries' = NoTries /\ last' = [record |-> NoRecord, why |-> "none"]
         /\ plan' = NoRecord /\ accepted' = 0 /\ charged' = 0
         /\ tries' \in Tries /\ last' \in Lasts /\ plan' \in Entries
         /\ accepted' \in Nat /\ charged' \in Nat
<1>1. NoRecord \in Entries /\ NoTries \in Tries
  BY DEF NoRecord, NoBrief, NoTries, Entries, Briefs, Whys, Says, Tries
<1>2. [record |-> NoRecord, why |-> "none"] \in Lasts
  BY <1>1 DEF Lasts, Whys
<1> QED
  BY <1>1, <1>2 DEF LaunchOver, Forget

LEMMA BriefsTyped ==
  ASSUME TypeOK
  PROVE  /\ Ask \in Briefs /\ ReplanGoal \in Briefs
         /\ Exhausted \in Questions /\ Refuted \in Questions
         /\ SpentBudget \in Questions
         /\ Limit = LimitOn(folded) /\ SpentBudget = SpentOn(folded)
         /\ Limit \in Nat
<1>1. Ask \in Briefs /\ ReplanGoal \in Briefs
  BY DEF TypeOK, Ask, ReplanGoal, Briefs, Lasts, Tries, Whys, Entries
<1>2. Exhausted \in Questions /\ Refuted \in Questions
  BY DEF TypeOK, Exhausted, Refuted, Question, Questions, Lasts, Tries, Entries
<1>3. GrantsOn("budget") = Bought(folded)
  BY DEF GrantsOn, Bought
<1>4. IsFiniteSet(folded)
  BY FS_Subset DEF TypeOK
<1>5. Limit = LimitOn(folded) /\ Limit \in Nat
  BY <1>3, <1>4, LimitTyped DEF Limit, LimitOn
<1>6. NoBrief \in Briefs
  BY DEF NoBrief, Briefs, Whys
<1> QED
  BY <1>1, <1>2, <1>5, <1>6 DEF SpentBudget, SpentOn, SpentAt, Question, Questions, LimitOn

\* What a planner dispatch leaves in the journal.
LEMMA DispatchedFacts ==
  ASSUME TypeOK, Named(dispatches, passes), NEW brief \in Briefs,
         NEW record \in Candidates(brief), Dispatched(brief, record)
  PROVE  /\ record \in Entries /\ record.brief = brief /\ RootReason(record) \in Whys
         /\ dispatches' = dispatches \cup {record}
         /\ dispatches' \subseteq Entries /\ IsFiniteSet(dispatches')
         /\ \A r, s \in dispatches' : r.brief = s.brief => r = s
<1>1. Record(brief) \subseteq Entries /\ \A r \in Record(brief) : r.brief = brief
  BY DEF Record, Entries
<1>2. record \in Entries /\ record.brief = brief
  BY <1>1 DEF Dispatched, Candidates, TypeOK
<1>3. RootReason(record) \in Whys
  BY <1>2 DEF RootReason, Whys, Entries, Says
<1>4. dispatches' = dispatches \cup {record}
  BY DEF Dispatched
<1>5. IsFiniteSet(dispatches')
  BY <1>4, FS_AddElement DEF TypeOK
<1>6. \A r, s \in dispatches' : r.brief = s.brief => r = s
  BY <1>2, <1>4 DEF Dispatched, Named
<1> QED
  BY <1>2, <1>3, <1>4, <1>5, <1>6 DEF TypeOK

\* What a question leads to.
Suspends(question) ==
  /\ Answer(question) = {}
  /\ opened' = opened \cup {question}
  /\ LaunchOver
Repeats(question) ==
  /\ question \in asked
  /\ pc' = "error"
  /\ UNCHANGED <<opened, folded, ladder>>
Obeys(question, where) ==
  /\ question \notin asked /\ GrantedIn(folded, question)
  /\ NextRound(where) /\ asked' = asked \cup {question}
  /\ UNCHANGED opened
Stops == LaunchOver /\ UNCHANGED opened

LEMMA AskForRoundCases ==
  ASSUME AskForRound
  PROVE  /\ pc = "exhausted" /\ UNCHANGED <<dispatches, passes, decisions>>
         /\ \/ Suspends(Exhausted) \/ Repeats(Exhausted) \/ Obeys(Exhausted, "plan") \/ Stops
BY DEF AskForRound, AskPerson, Suspends, Repeats, Obeys, Stops, Finish, Answer, GrantedIn

LEMMA AskForMoreCases ==
  ASSUME AskForMore
  PROVE  /\ pc = "refuted" /\ UNCHANGED <<dispatches, passes, decisions>>
         /\ \/ Suspends(Refuted) \/ Repeats(Refuted) \/ Obeys(Refuted, "replan") \/ Stops
BY DEF AskForMore, AskPerson, Suspends, Repeats, Obeys, Stops, Finish, Answer, GrantedIn

LEMMA AskForBudgetCases ==
  ASSUME AskForBudget
  PROVE  /\ pc = "spent" /\ UNCHANGED <<dispatches, passes, decisions>>
         /\ \/ Suspends(SpentBudget) \/ Repeats(SpentBudget) \/ Stops
            \/ /\ GrantedIn(folded, SpentBudget)
               /\ pc' = "error" /\ UNCHANGED <<opened, folded, ladder>>
BY DEF AskForBudget, AskPerson, Suspends, Repeats, Stops, Finish, Answer, GrantedIn

\* What a pass leads to.
Charged(x) ==
  /\ charged + x.cost <= Limit
  /\ x.settles = "refuted"
  /\ charged' = charged + x.cost
  /\ pc' = IF RoundHasMore THEN "replan" ELSE "refuted"
  /\ UNCHANGED <<folded, tries, last, plan, accepted, asked>>
Spends(x) ==
  /\ charged + x.cost > Limit
  /\ pc' = "spent" /\ charged' = Limit
  /\ UNCHANGED <<folded, tries, last, plan, accepted, asked>>

LEMMA RunPassCases ==
  ASSUME TypeOK, Named(dispatches, passes), RunPass
  PROVE  /\ pc = "pass" /\ UNCHANGED <<dispatches, opened, decisions>>
         /\ \E x \in Costs :
              /\ x.of = plan.brief
              /\ passes' = passes \cup {x}
              /\ \A y, z \in passes' : y.of = z.of => y = z
              /\ LaunchOver \/ Spends(x) \/ Charged(x)
<1>1. PICK cost \in 1..MaxCost, settles \in {"done", "short", "refuted"} :
        LET pass == [of |-> plan.brief, cost |-> cost, settles |-> settles]
        IN /\ IF Pass = {} THEN passes' = passes \cup {pass}
              ELSE pass \in Pass /\ UNCHANGED passes
           /\ IF charged + cost > Limit
              THEN pc' = "spent" /\ charged' = Limit
                   /\ UNCHANGED <<folded, tries, last, plan, accepted, asked, outcome>>
              ELSE IF settles = "refuted"
              THEN /\ charged' = charged + cost
                   /\ pc' = IF RoundHasMore THEN "replan" ELSE "refuted"
                   /\ UNCHANGED <<folded, tries, last, plan, accepted, asked, outcome>>
              ELSE Finish(settles, plan.sound)
  BY DEF RunPass
<1> DEFINE x == [of |-> plan.brief, cost |-> cost, settles |-> settles]
<1>2. x \in Costs /\ x.of = plan.brief /\ x.cost = cost /\ x.settles = settles
  BY LadderAssumption DEF Costs, TypeOK, Entries
<1>3. passes' = passes \cup {x} /\ (Pass = {} \/ x \in passes)
  BY <1>1 DEF Pass
<1>4. \A y, z \in passes' : y.of = z.of => y = z
  BY <1>2, <1>3 DEF Named, Pass
<1>5. charged + cost \in Nat /\ Limit \in Nat
  BY BriefsTyped, LadderAssumption DEF TypeOK
<1>6. LaunchOver \/ Spends(x) \/ Charged(x)
  BY <1>1, <1>2, <1>5 DEF Finish, Spends, Charged
<1> QED
  BY <1>2, <1>3, <1>4, <1>6 DEF RunPass

\* A planner dispatch moves the launch to where its record leads.
LEMMA PlanRootCases ==
  ASSUME TypeOK, Named(dispatches, passes), PlanRoot
  PROVE  /\ pc = "plan" /\ UNCHANGED <<passes, opened, decisions, folded, asked>>
         /\ \E r \in Entries :
              /\ r.brief = Ask /\ RootReason(r) \in Whys
              /\ dispatches' = dispatches \cup {r}
              /\ dispatches' \subseteq Entries /\ IsFiniteSet(dispatches')
              /\ \A s, t \in dispatches' : s.brief = t.brief => s = t
              /\ Here' = Planned(Here, r)
<1>1. PICK r \in Candidates(Ask) :
        /\ Dispatched(Ask, r)
        /\ last' = [record |-> r, why |-> RootReason(r)]
        /\ CASE RootReason(r) = "none" ->
                  /\ Take(r)
                  /\ tries' = NoTries
                  /\ UNCHANGED <<charged, asked, folded, outcome>>
             [] RootReason(r) # "none" /\ r.says # "account" ->
                  /\ IF RoundHasMore
                     THEN tries' = Counted /\ pc' = "plan"
                     ELSE UNCHANGED tries /\ pc' = "exhausted"
                  /\ UNCHANGED <<plan, accepted, charged, asked, folded, outcome>>
             [] OTHER -> pc' = "abandoned" /\ UNCHANGED <<tries, plan, accepted, charged, asked, folded, outcome>>
  BY DEF PlanRoot
<1>2. Ask \in Briefs
  BY BriefsTyped
<1>3. /\ r \in Entries /\ r.brief = Ask /\ RootReason(r) \in Whys
      /\ dispatches' = dispatches \cup {r}
      /\ dispatches' \subseteq Entries /\ IsFiniteSet(dispatches')
      /\ \A s, t \in dispatches' : s.brief = t.brief => s = t
  BY <1>1, <1>2, DispatchedFacts
<1>4. Here' = Planned(Here, r) /\ UNCHANGED <<asked, folded>>
  <2>1. CASE RootReason(r) = "none"
    BY <1>1, <2>1 DEF Planned, Here, Take
  <2>2. CASE RootReason(r) # "none" /\ r.says # "account" /\ RoundHasMore
    BY <1>1, <2>2 DEF Planned, Here, MoreAt, RoundHasMore, Counted, Tried
  <2>3. CASE RootReason(r) # "none" /\ r.says # "account" /\ ~ RoundHasMore
    BY <1>1, <2>3 DEF Planned, Here, MoreAt, RoundHasMore
  <2>4. CASE RootReason(r) # "none" /\ r.says = "account"
    BY <1>1, <2>4 DEF Planned, Here
  <2> QED
    BY <2>1, <2>2, <2>3, <2>4
<1> QED
  BY <1>3, <1>4 DEF PlanRoot

LEMMA ReplanCases ==
  ASSUME TypeOK, Named(dispatches, passes), Replan
  PROVE  /\ pc = "replan" /\ UNCHANGED <<passes, opened, decisions>>
         /\ \E r \in Entries :
              /\ r.brief = ReplanGoal
              /\ dispatches' = dispatches \cup {r}
              /\ dispatches' \subseteq Entries /\ IsFiniteSet(dispatches')
              /\ \A s, t \in dispatches' : s.brief = t.brief => s = t
              /\ \/ r.says = "plan" /\ Here' = Replanned(Here, r) /\ UNCHANGED <<folded, asked>>
                 \/ LaunchOver
<1>1. PICK r \in Candidates(ReplanGoal) :
        /\ Dispatched(ReplanGoal, r)
        /\ IF r.says = "plan"
           THEN /\ Take(r)
                /\ last' = [record |-> r, why |-> "none"]
                /\ tries' = Counted
                /\ UNCHANGED <<charged, asked, folded, outcome>>
           ELSE Finish("short", FALSE)
  BY DEF Replan
<1>2. ReplanGoal \in Briefs
  BY BriefsTyped
<1>3. /\ r \in Entries /\ r.brief = ReplanGoal
      /\ dispatches' = dispatches \cup {r}
      /\ dispatches' \subseteq Entries /\ IsFiniteSet(dispatches')
      /\ \A s, t \in dispatches' : s.brief = t.brief => s = t
  BY <1>1, <1>2, DispatchedFacts
<1>4. \/ r.says = "plan" /\ Here' = Replanned(Here, r) /\ UNCHANGED <<folded, asked>>
      \/ LaunchOver
  BY <1>1 DEF Take, Here, Replanned, Counted, Tried, Finish
<1> QED
  BY <1>3, <1>4 DEF Replan

\* An answer is put on record.
Answered(d) ==
  /\ d \in Answers /\ d.question \in opened
  /\ ~ \E e \in decisions : e.question = d.question
  /\ d.decision = Grant => d.by = "person"
  /\ decisions' = decisions \cup {d}
  /\ UNCHANGED <<dispatches, passes, opened, folded, pc, ladder>>

LEMMA DecideCases ==
  ASSUME TypeOK, NEW question \in opened, PersonDecides(question) \/ DeadlineDecides(question)
  PROVE  \E d \in Answers : Answered(d)
<1>1. PICK decision \in {Abandon, Grant}, by \in {"person", "system"} :
        Records(question, decision, by) /\ (decision = Grant => by = "person")
  BY DEF PersonDecides, DeadlineDecides, Default, Abandon, Grant
<1> DEFINE d == [question |-> question, decision |-> decision, by |-> by]
<1>2. d \in Answers
  BY DEF Answers, TypeOK
<1> QED
  BY <1>1, <1>2 DEF Records, Answered

\* A launch starts its walk at the bottom, on the answers on record.
Launches ==
  /\ pc = "down" /\ pc' = "plan" /\ folded' = decisions
  /\ UNCHANGED <<durable, ladder>>

\* The steps that end a launch and write nothing.
Dies == pc # "error" /\ LaunchOver /\ UNCHANGED <<dispatches, passes, opened, decisions>>

LEMMA NextCases ==
  ASSUME TypeOK, [Next]_vars
  PROVE  \/ Launches \/ Dies
         \/ PlanRoot \/ AskForRound \/ RunPass \/ Replan \/ AskForMore \/ AskForBudget
         \/ \E d \in Answers : Answered(d)
         \/ UNCHANGED <<durable, folded, pc, ladder>>
<1>1. Launch => Launches
  BY DEF Launch, Launches
<1>2. Crash => Dies
  BY DEF Crash, Dies, durable
<1>3. AbandonRoot => Dies
  BY DEF AbandonRoot, Dies, durable, Finish
<1>4. (\E question \in opened : PersonDecides(question) \/ DeadlineDecides(question))
      => \E d \in Answers : Answered(d)
  BY DecideCases
<1> QED
  BY <1>1, <1>2, <1>3, <1>4 DEF Next, Program, vars

LEMMA Ahead ==
  ASSUME NEW p \in Place
  PROVE  /\ \A r \in Entries : RootReason(r) \in Whys => Planned(p, r) \in Place
         /\ \A r \in Entries : Replanned(p, r) \in Place
         /\ \A x \in Costs : Passed(p, x.cost) \in Place
         /\ Onward(p, "plan") \in Place /\ Onward(p, "replan") \in Place
<1> DEFINE t == p.tries
<1>1. /\ t \in Tries /\ p.last \in Lasts /\ p.plan \in Entries
      /\ p.accepted \in Nat /\ p.charged \in Nat
  BY DEF Place
<1>2. Tried(t) \in Tries /\ NoTries \in Tries
  BY <1>1 DEF Tries, Tried, NoTries
<1>3. [replans |-> 0, granted |-> t.granted + 1] \in Tries
  BY <1>1 DEF Tries
<1>4. ASSUME NEW r \in Entries, RootReason(r) \in Whys
      PROVE  Planned(p, r) \in Place
  <2>1. [record |-> r, why |-> RootReason(r)] \in Lasts
    BY <1>4 DEF Lasts
  <2>2. CASE RootReason(r) = "none"
    BY <1>1, <1>2, <2>1, <2>2 DEF Planned, Place, OnAgain
  <2>3. CASE RootReason(r) # "none" /\ r.says # "account" /\ MoreAt(p)
    BY <1>1, <1>2, <2>1, <2>3 DEF Planned, Place, OnFirst
  <2>4. CASE RootReason(r) # "none" /\ r.says # "account" /\ ~ MoreAt(p)
    BY <1>1, <1>2, <2>1, <2>4 DEF Planned, Place, OnFirst
  <2>5. CASE RootReason(r) # "none" /\ r.says = "account"
    BY <1>1, <1>2, <2>1, <2>5 DEF Planned, Place, OnFirst
  <2> QED
    BY <2>2, <2>3, <2>4, <2>5
<1>5. ASSUME NEW r \in Entries
      PROVE  Replanned(p, r) \in Place
  <2>1. [record |-> r, why |-> "none"] \in Lasts
    BY DEF Lasts, Whys
  <2> QED
    BY <1>1, <1>2, <2>1 DEF Replanned, Place, OnAgain
<1>6. \A x \in Costs : Passed(p, x.cost) \in Place
  BY <1>1 DEF Passed, Place, OnAgain, Costs
<1>7. Onward(p, "plan") \in Place /\ Onward(p, "replan") \in Place
  BY <1>1, <1>3 DEF Onward, Place, OnFirst, OnAgain
<1> QED
  BY <1>4, <1>5, <1>6, <1>7

LEMMA HereTyped ==
  ASSUME TypeOK, pc \in OnFirst \cup OnAgain
  PROVE  Here \in Place
BY DEF TypeOK, Here, Place

LEMMA ThereTyped ==
  ASSUME Here' \in Place
  PROVE  /\ pc' \in OnFirst \cup OnAgain /\ tries' \in Tries /\ last' \in Lasts
         /\ plan' \in Entries /\ accepted' \in Nat /\ charged' \in Nat
BY DEF Here, Place

\* What a launch leaves behind, but for the journal.
Forgot ==
  /\ tries = NoTries /\ last = [record |-> NoRecord, why |-> "none"]
  /\ plan = NoRecord /\ accepted = 0 /\ charged = 0 /\ asked = {}

RecordInv ==
  /\ TypeOK
  /\ Named(dispatches, passes)
  /\ \A d, e \in decisions : d.question = e.question => d = e
  /\ \A d \in decisions : d.question \in opened /\ (d.decision = Grant => d.by = "person")
  /\ pc = "down" => Forgot

LEMMA RecordInit == Init => RecordInv
BY TypeInit DEF Init, RecordInv, Named, Forgot

LEMMA OverForgets == LaunchOver => Forgot'
BY OverTyped DEF Forgot

\* The places a question leads the launch to.
LEMMA AskTyped ==
  ASSUME RecordInv, UNCHANGED <<dispatches, passes, decisions>>,
         NEW question \in Questions, NEW where \in {"plan", "replan"},
         Suspends(question) \/ Repeats(question) \/ Obeys(question, where) \/ Stops
  PROVE  RecordInv'
<1>1. CASE Suspends(question) \/ Stops
  BY <1>1, OverTyped, OverForgets DEF Suspends, Stops, RecordInv, TypeOK, Named
<1>2. CASE Repeats(question)
  BY <1>2 DEF Repeats, ladder, RecordInv, TypeOK, Named
<1>3. CASE Obeys(question, where)
  <2>1. tries' \in Tries
    BY <1>3 DEF Obeys, NextRound, RecordInv, TypeOK, Tries
  <2> QED
    BY <1>3, <2>1 DEF Obeys, NextRound, RecordInv, TypeOK, Named, OnFirst, OnAgain
<1> QED
  BY <1>1, <1>2, <1>3

LEMMA RecordNext == RecordInv /\ [Next]_vars => RecordInv'
<1> SUFFICES ASSUME RecordInv, [Next]_vars PROVE RecordInv'
  OBVIOUS
<1> USE DEF RecordInv
<1>1. CASE Launches
  BY <1>1 DEF Launches, durable, ladder, TypeOK, Named, OnFirst
<1>2. CASE Dies
  BY <1>2, OverTyped, OverForgets DEF Dies, TypeOK, Named
<1>3. CASE PlanRoot
  <2>1. PICK r \in Entries :
          /\ RootReason(r) \in Whys
          /\ dispatches' \subseteq Entries /\ IsFiniteSet(dispatches')
          /\ \A s, t \in dispatches' : s.brief = t.brief => s = t
          /\ Here' = Planned(Here, r)
    BY <1>3, PlanRootCases
  <2>2. pc = "plan" /\ UNCHANGED <<passes, opened, decisions, folded, asked>>
    BY <1>3, PlanRootCases
  <2>3. Here' \in Place
    BY <2>1, <2>2, HereTyped, Ahead DEF OnFirst
  <2>4. pc' # "down"
    BY <2>3, ThereTyped DEF OnFirst, OnAgain
  <2> QED
    BY <2>1, <2>2, <2>3, <2>4, ThereTyped DEF TypeOK, Named
<1>4. CASE AskForRound
  <2>1. Exhausted \in Questions
    BY BriefsTyped
  <2> QED
    BY <1>4, <2>1, AskForRoundCases, AskTyped
<1>5. CASE RunPass
  <2>1. PICK x \in Costs :
          /\ passes' = passes \cup {x}
          /\ \A y, z \in passes' : y.of = z.of => y = z
          /\ LaunchOver \/ Spends(x) \/ Charged(x)
    BY <1>5, RunPassCases
  <2>2. pc = "pass" /\ UNCHANGED <<dispatches, opened, decisions>>
    BY <1>5, RunPassCases
  <2>3. CASE LaunchOver
    BY <2>1, <2>2, <2>3, OverTyped, OverForgets DEF TypeOK, Named
  <2>4. CASE Spends(x)
    BY <2>1, <2>2, <2>4, BriefsTyped DEF Spends, TypeOK, Named
  <2>5. CASE Charged(x)
    <3>1. charged' \in Nat
      BY <2>5 DEF Charged, TypeOK, Costs
    <3> QED
      BY <2>1, <2>2, <2>5, <3>1 DEF Charged, TypeOK, Named, OnAgain
  <2> QED
    BY <2>1, <2>3, <2>4, <2>5
<1>6. CASE Replan
  <2>1. PICK r \in Entries :
          /\ dispatches' \subseteq Entries /\ IsFiniteSet(dispatches')
          /\ \A s, t \in dispatches' : s.brief = t.brief => s = t
          /\ \/ r.says = "plan" /\ Here' = Replanned(Here, r) /\ UNCHANGED <<folded, asked>>
             \/ LaunchOver
    BY <1>6, ReplanCases
  <2>2. pc = "replan" /\ UNCHANGED <<passes, opened, decisions>>
    BY <1>6, ReplanCases
  <2>3. CASE Here' = Replanned(Here, r) /\ UNCHANGED <<folded, asked>>
    <3>1. Here' \in Place
      BY <2>2, <2>3, HereTyped, Ahead DEF OnAgain
    <3>2. pc' # "down"
      BY <3>1, ThereTyped DEF OnFirst, OnAgain
    <3> QED
      BY <2>1, <2>2, <2>3, <3>1, <3>2, ThereTyped DEF TypeOK, Named
  <2>4. CASE LaunchOver
    BY <2>1, <2>2, <2>4, OverTyped, OverForgets DEF TypeOK, Named
  <2> QED
    BY <2>1, <2>3, <2>4
<1>7. CASE AskForMore
  <2>1. Refuted \in Questions
    BY BriefsTyped
  <2> QED
    BY <1>7, <2>1, AskForMoreCases, AskTyped
<1>8. CASE AskForBudget
  <2>1. SpentBudget \in Questions
    BY BriefsTyped
  <2>2. CASE pc' = "error" /\ UNCHANGED <<opened, folded, ladder>>
    BY <1>8, <2>2, AskForBudgetCases DEF TypeOK, Named, ladder
  <2> QED
    BY <1>8, <2>1, <2>2, AskForBudgetCases, AskTyped
<1>9. CASE \E d \in Answers : Answered(d)
  <2>1. PICK d \in Answers : Answered(d)
    BY <1>9
  <2>2. IsFiniteSet(decisions')
    BY <2>1, FS_AddElement DEF Answered, TypeOK
  <2> QED
    BY <2>1, <2>2 DEF Answered, TypeOK, Named, ladder, Forgot
<1>10. CASE UNCHANGED <<durable, folded, pc, ladder>>
  BY <1>10 DEF durable, ladder, TypeOK, Named, Forgot
<1> QED
  BY <1>1, <1>2, <1>3, <1>4, <1>5, <1>6, <1>7, <1>8, <1>9, <1>10, NextCases

LEMMA Recorded == Spec => []RecordInv
BY RecordInit, RecordNext, PTL DEF Spec

\* Journal, questions, answers and every launch keep their types, however many
\* launches, crashes and grants there are.
THEOREM TypeCorrect == Spec => []TypeOK
<1>1. RecordInv => TypeOK
  BY DEF RecordInv
<1> QED
  BY <1>1, Recorded, PTL

-----------------------------------------------------------------------------
(* Inside one launch: which rounds were granted, and how many plans they    *)
(* led to.                                                                 *)

\* The grant that paid for the round after round j, on either ladder.
FirstGrant(A, j) ==
  \E d \in A : /\ d.decision = Grant /\ d.question.node = "planning"
               /\ d.question.why # "refuted" /\ d.question.ref.granted = j
AgainGrant(A, j) ==
  \E d \in A : /\ d.decision = Grant /\ d.question.node = "planning"
               /\ d.question.why = "refuted" /\ d.question.count = j

\* Plans a round of the second ladder may lead to: a granted one at least one.
AtLeastOne == IF MaxReplans = 0 THEN 1 ELSE MaxReplans
Round(g) == IF g = 0 THEN MaxReplans ELSE AtLeastOne

\* Plans the rounds before round g led to, the run's own aside.
Earlier(g) == IF g = 0 THEN 0 ELSE MaxReplans + (g - 1) * AtLeastOne

LEMMA RoundTyped ==
  ASSUME NEW g \in Nat
  PROVE  /\ Round(g) \in Nat /\ MaxReplans <= Round(g) /\ AtLeastOne \in Nat
         /\ Earlier(g) \in Nat /\ Earlier(g + 1) = Earlier(g) + Round(g)
         /\ Earlier(g + 1) = MaxReplans + g * AtLeastOne
<1>1. AtLeastOne \in Nat /\ MaxReplans \in Nat /\ MaxReplans <= AtLeastOne
  BY LadderAssumption DEF AtLeastOne
<1>2. Round(g) \in Nat /\ MaxReplans <= Round(g)
  BY <1>1 DEF Round
<1> HIDE DEF AtLeastOne
<1>3. Earlier(g + 1) = MaxReplans + g * AtLeastOne
  BY DEF Earlier
<1>4. CASE g = 0
  <2>1. g * AtLeastOne = 0
    BY <1>1, <1>4
  <2> QED
    BY <1>1, <1>2, <1>3, <1>4, <2>1 DEF Earlier, Round
<1>5. CASE g # 0
  <2> DEFINE h == g - 1
  <2>1. h \in Nat /\ g = h + 1
    BY <1>5
  <2> HIDE DEF h
  <2>2. g * AtLeastOne = h * AtLeastOne + AtLeastOne /\ h * AtLeastOne \in Nat
    BY <1>1, <2>1
  <2>3. Earlier(g) = MaxReplans + h * AtLeastOne
    BY <1>5 DEF Earlier, h
  <2> QED
    BY <1>1, <1>2, <1>3, <1>5, <2>2, <2>3 DEF Round
<1> QED
  BY <1>4, <1>5

FirstInv ==
  pc \in OnFirst =>
    /\ \A question \in asked : question.why # "refuted" /\ question.ref.granted < tries.granted
    /\ \A j \in Nat : j < tries.granted => FirstGrant(folded, j)
    /\ tries.replans <= MaxReplans
    /\ accepted = 0
    /\ pc = "exhausted" => last.record.brief.granted = tries.granted

AgainInv ==
  pc \in OnAgain =>
    /\ \A question \in asked : question.why = "refuted" => question.count < tries.granted
    /\ \A j \in Nat : j < tries.granted => AgainGrant(folded, j)
    /\ accepted = 1 + Earlier(tries.granted) + tries.replans
    /\ tries.replans <= Round(tries.granted)
    /\ pc = "pass" /\ tries.granted > 0 => tries.replans > 0
    /\ pc = "replan" => tries.replans < Round(tries.granted)
    /\ pc = "refuted" => tries.replans = Round(tries.granted)

LaunchInv ==
  /\ \A question \in asked : question.node = "planning"
  /\ FirstInv
  /\ AgainInv

LEMMA LaunchInit == Init => LaunchInv
BY DEF Init, LaunchInv, FirstInv, AgainInv, OnFirst, OnAgain

LEMMA OverLaunches == LaunchOver => LaunchInv'
BY OverTyped DEF LaunchInv, FirstInv, AgainInv, OnFirst, OnAgain

\* The start of the second ladder, and of the first.
LEMMA Bottoms ==
  /\ NoTries.granted = 0 /\ NoTries.replans = 0
  /\ Earlier(0) = 0 /\ 0 <= Round(0)
BY LadderAssumption DEF NoTries, Earlier, Round

LEMMA LaunchNext == RecordInv /\ LaunchInv /\ [Next]_vars => LaunchInv'
<1> SUFFICES ASSUME RecordInv, LaunchInv, [Next]_vars PROVE LaunchInv'
  OBVIOUS
<1>0. TypeOK /\ Named(dispatches, passes) /\ tries.granted \in Nat /\ tries.replans \in Nat
  BY DEF RecordInv, TypeOK, Tries
<1>1. CASE Launches
  BY <1>1, Bottoms, LadderAssumption DEF Launches, durable, ladder, RecordInv, Forgot, LaunchInv, FirstInv,
     AgainInv, OnFirst, OnAgain
<1>2. CASE Dies
  BY <1>2, OverLaunches DEF Dies
<1>3. CASE PlanRoot
  <2>1. PICK r \in Entries : r.brief = Ask /\ Here' = Planned(Here, r)
    BY <1>0, <1>3, PlanRootCases
  <2>2. pc = "plan" /\ UNCHANGED <<passes, opened, decisions, folded, asked>>
    BY <1>0, <1>3, PlanRootCases
  <2>3. /\ \A question \in asked : question.why # "refuted" /\ question.ref.granted < tries.granted
        /\ \A j \in Nat : j < tries.granted => FirstGrant(folded, j)
        /\ tries.replans <= MaxReplans
        /\ accepted = 0
    BY <2>2 DEF LaunchInv, FirstInv, OnFirst
  <2>4. CASE RootReason(r) = "none"
    <3>1. pc' = "pass" /\ tries' = NoTries /\ accepted' = 1
      BY <2>1, <2>3, <2>4 DEF Planned, Here
    <3> QED
      BY <2>2, <2>3, <3>1, Bottoms DEF LaunchInv, FirstInv, AgainInv, OnFirst, OnAgain
  <2>5. CASE RootReason(r) # "none"
    <3>1. /\ pc' \in OnFirst /\ tries'.granted = tries.granted /\ tries'.replans <= MaxReplans
          /\ last'.record = r /\ accepted' = 0
      <4>1. CASE r.says # "account" /\ MoreAt(Here)
        <5>1. tries' = Tried(tries) /\ last'.record = r /\ accepted' = 0 /\ pc' = "plan"
          BY <2>1, <2>3, <2>5, <4>1 DEF Planned, Here
        <5>2. tries'.granted = tries.granted /\ tries'.replans = tries.replans + 1
          BY <1>0, <5>1 DEF Tried, TypeOK, Tries
        <5>3. tries.replans < MaxReplans
          BY <4>1 DEF MoreAt, Here
        <5> QED
          BY <1>0, <5>1, <5>2, <5>3, LadderAssumption DEF OnFirst
      <4>2. CASE ~ (r.says # "account" /\ MoreAt(Here))
        BY <2>1, <2>3, <2>5, <4>2 DEF Planned, Here, OnFirst
      <4> QED
        BY <4>1, <4>2
    <3>2. r.brief.granted = tries.granted
      BY <2>1 DEF Ask
    <3> QED
      BY <2>2, <2>3, <3>1, <3>2 DEF LaunchInv, FirstInv, AgainInv, OnFirst, OnAgain
  <2> QED
    BY <2>4, <2>5
<1>4. CASE AskForRound
  <2>1. pc = "exhausted" /\ Exhausted.node = "planning" /\ Exhausted.why # "refuted"
        /\ Exhausted.ref.granted = tries.granted
    BY <1>0, <1>4, AskForRoundCases, LadderAssumption
       DEF LaunchInv, FirstInv, OnFirst, Exhausted, Question, TypeOK, Lasts, Whys
  <2>2. CASE Suspends(Exhausted) \/ Stops
    BY <2>2, OverLaunches DEF Suspends, Stops
  <2>3. CASE Repeats(Exhausted)
    BY <2>3 DEF Repeats, ladder, LaunchInv, FirstInv, AgainInv, OnFirst, OnAgain
  <2>4. CASE Obeys(Exhausted, "plan")
    <3>1. /\ pc' = "plan" /\ tries' = [replans |-> 0, granted |-> tries.granted + 1]
          /\ asked' = asked \cup {Exhausted} /\ folded' = folded /\ accepted' = accepted
      BY <2>4 DEF Obeys, NextRound
    <3>2. FirstGrant(folded, tries.granted)
      BY <2>1, <2>4 DEF Obeys, GrantedIn, FirstGrant
    <3>3. \A j \in Nat : j < tries.granted + 1 => FirstGrant(folded, j)
      BY <1>0, <2>1, <3>2 DEF LaunchInv, FirstInv, OnFirst
    <3>4. tries'.granted = tries.granted + 1 /\ tries'.replans = 0
      BY <3>1
    <3>5. \A j \in Nat : j < tries'.granted => FirstGrant(folded', j)
      BY <3>1, <3>3, <3>4
    <3>6. \A question \in asked' : /\ question.why # "refuted" /\ question.ref.granted < tries'.granted
                                   /\ question.node = "planning"
      <4>1. \A question \in asked : question.ref.granted < tries.granted + 1
        <5> SUFFICES ASSUME NEW question \in asked PROVE question.ref.granted < tries.granted + 1
          OBVIOUS
        <5>1. question.ref.granted < tries.granted
          BY <2>1 DEF LaunchInv, FirstInv, OnFirst
        <5>2. question.ref.granted \in Nat
          BY <1>0 DEF TypeOK, Questions, Briefs
        <5> QED
          BY <1>0, <5>1, <5>2
      <4> QED
        BY <1>0, <2>1, <3>1, <3>4, <4>1 DEF LaunchInv, FirstInv, OnFirst
    <3> QED
      BY <1>0, <2>1, <3>1, <3>4, <3>5, <3>6, LadderAssumption DEF LaunchInv, FirstInv, AgainInv, OnFirst, OnAgain
  <2> QED
    BY <1>4, <2>2, <2>3, <2>4, AskForRoundCases
<1>5. CASE RunPass
  <2>1. PICK x \in Costs : LaunchOver \/ Spends(x) \/ Charged(x)
    BY <1>0, <1>5, RunPassCases
  <2>2. pc = "pass"
    BY <1>0, <1>5, RunPassCases
  <2>3. CASE LaunchOver
    BY <2>3, OverLaunches
  <2>4. CASE Spends(x)
    BY <2>4 DEF Spends, LaunchInv, FirstInv, AgainInv, OnFirst, OnAgain
  <2>5. CASE Charged(x)
    <3>1. /\ pc' = IF tries.replans < MaxReplans THEN "replan" ELSE "refuted"
          /\ UNCHANGED <<folded, tries, accepted, asked>>
      BY <2>5 DEF Charged, RoundHasMore
    <3>2. pc' = "replan" => tries.replans < Round(tries.granted)
      <4>1. MaxReplans <= Round(tries.granted) /\ Round(tries.granted) \in Nat
        BY <1>0, RoundTyped
      <4> QED
        BY <1>0, <3>1, <4>1, LadderAssumption
    <3>3. pc' = "refuted" => tries.replans = Round(tries.granted)
      BY <1>0, <2>2, <3>1, LadderAssumption DEF LaunchInv, AgainInv, OnAgain, Round, AtLeastOne
    <3> QED
      BY <2>2, <3>1, <3>2, <3>3 DEF LaunchInv, FirstInv, AgainInv, OnFirst, OnAgain
  <2> QED
    BY <2>1, <2>3, <2>4, <2>5
<1>6. CASE Replan
  <2>1. PICK r \in Entries :
          \/ Here' = Replanned(Here, r) /\ UNCHANGED <<folded, asked>>
          \/ LaunchOver
    BY <1>0, <1>6, ReplanCases
  <2>2. pc = "replan"
    BY <1>0, <1>6, ReplanCases
  <2>3. CASE LaunchOver
    BY <2>3, OverLaunches
  <2>4. CASE Here' = Replanned(Here, r) /\ UNCHANGED <<folded, asked>>
    <3>1. pc' = "pass" /\ tries' = Tried(tries) /\ accepted' = accepted + 1
      BY <2>4 DEF Replanned, Here
    <3>2. tries'.granted = tries.granted /\ tries'.replans = tries.replans + 1
      BY <1>0, <3>1 DEF Tried, TypeOK, Tries
    <3>3. Round(tries.granted) \in Nat /\ Earlier(tries.granted) \in Nat
      BY <1>0, RoundTyped
    <3>4. /\ tries.replans < Round(tries.granted)
          /\ accepted = 1 + Earlier(tries.granted) + tries.replans
      BY <2>2 DEF LaunchInv, AgainInv, OnAgain
    <3>5. /\ tries'.replans <= Round(tries'.granted) /\ tries'.replans > 0
          /\ accepted' = 1 + Earlier(tries'.granted) + tries'.replans
      BY <1>0, <3>1, <3>2, <3>3, <3>4
    <3>6. \A j \in Nat : j < tries'.granted => AgainGrant(folded', j)
      BY <2>2, <2>4, <3>2 DEF LaunchInv, AgainInv, OnAgain
    <3> QED
      BY <2>2, <2>4, <3>1, <3>2, <3>5, <3>6 DEF LaunchInv, FirstInv, AgainInv, OnFirst, OnAgain
  <2> QED
    BY <2>1, <2>3, <2>4
<1>7. CASE AskForMore
  <2>1. pc = "refuted" /\ Refuted.node = "planning" /\ Refuted.why = "refuted"
        /\ Refuted.count = tries.granted
    BY <1>7, AskForMoreCases DEF Refuted, Question
  <2>2. CASE Suspends(Refuted) \/ Stops
    BY <2>2, OverLaunches DEF Suspends, Stops
  <2>3. CASE Repeats(Refuted)
    BY <2>3 DEF Repeats, ladder, LaunchInv, FirstInv, AgainInv, OnFirst, OnAgain
  <2>4. CASE Obeys(Refuted, "replan")
    <3>1. /\ pc' = "replan" /\ tries' = [replans |-> 0, granted |-> tries.granted + 1]
          /\ asked' = asked \cup {Refuted} /\ folded' = folded /\ accepted' = accepted
      BY <2>4 DEF Obeys, NextRound
    <3>2. AgainGrant(folded, tries.granted)
      BY <2>1, <2>4 DEF Obeys, GrantedIn, AgainGrant
    <3>3. \A j \in Nat : j < tries.granted + 1 => AgainGrant(folded, j)
      BY <1>0, <2>1, <3>2 DEF LaunchInv, AgainInv, OnAgain
    <3>4. tries'.granted = tries.granted + 1 /\ tries'.replans = 0
      BY <3>1
    <3>5. \A j \in Nat : j < tries'.granted => AgainGrant(folded', j)
      BY <3>1, <3>3, <3>4
    <3>6. \A question \in asked' : /\ question.why = "refuted" => question.count < tries'.granted
                                   /\ question.node = "planning"
      <4>1. \A question \in asked : question.why = "refuted" => question.count < tries.granted + 1
        <5> SUFFICES ASSUME NEW question \in asked, question.why = "refuted"
                     PROVE  question.count < tries.granted + 1
          OBVIOUS
        <5>1. question.count < tries.granted
          BY <2>1 DEF LaunchInv, AgainInv, OnAgain
        <5>2. question.count \in Nat
          BY <1>0 DEF TypeOK, Questions
        <5> QED
          BY <1>0, <5>1, <5>2
      <4> QED
        BY <1>0, <2>1, <3>1, <3>4, <4>1 DEF LaunchInv
    <3>7. accepted' = 1 + Earlier(tries'.granted) + tries'.replans
      <4>1. accepted = 1 + Earlier(tries.granted) + Round(tries.granted)
        BY <2>1 DEF LaunchInv, AgainInv, OnAgain
      <4>2. Earlier(tries.granted + 1) = Earlier(tries.granted) + Round(tries.granted)
            /\ Earlier(tries.granted) \in Nat /\ Round(tries.granted) \in Nat
        BY <1>0, RoundTyped
      <4> QED
        BY <3>1, <3>4, <4>1, <4>2
    <3>8. tries'.replans <= Round(tries'.granted) /\ tries'.replans < Round(tries'.granted)
      BY <1>0, <3>4, LadderAssumption DEF Round, AtLeastOne
    <3> QED
      BY <3>1, <3>4, <3>5, <3>6, <3>7, <3>8 DEF LaunchInv, FirstInv, AgainInv, OnFirst, OnAgain
  <2> QED
    BY <1>7, <2>2, <2>3, <2>4, AskForMoreCases
<1>8. CASE AskForBudget
  <2>1. CASE Suspends(SpentBudget) \/ Stops
    BY <2>1, OverLaunches DEF Suspends, Stops
  <2>2. CASE pc' = "error" /\ UNCHANGED <<opened, folded, ladder>>
    BY <2>2 DEF ladder, LaunchInv, FirstInv, AgainInv, OnFirst, OnAgain
  <2> QED
    BY <1>8, <2>1, <2>2, AskForBudgetCases DEF Repeats
<1>9. CASE \E d \in Answers : Answered(d)
  BY <1>9 DEF Answered, ladder, LaunchInv, FirstInv, AgainInv
<1>10. CASE UNCHANGED <<durable, folded, pc, ladder>>
  BY <1>10 DEF ladder, LaunchInv, FirstInv, AgainInv
<1> QED
  BY <1>0, <1>1, <1>2, <1>3, <1>4, <1>5, <1>6, <1>7, <1>8, <1>9, <1>10, NextCases

-----------------------------------------------------------------------------
(* Launches, their walks and the questions they stop for.                   *)

Open(question, A) == ~ \E d \in A : d.question = question

\* Each budget question granted was the next one: the first asked at Base.
InTurn(A) ==
  /\ \A n \in Nat : n < Cardinality(Bought(A)) => \E d \in Bought(A) : d.question = SpentAt(n)
  /\ \A d \in Bought(A) : \E n \in Nat : n < Cardinality(Bought(A)) /\ d.question = SpentAt(n)

\* A launch that runs is on the walk, and one whose budget is spent got there
\* from a pass too dear for what the grants it folded allow.
OnTheWalk ==
  /\ pc \in OnFirst \cup OnAgain => Here \in Walk(dispatches, passes, decisions)
  /\ pc = "spent" =>
       \E p \in Walk(dispatches, passes, decisions) :
         p.pc = "pass" /\ Over(passes, LimitOn(folded), p)

\* An open question is where the walk stops.
OpenStops ==
  \A question \in opened : Open(question, decisions) =>
    \E p \in Walk(dispatches, passes, decisions) : Waits(passes, decisions, p, question)

WalkInv == OnTheWalk /\ OpenStops /\ InTurn(decisions) /\ InTurn(folded)

LEMMA NothingBought == InTurn({})
BY FS_EmptySet DEF InTurn, Bought

LEMMA SpentApart ==
  ASSUME NEW m \in Nat, NEW n \in Nat, SpentAt(m) = SpentAt(n)
  PROVE  m = n
<1>1. Base * (1 + m) = Base * (1 + n)
  BY DEF SpentAt, Question
<1>2. Base \in Nat /\ Base > 0
  BY LadderAssumption
<1>3. Base * (1 + m) = Base + Base * m /\ Base * (1 + n) = Base + Base * n
  BY <1>2
<1>4. CASE m < n
  <2>1. Base * n = Base * m + Base * (n - m)
    BY <1>2
  <2>2. Base * (n - m) > 0
    BY <1>2, <1>4
  <2> QED
    BY <1>1, <1>2, <1>3, <2>1, <2>2
<1>5. CASE n < m
  <2>1. Base * m = Base * n + Base * (m - n)
    BY <1>2
  <2>2. Base * (m - n) > 0
    BY <1>2, <1>5
  <2> QED
    BY <1>1, <1>2, <1>3, <2>1, <2>2
<1> QED
  BY <1>4, <1>5

LEMMA WalkInit == Init => WalkInv
BY NothingBought DEF Init, WalkInv, OnTheWalk, OpenStops, OnFirst, OnAgain

\* The walk, and what waits on it, outlast every step that only adds.
LEMMA WalkKeeps ==
  ASSUME RecordInv, RecordInv',
         dispatches \subseteq dispatches', passes \subseteq passes', decisions \subseteq decisions'
  PROVE  /\ Walk(dispatches, passes, decisions) \subseteq Walk(dispatches', passes', decisions')
         /\ \A A, p, question : Waits(passes, A, p, question) => Waits(passes', A, p, question)
         /\ \A limit, p : Over(passes, limit, p) => Over(passes', limit, p)
<1>1. passes' \subseteq Costs /\ IsFiniteSet(decisions')
  BY DEF RecordInv, TypeOK
<1>2. \A limit, p : Over(passes, limit, p) => Over(passes', limit, p)
  BY DEF Over
<1>3. \A A, p, question : Waits(passes, A, p, question) => Waits(passes', A, p, question)
  BY <1>2 DEF Waits
<1> QED
  BY <1>1, <1>2, <1>3, WalkGrows

\* A launch that is over asked nothing new.
LEMMA WalkRests ==
  ASSUME RecordInv, RecordInv', WalkInv, LaunchOver,
         dispatches \subseteq dispatches', passes \subseteq passes',
         UNCHANGED <<opened, decisions>>
  PROVE  WalkInv'
<1>1. pc' = "down" /\ folded' = {}
  BY OverTyped
<1>2. OpenStops'
  BY WalkKeeps DEF WalkInv, OpenStops, Open
<1> QED
  BY <1>1, <1>2, NothingBought DEF WalkInv, OnTheWalk, OnFirst, OnAgain

\* A launch that asks asks where the walk stops.
LEMMA WalkAsks ==
  ASSUME RecordInv, WalkInv, UNCHANGED <<dispatches, passes, decisions>>,
         NEW question, Suspends(question),
         Open(question, decisions) =>
           \E p \in Walk(dispatches, passes, decisions) : Waits(passes, decisions, p, question)
  PROVE  WalkInv'
<1>1. pc' = "down" /\ folded' = {} /\ opened' = opened \cup {question}
  BY OverTyped DEF Suspends
<1>2. OpenStops'
  BY <1>1 DEF WalkInv, OpenStops, Open
<1> QED
  BY <1>1, <1>2, NothingBought DEF WalkInv, OnTheWalk, OnFirst, OnAgain

\* A launch moves along the walk.
LEMMA WalkMoves ==
  ASSUME RecordInv, RecordInv', WalkInv, pc \in OnFirst \cup OnAgain, Here' \in Place,
         Leads(dispatches', passes', decisions, Here, Here'),
         dispatches \subseteq dispatches', passes \subseteq passes',
         UNCHANGED <<opened, decisions, folded>>
  PROVE  WalkInv'
<1>1. Here \in Walk(dispatches', passes', decisions')
  BY WalkKeeps DEF WalkInv, OnTheWalk
<1>2. Here' \in Walk(dispatches', passes', decisions')
  BY <1>1, WalkOn
<1>3. OpenStops'
  BY WalkKeeps DEF WalkInv, OpenStops, Open
<1>4. pc' \in OnFirst \cup OnAgain
  BY ThereTyped
<1> QED
  BY <1>2, <1>3, <1>4 DEF WalkInv, OnTheWalk, OnFirst, OnAgain

\* What the folded answers granted, the answers on record grant.
LEMMA FoldedGrants ==
  ASSUME RecordInv
  PROVE  /\ IsFiniteSet(decisions) /\ IsFiniteSet(folded) /\ folded \in SUBSET decisions
         /\ Limit = LimitOn(folded) /\ SpentBudget = SpentOn(folded)
         /\ LimitOn(folded) \in Nat /\ LimitOn(decisions) \in Nat
         /\ LimitOn(folded) <= LimitOn(decisions)
         /\ \A question : GrantedIn(folded, question) => GrantedIn(decisions, question)
<1>1. TypeOK
  BY DEF RecordInv
<1>2. IsFiniteSet(decisions) /\ folded \in SUBSET decisions
  BY <1>1 DEF TypeOK
<1> QED
  BY <1>1, <1>2, BriefsTyped, LimitGrows, LimitTyped DEF GrantedIn

\* The answer on record is the one the walk stopped for: nothing else is open,
\* and a budget grant is the next one.
LEMMA WalkAnswered ==
  ASSUME RecordInv, RecordInv', WalkInv, NEW d \in Answers, Answered(d)
  PROVE  WalkInv'
<1>0. /\ Named(dispatches, passes) /\ passes \subseteq Costs
      /\ IsFiniteSet(decisions) /\ decisions' = decisions \cup {d} /\ d \notin decisions
      /\ UNCHANGED <<dispatches, passes, opened, folded, pc, Here>>
  BY DEF RecordInv, TypeOK, Answered, ladder, Here
<1>1. PICK p \in Walk(dispatches, passes, decisions) :
        Waits(passes, decisions, p, d.question)
  BY DEF WalkInv, OpenStops, Open, Answered
<1>2. ASSUME NEW question \in opened, Open(question, decisions) PROVE question = d.question
  <2>1. PICK q \in Walk(dispatches, passes, decisions) : Waits(passes, decisions, q, question)
    BY <1>2 DEF WalkInv, OpenStops
  <2>2. ~ GrantedIn(decisions, question) /\ ~ GrantedIn(decisions, d.question)
    BY <1>2 DEF Open, GrantedIn, Answered
  <2> QED
    BY <1>0, <1>1, <2>1, <2>2, OneWait
<1>3. OpenStops'
  BY <1>0, <1>2 DEF OpenStops, Open
<1>4. OnTheWalk'
  <2>1. Walk(dispatches, passes, decisions) \subseteq Walk(dispatches', passes', decisions')
    BY <1>0, WalkKeeps
  <2>2. dispatches' = dispatches /\ passes' = passes /\ folded' = folded /\ pc' = pc /\ Here' = Here
    BY <1>0
  <2>3. pc' \in OnFirst \cup OnAgain => Here' \in Walk(dispatches', passes', decisions')
    BY <2>1, <2>2 DEF WalkInv, OnTheWalk
  <2>4. pc' = "spent" => \E q \in Walk(dispatches', passes', decisions') :
                            q.pc = "pass" /\ Over(passes', LimitOn(folded'), q)
    BY <2>1, <2>2 DEF WalkInv, OnTheWalk
  <2> QED
    BY <2>3, <2>4 DEF OnTheWalk
<1> DEFINE c == Cardinality(Bought(decisions))
<1>5. c \in Nat /\ IsFiniteSet(Bought(decisions))
  BY <1>0, LimitTyped
<1>6. InTurn(decisions')
  <2>1. CASE d \notin Bought(decisions')
    <3>1. Bought(decisions') = Bought(decisions)
      BY <1>0, <2>1 DEF Bought
    <3> QED
      BY <3>1 DEF WalkInv, InTurn
  <2>2. CASE d \in Bought(decisions')
    <3>1. Bought(decisions') = Bought(decisions) \cup {d} /\ d \notin Bought(decisions)
      BY <1>0, <2>2 DEF Bought
    <3>2. Cardinality(Bought(decisions')) = c + 1
      BY <1>5, <3>1, FS_AddElement
    <3>3. d.question = SpentAt(c)
      BY <1>1, <2>2 DEF Waits, SpentOn, ExhaustedAt, RefutedAt, Question, Bought
    <3> HIDE DEF c
    <3>4. \A n \in Nat : n < c => \E e \in Bought(decisions) : e.question = SpentAt(n)
      BY DEF WalkInv, InTurn, c
    <3>5. \A e \in Bought(decisions) : \E n \in Nat : n < c /\ e.question = SpentAt(n)
      BY DEF WalkInv, InTurn, c
    <3>6. ASSUME NEW n \in Nat, n < c + 1
          PROVE  \E e \in Bought(decisions') : e.question = SpentAt(n)
      <4>1. n < c \/ n = c
        BY <1>5, <3>6
      <4> QED
        BY <3>1, <3>3, <3>4, <4>1
    <3>7. ASSUME NEW e \in Bought(decisions')
          PROVE  \E n \in Nat : n < c + 1 /\ e.question = SpentAt(n)
      <4>1. CASE e = d
        BY <1>5, <3>3, <4>1
      <4>2. CASE e \in Bought(decisions)
        <5>1. PICK n \in Nat : n < c /\ e.question = SpentAt(n)
          BY <3>5, <4>2
        <5>2. n < c + 1
          BY <1>5, <5>1
        <5> QED
          BY <5>1, <5>2
      <4> QED
        BY <3>1, <4>1, <4>2
    <3> QED
      BY <3>2, <3>6, <3>7 DEF InTurn
  <2> QED
    BY <2>1, <2>2
<1> QED
  BY <1>0, <1>3, <1>4, <1>6 DEF WalkInv

\* A spent budget is asked about where the grants on record end, unless the
\* launch folded fewer, and then the next one is among those on record.
LEMMA SpentStops ==
  ASSUME RecordInv, WalkInv, pc = "spent", Open(SpentBudget, decisions)
  PROVE  \E p \in Walk(dispatches, passes, decisions) :
            Waits(passes, decisions, p, SpentBudget)
<1> DEFINE m == Cardinality(Bought(folded))
           n == Cardinality(Bought(decisions))
<1>1. m \in Nat /\ n \in Nat /\ m <= n
  BY FoldedGrants, LimitGrows, LimitTyped
<1>2. SpentBudget = SpentAt(m)
  BY FoldedGrants DEF SpentOn
<1>3. CASE m < n
  BY <1>1, <1>2, <1>3 DEF WalkInv, InTurn, Open, Bought
<1>4. CASE m = n
  <2>1. SpentBudget = SpentOn(decisions) /\ LimitOn(folded) = LimitOn(decisions)
    BY <1>2, <1>4 DEF SpentOn, LimitOn
  <2> QED
    BY <2>1 DEF WalkInv, OnTheWalk, Waits
<1> QED
  BY <1>1, <1>3, <1>4

LEMMA WalkNext == RecordInv /\ WalkInv /\ [Next]_vars => WalkInv'
<1> SUFFICES ASSUME RecordInv, WalkInv, [Next]_vars PROVE WalkInv'
  OBVIOUS
<1>0. TypeOK /\ Named(dispatches, passes) /\ RecordInv'
  BY RecordNext DEF RecordInv
<1>1. CASE Launches
  <2>1. Here' = Start
    BY <1>1 DEF Launches, RecordInv, Forgot, ladder, Here, Start
  <2>2. Here' \in Walk(dispatches', passes', decisions')
    BY <2>1, StartWalks
  <2>3. OpenStops'
    BY <1>1 DEF Launches, durable, WalkInv, OpenStops, Open
  <2> QED
    BY <1>1, <2>2, <2>3 DEF Launches, durable, WalkInv, OnTheWalk, OnFirst
<1>2. CASE Dies
  BY <1>0, <1>2, WalkRests DEF Dies
<1>3. CASE PlanRoot
  <2>1. PICK r \in Entries :
          /\ r.brief = Ask /\ RootReason(r) \in Whys
          /\ dispatches' = dispatches \cup {r}
          /\ Here' = Planned(Here, r)
    BY <1>0, <1>3, PlanRootCases
  <2>2. pc = "plan" /\ UNCHANGED <<passes, opened, decisions, folded, asked>>
    BY <1>0, <1>3, PlanRootCases
  <2>3. pc \in OnFirst /\ Here \in Place
    BY <1>0, <2>2, HereTyped DEF OnFirst
  <2>4. Here' \in Place
    BY <2>1, <2>3, Ahead
  <2>5. Ask = AskAt(Here) /\ Here.pc = "plan"
    BY <2>2 DEF Ask, AskAt, Here
  <2>6. ByRecord(dispatches', Here, Here')
    BY <2>1, <2>5 DEF ByRecord
  <2>7. Leads(dispatches', passes', decisions, Here, Here')
    BY <2>6 DEF Leads
  <2> QED
    BY <1>0, <2>1, <2>2, <2>3, <2>4, <2>7, WalkMoves
<1>4. CASE AskForRound
  <2>1. pc = "exhausted" /\ UNCHANGED <<dispatches, passes, decisions>>
    BY <1>4, AskForRoundCases
  <2>2. pc \in OnFirst /\ Here \in Place /\ Here.pc = "exhausted" /\ Exhausted = ExhaustedAt(Here)
    BY <1>0, <2>1, HereTyped DEF OnFirst, Exhausted, ExhaustedAt, Here
  <2>3. CASE Suspends(Exhausted)
    <3>1. Here \in Walk(dispatches, passes, decisions)
      BY <2>2 DEF WalkInv, OnTheWalk
    <3>2. Waits(passes, decisions, Here, Exhausted)
      BY <2>2 DEF Waits
    <3> QED
      BY <2>1, <2>3, <3>1, <3>2, WalkAsks
  <2>4. CASE Repeats(Exhausted)
    BY <2>1, <2>4 DEF Repeats, WalkInv, OnTheWalk, OpenStops, Open, OnFirst, OnAgain
  <2>5. CASE Obeys(Exhausted, "plan")
    <3>1. Here' = Onward(Here, "plan") /\ UNCHANGED <<opened, folded>>
      BY <2>5 DEF Obeys, NextRound, Onward, Here
    <3>2. GrantedIn(decisions, Exhausted)
      BY <2>5, FoldedGrants DEF Obeys
    <3>3. Here' \in Place
      BY <2>2, <3>1, Ahead
    <3>4. ByRound(decisions, Here, Here')
      BY <2>2, <3>1, <3>2 DEF ByRound
    <3>5. Leads(dispatches', passes', decisions, Here, Here')
      BY <3>4 DEF Leads
    <3> QED
      BY <1>0, <2>1, <2>2, <3>1, <3>3, <3>5, WalkMoves
  <2>6. CASE Stops
    BY <1>0, <2>1, <2>6, WalkRests DEF Stops
  <2> QED
    BY <1>4, <2>3, <2>4, <2>5, <2>6, AskForRoundCases
<1>5. CASE RunPass
  <2>1. PICK x \in Costs :
          /\ x.of = plan.brief
          /\ passes' = passes \cup {x}
          /\ LaunchOver \/ Spends(x) \/ Charged(x)
    BY <1>0, <1>5, RunPassCases
  <2>2. pc = "pass" /\ UNCHANGED <<dispatches, opened, decisions>>
    BY <1>0, <1>5, RunPassCases
  <2>3. pc \in OnAgain /\ Here \in Place /\ Here.pc = "pass" /\ Here.plan = plan
        /\ Here.charged = charged
    BY <1>0, <2>2, HereTyped DEF OnAgain, Here
  <2>4. CASE LaunchOver
    BY <1>0, <2>1, <2>2, <2>4, WalkRests
  <2>5. CASE Spends(x)
    <3>1. pc' = "spent" /\ folded' = folded /\ charged + x.cost > LimitOn(folded)
      BY <2>5, FoldedGrants DEF Spends
    <3>2. Over(passes', LimitOn(folded'), Here)
      BY <2>1, <2>3, <3>1 DEF Over
    <3>3. Here \in Walk(dispatches', passes', decisions')
      BY <1>0, <2>1, <2>2, <2>3, WalkKeeps DEF WalkInv, OnTheWalk
    <3>4. OpenStops'
      BY <1>0, <2>1, <2>2, WalkKeeps DEF WalkInv, OpenStops, Open
    <3> QED
      BY <2>2, <2>3, <3>1, <3>2, <3>3, <3>4 DEF WalkInv, OnTheWalk, OnFirst, OnAgain
  <2>6. CASE Charged(x)
    <3>1. Here' = Passed(Here, x.cost) /\ UNCHANGED folded
      BY <2>6 DEF Charged, Passed, Here, MoreAt, RoundHasMore
    <3>2. charged + x.cost <= LimitOn(decisions)
      <4>1. charged + x.cost <= LimitOn(folded) /\ charged + x.cost \in Nat
        BY <1>0, <2>6, FoldedGrants DEF Charged, TypeOK, Costs
      <4> QED
        BY <4>1, FoldedGrants
    <3>3. Here' \in Place
      BY <2>3, <3>1, Ahead
    <3>4. ByPass(passes', decisions, Here, Here')
      BY <2>1, <2>3, <2>6, <3>1, <3>2 DEF ByPass, Charged
    <3>5. Leads(dispatches', passes', decisions, Here, Here')
      BY <3>4 DEF Leads
    <3> QED
      BY <1>0, <2>1, <2>2, <2>3, <3>1, <3>3, <3>5, WalkMoves
  <2> QED
    BY <2>1, <2>4, <2>5, <2>6
<1>6. CASE Replan
  <2>1. PICK r \in Entries :
          /\ r.brief = ReplanGoal
          /\ dispatches' = dispatches \cup {r}
          /\ \/ r.says = "plan" /\ Here' = Replanned(Here, r) /\ UNCHANGED <<folded, asked>>
             \/ LaunchOver
    BY <1>0, <1>6, ReplanCases
  <2>2. pc = "replan" /\ UNCHANGED <<passes, opened, decisions>>
    BY <1>0, <1>6, ReplanCases
  <2>3. pc \in OnAgain /\ Here \in Place /\ Here.pc = "replan" /\ ReplanGoal = AgainAt(Here)
    BY <1>0, <2>2, HereTyped DEF OnAgain, Here, ReplanGoal, AgainAt
  <2>4. CASE r.says = "plan" /\ Here' = Replanned(Here, r) /\ UNCHANGED <<folded, asked>>
    <3>1. Here' \in Place
      BY <2>3, <2>4, Ahead
    <3>2. ByPlan(dispatches', Here, Here')
      BY <2>1, <2>3, <2>4 DEF ByPlan
    <3>3. Leads(dispatches', passes', decisions, Here, Here')
      BY <3>2 DEF Leads
    <3> QED
      BY <1>0, <2>1, <2>2, <2>3, <2>4, <3>1, <3>3, WalkMoves
  <2>5. CASE LaunchOver
    BY <1>0, <2>1, <2>2, <2>5, WalkRests
  <2> QED
    BY <2>1, <2>4, <2>5
<1>7. CASE AskForMore
  <2>1. pc = "refuted" /\ UNCHANGED <<dispatches, passes, decisions>>
    BY <1>7, AskForMoreCases
  <2>2. pc \in OnAgain /\ Here \in Place /\ Here.pc = "refuted" /\ Refuted = RefutedAt(Here)
    BY <1>0, <2>1, HereTyped DEF OnAgain, Refuted, RefutedAt, Here
  <2>3. CASE Suspends(Refuted)
    <3>1. Here \in Walk(dispatches, passes, decisions)
      BY <2>2 DEF WalkInv, OnTheWalk
    <3>2. Waits(passes, decisions, Here, Refuted)
      BY <2>2 DEF Waits
    <3> QED
      BY <2>1, <2>3, <3>1, <3>2, WalkAsks
  <2>4. CASE Repeats(Refuted)
    BY <2>1, <2>4 DEF Repeats, WalkInv, OnTheWalk, OpenStops, Open, OnFirst, OnAgain
  <2>5. CASE Obeys(Refuted, "replan")
    <3>1. Here' = Onward(Here, "replan") /\ UNCHANGED <<opened, folded>>
      BY <2>5 DEF Obeys, NextRound, Onward, Here
    <3>2. GrantedIn(decisions, Refuted)
      BY <2>5, FoldedGrants DEF Obeys
    <3>3. Here' \in Place
      BY <2>2, <3>1, Ahead
    <3>4. ByMore(decisions, Here, Here')
      BY <2>2, <3>1, <3>2 DEF ByMore
    <3>5. Leads(dispatches', passes', decisions, Here, Here')
      BY <3>4 DEF Leads
    <3> QED
      BY <1>0, <2>1, <2>2, <3>1, <3>3, <3>5, WalkMoves
  <2>6. CASE Stops
    BY <1>0, <2>1, <2>6, WalkRests DEF Stops
  <2> QED
    BY <1>7, <2>3, <2>4, <2>5, <2>6, AskForMoreCases
<1>8. CASE AskForBudget
  <2>1. pc = "spent" /\ UNCHANGED <<dispatches, passes, decisions>>
    BY <1>8, AskForBudgetCases
  <2>2. CASE Suspends(SpentBudget)
    BY <2>1, <2>2, SpentStops, WalkAsks
  <2>3. CASE pc' = "error" /\ UNCHANGED <<opened, folded, ladder>>
    BY <2>1, <2>3 DEF WalkInv, OnTheWalk, OpenStops, Open, OnFirst, OnAgain
  <2>4. CASE Stops
    BY <1>0, <2>1, <2>4, WalkRests DEF Stops
  <2> QED
    BY <1>8, <2>2, <2>3, <2>4, AskForBudgetCases DEF Repeats
<1>9. CASE \E d \in Answers : Answered(d)
  BY <1>0, <1>9, WalkAnswered
<1>10. CASE UNCHANGED <<durable, folded, pc, ladder>>
  BY <1>10 DEF durable, ladder, WalkInv, OnTheWalk, OpenStops, Open, Here
<1> QED
  BY <1>0, <1>1, <1>2, <1>3, <1>4, <1>5, <1>6, <1>7, <1>8, <1>9, <1>10, NextCases

LEMMA Walked == Spec => [](RecordInv /\ LaunchInv /\ WalkInv)
<1>1. Init => RecordInv /\ LaunchInv /\ WalkInv
  BY RecordInit, LaunchInit, WalkInit
<1>2. RecordInv /\ LaunchInv /\ WalkInv /\ [Next]_vars => (RecordInv /\ LaunchInv /\ WalkInv)'
  BY RecordNext, LaunchNext, WalkNext
<1> QED
  BY <1>1, <1>2, PTL DEF Spec

LEMMA NoError ==
  ASSUME RecordInv, LaunchInv, WalkInv, NeverServedTwice, [Next]_vars
  PROVE  NeverServedTwice'
<1>0. TypeOK /\ Named(dispatches, passes) /\ tries.granted \in Nat
  BY DEF RecordInv, TypeOK, Tries
<1> USE DEF NeverServedTwice
<1>1. CASE Launches
  BY <1>1 DEF Launches
<1>2. CASE Dies
  BY <1>2, OverTyped DEF Dies
<1>3. CASE PlanRoot
  <2>1. PICK r \in Entries : RootReason(r) \in Whys /\ Here' = Planned(Here, r)
    BY <1>0, <1>3, PlanRootCases
  <2>2. Here \in Place
    BY <1>0, <1>3, PlanRootCases, HereTyped DEF OnFirst
  <2>3. Here' \in Place
    BY <2>1, <2>2, Ahead
  <2> QED
    BY <2>3, ThereTyped DEF OnFirst, OnAgain
<1>4. CASE AskForRound
  <2>1. ~ Repeats(Exhausted)
    <3>1. Exhausted.ref.granted = tries.granted /\ pc = "exhausted"
      BY <1>4, AskForRoundCases DEF LaunchInv, FirstInv, OnFirst, Exhausted, Question
    <3> QED
      BY <1>0, <3>1 DEF Repeats, LaunchInv, FirstInv, OnFirst
  <2> QED
    BY <1>4, <2>1, AskForRoundCases, OverTyped DEF Suspends, Obeys, NextRound, Stops
<1>5. CASE RunPass
  BY <1>0, <1>5, RunPassCases, OverTyped DEF Spends, Charged
<1>6. CASE Replan
  BY <1>0, <1>6, ReplanCases, OverTyped DEF Here, Replanned
<1>7. CASE AskForMore
  <2>1. ~ Repeats(Refuted)
    <3>1. Refuted.count = tries.granted /\ Refuted.why = "refuted" /\ pc = "refuted"
      BY <1>7, AskForMoreCases DEF Refuted, Question
    <3> QED
      BY <1>0, <3>1 DEF Repeats, LaunchInv, AgainInv, OnAgain
  <2> QED
    BY <1>7, <2>1, AskForMoreCases, OverTyped DEF Suspends, Obeys, NextRound, Stops
<1>8. CASE AskForBudget
  <2>1. ~ Repeats(SpentBudget)
    BY DEF Repeats, LaunchInv, SpentBudget, Question
  <2>2. ~ GrantedIn(folded, SpentBudget)
    <3> DEFINE m == Cardinality(Bought(folded))
    <3>1. SpentBudget = SpentAt(m) /\ m \in Nat
      BY FoldedGrants, LimitTyped DEF SpentOn
    <3>2. SUFFICES ASSUME NEW d \in folded, d.question = SpentBudget, d.decision = Grant
                   PROVE  FALSE
      BY DEF GrantedIn
    <3>3. d \in Bought(folded)
      BY <3>2 DEF Bought, SpentBudget, Question
    <3>4. PICK n \in Nat : n < m /\ d.question = SpentAt(n)
      BY <3>3 DEF WalkInv, InTurn
    <3>5. SpentAt(m) = SpentAt(n)
      BY <3>1, <3>2, <3>4
    <3> HIDE DEF m
    <3>6. m = n
      BY <3>1, <3>5, SpentApart
    <3> QED
      BY <3>4, <3>6 DEF m
  <2> QED
    BY <1>8, <2>1, <2>2, AskForBudgetCases, OverTyped DEF Suspends, Stops
<1>9. CASE \E d \in Answers : Answered(d)
  BY <1>9 DEF Answered
<1>10. CASE UNCHANGED <<durable, folded, pc, ladder>>
  BY <1>10
<1> QED
  BY <1>0, <1>1, <1>2, <1>3, <1>4, <1>5, <1>6, <1>7, <1>8, <1>9, <1>10, NextCases

LEMMA OneOpen == RecordInv /\ WalkInv => OneOpenQuestion
<1> SUFFICES ASSUME RecordInv, WalkInv PROVE OneOpenQuestion
  OBVIOUS
<1> DEFINE S == {q \in opened : ~ \E d \in decisions : d.question = q}
<1>0. Named(dispatches, passes) /\ passes \subseteq Costs /\ IsFiniteSet(decisions)
  BY DEF RecordInv, TypeOK
<1>1. ASSUME NEW a \in S, NEW b \in S PROVE a = b
  <2>1. Open(a, decisions) /\ Open(b, decisions)
    BY DEF Open
  <2>2. PICK p \in Walk(dispatches, passes, decisions) : Waits(passes, decisions, p, a)
    BY <2>1 DEF WalkInv, OpenStops
  <2>3. PICK q \in Walk(dispatches, passes, decisions) : Waits(passes, decisions, q, b)
    BY <2>1 DEF WalkInv, OpenStops
  <2>4. ~ GrantedIn(decisions, a) /\ ~ GrantedIn(decisions, b)
    BY <2>1 DEF Open, GrantedIn
  <2> QED
    BY <1>0, <2>2, <2>3, <2>4, OneWait
<1>2. CASE S = {}
  BY <1>2, FS_EmptySet DEF OneOpenQuestion
<1>3. CASE S # {}
  <2>1. PICK q : S = {q}
    BY <1>1, <1>3
  <2>2. Cardinality(S) = 1
    BY <2>1, FS_Singleton
  <2> QED
    BY <2>2 DEF OneOpenQuestion
<1> QED
  BY <1>2, <1>3

\* Whatever planners answer, however often a run crashes, is relaunched or is
\* granted more, it waits for one answer at a time, and no launch is served an
\* answer it already acted on (root.py _granted, _granted_more, _budget_answered).
THEOREM QuestionsAskedOnce == Spec => []EachQuestionOnce
<1>1. Init => NeverServedTwice
  BY DEF Init, NeverServedTwice
<1>2. RecordInv /\ LaunchInv /\ WalkInv /\ NeverServedTwice /\ [Next]_vars => NeverServedTwice'
  BY NoError
<1>3. RecordInv /\ WalkInv /\ NeverServedTwice => EachQuestionOnce
  BY OneOpen DEF EachQuestionOnce
<1> QED
  BY <1>1, <1>2, <1>3, Walked, PTL DEF Spec

-----------------------------------------------------------------------------
(* Every round a planner is dispatched in was paid for.                     *)

FirstGrants(A) ==
  {d \in A : /\ d.decision = Grant /\ d.by = "person" /\ d.question.node = "planning"
             /\ d.question.why # "refuted"}
AgainGrants(A) ==
  {d \in A : /\ d.decision = Grant /\ d.by = "person" /\ d.question.node = "planning"
             /\ d.question.why = "refuted"}

LEMMA GrantsGrow ==
  ASSUME NEW B, IsFiniteSet(B), NEW A \in SUBSET B
  PROVE  /\ IsFiniteSet(FirstGrants(A)) /\ IsFiniteSet(AgainGrants(A))
         /\ Cardinality(FirstGrants(A)) \in Nat /\ Cardinality(AgainGrants(A)) \in Nat
         /\ Cardinality(FirstGrants(A)) <= Cardinality(FirstGrants(B))
         /\ Cardinality(AgainGrants(A)) <= Cardinality(AgainGrants(B))
<1>1. /\ FirstGrants(A) \in SUBSET FirstGrants(B) /\ FirstGrants(B) \in SUBSET B
      /\ AgainGrants(A) \in SUBSET AgainGrants(B) /\ AgainGrants(B) \in SUBSET B
  BY DEF FirstGrants, AgainGrants
<1>2. IsFiniteSet(FirstGrants(B)) /\ IsFiniteSet(AgainGrants(B))
  BY <1>1, FS_Subset
<1>3. /\ IsFiniteSet(FirstGrants(A)) /\ Cardinality(FirstGrants(A)) <= Cardinality(FirstGrants(B))
      /\ IsFiniteSet(AgainGrants(A)) /\ Cardinality(AgainGrants(A)) <= Cardinality(AgainGrants(B))
  BY <1>1, <1>2, FS_Subset
<1> QED
  BY <1>3, FS_CardinalityType

\* A grant for each of g rounds makes g grants.
LEMMA FirstCounted ==
  ASSUME RecordInv, NEW g \in Nat, \A j \in Nat : j < g => FirstGrant(folded, j)
  PROVE  g <= Cardinality(FirstGrants(decisions))
<1> DEFINE T == FirstGrants(decisions)
           I == 0..(g - 1)
           f == [j \in I |-> CHOOSE d \in T : d.question.ref.granted = j]
<1>1. IsFiniteSet(T)
  BY GrantsGrow DEF RecordInv, TypeOK
<1>2. ASSUME NEW j \in I PROVE f[j] \in T /\ f[j].question.ref.granted = j
  <2>1. PICK d \in folded : /\ d.decision = Grant /\ d.question.node = "planning"
                            /\ d.question.why # "refuted" /\ d.question.ref.granted = j
    BY DEF FirstGrant
  <2>2. d \in T
    BY <2>1 DEF RecordInv, TypeOK, FirstGrants
  <2> QED
    BY <2>1, <2>2
<1>3. f \in Injection(I, T)
  BY <1>2 DEF Injection, IsInjective
<1>4. Cardinality(I) <= Cardinality(T)
  BY <1>1, <1>3, FS_Injection
<1>5. Cardinality(I) = g
  BY FS_Interval
<1> QED
  BY <1>4, <1>5

LEMMA AgainCounted ==
  ASSUME RecordInv, NEW g \in Nat, \A j \in Nat : j < g => AgainGrant(folded, j)
  PROVE  g <= Cardinality(AgainGrants(decisions))
<1> DEFINE T == AgainGrants(decisions)
           I == 0..(g - 1)
           f == [j \in I |-> CHOOSE d \in T : d.question.count = j]
<1>1. IsFiniteSet(T)
  BY GrantsGrow DEF RecordInv, TypeOK
<1>2. ASSUME NEW j \in I PROVE f[j] \in T /\ f[j].question.count = j
  <2>1. PICK d \in folded : /\ d.decision = Grant /\ d.question.node = "planning"
                            /\ d.question.why = "refuted" /\ d.question.count = j
    BY DEF AgainGrant
  <2>2. d \in T
    BY <2>1 DEF RecordInv, TypeOK, AgainGrants
  <2> QED
    BY <2>1, <2>2
<1>3. f \in Injection(I, T)
  BY <1>2 DEF Injection, IsInjective
<1>4. Cardinality(I) <= Cardinality(T)
  BY <1>1, <1>3, FS_Injection
<1>5. Cardinality(I) = g
  BY FS_Interval
<1> QED
  BY <1>4, <1>5

\* A dispatch of the first ladder was made on the walk, within a round that was
\* granted; one of the second within the plans its rounds may lead to.
OfFirst(r) ==
  /\ r.brief.ladder = "first"
  /\ r.brief.granted <= Cardinality(FirstGrants(decisions))
  /\ \E p \in Walk(dispatches, passes, decisions) :
       p.pc = "plan" /\ AskAt(p) = r.brief /\ p.tries.replans <= MaxReplans
OfAgain(r) ==
  /\ r.brief.ladder = "again"
  /\ \A s \in dispatches :
       s.brief.ladder = "again" /\ s.brief.round = r.brief.round => s = r
  /\ 1 <= r.brief.round
  /\ r.brief.round <= MaxReplans + AtLeastOne * Cardinality(AgainGrants(decisions))

PaidInv == \A r \in dispatches : OfFirst(r) \/ OfAgain(r)

LEMMA PaidMore ==
  ASSUME NEW m \in Nat, NEW n \in Nat, m <= n
  PROVE  /\ MaxReplans + AtLeastOne * m <= MaxReplans + AtLeastOne * n
         /\ MaxReplans + AtLeastOne * n \in Nat
<1>1. AtLeastOne \in Nat /\ MaxReplans \in Nat
  BY LadderAssumption DEF AtLeastOne
<1> HIDE DEF AtLeastOne
<1>2. AtLeastOne * n = AtLeastOne * m + AtLeastOne * (n - m)
  BY <1>1
<1>3. AtLeastOne * (n - m) \in Nat /\ AtLeastOne * m \in Nat
  BY <1>1
<1> QED
  BY <1>1, <1>2, <1>3

\* A dispatch once paid for stays paid for.
LEMMA PaidStays ==
  ASSUME RecordInv, RecordInv', PaidInv, NEW r \in dispatches,
         dispatches \subseteq dispatches', passes \subseteq passes', decisions \subseteq decisions'
  PROVE  /\ r.brief.ladder \in {"first", "again"}
         /\ r.brief.ladder = "first" => OfFirst(r)'
         /\ r.brief.ladder = "again" =>
              /\ 1 <= r.brief.round
              /\ r.brief.round <= MaxReplans + AtLeastOne * Cardinality(AgainGrants(decisions'))
<1>1. IsFiniteSet(decisions') /\ r \in Entries /\ r.brief.granted \in Nat /\ r.brief.round \in Nat
  BY DEF RecordInv, TypeOK, Entries, Briefs
<1>2. /\ Cardinality(FirstGrants(decisions)) \in Nat
      /\ Cardinality(AgainGrants(decisions)) \in Nat
      /\ Cardinality(FirstGrants(decisions')) \in Nat
      /\ Cardinality(AgainGrants(decisions')) \in Nat
      /\ Cardinality(FirstGrants(decisions)) <= Cardinality(FirstGrants(decisions'))
      /\ Cardinality(AgainGrants(decisions)) <= Cardinality(AgainGrants(decisions'))
  BY <1>1, GrantsGrow
<1>3. Walk(dispatches, passes, decisions) \subseteq Walk(dispatches', passes', decisions')
  BY WalkKeeps
<1>4. CASE OfFirst(r)
  <2>1. r.brief.granted <= Cardinality(FirstGrants(decisions'))
    BY <1>1, <1>2, <1>4 DEF OfFirst
  <2>2. \E p \in Walk(dispatches', passes', decisions') :
           p.pc = "plan" /\ AskAt(p) = r.brief /\ p.tries.replans <= MaxReplans
    BY <1>3, <1>4 DEF OfFirst
  <2> QED
    BY <1>4, <2>1, <2>2 DEF OfFirst
<1>5. CASE OfAgain(r)
  <2> DEFINE a == MaxReplans + AtLeastOne * Cardinality(AgainGrants(decisions))
             b == MaxReplans + AtLeastOne * Cardinality(AgainGrants(decisions'))
  <2>1. a <= b /\ a \in Nat /\ b \in Nat
    BY <1>2, PaidMore
  <2>2. 1 <= r.brief.round /\ r.brief.round <= a
    BY <1>5 DEF OfAgain
  <2> HIDE DEF a, b
  <2>3. r.brief.round <= b
    BY <1>1, <2>1, <2>2
  <2> QED
    BY <1>5, <2>2, <2>3 DEF OfAgain, b
<1> QED
  BY <1>4, <1>5 DEF PaidInv

\* An entry whose brief is one of the second ladder's is named by its round.
AgainBriefs == \A r \in dispatches : r.brief.ladder = "again" => r.brief =
  [ladder |-> "again", why |-> "none", evidence |-> "none", granted |-> 0, round |-> r.brief.round]

LEMMA AgainNext == RecordInv /\ AgainBriefs /\ [Next]_vars => AgainBriefs'
<1> SUFFICES ASSUME RecordInv, AgainBriefs, [Next]_vars PROVE AgainBriefs'
  OBVIOUS
<1>0. TypeOK /\ Named(dispatches, passes)
  BY DEF RecordInv
<1>1. CASE PlanRoot
  BY <1>0, <1>1, PlanRootCases DEF AgainBriefs, Ask
<1>2. CASE Replan
  BY <1>0, <1>2, ReplanCases DEF AgainBriefs, ReplanGoal
<1>3. CASE UNCHANGED dispatches
  BY <1>3 DEF AgainBriefs
<1> QED
  BY <1>0, <1>1, <1>2, <1>3, NextCases, AskForRoundCases, RunPassCases, AskForMoreCases,
     AskForBudgetCases DEF Launches, durable, Dies, Answered

LEMMA PaidNext ==
  RecordInv /\ LaunchInv /\ WalkInv /\ AgainBriefs /\ PaidInv /\ [Next]_vars => PaidInv'
<1> SUFFICES ASSUME RecordInv, LaunchInv, WalkInv, AgainBriefs, PaidInv, [Next]_vars PROVE PaidInv'
  OBVIOUS
<1>0. /\ TypeOK /\ Named(dispatches, passes) /\ RecordInv' /\ WalkInv' /\ AgainBriefs'
      /\ tries.granted \in Nat /\ tries.replans \in Nat
  BY RecordNext, WalkNext, AgainNext DEF RecordInv, TypeOK, Tries
<1>1. ASSUME NEW r \in dispatches', r.brief.ladder = "again",
             1 <= r.brief.round,
             r.brief.round <= MaxReplans + AtLeastOne * Cardinality(AgainGrants(decisions'))
      PROVE  OfAgain(r)'
  <2>1. ASSUME NEW s \in dispatches', s.brief.ladder = "again", s.brief.round = r.brief.round
        PROVE  s = r
    <3>1. s.brief = r.brief
      BY <1>0, <1>1, <2>1 DEF AgainBriefs
    <3>2. \A t, u \in dispatches' : t.brief = u.brief => t = u
      BY <1>0 DEF RecordInv, Named
    <3> QED
      BY <3>1, <3>2
  <2> QED
    BY <1>1, <2>1 DEF OfAgain
<1>2. ASSUME dispatches \subseteq dispatches', passes \subseteq passes',
             decisions \subseteq decisions', NEW r \in dispatches
      PROVE  (OfFirst(r) \/ OfAgain(r))'
  BY <1>0, <1>1, <1>2, PaidStays
<1>3. CASE UNCHANGED dispatches /\ passes \subseteq passes' /\ decisions \subseteq decisions'
  BY <1>2, <1>3 DEF PaidInv
<1>4. CASE PlanRoot
  <2>1. PICK r \in Entries :
          /\ r.brief = Ask /\ RootReason(r) \in Whys
          /\ dispatches' = dispatches \cup {r}
          /\ Here' = Planned(Here, r)
    BY <1>0, <1>4, PlanRootCases
  <2>2. pc = "plan" /\ UNCHANGED <<passes, opened, decisions, folded, asked>>
    BY <1>0, <1>4, PlanRootCases
  <2>3. Here.pc = "plan" /\ AskAt(Here) = r.brief /\ Here.tries.replans <= MaxReplans
    BY <2>1, <2>2 DEF Ask, AskAt, Here, LaunchInv, FirstInv, OnFirst
  <2>4. Here \in Walk(dispatches', passes', decisions')
    BY <1>0, <2>1, <2>2, WalkKeeps DEF WalkInv, OnTheWalk, OnFirst
  <2>5. r.brief.ladder = "first" /\ r.brief.granted = tries.granted
    BY <2>1 DEF Ask
  <2>6. tries.granted <= Cardinality(FirstGrants(decisions'))
    BY <1>0, <2>2, FirstCounted DEF LaunchInv, FirstInv, OnFirst
  <2>7. OfFirst(r)'
    BY <2>3, <2>4, <2>5, <2>6 DEF OfFirst
  <2> QED
    BY <1>2, <2>1, <2>2, <2>7 DEF PaidInv
<1>5. CASE Replan
  <2>1. PICK r \in Entries : r.brief = ReplanGoal /\ dispatches' = dispatches \cup {r}
    BY <1>0, <1>5, ReplanCases
  <2>2. pc = "replan" /\ UNCHANGED <<passes, opened, decisions>>
    BY <1>0, <1>5, ReplanCases
  <2> DEFINE g == tries.granted
             n == Cardinality(AgainGrants(decisions))
  <2>3. g \in Nat /\ n \in Nat /\ g <= n
    BY <1>0, <2>2, AgainCounted, GrantsGrow DEF LaunchInv, AgainInv, OnAgain, RecordInv, TypeOK
  <2>4. accepted = 1 + Earlier(g) + tries.replans /\ tries.replans < Round(g)
    BY <2>2 DEF LaunchInv, AgainInv, OnAgain
  <2>5. /\ Earlier(g) \in Nat /\ Round(g) \in Nat
        /\ Earlier(g) + Round(g) = MaxReplans + g * AtLeastOne
    BY <2>3, RoundTyped
  <2>6. g * AtLeastOne = AtLeastOne * g
    BY <2>3, LadderAssumption DEF AtLeastOne
  <2>7. MaxReplans + AtLeastOne * g <= MaxReplans + AtLeastOne * n
        /\ MaxReplans + AtLeastOne * n \in Nat
    BY <2>3, PaidMore
  <2>8. r.brief.ladder = "again" /\ r.brief.round = accepted
    BY <2>1 DEF ReplanGoal
  <2> HIDE DEF g, n
  <2>9. 1 <= accepted /\ accepted <= Earlier(g) + Round(g)
    BY <1>0, <2>4, <2>5
  <2>10. accepted <= MaxReplans + AtLeastOne * n
    <3> DEFINE a == MaxReplans + AtLeastOne * g
               b == MaxReplans + AtLeastOne * n
    <3>1. accepted <= a /\ a <= b /\ b \in Nat /\ a \in Nat /\ accepted \in Nat
      BY <1>0, <2>5, <2>6, <2>7, <2>9 DEF TypeOK
    <3> HIDE DEF a, b
    <3>2. accepted <= b
      BY <3>1
    <3> QED
      BY <3>2 DEF b
  <2>11. OfAgain(r)'
    BY <1>1, <2>1, <2>2, <2>8, <2>9, <2>10 DEF n
  <2> QED
    BY <1>2, <2>1, <2>2, <2>11 DEF PaidInv
<1> QED
  BY <1>0, <1>3, <1>4, <1>5, NextCases, AskForRoundCases, RunPassCases, AskForMoreCases,
     AskForBudgetCases DEF Launches, durable, Dies, Answered

LEMMA FirstBound ==
  ASSUME RecordInv, PaidInv
  PROVE  Cardinality({r \in dispatches : r.brief.ladder = "first"})
           <= (1 + MaxReplans) * (1 + Cardinality(FirstGrants(decisions)))
<1> DEFINE S == {r \in dispatches : r.brief.ladder = "first"}
           n == Cardinality(FirstGrants(decisions))
           On(r, k) == \E p \in Walk(dispatches, passes, decisions) :
                          p.pc = "plan" /\ AskAt(p) = r.brief /\ p.tries.replans = k
           T == (0..n) \X (0..MaxReplans)
           At(r) == CHOOSE k \in 0..MaxReplans : On(r, k)
           f == [r \in S |-> <<r.brief.granted, At(r)>>]
<1>1. n \in Nat /\ MaxReplans \in Nat
  BY GrantsGrow, LadderAssumption DEF RecordInv, TypeOK
<1>2. ASSUME NEW r \in S
      PROVE  /\ f[r][1] = r.brief.granted /\ f[r][1] \in 0..n
             /\ f[r][2] \in 0..MaxReplans /\ On(r, f[r][2]) /\ f[r] \in T
  <2>1. OfFirst(r)
    BY DEF PaidInv, OfAgain
  <2>2. PICK p \in Walk(dispatches, passes, decisions) :
          p.pc = "plan" /\ AskAt(p) = r.brief /\ p.tries.replans <= MaxReplans
    BY <2>1 DEF OfFirst
  <2>3. p.tries.replans \in 0..MaxReplans
    BY <1>1, <2>2 DEF Walk, From, Place, Tries
  <2>4. \E k \in 0..MaxReplans : On(r, k)
    BY <2>2, <2>3
  <2>5. r.brief.granted \in 0..n
    BY <1>1, <2>1 DEF OfFirst, RecordInv, TypeOK, Entries, Briefs
  <2>6. At(r) \in 0..MaxReplans /\ On(r, At(r))
    BY <2>4
  <2> HIDE DEF At, On
  <2>7. f[r] = <<r.brief.granted, At(r)>>
    OBVIOUS
  <2> HIDE DEF f
  <2> QED
    BY <2>5, <2>6, <2>7
<1>3. ASSUME NEW r \in S, NEW s \in S, f[r] = f[s] PROVE r = s
  <2>1. PICK p \in Walk(dispatches, passes, decisions) :
          p.pc = "plan" /\ AskAt(p) = r.brief /\ p.tries.replans = f[r][2]
    BY <1>2
  <2>2. PICK q \in Walk(dispatches, passes, decisions) :
          q.pc = "plan" /\ AskAt(q) = s.brief /\ q.tries.replans = f[s][2]
    BY <1>2
  <2>3. p.tries.granted = r.brief.granted /\ q.tries.granted = s.brief.granted
    BY <2>1, <2>2 DEF AskAt
  <2>4. r.brief.granted = s.brief.granted
    BY <1>2, <1>3
  <2>5. p.tries \in Tries /\ q.tries \in Tries
    BY DEF Walk, From, Place
  <2>6. p.tries = q.tries
    <3> HIDE DEF f
    <3> QED
      BY <1>3, <2>1, <2>2, <2>3, <2>4, <2>5 DEF Tries
  <2>7. p = q
    BY <2>1, <2>2, <2>6, OneAttempt DEF RecordInv
  <2> QED
    BY <2>1, <2>2, <2>7 DEF RecordInv, Named
<1>4. f \in Injection(S, T)
  <2>1. f \in [S -> T]
    <3>1. f = [r \in S |-> f[r]]
      <4> HIDE DEF At
      <4> QED
        OBVIOUS
    <3>2. \A r \in S : f[r] \in T
      BY <1>2
    <3> HIDE DEF f, S, T
    <3> QED
      BY <3>1, <3>2
  <2> HIDE DEF f, S, T
  <2> QED
    BY <1>3, <2>1 DEF Injection, IsInjective
<1>5. IsFiniteSet(T) /\ Cardinality(T) = (n + 1) * (MaxReplans + 1)
  <2>1. IsFiniteSet(0..n) /\ Cardinality(0..n) = n + 1
    BY <1>1, FS_Interval
  <2>2. IsFiniteSet(0..MaxReplans) /\ Cardinality(0..MaxReplans) = MaxReplans + 1
    BY <1>1, FS_Interval
  <2> QED
    BY <2>1, <2>2, FS_Product
<1>6. Cardinality(S) <= Cardinality(T)
  BY <1>4, <1>5, FS_Injection
<1>7. (n + 1) * (MaxReplans + 1) = (1 + MaxReplans) * (1 + n)
  <2> HIDE DEF n
  <2> QED
    BY <1>1
<1> QED
  BY <1>5, <1>6, <1>7

LEMMA AgainBound ==
  ASSUME RecordInv, PaidInv
  PROVE  Cardinality({r \in dispatches : r.brief.ladder = "again"})
           <= MaxReplans + AtLeastOne * Cardinality(AgainGrants(decisions))
<1> DEFINE S == {r \in dispatches : r.brief.ladder = "again"}
           n == MaxReplans + AtLeastOne * Cardinality(AgainGrants(decisions))
           f == [r \in S |-> r.brief.round]
<1>1. n \in Nat
  BY GrantsGrow, PaidMore DEF RecordInv, TypeOK
<1>2. ASSUME NEW r \in S
      PROVE  OfAgain(r) /\ f[r] = r.brief.round /\ f[r] \in Nat
  BY DEF PaidInv, OfFirst, RecordInv, TypeOK, Entries, Briefs
<1>3. ASSUME NEW r \in S PROVE f[r] \in 1..n
  <2>1. 1 <= f[r] /\ f[r] <= n
    BY <1>2 DEF OfAgain
  <2> HIDE DEF n, f
  <2> QED
    BY <1>1, <1>2, <2>1
<1>4. ASSUME NEW r \in S, NEW s \in S, f[r] = f[s] PROVE r = s
  BY <1>2, <1>4 DEF OfAgain
<1>5. f \in Injection(S, 1..n)
  <2>1. f \in [S -> 1..n]
    <3>1. f = [r \in S |-> f[r]]
      OBVIOUS
    <3> HIDE DEF f, S, n
    <3> QED
      BY <1>3, <3>1
  <2> HIDE DEF f, S, n
  <2> QED
    BY <1>4, <2>1 DEF Injection, IsInjective
<1>6. IsFiniteSet(1..n) /\ Cardinality(1..n) = n
  <2> HIDE DEF n
  <2> QED
    BY <1>1, FS_Interval
<1> QED
  BY <1>5, <1>6, FS_Injection

\* Replayed, crashed and relaunched, a run plans no more often than its
\* re-plans and the rounds a person granted allow, on either ladder.
THEOREM RoundsArePaidFor == Spec => []EveryRoundIsPaidFor
<1>1. Init => AgainBriefs /\ PaidInv
  BY DEF Init, AgainBriefs, PaidInv
<1>2. RecordInv /\ LaunchInv /\ WalkInv /\ AgainBriefs /\ PaidInv /\ [Next]_vars
        => AgainBriefs' /\ PaidInv'
  BY AgainNext, PaidNext
<1>3. RecordInv /\ PaidInv => EveryRoundIsPaidFor
  <2> SUFFICES ASSUME RecordInv, PaidInv PROVE EveryRoundIsPaidFor
    OBVIOUS
  <2> DEFINE granted == {d \in GrantsGiven : d.question.node = "planning"}
  <2>1. {d \in granted : ~ d.question.why = "refuted"} = FirstGrants(decisions)
    BY DEF FirstGrants, GrantsGiven
  <2>2. {d \in granted : d.question.why = "refuted"} = AgainGrants(decisions)
    BY DEF AgainGrants, GrantsGiven
  <2>3. Cardinality({d \in dispatches : d.brief.ladder = "first"})
          <= (1 + MaxReplans) * (1 + Cardinality({d \in granted : ~ d.question.why = "refuted"}))
    BY <2>1, FirstBound
  <2>4. Cardinality({d \in dispatches : d.brief.ladder = "again"})
          <= MaxReplans + AtLeastOne * Cardinality({d \in granted : d.question.why = "refuted"})
    BY <2>2, AgainBound
  <2> QED
    BY <2>3, <2>4 DEF EveryRoundIsPaidFor, AtLeastOne
<1> QED
  BY <1>1, <1>2, <1>3, Walked, PTL DEF Spec

=============================================================================
