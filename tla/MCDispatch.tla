----------------------------- MODULE MCDispatch -----------------------------
(* Instances of Dispatch for TLC: one graph shape per configuration.       *)
EXTENDS Dispatch, TLC

CONSTANTS a, b, c

\* A code node and the node that reads its record.
PairDeps == a :> {} @@ b :> {a}

\* Two nodes of identical work, read by a third.
TwinDeps == a :> {} @@ b :> {} @@ c :> {a, b}

TwinWork == a :> "twin" @@ b :> "twin" @@ c :> "join"

OwnWork == [n \in Node |-> n]

\* One branch for both nodes of the pair, and one for each twin.
PairBranch == [n \in Node |-> Node]

TwinBranch == a :> {a} @@ b :> {b} @@ c :> {}

=============================================================================
