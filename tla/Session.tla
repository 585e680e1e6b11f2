------------------------------- MODULE Session -------------------------------
(***************************************************************************)
(* One dispatch of a model node: the executor streams a provider session,  *)
(* bounds it by a token cap, a context ceiling, a deadline and the         *)
(* subtree's stop request, and turns what it saw into the outcome the      *)
(* coordinator records (adapters/kernel/executor_claude.py); the           *)
(* coordinator then suspends on a provider's refusal or stamps the node's  *)
(* handover file (application/kernel/context.py).                          *)
(*                                                                         *)
(* A crash or a suspension leaves the journal without a result, so the     *)
(* next launch dispatches the same key again into the SAME node directory: *)
(* note and kept survive, everything else starts over.  The provider is    *)
(* external: which messages it streams, and whether an interrupted session *)
(* reports a success, an error or nothing, is a choice.                    *)
(***************************************************************************)
EXTENDS Integers, Sequences, FiniteSets

CONSTANTS
  None,         \* an absent bound, terminal message or outcome
  Usages,       \* the usage mappings a message may carry
  Caps,         \* the node's token_cap
  Ceilings,     \* the row's handover_at_tokens
  Deadlines,    \* deadline_s
  MaxRequests,  \* bound: API requests of one session
  MaxEvents,    \* bound: streamed messages of one request
  MaxElapsed,   \* bound: the clock
  MaxLaunches   \* bound: dispatches of this key

ASSUME BoundsAssumption ==
  /\ None \notin Nat
  /\ Usages \subseteq [input: Nat, written: Nat, read: Nat, output: Nat]
  /\ Caps \subseteq Nat \cup {None}
  /\ Ceilings \subseteq Nat \cup {None}
  /\ Deadlines \subseteq Nat \cup {None}
  /\ MaxRequests \in Nat /\ MaxEvents \in Nat
  /\ MaxElapsed \in Nat /\ MaxLaunches \in Nat \ {0}

VARIABLES
  limits,       \* [cap, ceiling, deadline, keyed]: fixed with the request; keyed: messages carry an id
  launch,       \* which dispatch of the key this is
  phase,        \* where the dispatch is
  meter,        \* the provider's own account: the latest usage of each request
  events,       \* messages of the current request
  spend,        \* spend_by_request, one entry per key
  hand,         \* _Handover
  elapsed,      \* seconds since dispatch_started
  stopping,     \* what is_stopping() answers
  deadlineHit,
  interrupted,  \* client.interrupt() was called
  told,         \* the stop notice reached the model
  terminal,     \* the ResultMessage
  outcome,      \* the NodeOutcome
  note,         \* handover.json: the launch whose node wrote it, and whether it was stamped
  kept          \* handover.as-written.json

stream == <<meter, events, spend, hand, elapsed, stopping, deadlineHit, interrupted, told>>
files == <<note, kept>>
vars == <<limits, launch, phase, stream, terminal, outcome, files>>

Phases == {"ready", "streaming", "drained", "concluded", "probed", "stamping", "settled", "suspended",
           "recorded"}
Terminals == {"success", "max_turns", "auth", "error"}
Statuses == {"done", "needs_continuation", "cancelled", "failed"}
Errors == {"none", "auth_failure", "rate_limited", "executor_error", "deadline", "kernel_error"}
Outcomes == [status: Statuses, error: Errors, transient: BOOLEAN, tree: BOOLEAN]
File == [by: 0..MaxLaunches, stamped: BOOLEAN, readable: BOOLEAN]

ASSUME NoneAssumption == None \notin Outcomes

GraceTurns == 3      \* HANDOVER_GRACE_TURNS

\* input_total: what the model just saw.
InputTotal(u) == u.input + u.written + u.read

\* charged_total: what one request costs; a cache read is not charged.
Charged(u) == u.input + u.written + u.output

Past(x, bound) == bound # None /\ x > bound
OverCap(total) == Past(total, limits.cap)
OverCeiling(u) == Past(InputTotal(u), limits.ceiling)
OverDeadline == Past(elapsed, limits.deadline)

NotArmed == [armed |-> FALSE, grace |-> 0, bySubtree |-> FALSE, byBudget |-> FALSE,
            request |-> 0, counted |-> 0]

Total(s) == LET upTo[n \in 0..Len(s)] == IF n = 0 THEN 0 ELSE upTo[n - 1] + s[n] IN upTo[Len(s)]

Failure(error, transient) ==
  [status |-> "failed", error |-> error, transient |-> transient, tree |-> FALSE]

Absent == [by |-> 0, stamped |-> FALSE, readable |-> FALSE]

FreshSession ==
  /\ meter = <<>> /\ spend = <<>> /\ events = 0
  /\ hand = NotArmed
  /\ elapsed = 0
  /\ stopping = FALSE /\ deadlineHit = FALSE /\ interrupted = FALSE /\ told = FALSE
  /\ terminal = None /\ outcome = None

Init ==
  /\ limits \in [cap: Caps, ceiling: Ceilings, deadline: Deadlines, keyed: BOOLEAN]
  /\ launch = 1 /\ phase = "ready"
  /\ FreshSession
  /\ note = Absent /\ kept = Absent

-----------------------------------------------------------------------------
(* The coordinator opens the dispatch.                                       *)

\* A malformed request (a cwd under no root, an unknown effort) raises out of the
\* executor and is recorded as a program bug; a permission mode or node directory the
\* options cannot be built from raises inside the executor's own guard instead.
Open(request) ==
  /\ phase = "ready"
  /\ CASE request = "well_formed" -> phase' = "streaming" /\ outcome' = None
       [] request = "malformed"   -> phase' = "probed" /\ outcome' = Failure("kernel_error", FALSE)
       [] request = "unbuildable" -> phase' = "probed" /\ outcome' = Failure("executor_error", TRUE)
  /\ UNCHANGED <<limits, launch, stream, terminal, files>>

-----------------------------------------------------------------------------
(* The turn seam.                                                            *)

\* A message of a new request, or a further one of the current request.  Usage of a
\* request never shrinks from one of its messages to the next.
Streams(usage) ==
  \/ /\ Len(meter) < MaxRequests
     /\ meter' = Append(meter, usage)
     /\ events' = 1
  \/ /\ Len(meter) > 0 /\ events < MaxEvents
     /\ Charged(usage) >= Charged(meter[Len(meter)])
     /\ InputTotal(usage) >= InputTotal(meter[Len(meter)])
     /\ meter' = [meter EXCEPT ![Len(meter)] = usage]
     /\ events' = events + 1

\* Mutant: A request is charged once per message.
FoldEveryMessage(usage) == Append(spend, Charged(usage))

\* spend_by_request keys a message by its request's id, or by one of its own.
FoldSpend(usage) ==
  IF limits.keyed /\ Len(meter') = Len(spend)
  THEN [spend EXCEPT ![Len(meter')] = Charged(usage)]
  ELSE Append(spend, Charged(usage))

\* _Handover.observe before arming: any of the three reasons arms, none interrupts.
Armed(usage, total) ==
  LET budget == OverCap(total) IN
  IF stopping \/ budget \/ OverCeiling(usage)
  THEN [armed |-> TRUE, grace |-> 0, bySubtree |-> stopping, byBudget |-> budget /\ ~stopping,
        request |-> Len(meter'), counted |-> 0]
  ELSE hand

\* Mutant: The grace is spent per streamed message.
SeenNothing == FALSE

\* Whether this message's request is the one that armed or the last one counted.
Seen == limits.keyed /\ Len(meter') \in {hand.request, hand.counted}

Observe(usage, total) ==
  IF ~hand.armed THEN Armed(usage, total)
  ELSE IF Seen THEN hand
  ELSE [hand EXCEPT !.grace = IF @ < GraceTurns THEN @ + 1 ELSE @, !.counted = Len(meter')]

\* The grace runs out on a counted request, and again on every one streamed after it.
GraceRunsOut == hand.armed /\ ~Seen /\ hand.grace + 1 >= GraceTurns

Message(usage) ==
  /\ phase = "streaming"
  /\ Streams(usage)
  /\ spend' = FoldSpend(usage)
  /\ deadlineHit' = (deadlineHit \/ OverDeadline)
  /\ IF deadlineHit'
       THEN interrupted' = TRUE /\ hand' = hand
       ELSE /\ hand' = Observe(usage, Total(spend'))
            /\ interrupted' = (interrupted \/ GraceRunsOut)
  /\ UNCHANGED <<limits, launch, phase, elapsed, stopping, told, terminal, outcome, files>>

\* A tool call matched by the stop-notice hook: once armed, it carries the notice.
ToolCall ==
  /\ phase = "streaming" /\ hand.armed /\ ~told
  /\ told' = TRUE
  /\ UNCHANGED <<limits, launch, phase, meter, events, spend, hand, elapsed, stopping,
                 deadlineHit, interrupted, terminal, outcome, files>>

\* The node obeys the notice, with a record or with something that does not parse.
NodeWrites(readable) ==
  /\ phase = "streaming" /\ told
  /\ note.by # launch \/ note.stamped
  /\ note' = [by |-> launch, stamped |-> FALSE, readable |-> readable]
  /\ UNCHANGED <<limits, launch, phase, stream, terminal, outcome, kept>>

Tick ==
  /\ phase = "streaming" /\ elapsed < MaxElapsed
  /\ elapsed' = elapsed + 1
  /\ UNCHANGED <<limits, launch, phase, meter, events, spend, hand, stopping, deadlineHit,
                 interrupted, told, terminal, outcome, files>>

StopSubtree ==
  /\ phase = "streaming" /\ ~stopping
  /\ stopping' = TRUE
  /\ UNCHANGED <<limits, launch, phase, meter, events, spend, hand, elapsed, deadlineHit,
                 interrupted, told, terminal, outcome, files>>

-----------------------------------------------------------------------------
(* The end of the stream, and the one exit ladder.                           *)

\* The ResultMessage, or the stream ending without one.
EndStream(message) ==
  /\ phase = "streaming"
  /\ terminal' = message
  /\ phase' = "drained"
  /\ UNCHANGED <<limits, launch, stream, outcome, files>>

\* _classify_error: only a text that carries an auth marker names the credential.
Classified(message) ==
  IF message = "auth" THEN Failure("auth_failure", FALSE) ELSE Failure("executor_error", TRUE)

\* outcome_from_usage: the turn ceiling is read before is_error.
FromTerminal(message) ==
  CASE message = "success"   -> [status |-> "done", error |-> "none", transient |-> FALSE, tree |-> TRUE]
    [] message = "max_turns" -> [status |-> "needs_continuation", error |-> "none",
                                 transient |-> FALSE, tree |-> TRUE]
    [] OTHER                 -> Classified(message)

DeadlineOutcome == [status |-> "cancelled", error |-> "deadline", transient |-> FALSE, tree |-> FALSE]

HandoverOutcome == [status |-> "needs_continuation", error |-> "none", transient |-> FALSE, tree |-> TRUE]

\* Mutant: The exit ladder reads the terminal message before what the executor itself decided.
TerminalFirst ==
  IF terminal # None THEN FromTerminal(terminal)
  ELSE IF deadlineHit THEN DeadlineOutcome
  ELSE IF hand.armed THEN HandoverOutcome
  ELSE Failure("executor_error", TRUE)

Verdict ==
  IF deadlineHit THEN DeadlineOutcome
  ELSE IF hand.armed THEN HandoverOutcome
  ELSE IF terminal # None THEN FromTerminal(terminal)
  ELSE Failure("executor_error", TRUE)

Conclude ==
  /\ phase = "drained"
  /\ outcome' = Verdict
  /\ phase' = "concluded"
  /\ UNCHANGED <<limits, launch, stream, terminal, files>>

\* Any exception of the session, an interrupt that fails among them.
Break ==
  /\ phase \in {"streaming", "drained"}
  /\ outcome' = Failure("executor_error", TRUE)
  /\ phase' = "probed"
  /\ UNCHANGED <<limits, launch, stream, terminal, files>>

\* What asking the provider directly answers; None: no probe wired, no token or no reply.
Replies == {200, 401, 403, 404, 429}
CredentialVerdict(reply) ==
  CASE reply = 429 -> "rate_limited"
    [] reply \in {401, 403} -> "unauthorized"
    [] OTHER -> "indeterminate"

\* separated_refusal: asked only about an auth failure, and only a 429 changes it.
Probe(reply) ==
  /\ phase = "concluded"
  /\ outcome.error # "auth_failure" => reply = None
  /\ outcome' = IF outcome.error = "auth_failure" /\ CredentialVerdict(reply) = "rate_limited"
                THEN [outcome EXCEPT !.error = "rate_limited"]
                ELSE outcome
  /\ phase' = "probed"
  /\ UNCHANGED <<limits, launch, stream, terminal, files>>

-----------------------------------------------------------------------------
(* The coordinator: suspend, stamp, record.                                  *)

Refused == outcome.error \in {"auth_failure", "rate_limited"}

\* The body returned: a provider's refusal suspends the run when the policy says so.
Return(action) ==
  /\ phase = "probed"
  /\ phase' = IF Refused /\ action = "suspend" THEN "suspended"
              ELSE IF outcome.status = "needs_continuation" /\ note.readable THEN "stamping"
              ELSE "settled"
  /\ UNCHANGED <<limits, launch, stream, terminal, outcome, files>>

\* The node's bytes are copied first ...
KeepAsWritten ==
  /\ phase = "stamping" /\ kept # note
  /\ kept' = note
  /\ UNCHANGED <<limits, launch, phase, stream, terminal, outcome, note>>

\* ... and only then overwritten by the stamped record.
Stamp ==
  /\ phase = "stamping" /\ kept = note
  /\ note' = [note EXCEPT !.stamped = TRUE]
  /\ phase' = "settled"
  /\ UNCHANGED <<limits, launch, stream, terminal, outcome, kept>>

\* record.json and the result line: from here on the journal serves this key.
Record ==
  /\ phase = "settled"
  /\ phase' = "recorded"
  /\ UNCHANGED <<limits, launch, stream, terminal, outcome, files>>

\* A crash before the result line, or a relaunch after a suspension: the same key again.
Redispatch ==
  /\ phase # "recorded" /\ launch < MaxLaunches
  /\ launch' = launch + 1
  /\ phase' = "ready"
  /\ meter' = <<>> /\ spend' = <<>> /\ events' = 0
  /\ hand' = NotArmed
  /\ elapsed' = 0
  /\ stopping' = FALSE /\ deadlineHit' = FALSE /\ interrupted' = FALSE /\ told' = FALSE
  /\ terminal' = None /\ outcome' = None
  /\ UNCHANGED <<limits, files>>

Next ==
  \/ \E request \in {"well_formed", "malformed", "unbuildable"} : Open(request)
  \/ \E usage \in Usages : Message(usage)
  \/ ToolCall
  \/ \E readable \in BOOLEAN : NodeWrites(readable)
  \/ Tick
  \/ StopSubtree
  \/ \E message \in Terminals \cup {None} : EndStream(message)
  \/ Conclude
  \/ Break
  \/ \E reply \in Replies \cup {None} : Probe(reply)
  \/ \E action \in {"suspend", "fail_run"} : Return(action)
  \/ KeepAsWritten
  \/ Stamp
  \/ Record
  \/ Redispatch

Spec == Init /\ [][Next]_vars

-----------------------------------------------------------------------------
(* Properties.                                                               *)

HandRecord == [armed: BOOLEAN, grace: 0..GraceTurns, bySubtree: BOOLEAN, byBudget: BOOLEAN,
               request: Nat, counted: Nat]

\* Types, and what the exit ladder relies on: an outcome exists exactly once the session is
\* over, nothing is counted before arming, and a record being stamped is readable.
TypeOK ==
  /\ limits \in [cap: Caps, ceiling: Ceilings, deadline: Deadlines, keyed: BOOLEAN]
  /\ launch \in 1..MaxLaunches /\ phase \in Phases
  /\ meter \in Seq(Usages) /\ spend \in Seq(Nat) /\ events \in Nat
  /\ hand \in HandRecord
  /\ elapsed \in Nat
  /\ stopping \in BOOLEAN /\ deadlineHit \in BOOLEAN /\ interrupted \in BOOLEAN /\ told \in BOOLEAN
  /\ terminal \in Terminals \cup {None}
  /\ outcome \in Outcomes \cup {None}
  /\ note \in File /\ kept \in File
  /\ (outcome = None) <=> (phase \in {"ready", "streaming", "drained"})
  /\ phase = "ready" => ~hand.armed /\ ~interrupted
  /\ ~hand.armed => hand = NotArmed
  /\ deadlineHit => interrupted
  /\ phase = "stamping" => note.readable /\ outcome.status = "needs_continuation"

\* What the provider itself counts over the session, whatever the executor kept of it.
Spent == Total([i \in 1..Len(meter) |-> Charged(meter[i])])

\* A session the coordinator stopped, or one that crossed a bound, is never handed on as a
\* whole one, whatever its terminal message claims; and unless the session raised, it ends
\* as a handover with its tree or as a deadline without one, never as a transient failure
\* that a retry would send back to the same bound.
StoppedIsNotDone ==
  outcome # None =>
    /\ outcome.status = "done" =>
         /\ ~interrupted
         /\ limits.keyed => ~OverCap(Spent)
         /\ \A i \in 1..Len(meter) : ~OverCeiling(meter[i])
    /\ interrupted /\ phase = "concluded" =>
         /\ outcome.status \in {"needs_continuation", "cancelled"} /\ ~outcome.transient
         /\ outcome.tree <=> outcome.status = "needs_continuation"

\* The grace is three REQUESTS: a node asked to hand over is interrupted when the third
\* request after the one that armed it arrives, however many messages each is streamed in,
\* and not before.
GraceIsPerRequest ==
  limits.keyed /\ hand.armed /\ ~deadlineHit =>
    (interrupted <=> Len(meter) - hand.request >= GraceTurns)

\* A handover names its cause: the subtree was stopping, or the requests seen really cost
\* more than the cap, or one of them really was past the ceiling.
ArmedForCause ==
  limits.keyed /\ hand.armed =>
    /\ hand.bySubtree => stopping
    /\ hand.byBudget => OverCap(Spent)
    /\ ~hand.bySubtree /\ ~hand.byBudget =>
         \E i \in 1..hand.request : OverCeiling(meter[i])

\* handover.as-written.json holds the node's own bytes, never the coordinator's stamped copy
\* of them (domain/handover.py:71).  False: a crash between the stamp and the result line
\* dispatches the key into the same directory, and a second handover copies the stamped file.
AsWrittenIsTheNodes == ~kept.stamped
==============================================================================
