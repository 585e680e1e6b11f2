------------------------------- MODULE RunLock ------------------------------
(***************************************************************************)
(* The run directory's lock file (adapters/kernel/lock_file.py): created   *)
(* exclusively, then written with the holder's identity, and broken once   *)
(* by a process that reads it as stale.  Each step is one system call, so  *)
(* the calls of several coordinators interleave, and any of them may die   *)
(* between two.                                                            *)
(*                                                                         *)
(* A file is named by the process that created it: a process that writes   *)
(* after another unlinked its file writes to a file no path leads to.  A   *)
(* relaunch is a process of its own: (host, boot, pid, start time) never   *)
(* recurs, and whether a process lives is answered correctly.              *)
(***************************************************************************)
EXTENDS FiniteSets

CONSTANTS
  Process,  \* the coordinator processes
  NoFile    \* the path leads to no file

ASSUME RunLockAssumption == NoFile \notin Process

VARIABLES
  file,     \* the creator of the file the path leads to, or NoFile
  written,  \* the processes whose file holds their identity
  pc,       \* where each process is in acquire and release
  raced     \* history: two processes were inside acquire at once

vars == <<file, written, pc, raced>>

Places == {"idle", "write", "read", "unlink", "create", "held", "releasing",
           "released", "refused", "dead"}

-----------------------------------------------------------------------------

Alive(p) == pc[p] # "dead"

\* Inside acquire, past its first system call.
Acquiring == {p \in Process : pc[p] \in {"write", "read", "unlink", "create"}}

\* The lock has been handed to the caller and not yet given up.
Holding == {p \in Process : pc[p] \in {"held", "releasing"}}

\* What reading the path gives: the holder in it, or nothing if the file is
\* missing or does not parse, as one not yet written does not.
Readable == file \in written

\* Opening the path with O_EXCL succeeds only if it leads nowhere.
TryCreate(p, otherwise) ==
  IF file = NoFile
  THEN /\ file' = p
       /\ pc' = [pc EXCEPT ![p] = "write"]
  ELSE /\ pc' = [pc EXCEPT ![p] = otherwise]
       /\ UNCHANGED file

Open(p) ==
  /\ pc[p] = "idle"
  /\ TryCreate(p, "read")
  /\ raced' = (raced \/ Acquiring # {})
  /\ UNCHANGED written

Write(p) ==
  /\ pc[p] = "write"
  /\ written' = written \cup {p}
  /\ pc' = [pc EXCEPT ![p] = "held"]
  /\ UNCHANGED <<file, raced>>

\* Fault: a live holder is broken as well.
ReadAnyStale(p) ==
  /\ pc[p] = "read"
  /\ pc' = [pc EXCEPT ![p] = "unlink"]
  /\ UNCHANGED <<file, written, raced>>

\* Only a readable, live holder is respected.
Read(p) ==
  /\ pc[p] = "read"
  /\ pc' = [pc EXCEPT ![p] = IF Readable /\ Alive(file)
                             THEN "refused" ELSE "unlink"]
  /\ UNCHANGED <<file, written, raced>>

\* The path is unlinked, whatever file it leads to by now.
Unlink(p) ==
  /\ pc[p] = "unlink"
  /\ file' = NoFile
  /\ pc' = [pc EXCEPT ![p] = "create"]
  /\ UNCHANGED <<written, raced>>

CreateAgain(p) ==
  /\ pc[p] = "create"
  /\ TryCreate(p, "refused")
  /\ UNCHANGED <<written, raced>>

\* Release reads the path and goes on only if it names this process.
Release(p) ==
  /\ pc[p] = "held"
  /\ pc' = [pc EXCEPT ![p] = IF Readable /\ file = p
                             THEN "releasing" ELSE "released"]
  /\ UNCHANGED <<file, written, raced>>

UnlinkOwn(p) ==
  /\ pc[p] = "releasing"
  /\ file' = NoFile
  /\ pc' = [pc EXCEPT ![p] = "released"]
  /\ UNCHANGED <<written, raced>>

\* The process goes away, and leaves the path as it is.
Die(p) ==
  /\ Alive(p)
  /\ pc' = [pc EXCEPT ![p] = "dead"]
  /\ UNCHANGED <<file, written, raced>>

Init ==
  /\ file = NoFile
  /\ written = {}
  /\ pc = [p \in Process |-> "idle"]
  /\ raced = FALSE

Step(p) ==
  \/ Open(p) \/ Write(p) \/ Read(p) \/ Unlink(p) \/ CreateAgain(p)
  \/ Release(p) \/ UnlinkOwn(p) \/ Die(p)

Next == \E p \in Process : Step(p)

Spec == Init /\ [][Next]_vars

-----------------------------------------------------------------------------
(* Properties.                                                             *)

\* Every variable has its type, and a file that was written was created by
\* the process it names.
TypeOK ==
  /\ file \in Process \cup {NoFile}
  /\ written \subseteq Process
  /\ pc \in [Process -> Places]
  /\ raced \in BOOLEAN
  /\ \A p \in written : pc[p] \in {"held", "releasing", "released", "dead"}

\* What lock_file.py:3 says: at most one live coordinator may hold a run
\* directory at a time.
Exclusive == \A p, q \in Holding : p = q

\* Acquisitions that do not overlap exclude each other, whoever crashed
\* before: a stale lock is broken, a live one never, and release gives up
\* only the lock it holds.
ExclusiveUnlessRaced == ~ raced => Exclusive

\* A crash at any system call of acquire or release never strands the run: a
\* process alone in acquire is refused only by a live process that holds it.
RefusedOnlyByLive ==
  [][\A p \in Process :
       pc[p] # "refused" /\ pc'[p] = "refused" /\ ~ raced' => Holding # {}]_vars

=============================================================================
