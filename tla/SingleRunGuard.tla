--------------------------- MODULE SingleRunGuard ---------------------------
(***************************************************************************)
(* SingleRunGuard (utils/single_run_guard.py): one lock file for the runs  *)
(* of a package and run_id, created exclusively, filled in a second step,  *)
(* judged by the pid written in it, and never removed automatically.       *)
(*                                                                         *)
(* The verdict on a lock is fallible: a host name need not tell one host   *)
(* from another, and a lookup that fails counts like a pid nobody has.     *)
(* The model keeps the truth (host, and what the lookup answered) apart    *)
(* from what the code compares, and assumes neither to be reliable.        *)
(*                                                                         *)
(* A Run is one process with one guard: a restart is another run, and may  *)
(* be given the pid of a run that died.  Different run_ids may share a     *)
(* file, because its name is sanitised.  Nothing in the repository uses    *)
(* the guard yet; what a caller does is acquire, work and release.         *)
(***************************************************************************)
EXTENDS Naturals, FiniteSets

CONSTANTS
  Run,       \* the processes
  Pid,       \* process ids
  Host,      \* hosts that share the lock directory, each with its own pids
  Name,      \* what platform.node() may say of a host, and "unknown-host"
  Identity   \* (package, run_id) pairs that give the same file name

ASSUME GuardAssumption ==
  /\ Pid # {} /\ Host # {} /\ Name # {} /\ Identity # {}
  /\ "nobody" \notin Run

VARIABLES
  pc,     \* pc[r]: where run r is in its use of the guard
  who,    \* who[r]: pid, host, owner and identity of run r, once it started
  lock,   \* the lock file
  read,   \* read[r]: the run whose complete lock run r has read
  report, \* report[r]: the complete lock run r was refused over as stale
  lookup  \* history: what the operating system answered run r on that pid

vars == <<pc, who, lock, read, report, lookup>>

\* refused: ConcurrentRunError or StaleRunLockError.  failed: any other
\* exception of the guard.  dead: killed, or ended without a release.
State == {"unborn", "started", "exists", "inspecting", "created", "holding",
          "releasing", "released", "refused", "failed", "dead"}
Alive(r) == pc[r] \notin {"unborn", "dead"}

\* owner is the host's name as the process was told it: hosts may share one,
\* and a host may be renamed.  Only pid, owner and identity are in the payload.
Process == [pid : Pid, host : Host, owner : Name, identity : Identity]

\* none: not asked.  failed: OpenProcess gives no handle for another reason
\* than that nobody has the pid, or os.kill raises another OSError than
\* ProcessLookupError and PermissionError.
Answer == {"none", "alive", "gone", "failed"}

\* complete: the payload, which names the creator's process, is in it.
NoLock == [by |-> "nobody", complete |-> FALSE]
Lock   == [by : Run, complete : BOOLEAN]

GuardTypeOK ==
  /\ pc \in [Run -> State]
  /\ who \in [Run -> Process]
  /\ lock \in Lock \cup {NoLock}
  /\ read \in [Run -> Run \cup {"nobody"}]
  /\ report \in [Run -> Run \cup {"nobody"}]
  /\ lookup \in [Run -> Answer]

GuardInit ==
  /\ pc = [r \in Run |-> "unborn"]
  /\ who \in [Run -> Process]
  /\ lock = NoLock
  /\ read = [r \in Run |-> "nobody"]
  /\ report = [r \in Run |-> "nobody"]
  /\ lookup = [r \in Run |-> "none"]

Becomes(r, s) == pc' = [pc EXCEPT ![r] = s]

-----------------------------------------------------------------------------
(* Processes: a pid names one process of a host at a time.                 *)
Start(r) ==
  /\ pc[r] = "unborn"
  /\ \A q \in Run : Alive(q) /\ who[q].host = who[r].host => who[q].pid # who[r].pid
  /\ Becomes(r, "started")
  /\ UNCHANGED <<who, lock, read, report, lookup>>

Die(r) ==
  /\ Alive(r)
  /\ Becomes(r, "dead")
  /\ UNCHANGED <<who, lock, read, report, lookup>>

-----------------------------------------------------------------------------
(* acquire                                                                 *)

BugCreatesOver(r) ==
  /\ pc[r] = "started"
  /\ Becomes(r, "created")
  /\ lock' = [by |-> r, complete |-> FALSE]
  /\ UNCHANGED <<who, read, report, lookup>>

\* O_CREAT | O_EXCL
Create(r) ==
  /\ pc[r] = "started"
  /\ IF lock = NoLock
       THEN Becomes(r, "created") /\ lock' = [by |-> r, complete |-> FALSE]
       ELSE Becomes(r, "exists") /\ UNCHANGED lock
  /\ UNCHANGED <<who, read, report, lookup>>

\* inspect_existing: a lock that is gone by now, or not complete, is stale
\* and says nothing of its owner.
ReadLock(r) ==
  /\ pc[r] = "exists"
  /\ IF lock.complete
       THEN Becomes(r, "inspecting") /\ read' = [read EXCEPT ![r] = lock.by]
       ELSE Becomes(r, "refused") /\ UNCHANGED read
  /\ UNCHANGED <<who, lock, report, lookup>>

SameIdentity(r) == who[read[r]].identity = who[r].identity

\* A run has the pid that run r has read, on run r's host.
Taken(r) ==
  \E q \in Run : Alive(q) /\ who[q].host = who[r].host /\ who[q].pid = who[read[r]].pid

BugOwnPidOnly(r) ==
  IF who[read[r]].pid = who[r].pid THEN {"alive"} ELSE {"alive", "gone", "failed"}

\* What the inspecting host may answer: its own pid is not looked up, a pid
\* no run has may be another program's, and every lookup may fail.
PidAnswers(r) ==
  IF who[read[r]].pid = who[r].pid THEN {"alive"}
  ELSE {"alive", "failed"} \cup (IF Taken(r) THEN {} ELSE {"gone"})

\* The lookup is made for a lock of the same identity and owner only.
Asked(r) == SameIdentity(r) /\ who[read[r]].owner = who[r].owner

BugRemovesStale(r) ==
  /\ pc[r] = "inspecting"
  /\ Becomes(r, "refused")
  /\ \E answer \in (IF Asked(r) THEN PidAnswers(r) ELSE {"none"}) :
       lock' = IF answer = "alive" THEN lock ELSE NoLock
  /\ UNCHANGED <<who, read, report, lookup>>

\* _pid_alive is true of one answer only: a lock of another identity or
\* owner, of a pid nobody has, or of one that cannot be looked up, is stale.
\* The run is refused all the same.  The lock may be gone since it was read,
\* and a dead run's pid may be somebody else's by now.
Inspect(r) ==
  /\ pc[r] = "inspecting"
  /\ Becomes(r, "refused")
  /\ \E answer \in (IF Asked(r) THEN PidAnswers(r) ELSE {"none"}) :
       /\ lookup' = [lookup EXCEPT ![r] = answer]
       /\ report' = IF answer = "alive" THEN report ELSE [report EXCEPT ![r] = read[r]]
  /\ UNCHANGED <<who, lock, read>>

\* json.dump reaches the file when it is closed; the file is the one of the
\* path, since only the owner or an operator removes it.
WritePayload(r) ==
  /\ pc[r] = "created"
  /\ \/ Becomes(r, "holding") /\ lock' = [lock EXCEPT !.complete = TRUE]
     \/ Becomes(r, "failed") /\ lock' = NoLock \* the handler unlinks
  /\ UNCHANGED <<who, read, report, lookup>>

-----------------------------------------------------------------------------
(* release                                                                 *)
Payload(q) == <<who[q].identity, who[q].pid, who[q].owner>>
Owned(r)   == lock # NoLock /\ lock.complete /\ Payload(lock.by) = Payload(r)

CheckOwned(r) ==
  /\ pc[r] = "holding"
  /\ Becomes(r, IF Owned(r) THEN "releasing" ELSE "failed")
  /\ UNCHANGED <<who, lock, read, report, lookup>>

Unlink(r) ==
  /\ pc[r] = "releasing"
  /\ Becomes(r, "released")
  /\ lock' = NoLock
  /\ UNCHANGED <<who, read, report, lookup>>

(* The explicit cleanup the error asks for.  The error does not say enough *)
(* for it to be safe, so what the operator knows besides is an assumption: *)
(* that the lock is of the host that reported it, not only of its name,    *)
(* and that the lookup did answer.                                         *)
Trusted(r) ==
  /\ report[r] # "nobody"
  /\ lookup[r] = "gone"
  /\ who[report[r]].host = who[r].host

Cleanup ==
  /\ \E r \in Run : Trusted(r) /\ report[r] = lock.by
  /\ lock' = NoLock
  /\ UNCHANGED <<pc, who, read, report, lookup>>

RunStep(r) ==
  \/ Start(r) \/ Die(r) \/ Create(r) \/ ReadLock(r) \/ Inspect(r)
  \/ WritePayload(r) \/ CheckOwned(r) \/ Unlink(r)

GuardNext == (\E r \in Run : RunStep(r)) \/ Cleanup

GuardSpec == GuardInit /\ [][GuardNext]_vars

-----------------------------------------------------------------------------
(* Properties                                                              *)

\* Between a successful open and the end of the release.
Inside(r) == pc[r] \in {"created", "holding", "releasing"}

(* At most one run is inside, on whatever host, and the lock is its own:   *)
(* runs that die at any point, pids that are reused, names that are shared *)
(* and the operator's cleanup do not let a second one in.  About acquire   *)
(* and release.                                                            *)
OneHolder == \A r \in Run : Inside(r) => lock.by = r

(* A lock reported as stale after a lookup on its own host that found no   *)
(* process is the lock of a dead one, now and later, however long before   *)
(* it was read and whoever has the pid meanwhile.  The verdict alone does  *)
(* not say so: a lookup that failed, or was made on another host of the    *)
(* same name, gives the same verdict on the lock of a live run.  About     *)
(* inspect_existing and _pid_alive.                                        *)
StaleMeansDead == \A r \in Run : Trusted(r) => pc[report[r]] = "dead"

(* A lock is only removed by the run that created it or after its death:   *)
(* never by a run that was refused, and never automatically because it     *)
(* looked stale (the module's docstring).  About acquire, whose handler    *)
(* unlinks, and release.                                                   *)
LocksOutliveOthers ==
  [][lock # NoLock /\ lock' # lock /\ lock'.by # lock.by =>
       ~Alive(lock.by) \/ (Inside(lock.by) /\ pc'[lock.by] # pc[lock.by])]_vars
=============================================================================
