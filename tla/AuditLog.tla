------------------------------- MODULE AuditLog -------------------------------
(***************************************************************************)
(* The event bus (events/bus.py), the sink that appends every event to     *)
(* audit.jsonl (events/logger.py) and the administrator's clearing and     *)
(* listing of that file (server/routers/settings.py).                      *)
(*                                                                         *)
(* A request emits at most one event, so an event is named by its request  *)
(* and the kind and payload it carries.  emit gathers the handlers of the  *)
(* event: each becomes a task at the end of the loop's queue and writes    *)
(* its line without an await; the emitter waits for it.  The queue is a    *)
(* set, and so is a file: no property tells the order of two lines.  The   *)
(* rename of a clear replaces an existing file, as it does on POSIX.       *)
(***************************************************************************)
EXTENDS Naturals

CONSTANTS MaxSecond   \* bound: the clock of the archives' names stops here

VARIABLES
  second,      \* the time, in the resolution of an archive's name
  waiting,     \* events whose handler is scheduled
  log,         \* the lines of audit.jsonl
  archive,     \* archive[t]: the lines of audit.<t>.cleared.jsonl
  appended,    \* requests whose line was written
  unwritten    \* requests whose handler raised

auditVars == <<second, waiting, log, archive, appended, unwritten>>

AuditInit ==
  /\ second = 0
  /\ waiting = {} /\ log = {}
  /\ archive = [t \in {} |-> {}]
  /\ appended = {} /\ unwritten = {}

Pending(r) == \E e \in waiting : e.by = r

Lines(file) == {e.by : e \in file}

OnDisk == Lines(log) \cup UNION {Lines(archive[t]) : t \in DOMAIN archive}

\* Mutant: nobody waits for the handler, and its task is lost.
EmitLost(e) == UNCHANGED waiting

\* emit: the wildcard handler of the sink is scheduled for the event.
Emit(e) == waiting' = waiting \cup {e}

\* The handler opens the file and appends its line.
WriteLine(e) ==
  /\ e \in waiting
  /\ waiting' = waiting \ {e}
  /\ log' = log \cup {e}
  /\ appended' = appended \cup {e.by}
  /\ UNCHANGED <<second, archive, unwritten>>

\* The file cannot be opened or written: the handler's exception is what gather
\* raises in the emitter.
WriteFails(e) ==
  /\ e \in waiting
  /\ waiting' = waiting \ {e}
  /\ unwritten' = unwritten \cup {e.by}
  /\ UNCHANGED <<second, log, archive, appended>>

\* A cancelled emitter cancels the handler it waits for, unless that has run.
Withdraw(r) == waiting' = {e \in waiting : e.by # r}

\* Mutant: the log is truncated instead of renamed.
ArchiveNothing ==
  /\ log' = {}
  /\ UNCHANGED archive

\* A log with lines is renamed to an archive named after the second; the
\* archive another clear made in the same second is replaced.
ArchiveLog ==
  IF log = {} THEN UNCHANGED <<log, archive>>
  ELSE /\ archive' = [t \in DOMAIN archive \cup {second} |->
                        IF t = second THEN log ELSE archive[t]]
       /\ log' = {}

Tick ==
  /\ second < MaxSecond
  /\ second' = second + 1
  /\ UNCHANGED <<waiting, log, archive, appended, unwritten>>
===============================================================================
