------------------------------ MODULE Startup -------------------------------
(***************************************************************************)
(* Starting the program: the logs every command opens, the database that   *)
(* is migrated as it is opened (db/store.py), and the lock that keeps a    *)
(* second canvas away (single_instance.py, run_canvas).                    *)
(*                                                                         *)
(* A process may die at any step, and so leave a migration half done:      *)
(* every statement of a script, and the user_version after it, commits on  *)
(* its own.  The changes the scripts make are numbered in their order;     *)
(* script v, which leads on from version v, makes those after              *)
(* LastChange[v - 1] up to LastChange[v]; schema.sql makes them all.  A    *)
(* change that is there already is an error (CREATE TABLE, ALTER TABLE ADD *)
(* COLUMN).                                                                *)
(***************************************************************************)
EXTENDS Integers, FiniteSets, Sequences

CONSTANTS
  Procs,          \* processes: each is launched at most once
  NoProc,
  SchemaVersion,  \* SCHEMA_VERSION
  LastChange,     \* the last change of each version's script
  MaxSize,        \* lines a log file may hold
  BackupCount,    \* log files kept besides the live one
  MaxLines        \* bound: lines logged

ASSUME StartupAssumption ==
  /\ NoProc \notin Procs
  /\ SchemaVersion \in Nat \ {0}
  /\ LastChange \in [0..(SchemaVersion - 1) -> Nat \ {0}]
  /\ \A v, w \in 0..(SchemaVersion - 1) : v < w => LastChange[v] < LastChange[w]
  /\ MaxSize \in Nat \ {0} /\ BackupCount \in Nat /\ MaxLines \in Nat

VARIABLES
  db,      \* the database file: user_version and the changes made
  proc,    \* each process: what it was launched as, where it is
  lock,    \* the process that holds the flock, and the pid in the file
  log,     \* capture.log: file names, newest first, and each file's size
  stream,  \* the file each process's handler writes to
  torn,    \* history: a process died in the middle of a migration
  met      \* history: a process began to migrate while another one was at it

vars == <<db, proc, lock, log, stream, torn, met>>
logVars == <<log, stream>>

Changes == 1..LastChange[SchemaVersion - 1]
Upto(v) == IF v = 0 THEN {} ELSE 1..LastChange[v - 1]
Script(v) == IF v = 0 THEN Changes ELSE (LastChange[v - 1] + 1)..LastChange[v]
\* Mutant: a fresh database is taken to be one version old.
NextVersionOfFresh(v) == v + 1

NextVersion(v) == IF v = 0 THEN SchemaVersion ELSE v + 1

NotLaunched == [cmd |-> "none", pc |-> "none", version |-> 0, next |-> 0, shown |-> NoProc]
Migrating(p) == proc[p].pc \in {"script", "version"}
Holding(p) == proc[p].cmd = "canvas" /\ proc[p].pc \in {"stamp", "running"}

Init ==
  /\ \E v \in 0..SchemaVersion : db = [version |-> v, schema |-> Upto(v)]
  /\ proc = [p \in Procs |-> NotLaunched]
  /\ lock = [holder |-> NoProc, pid |-> NoProc]
  /\ log = [names |-> <<1>>, size |-> <<0>>]
  /\ stream = [p \in Procs |-> 0]
  /\ torn = FALSE /\ met = FALSE

-----------------------------------------------------------------------------
(* A RotatingFileHandler rolls over when its own stream is full, renames   *)
(* whatever has the name by then, and writes to a new file.                *)
Logged(p, f) ==
  IF log.size[f] < MaxSize
  THEN /\ log' = [log EXCEPT !.size[f] = @ + 1]
       /\ stream' = [stream EXCEPT ![p] = f]
  ELSE LET new == Len(log.size) + 1
           names == <<new>> \o log.names
       IN /\ log' = [names |-> IF Len(names) > BackupCount + 1
                               THEN SubSeq(names, 1, BackupCount + 1) ELSE names,
                     size |-> Append(log.size, 1)]
          /\ stream' = [stream EXCEPT ![p] = new]

LinesLogged == LET total[i \in 0..Len(log.size)] == IF i = 0 THEN 0 ELSE total[i - 1] + log.size[i]
               IN total[Len(log.size)]

(* main: the logs are opened and told of the start, whatever the command.  *)
Launch(p, cmd) ==
  /\ proc[p].pc = "none"
  /\ Logged(p, Head(log.names))
  /\ proc' = [proc EXCEPT ![p].cmd = cmd, ![p].pc = IF cmd = "other" THEN "running" ELSE "open"]
  /\ UNCHANGED <<db, lock, torn, met>>

(* what a canvas logs as it captures                                       *)
LogLine(p) ==
  /\ proc[p].cmd = "canvas" /\ proc[p].pc = "running"
  /\ LinesLogged < MaxLines
  /\ Logged(p, stream[p])
  /\ UNCHANGED <<db, proc, lock, torn, met>>

-----------------------------------------------------------------------------
(* Store._migrate                                                          *)
Opened(p) == IF proc[p].cmd = "canvas" THEN "lock" ELSE "running"

ReadVersion(p) ==
  /\ proc[p].pc = "open"
  /\ IF db.version >= SchemaVersion
     THEN /\ proc' = [proc EXCEPT ![p].pc = Opened(p)]
          /\ UNCHANGED met
     ELSE /\ proc' = [proc EXCEPT ![p].pc = "script", ![p].version = db.version,
                                  ![p].next = IF db.version = 0 THEN 1 ELSE LastChange[db.version - 1] + 1]
          /\ met' = (met \/ \E q \in Procs : Migrating(q))
  /\ UNCHANGED <<db, lock, logVars, torn>>

\* Mutant: user_version is set with the first statement of the script.
RunStatementVersionFirst(p) ==
  /\ proc[p].pc = "script"
  /\ LET c == proc[p].next
         done == c + 1 \notin Script(proc[p].version)
     IN IF c \in db.schema
        THEN /\ proc' = [proc EXCEPT ![p].pc = "failed"]
             /\ UNCHANGED db
        ELSE /\ db' = [version |-> NextVersion(proc[p].version), schema |-> db.schema \cup {c}]
             /\ proc' = [proc EXCEPT ![p].next = c + 1, ![p].pc = IF done THEN "version" ELSE "script"]
  /\ UNCHANGED <<lock, logVars, torn, met>>

RunStatement(p) ==
  /\ proc[p].pc = "script"
  /\ LET c == proc[p].next
         done == c + 1 \notin Script(proc[p].version)
     IN IF c \in db.schema
        THEN /\ proc' = [proc EXCEPT ![p].pc = "failed"]
             /\ UNCHANGED db
        ELSE /\ db' = [db EXCEPT !.schema = @ \cup {c}]
             /\ proc' = [proc EXCEPT ![p].next = c + 1, ![p].pc = IF done THEN "version" ELSE "script"]
  /\ UNCHANGED <<lock, logVars, torn, met>>

SetVersion(p) ==
  /\ proc[p].pc = "version"
  /\ LET v == NextVersion(proc[p].version)
     IN /\ db' = [db EXCEPT !.version = v]
        /\ proc' = [proc EXCEPT ![p].version = v, ![p].pc = IF v = SchemaVersion THEN Opened(p) ELSE "script"]
  /\ UNCHANGED <<lock, logVars, torn, met>>

-----------------------------------------------------------------------------
(* acquire_db_lock: flock, then the pid is written; or it is read for the  *)
(* dialog, and the program ends.                                           *)
TryLock(p) ==
  /\ proc[p].pc = "lock"
  /\ IF lock.holder = NoProc
     THEN /\ lock' = [lock EXCEPT !.holder = p]
          /\ proc' = [proc EXCEPT ![p].pc = "stamp"]
     ELSE /\ proc' = [proc EXCEPT ![p].pc = "readpid"]
          /\ UNCHANGED lock
  /\ UNCHANGED <<db, logVars, torn, met>>

\* Mutant: the handle is not kept, so the lock goes once the pid is written.
StampPidDropsHandle(p) ==
  /\ proc[p].pc = "stamp"
  /\ lock' = [holder |-> NoProc, pid |-> p]
  /\ proc' = [proc EXCEPT ![p].pc = "running"]
  /\ UNCHANGED <<db, logVars, torn, met>>

StampPid(p) ==
  /\ proc[p].pc = "stamp"
  /\ lock' = [lock EXCEPT !.pid = p]
  /\ proc' = [proc EXCEPT ![p].pc = "running"]
  /\ UNCHANGED <<db, logVars, torn, met>>

ReadPid(p) ==
  /\ proc[p].pc = "readpid"
  /\ proc' = [proc EXCEPT ![p].pc = "refused", ![p].shown = lock.pid]
  /\ UNCHANGED <<db, lock, logVars, torn, met>>

(* The process ends, by itself or killed, and the kernel drops its lock.   *)
Die(p) ==
  /\ proc[p].pc \notin {"none", "gone"}
  /\ proc' = [proc EXCEPT ![p].pc = "gone"]
  /\ lock' = IF lock.holder = p THEN [lock EXCEPT !.holder = NoProc] ELSE lock
  /\ torn' = (torn \/ Migrating(p))
  /\ stream' = [stream EXCEPT ![p] = 0]
  /\ UNCHANGED <<db, log, met>>

Migrate(p) == ReadVersion(p) \/ RunStatement(p) \/ SetVersion(p)
AcquireLock(p) == TryLock(p) \/ StampPid(p) \/ ReadPid(p)

Next ==
  \E p \in Procs :
    \/ \E cmd \in {"canvas", "ingest", "other"} : Launch(p, cmd)
    \/ LogLine(p)
    \/ Migrate(p) \/ AcquireLock(p) \/ Die(p)

Spec == Init /\ [][Next]_vars

-----------------------------------------------------------------------------
TypeOK ==
  /\ db \in [version : 0..SchemaVersion, schema : SUBSET Changes]
  /\ proc \in [Procs -> [cmd : {"none", "canvas", "ingest", "other"},
                         pc : {"none", "open", "script", "version", "lock", "stamp", "readpid",
                               "running", "refused", "failed", "gone"},
                         version : 0..SchemaVersion, next : 0..(LastChange[SchemaVersion - 1] + 1),
                         shown : Procs \cup {NoProc}]]
  /\ lock \in [holder : Procs \cup {NoProc}, pid : Procs \cup {NoProc}]
  /\ stream \in [Procs -> 0..Len(log.size)]
  /\ torn \in BOOLEAN /\ met \in BOOLEAN

(* user_version never promises a change that is not there, however many    *)
(* processes migrate at once and wherever they are killed; and who has the *)
(* store open sees the whole schema.                                       *)
VersionIsBacked ==
  /\ Upto(db.version) \subseteq db.schema
  /\ \A p \in Procs :
       proc[p].cmd # "other" /\ proc[p].pc \in {"lock", "stamp", "readpid", "running", "refused"} =>
         db.schema = Changes

(* An open fails only if a process was killed as it migrated, or two       *)
(* migrated at the same time: the changes and the version agree otherwise. *)
FailsOnlyIfDisturbed ==
  ~torn /\ ~met =>
    /\ \A p \in Procs : proc[p].pc # "failed"
    /\ (\A p \in Procs : ~Migrating(p)) => db.schema = Upto(db.version)

(* At most one canvas is past the lock, it holds the lock, and nobody who  *)
(* is gone does (single_instance.py:13-15).                                *)
LockIsTheLiveCanvas ==
  \A p \in Procs : Holding(p) <=> lock.holder = p

(* single_instance.py:19-22: an ingest beside a running canvas "doesn't    *)
(* write to capture.log lifecycle events"; and a second canvas is refused, *)
(* lest they "corrupt capture.log rotation" (canvas.py:4560).  So what the *)
(* running canvas logs stays in capture.log until it rotates it itself.    *)
CanvasLogsToTheLiveFile ==
  \A p \in Procs : Holding(p) => stream[p] = Head(log.names)
=============================================================================
