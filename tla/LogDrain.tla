------------------------------ MODULE LogDrain ------------------------------
(***************************************************************************)
(* `btviz drain`: follow a rotating log by name, show the first line of    *)
(* each template, and sum up the repeats (log_drain/tailer.py,             *)
(* log_drain/drainer.py).                                                  *)
(*                                                                         *)
(* The log is written by another process, which may rotate it at any time. *)
(* Lines are numbered as they are written; a file is known by its inode    *)
(* and holds an interval of them.  Each line belongs to one template: that *)
(* Drain3, which is external, may generalise a template is left out, and   *)
(* so are time stamps.  All lines of the output have one length.           *)
(***************************************************************************)
EXTENDS Integers, FiniteSets, Sequences, SequencesExt

CONSTANTS
  Templates,     \* what Drain3 tells apart
  OtherKinds,    \* of lines: "always" are shown each time, "blank" are skipped
  MaxSize,       \* lines a file of the output may hold
  BackupCount,   \* files of the output kept besides the live one
  MaxLines,      \* bound: lines written
  MaxFiles,      \* bound: input files created
  MaxOutput      \* bound: lines of output after which no new run is started

ASSUME LogDrainAssumption ==
  /\ OtherKinds \subseteq {"always", "blank"} /\ Templates \cap OtherKinds = {}
  /\ IsFiniteSet(Templates)
  /\ MaxSize \in Nat \ {0} /\ BackupCount \in Nat \ {0}
  /\ MaxLines \in Nat /\ MaxFiles \in Nat /\ MaxOutput \in Nat

VARIABLES
  log,       \* the kind of each line written
  first,     \* the first line of each input file, by inode
  path,      \* the inode input_path names, 0 while it names none
  drainer,   \* where drain_file is, its open file, position, last_inode
  stats,     \* DrainerEngine._stats
  out,       \* the output: live file, how much of it is buffered, backups
  fate,      \* history: what became of each line
  again,     \* history: a line was read twice
  since,     \* history: the line this run of the drainer started at
  calm       \* history: no rotation has hit the drainer off guard

inputVars == <<log, first, path>>
historyVars == <<fate, again, since, calm>>
vars == <<inputVars, drainer, stats, out, historyVars>>

FreshStats == [t \in Templates |-> [known |-> FALSE, window |-> 0]]
Off == [pc |-> "off", fd |-> 0, pos |-> 0, inode |-> 0]

Init ==
  /\ log = <<>>
  /\ \/ first = <<1>> /\ path = 1
     \/ first = <<>> /\ path = 0
  /\ drainer = Off
  /\ stats = FreshStats
  /\ out = [live |-> <<>>, buffered |-> 0, backups |-> <<>>, count |-> 0]
  /\ fate = <<>> /\ again = FALSE /\ since = 1 /\ calm = TRUE

LastLine(inode) == IF inode = Len(first) THEN Len(log) ELSE first[inode + 1] - 1
HasUnread == drainer.fd # 0 /\ drainer.pos <= LastLine(drainer.fd)

-----------------------------------------------------------------------------
(* The program that logs (a RotatingFileHandler).  A rotation renames the  *)
(* file and then creates a new one.                                        *)
Write(kind) ==
  /\ path # 0
  /\ Len(log) < MaxLines
  /\ log' = Append(log, kind)
  /\ fate' = Append(fate, "unread")
  /\ UNCHANGED <<first, path, drainer, stats, out, again, since, calm>>

(* A rename hits the drainer off guard if it has not got to this file yet, *)
(* or has seen its end, but not the lines written since.                   *)
Rename ==
  /\ path # 0
  /\ path' = 0
  /\ calm' = (calm /\ \/ drainer.pc = "off"
                      \/ drainer.fd = path /\ drainer.pc = "read"
                      \/ drainer.fd = path /\ drainer.pc \in {"tick", "check"} /\ ~HasUnread)
  /\ UNCHANGED <<log, first, drainer, stats, out, fate, again, since>>

Create ==
  /\ path = 0
  /\ Len(first) < MaxFiles
  /\ first' = Append(first, Len(log) + 1)
  /\ path' = Len(first) + 1
  /\ calm' = (calm /\ drainer.pc # "stat")
  /\ UNCHANGED <<log, drainer, stats, out, fate, again, since>>

-----------------------------------------------------------------------------
(* _RotatingTextSink.write compares the size on disk, which does not       *)
(* include what is buffered; closing the file writes the buffer out.       *)
\* Mutant: the backups are shifted in the wrong order, overwriting .2.
PutShiftsUpwards(o) ==
  LET onDisk == Len(o.live) - o.buffered
      n == o.count + 1
  IN IF onDisk + 1 > MaxSize /\ onDisk > 0
     THEN [live |-> <<n>>, buffered |-> 1, count |-> n,
           backups |-> [i \in 1..BackupCount |-> IF i > 1 /\ o.backups # <<>> THEN o.backups[1] ELSE o.live]]
     ELSE [o EXCEPT !.live = Append(@, n), !.buffered = @ + 1, !.count = n]

Put(o) ==
  LET onDisk == Len(o.live) - o.buffered
      n == o.count + 1
      shifted == <<o.live>> \o o.backups
  IN IF onDisk + 1 > MaxSize /\ onDisk > 0
     THEN [live |-> <<n>>, buffered |-> 1, count |-> n,
           backups |-> IF Len(shifted) > BackupCount THEN SubSeq(shifted, 1, BackupCount) ELSE shifted]
     ELSE [o EXCEPT !.live = Append(@, n), !.buffered = @ + 1, !.count = n]

(* some writes and a flush *)
Emit(lines) ==
  LET written[n \in 0..lines] == IF n = 0 THEN out ELSE Put(written[n - 1])
  IN [written[lines] EXCEPT !.buffered = 0]

-----------------------------------------------------------------------------
(* The end of the input, where _open_input seeks to unless fromStart.      *)
SeekEnd == Len(log) + 1

(* drain_file opens the input, at its end or at its start, and only then   *)
(* asks for its inode.                                                     *)
Start(fromStart) ==
  /\ drainer.pc = "off"
  /\ out.count <= MaxOutput
  /\ since' = IF fromStart /\ path # 0 THEN first[path] ELSE SeekEnd
  /\ drainer' = [pc |-> "stat", fd |-> path, inode |-> 0, pos |-> since']
  /\ stats' = FreshStats
  /\ fate' = [n \in DOMAIN log |-> IF n < since' THEN "skipped" ELSE "unread"]
  /\ again' = FALSE /\ calm' = TRUE
  /\ UNCHANGED <<inputVars, out>>

StatInput ==
  /\ drainer.pc = "stat"
  /\ drainer' = [drainer EXCEPT !.pc = "read", !.inode = path]
  /\ UNCHANGED <<inputVars, stats, out, historyVars>>

(* DrainerEngine.ingest of a line whose template is known, or not          *)
Ingest(t) == [stats EXCEPT ![t] = [known |-> TRUE, window |-> @.window + 1]]

\* Mutant: a template is known before its first line is shown.
ReadKnowsAll ==
  /\ drainer.pc = "read" /\ HasUnread
  /\ drainer' = [drainer EXCEPT !.pos = @ + 1]
  /\ again' = (again \/ fate[drainer.pos] # "unread")
  /\ LET n == drainer.pos
         kind == log[n]
         repeat == kind \in Templates
     IN /\ stats' = IF kind \in Templates THEN Ingest(kind) ELSE stats
        /\ fate' = [fate EXCEPT ![n] = IF @ # "unread" THEN @ ELSE IF repeat THEN "pending" ELSE "shown"]
        /\ out' = IF kind = "blank" \/ repeat THEN out ELSE Emit(1)
  /\ UNCHANGED <<inputVars, since, calm>>

(* A line is read, parsed, taken in, and perhaps shown.                    *)
Read ==
  /\ drainer.pc = "read" /\ HasUnread
  /\ drainer' = [drainer EXCEPT !.pos = @ + 1]
  /\ again' = (again \/ fate[drainer.pos] # "unread")
  /\ LET n == drainer.pos
         kind == log[n]
         repeat == kind \in Templates /\ stats[kind].known
     IN /\ stats' = IF kind \in Templates THEN Ingest(kind) ELSE stats
        /\ fate' = [fate EXCEPT ![n] = IF @ # "unread" THEN @ ELSE IF repeat THEN "pending" ELSE "shown"]
        /\ out' = IF kind = "blank" \/ repeat THEN out ELSE Emit(1)
  /\ UNCHANGED <<inputVars, since, calm>>

(* readline returns nothing *)
ReachEnd ==
  /\ drainer.pc = "read" /\ ~HasUnread
  /\ drainer' = [drainer EXCEPT !.pc = "tick"]
  /\ UNCHANGED <<inputVars, stats, out, historyVars>>

(* tick_summary, when it is due: a template seen twice or more in the      *)
(* window gets a summary, and every window starts afresh.                  *)
Summed(t) == stats[t].window >= 2

Tick(due) ==
  /\ drainer.pc = "tick"
  /\ drainer' = [drainer EXCEPT !.pc = "check"]
  /\ IF due
     THEN /\ out' = Emit(Cardinality({t \in Templates : Summed(t)}))
          /\ stats' = [t \in Templates |-> [stats[t] EXCEPT !.window = 0]]
          /\ fate' = [n \in DOMAIN fate |-> IF fate[n] # "pending" THEN fate[n]
                                            ELSE IF Summed(log[n]) THEN "counted" ELSE "dropped"]
     ELSE UNCHANGED <<out, stats, fate>>
  /\ UNCHANGED <<inputVars, again, since, calm>>

(* The path is looked at; unless it names another file by now the drainer  *)
(* sleeps and tries again.                                                 *)
\* Mutant: the new inode is not remembered.
CheckInodeForgets ==
  /\ drainer.pc = "check"
  /\ drainer' = [drainer EXCEPT !.pc = IF path # 0 /\ path # drainer.inode THEN "reopen" ELSE "read"]
  /\ UNCHANGED <<inputVars, stats, out, historyVars>>

\* Mutant: no look at the path, the open file is followed.
CheckInodeOfOpenFile ==
  /\ drainer.pc = "check"
  /\ drainer' = [drainer EXCEPT !.pc = "read"]
  /\ UNCHANGED <<inputVars, stats, out, historyVars>>

CheckInode ==
  /\ drainer.pc = "check"
  /\ drainer' = IF path # 0 /\ path # drainer.inode
                THEN [drainer EXCEPT !.pc = "reopen", !.inode = path]
                ELSE [drainer EXCEPT !.pc = "read"]
  /\ UNCHANGED <<inputVars, stats, out, historyVars>>

Reopen ==
  /\ drainer.pc = "reopen"
  /\ drainer' = [drainer EXCEPT !.pc = "read", !.fd = path,
                                !.pos = IF path = 0 THEN 0 ELSE first[path]]
  /\ UNCHANGED <<inputVars, stats, out, historyVars>>

(* Interrupted, at any place: repeats not summed up yet are forgotten.     *)
Stop ==
  /\ drainer.pc # "off"
  /\ drainer' = Off
  /\ UNCHANGED <<inputVars, stats, out, historyVars>>

-----------------------------------------------------------------------------
Step == StatInput \/ Read \/ ReachEnd \/ (\E due \in BOOLEAN : Tick(due)) \/ CheckInode \/ Reopen

Next ==
  \/ \E kind \in Templates \cup OtherKinds : Write(kind)
  \/ Rename \/ Create
  \/ \E fromStart \in BOOLEAN : Start(fromStart)
  \/ Step \/ Stop

(* Fairness: the drainer runs until it is interrupted.  Nothing is assumed *)
(* of the clock or of the program that logs.                               *)
Spec == Init /\ [][Next]_vars /\ WF_vars(Step)

-----------------------------------------------------------------------------
TypeOK ==
  /\ log \in Seq(Templates \cup OtherKinds)
  /\ first \in Seq(Nat) /\ path \in {0, Len(first)}
  /\ drainer \in [pc : {"off", "stat", "read", "tick", "check", "reopen"},
                  fd : 0..Len(first), inode : 0..Len(first), pos : 0..(Len(log) + 1)]
  /\ stats \in [Templates -> [known : BOOLEAN, window : Nat]]
  /\ fate \in Seq({"skipped", "unread", "shown", "pending", "counted", "dropped"})
  /\ Len(fate) = Len(log)
  /\ again \in BOOLEAN /\ calm \in BOOLEAN /\ since \in 1..(Len(log) + 1)

(* Unless a rotation comes while the drainer is between the end of a file  *)
(* and its look at the inode, has not got to the newest file yet, or is    *)
(* starting, it reads every line from where it started exactly once and in *)
(* order, across any number of rotations (tailer.py:3-4).                  *)
ReadOnceInOrder ==
  drainer.pc # "off" /\ calm =>
    /\ ~again
    /\ \A m, n \in DOMAIN log :
         since <= m /\ m < n /\ fate[n] # "unread" => fate[m] # "unread"

(* No summary, and nothing that is to go into one, is the first a reader   *)
(* hears of a template (drainer.py:18-22).                                 *)
RepeatsHaveAnExample ==
  \A n \in DOMAIN log :
    fate[n] \in {"pending", "counted", "dropped"} =>
      \E m \in 1..(n - 1) : log[m] = log[n] /\ fate[m] = "shown"

(* drainer.py:20-22: "the line is included in the next periodic summary".  *)
RepeatsAreSummedUp == \A n \in DOMAIN fate : fate[n] # "dropped"

(* What the sink keeps are the latest lines, oldest backup first, without  *)
(* a gap; and lines are given up only when all backups are in use.         *)
SinkKeepsTheLatest ==
  LET kept == FlattenSeq(Reverse(out.backups)) \o out.live
  IN /\ kept = [i \in 1..Len(kept) |-> out.count - Len(kept) + i]
     /\ Len(kept) < out.count => Len(out.backups) = BackupCount

OutputFiles == {out.live} \cup {out.backups[i] : i \in DOMAIN out.backups}

(* "The sink never produces a file marginally larger than max_bytes"       *)
(* (tailer.py:53-55).  It fails: the size compared is that on disk, and    *)
(* the summaries of one tick are all buffered before they are flushed.     *)
SinkIsBounded == \A f \in OutputFiles : Len(f) <= MaxSize

(* What the code does guarantee: the overrun is that of one tick.          *)
SinkOverrunsByOneTick ==
  \A f \in OutputFiles : Len(f) < MaxSize + Cardinality(Templates) \/ Len(f) = MaxSize

(* A line written is read in the end, unless the drainer is interrupted or *)
(* a rotation hits it off guard: in particular it always gets on to the    *)
(* newest file.                                                            *)
LinesAreRead ==
  \A n \in 1..MaxLines :
    (drainer.pc # "off" /\ n \in DOMAIN log /\ n >= since) ~>
      (drainer.pc = "off" \/ ~calm \/ (n \in DOMAIN fate /\ fate[n] # "unread"))

=============================================================================
