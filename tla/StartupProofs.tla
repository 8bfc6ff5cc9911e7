--------------------------- MODULE StartupProofs ----------------------------
(* Proofs about Startup and Preferences, what a process finds as it        *)
(* starts: see section 5 of the README.                                    *)
EXTENDS Startup, Preferences, SequenceTheorems, TLAPS

-----------------------------------------------------------------------------
(* What is known of a process by where it is: only a canvas gets to the    *)
(* lock, and what a script has run, or its version promises, is made.      *)
Placed ==
  \A p \in Procs :
    /\ proc[p].pc \in {"lock", "stamp", "readpid", "refused"} => proc[p].cmd = "canvas"
    /\ proc[p].pc = "script" => /\ proc[p].version < SchemaVersion
                                /\ proc[p].next \in Script(proc[p].version)
                                /\ 1..(proc[p].next - 1) \subseteq db.schema
    /\ proc[p].pc = "version" => /\ proc[p].version < SchemaVersion
                                 /\ proc[p].next = LastChange[NextVersion(proc[p].version) - 1] + 1
                                 /\ Upto(NextVersion(proc[p].version)) \subseteq db.schema

(* Left alone, one process migrates at a time, and the schema is exactly   *)
(* what its place, or user_version if there is none, says.                 *)
Undisturbed ==
  ~torn /\ ~met =>
    /\ \A p, q \in Procs : Migrating(p) /\ Migrating(q) => p = q
    /\ \A p \in Procs :
         /\ proc[p].pc # "failed"
         /\ Migrating(p) => db.version = proc[p].version /\ db.schema = 1..(proc[p].next - 1)
    /\ (\A p \in Procs : ~Migrating(p)) => db.schema = Upto(db.version)

(* A handler writes to a file there is, from the launch to the end.        *)
LogIsThere ==
  /\ log \in [names : Seq(Nat), size : Seq(Nat)]
  /\ log.names # <<>>
  /\ \A i \in 1..Len(log.names) : log.names[i] \in 1..Len(log.size)
  /\ \A p \in Procs : proc[p].pc \notin {"none", "gone"} => stream[p] # 0

IInv ==
  /\ TypeOK
  /\ LogIsThere
  /\ Placed
  /\ Undisturbed
  /\ VersionIsBacked
  /\ LockIsTheLiveCanvas

-----------------------------------------------------------------------------
(* The scripts cover the changes without a gap.                            *)
LEMMA ChangesInOrder ==
  /\ LastChange[SchemaVersion - 1] \in Nat \ {0}
  /\ Upto(SchemaVersion) = Changes
  /\ \A v \in 0..SchemaVersion : Upto(v) \subseteq Changes
BY StartupAssumption DEF Upto, Changes

LEMMA Scripts ==
  ASSUME NEW v \in 0..(SchemaVersion - 1)
  PROVE  /\ NextVersion(v) \in 1..SchemaVersion /\ NextVersion(v) > v
         /\ Script(v) \subseteq Changes
         /\ \A c \in Script(v) : c \in Nat \ {0}
         /\ \A c \in Script(v) : c + 1 \notin Script(v) => c = LastChange[NextVersion(v) - 1]
         /\ Upto(NextVersion(v)) = 1..LastChange[NextVersion(v) - 1]
         /\ LastChange[NextVersion(v) - 1] \in Nat \ {0}
         /\ v = 0 => 1 \in Script(v)
         /\ v # 0 => LastChange[v - 1] + 1 \in Script(v) /\ Upto(v) = 1..LastChange[v - 1]
<1>1. CASE v = 0
  BY <1>1, StartupAssumption DEF NextVersion, Script, Upto, Changes
<1>2. CASE v # 0
  <2>1. v - 1 \in 0..(SchemaVersion - 1) /\ v \in 0..(SchemaVersion - 1) /\ v - 1 < v
        /\ SchemaVersion - 1 \in 0..(SchemaVersion - 1)
    BY <1>2, StartupAssumption
  <2>2. LastChange[v - 1] < LastChange[v] /\ LastChange[v - 1] \in Nat \ {0} /\ LastChange[v] \in Nat \ {0}
    BY <2>1, StartupAssumption
  <2>3. LastChange[v] =< LastChange[SchemaVersion - 1] /\ LastChange[SchemaVersion - 1] \in Nat
    BY <2>1, StartupAssumption
  <2>4. NextVersion(v) = v + 1 /\ Script(v) = (LastChange[v - 1] + 1)..LastChange[v] /\ Upto(v) = 1..LastChange[v - 1]
        /\ Upto(v + 1) = 1..LastChange[v] /\ v + 1 - 1 = v
    BY <1>2 DEF NextVersion, Script, Upto
  <2>5. QED
    BY <1>2, <2>2, <2>3, <2>4, StartupAssumption DEF Changes
<1>3. QED
  BY <1>1, <1>2

(* A rotation keeps the newest files.                                      *)
LEMMA FrontOfNames ==
  ASSUME NEW names \in Seq(Nat), names # <<>>, NEW new, \A i \in 1..Len(names) : names[i] \in 1..new,
         NEW n \in Nat \ {0}, NEW kept, kept = IF Len(names) > n THEN SubSeq(names, 1, n) ELSE names
  PROVE  kept \in Seq(Nat) /\ kept # <<>> /\ \A i \in 1..Len(kept) : kept[i] \in 1..new
<1>1. CASE Len(names) > n
  <2>1. kept = SubSeq(names, 1, n) /\ n <= Len(names) /\ \A i \in 1..n : names[i] \in Nat
    BY <1>1
  <2>2. kept \in Seq(Nat) /\ Len(kept) = n /\ \A i \in 1..n : kept[i] = names[i]
    BY <2>1, SubSeqProperties
  <2>3. QED
    BY <2>1, <2>2
<1>2. CASE ~(Len(names) > n)
  BY <1>2
<1>3. QED
  BY <1>1, <1>2

(* A line logged goes to a file there is.                                  *)
LEMMA LoggedKeepsLog ==
  ASSUME log \in [names : Seq(Nat), size : Seq(Nat)], log.names # <<>>,
         \A i \in 1..Len(log.names) : log.names[i] \in 1..Len(log.size),
         stream \in [Procs -> 0..Len(log.size)],
         NEW p \in Procs, NEW f \in 1..Len(log.size), Logged(p, f)
  PROVE  /\ log' \in [names : Seq(Nat), size : Seq(Nat)]
         /\ log'.names # <<>>
         /\ \A i \in 1..Len(log'.names) : log'.names[i] \in 1..Len(log'.size)
         /\ stream' \in [Procs -> 0..Len(log'.size)]
         /\ stream'[p] # 0 /\ \A q \in Procs : q # p => stream'[q] = stream[q]
<1>1. CASE log.size[f] < MaxSize
  <2>1. /\ log' = [log EXCEPT !.size = [log.size EXCEPT ![f] = log.size[f] + 1]]
        /\ stream' = [stream EXCEPT ![p] = f]
    BY <1>1 DEF Logged
  <2>2. /\ log.size[f] + 1 \in Nat
        /\ [log.size EXCEPT ![f] = log.size[f] + 1] \in Seq(Nat)
        /\ Len([log.size EXCEPT ![f] = log.size[f] + 1]) = Len(log.size)
    OBVIOUS
  <2>3. log'.names = log.names /\ log'.size = [log.size EXCEPT ![f] = log.size[f] + 1]
        /\ log' \in [names : Seq(Nat), size : Seq(Nat)]
    BY <2>1, <2>2
  <2>4. QED
    BY <2>1, <2>2, <2>3
<1>2. CASE ~(log.size[f] < MaxSize)
  <2> DEFINE new == Len(log.size) + 1
             names == <<new>> \o log.names
             kept == IF Len(names) > BackupCount + 1 THEN SubSeq(names, 1, BackupCount + 1) ELSE names
  <2>1. /\ log' = [names |-> kept, size |-> Append(log.size, 1)]
        /\ stream' = [stream EXCEPT ![p] = new]
    BY <1>2 DEF Logged
  <2>2. /\ names \in Seq(Nat) /\ Len(names) = Len(log.names) + 1
        /\ \A i \in 1..Len(names) : names[i] \in 1..new
    <3>1. log.names \in Seq(Nat) /\ <<new>> \in Seq(Nat) /\ Len(<<new>>) = 1 /\ <<new>>[1] = new
          /\ new \in Nat \ {0}
      OBVIOUS
    <3>2. /\ names \in Seq(Nat) /\ Len(names) = 1 + Len(log.names)
          /\ \A i \in 1..Len(names) : names[i] = IF i =< 1 THEN <<new>>[i] ELSE log.names[i - 1]
      BY <3>1, ConcatProperties
    <3> HIDE DEF names
    <3>3. QED
      <4>1. ASSUME NEW i \in 1..Len(names) PROVE names[i] \in 1..new
        <5>1. CASE i = 1
          BY <3>1, <3>2, <5>1
        <5>2. CASE i # 1
          <6>1. i - 1 \in 1..Len(log.names)
            BY <3>2, <5>2
          <6>2. names[i] = log.names[i - 1]
            BY <3>1, <3>2, <5>2
          <6>3. log.names[i - 1] \in 1..Len(log.size) /\ Len(log.size) \in Nat
            BY <6>1
          <6>4. QED
            BY <6>2, <6>3
        <5>3. QED
          BY <5>1, <5>2
      <4>2. QED
        BY <3>2, <4>1
  <2> HIDE DEF names
  <2>3. kept \in Seq(Nat) /\ kept # <<>> /\ \A i \in 1..Len(kept) : kept[i] \in 1..new
    <3>1. BackupCount + 1 \in Nat \ {0}
      BY StartupAssumption
    <3>2. names # <<>>
      BY <2>2
    <3>3. QED
      BY <2>2, <3>1, <3>2, FrontOfNames
  <2>4. Append(log.size, 1) \in Seq(Nat) /\ Len(Append(log.size, 1)) = new /\ new \in Nat \ {0}
    OBVIOUS
  <2> HIDE DEF kept
  <2>5. log'.names = kept /\ log'.size = Append(log.size, 1) /\ log' \in [names : Seq(Nat), size : Seq(Nat)]
    BY <2>1, <2>3, <2>4
  <2>6. stream' \in [Procs -> 0..new] /\ stream'[p] = new /\ \A q \in Procs : q # p => stream'[q] = stream[q]
    BY <2>1, <2>4
  <2>7. QED
    BY <2>3, <2>4, <2>5, <2>6
<1>3. QED
  BY <1>1, <1>2

-----------------------------------------------------------------------------
Cmds == {"none", "canvas", "ingest", "other"}
Places == {"none", "open", "script", "version", "lock", "stamp", "readpid", "running",
           "refused", "failed", "gone"}
ProcType == [cmd : Cmds, pc : Places, version : 0..SchemaVersion,
             next : 0..(LastChange[SchemaVersion - 1] + 1), shown : Procs \cup {NoProc}]

LEMMA ProcTyped == ASSUME TypeOK PROVE proc \in [Procs -> ProcType]
BY DEF TypeOK, ProcType, Cmds, Places

LEMMA InitEstablishesIInv == ASSUME Init PROVE IInv
<1>1. PICK v \in 0..SchemaVersion : db = [version |-> v, schema |-> Upto(v)]
  BY DEF Init
<1>2. /\ proc = [p \in Procs |-> NotLaunched] /\ lock = [holder |-> NoProc, pid |-> NoProc]
      /\ log = [names |-> <<1>>, size |-> <<0>>] /\ stream = [p \in Procs |-> 0]
      /\ torn = FALSE /\ met = FALSE
  BY DEF Init
<1>3. \A p \in Procs : proc[p] = NotLaunched /\ ~Migrating(p) /\ ~Holding(p)
  BY <1>2 DEF NotLaunched, Migrating, Holding
<1>4. TypeOK
  <2>1. NotLaunched \in ProcType
    BY ChangesInOrder, StartupAssumption DEF NotLaunched, ProcType, Cmds, Places
  <2>2. proc \in [Procs -> ProcType]
    BY <1>2, <2>1
  <2>3. db \in [version : 0..SchemaVersion, schema : SUBSET Changes]
    BY <1>1, ChangesInOrder
  <2>4. stream \in [Procs -> 0..Len(log.size)]
    BY <1>2
  <2>5. QED
    BY <1>2, <2>2, <2>3, <2>4 DEF TypeOK, ProcType, Cmds, Places
<1>5. LogIsThere
  BY <1>2, <1>3 DEF LogIsThere, NotLaunched
<1>6. Placed
  BY <1>3 DEF Placed, NotLaunched
<1>7. Undisturbed
  BY <1>1, <1>3 DEF Undisturbed, NotLaunched
<1>8. VersionIsBacked
  BY <1>1, <1>3 DEF VersionIsBacked, NotLaunched
<1>9. LockIsTheLiveCanvas
  BY <1>2, <1>3, StartupAssumption DEF LockIsTheLiveCanvas
<1>10. QED
  BY <1>4, <1>5, <1>6, <1>7, <1>8, <1>9 DEF IInv

-----------------------------------------------------------------------------
(* The logs do not matter to the rest.                                     *)
LEMMA LoggingKeepsLogIsThere ==
  ASSUME IInv, NEW p \in Procs, NEW f \in 1..Len(log.size), Logged(p, f),
         \A q \in Procs : q # p => proc'[q] = proc[q]
  PROVE  LogIsThere' /\ stream' \in [Procs -> 0..Len(log'.size)]
<1>1. /\ log \in [names : Seq(Nat), size : Seq(Nat)] /\ log.names # <<>>
      /\ \A i \in 1..Len(log.names) : log.names[i] \in 1..Len(log.size)
      /\ stream \in [Procs -> 0..Len(log.size)]
      /\ \A q \in Procs : proc[q].pc \notin {"none", "gone"} => stream[q] # 0
  BY DEF IInv, TypeOK, LogIsThere
<1>2. QED
  BY <1>1, LoggedKeepsLog DEF LogIsThere

LEMMA LaunchKeepsIInv ==
  ASSUME IInv, NEW p \in Procs, NEW cmd \in {"canvas", "ingest", "other"}, Launch(p, cmd)
  PROVE  IInv'
<1> DEFINE pc == IF cmd = "other" THEN "running" ELSE "open"
<1>1. /\ proc[p].pc = "none" /\ Logged(p, Head(log.names))
      /\ proc' = [proc EXCEPT ![p] = [proc[p] EXCEPT !.cmd = cmd, !.pc = pc]]
      /\ UNCHANGED <<db, lock, torn, met>>
  BY DEF Launch
<1>2. proc \in [Procs -> ProcType] /\ TypeOK
  BY ProcTyped DEF IInv
<1>3. /\ proc'[p] = [proc[p] EXCEPT !.cmd = cmd, !.pc = pc]
      /\ proc' \in [Procs -> ProcType] /\ proc'[p].cmd = cmd /\ proc'[p].pc = pc
      /\ \A q \in Procs : q # p => proc'[q] = proc[q]
  BY <1>1, <1>2 DEF ProcType, Cmds, Places
<1>4. Head(log.names) \in 1..Len(log.size)
  BY DEF IInv, LogIsThere
<1>5. LogIsThere' /\ stream' \in [Procs -> 0..Len(log'.size)]
  BY <1>1, <1>3, <1>4, LoggingKeepsLogIsThere
<1>6. /\ cmd = "other" => pc = "running"
      /\ cmd # "other" => pc = "open"
  OBVIOUS
<1> HIDE DEF pc
<1>7. /\ ~Migrating(p)' /\ ~Migrating(p)
      /\ \A q \in Procs : Migrating(q)' <=> Migrating(q)
  BY <1>1, <1>3, <1>6 DEF Migrating
<1>8. \A q \in Procs : Holding(q)' <=> Holding(q)
  BY <1>1, <1>3, <1>6 DEF Holding
<1>9. TypeOK'
  BY <1>1, <1>2, <1>3, <1>5 DEF TypeOK, ProcType, Cmds, Places
<1>10. Placed'
  BY <1>1, <1>3, <1>6 DEF IInv, Placed
<1>11. Undisturbed'
  BY <1>1, <1>3, <1>6, <1>7 DEF IInv, Undisturbed
<1>12. VersionIsBacked'
  BY <1>1, <1>3, <1>6 DEF IInv, VersionIsBacked
<1>13. LockIsTheLiveCanvas'
  BY <1>1, <1>8 DEF IInv, LockIsTheLiveCanvas
<1>14. QED
  BY <1>5, <1>9, <1>10, <1>11, <1>12, <1>13 DEF IInv

LEMMA LogLineKeepsIInv == ASSUME IInv, NEW p \in Procs, LogLine(p) PROVE IInv'
<1>1. /\ proc[p].pc = "running" /\ Logged(p, stream[p])
      /\ UNCHANGED <<db, proc, lock, torn, met>>
  BY DEF LogLine
<1>2. stream[p] \in 1..Len(log.size)
  <2>1. stream[p] # 0
    BY <1>1 DEF IInv, LogIsThere
  <2>2. stream[p] \in 0..Len(log.size) /\ Len(log.size) \in Nat
    BY DEF IInv, TypeOK, LogIsThere
  <2>3. QED
    BY <2>1, <2>2
<1>3. LogIsThere' /\ stream' \in [Procs -> 0..Len(log'.size)]
  BY <1>1, <1>2, LoggingKeepsLogIsThere
<1>4. TypeOK'
  BY <1>1, <1>3 DEF IInv, TypeOK
<1>5. Placed' /\ Undisturbed' /\ VersionIsBacked' /\ LockIsTheLiveCanvas'
  BY <1>1 DEF IInv, Placed, Undisturbed, VersionIsBacked, LockIsTheLiveCanvas, Migrating, Holding
<1>6. QED
  BY <1>3, <1>4, <1>5 DEF IInv

-----------------------------------------------------------------------------
(* Steps that log nothing, of a process that stays launched.               *)
LEMMA QuietStep ==
  ASSUME IInv, NEW p \in Procs, UNCHANGED logVars, proc[p].pc \notin {"none", "gone"},
         \A q \in Procs : q # p => proc'[q] = proc[q]
  PROVE  LogIsThere' /\ stream' \in [Procs -> 0..Len(log'.size)]
BY DEF IInv, TypeOK, LogIsThere, logVars

(* a step of one process, that neither begins nor ends to hold the lock    *)
LEMMA LockUntouched ==
  ASSUME LockIsTheLiveCanvas, NEW p \in Procs, UNCHANGED lock, Holding(p)' <=> Holding(p),
         \A q \in Procs : q # p => proc'[q] = proc[q]
  PROVE  LockIsTheLiveCanvas'
BY DEF LockIsTheLiveCanvas, Holding

LEMMA ReadVersionKeepsIInv == ASSUME IInv, NEW p \in Procs, ReadVersion(p) PROVE IInv'
<1>0. proc \in [Procs -> ProcType] /\ TypeOK
  BY ProcTyped DEF IInv
<1>1. proc[p].pc = "open" /\ UNCHANGED <<db, lock, logVars, torn>> /\ ~Migrating(p) /\ ~Holding(p)
  BY DEF ReadVersion, Migrating, Holding
<1>2. CASE db.version >= SchemaVersion
  <2> DEFINE pc == Opened(p)
  <2>1. proc' = [proc EXCEPT ![p] = [proc[p] EXCEPT !.pc = pc]] /\ UNCHANGED met
    BY <1>2 DEF ReadVersion
  <2>2. pc \in {"lock", "running"} /\ (pc = "lock" <=> proc[p].cmd = "canvas")
    BY DEF Opened
  <2> HIDE DEF pc
  <2>3. /\ proc'[p] = [proc[p] EXCEPT !.pc = pc] /\ proc'[p].pc = pc /\ proc'[p].cmd = proc[p].cmd
        /\ proc' \in [Procs -> ProcType]
        /\ \A q \in Procs : q # p => proc'[q] = proc[q]
    BY <1>0, <2>1, <2>2 DEF ProcType, Places
  <2>4. \A q \in Procs : Migrating(q)' <=> Migrating(q)
    BY <1>1, <2>2, <2>3 DEF Migrating
  <2>5. ~Holding(p)'
    BY <2>2, <2>3 DEF Holding
  <2>6. db.schema = Changes
    <3>1. db.version = SchemaVersion
      BY <1>0, <1>2, StartupAssumption DEF TypeOK
    <3>2. Upto(SchemaVersion) \subseteq db.schema /\ db.schema \subseteq Changes
      BY <1>0, <3>1 DEF IInv, VersionIsBacked, TypeOK
    <3>3. QED
      BY <3>2, ChangesInOrder
  <2>7. LogIsThere' /\ stream' \in [Procs -> 0..Len(log'.size)]
    BY <1>1, <2>3, QuietStep
  <2>8. TypeOK'
    BY <1>0, <1>1, <2>1, <2>3, <2>7 DEF TypeOK, ProcType, Cmds, Places
  <2>9. Placed'
    BY <1>1, <2>2, <2>3 DEF IInv, Placed
  <2>10. Undisturbed'
    <3>1. proc'[p].pc # "failed"
      BY <2>2, <2>3
    <3>2. \A q \in Procs : Migrating(q) => q # p
      BY <1>1
    <3>3. QED
      BY <1>1, <2>1, <2>3, <2>4, <3>1, <3>2 DEF IInv, Undisturbed
  <2>11. VersionIsBacked'
    BY <1>1, <2>3, <2>6 DEF IInv, VersionIsBacked
  <2>12. LockIsTheLiveCanvas'
    BY <1>1, <2>3, <2>5, LockUntouched DEF IInv
  <2>13. QED
    BY <2>7, <2>8, <2>9, <2>10, <2>11, <2>12 DEF IInv
<1>3. CASE ~(db.version >= SchemaVersion)
  <2> DEFINE v == db.version
             next == IF v = 0 THEN 1 ELSE LastChange[v - 1] + 1
             new == [proc[p] EXCEPT !.pc = "script", !.version = v, !.next = next]
  <2>1. proc' = [proc EXCEPT ![p] = new] /\ met' = (met \/ \E q \in Procs : Migrating(q))
    BY <1>3 DEF ReadVersion
  <2>2. v \in 0..(SchemaVersion - 1)
    BY <1>0, <1>3, StartupAssumption DEF TypeOK
  <2>3. next \in Script(v) /\ Upto(v) = 1..(next - 1) /\ next \in Nat \ {0} /\ next \in Changes
    <3>1. CASE v = 0
      BY <2>2, <3>1, Scripts DEF Upto
    <3>2. CASE v # 0
      <4>1. LastChange[v - 1] + 1 \in Script(v) /\ Upto(v) = 1..LastChange[v - 1] /\ LastChange[v - 1] \in Nat
        <5>1. LastChange[v - 1] + 1 \in Script(v) /\ Upto(v) = 1..LastChange[v - 1]
          BY <2>2, <3>2, Scripts
        <5>2. v - 1 \in 0..(SchemaVersion - 1)
          BY <2>2, <3>2, StartupAssumption
        <5>3. QED
          BY <5>1, <5>2, StartupAssumption
      <4>2. next = LastChange[v - 1] + 1 /\ next \in Nat \ {0} /\ next - 1 = LastChange[v - 1]
        BY <3>2, <4>1
      <4>3. next \in Script(v) /\ Script(v) \subseteq Changes
        BY <2>2, <4>1, <4>2, Scripts
      <4>4. QED
        BY <4>1, <4>2, <4>3
    <3>3. QED
      BY <3>1, <3>2
  <2>4. Upto(v) \subseteq db.schema /\ v < SchemaVersion
    BY <2>2, StartupAssumption DEF IInv, VersionIsBacked
  <2>5. next \in 0..(LastChange[SchemaVersion - 1] + 1) /\ v \in 0..SchemaVersion
    BY <2>2, <2>3, ChangesInOrder, StartupAssumption DEF Changes
  <2> HIDE DEF next
  <2>6. /\ new \in ProcType /\ new.pc = "script" /\ new.version = v /\ new.next = next /\ new.cmd = proc[p].cmd
    BY <1>0, <2>5 DEF ProcType, Places
  <2> HIDE DEF new, v
  <2>7. proc'[p] = new /\ proc' \in [Procs -> ProcType] /\ \A q \in Procs : q # p => proc'[q] = proc[q]
    BY <1>0, <2>1, <2>6
  <2>8. LogIsThere' /\ stream' \in [Procs -> 0..Len(log'.size)]
    BY <1>1, <2>7, QuietStep
  <2>9. TypeOK'
    <3>1. met' \in BOOLEAN
      BY <1>0, <2>1 DEF TypeOK
    <3>2. QED
      BY <1>0, <1>1, <2>7, <2>8, <3>1 DEF TypeOK, ProcType, Cmds, Places
  <2>10. Placed'
    BY <1>1, <2>3, <2>4, <2>6, <2>7 DEF IInv, Placed
  <2>11. Undisturbed'
    <3> SUFFICES ASSUME ~torn', ~met' PROVE Undisturbed'
      BY DEF Undisturbed
    <3>1. ~torn /\ ~met /\ \A q \in Procs : ~Migrating(q)
      BY <1>1, <2>1
    <3>2. db.schema = Upto(db.version) /\ \A q \in Procs : proc[q].pc # "failed"
      BY <3>1 DEF IInv, Undisturbed
    <3>3. \A q \in Procs : Migrating(q)' => q = p
      BY <2>7, <3>1 DEF Migrating
    <3>4. Migrating(p)'
      BY <2>6, <2>7 DEF Migrating
    <3>5. db'.version = proc'[p].version /\ db'.schema = 1..(proc'[p].next - 1)
      BY <1>1, <2>3, <2>6, <2>7, <3>2 DEF v
    <3>6. \A q \in Procs : proc'[q].pc # "failed"
      BY <2>6, <2>7, <3>2
    <3>7. QED
      BY <3>3, <3>4, <3>5, <3>6 DEF Undisturbed
  <2>12. VersionIsBacked'
    BY <1>1, <2>6, <2>7 DEF IInv, VersionIsBacked
  <2>13. LockIsTheLiveCanvas'
    <3>1. ~Holding(p)'
      BY <2>6, <2>7 DEF Holding
    <3>2. QED
      BY <1>1, <2>7, <3>1, LockUntouched DEF IInv
  <2>14. QED
    BY <2>8, <2>9, <2>10, <2>11, <2>12, <2>13 DEF IInv
<1>4. QED
  BY <1>2, <1>3

LEMMA RunStatementKeepsIInv == ASSUME IInv, NEW p \in Procs, RunStatement(p) PROVE IInv'
<1> DEFINE c == proc[p].next
           v == proc[p].version
           done == c + 1 \notin Script(v)
           pc == IF done THEN "version" ELSE "script"
<1>0. proc \in [Procs -> ProcType] /\ TypeOK
  BY ProcTyped DEF IInv
<1>1. /\ proc[p].pc = "script" /\ Migrating(p) /\ ~Holding(p)
      /\ UNCHANGED <<lock, logVars, torn, met>>
  BY DEF RunStatement, Migrating, Holding
<1>2. /\ v \in 0..(SchemaVersion - 1) /\ c \in Script(v) /\ 1..(c - 1) \subseteq db.schema
  BY <1>0, <1>1, StartupAssumption DEF IInv, Placed, ProcType
<1>3. c \in Nat \ {0} /\ c \in Changes /\ c \in 0..LastChange[SchemaVersion - 1] /\ LastChange[SchemaVersion - 1] \in Nat
  BY <1>2, Scripts, ChangesInOrder DEF Changes
<1>4. CASE c \in db.schema
  <2>1. proc' = [proc EXCEPT ![p] = [proc[p] EXCEPT !.pc = "failed"]] /\ UNCHANGED db
    BY <1>4 DEF RunStatement
  <2>2. /\ proc'[p].pc = "failed" /\ proc'[p].cmd = proc[p].cmd /\ proc' \in [Procs -> ProcType]
        /\ \A q \in Procs : q # p => proc'[q] = proc[q]
    BY <1>0, <2>1 DEF ProcType, Places
  <2>3. LogIsThere' /\ stream' \in [Procs -> 0..Len(log'.size)]
    BY <1>1, <2>2, QuietStep
  <2>4. TypeOK'
    BY <1>0, <1>1, <2>1, <2>2, <2>3 DEF TypeOK, ProcType, Cmds, Places
  <2>5. Placed' /\ VersionIsBacked'
    BY <2>1, <2>2 DEF IInv, Placed, VersionIsBacked
  <2>6. Undisturbed'
    <3>1. ~(~torn /\ ~met)
      <4> SUFFICES ASSUME ~torn, ~met PROVE FALSE
        OBVIOUS
      <4>1. db.schema = 1..(c - 1)
        BY <1>1 DEF IInv, Undisturbed
      <4>2. QED
        BY <1>3, <1>4, <4>1
    <3>2. QED
      BY <1>1, <3>1 DEF Undisturbed
  <2>7. LockIsTheLiveCanvas'
    <3>1. ~Holding(p)'
      BY <2>2 DEF Holding
    <3>2. QED
      BY <1>1, <2>2, <3>1, LockUntouched DEF IInv
  <2>8. QED
    BY <2>3, <2>4, <2>5, <2>6, <2>7 DEF IInv
<1>5. CASE c \notin db.schema
  <2>1. /\ db' = [db EXCEPT !.schema = db.schema \cup {c}]
        /\ proc' = [proc EXCEPT ![p] = [proc[p] EXCEPT !.next = c + 1, !.pc = pc]]
    BY <1>5 DEF RunStatement
  <2>2. pc \in {"version", "script"} /\ (pc = "version" <=> done) /\ c + 1 \in 0..(LastChange[SchemaVersion - 1] + 1)
    BY <1>3
  <2>3. done => c = LastChange[NextVersion(v) - 1]
    BY <1>2, Scripts
  <2> HIDE DEF pc
  <2>4. /\ proc'[p].pc = pc /\ proc'[p].next = c + 1 /\ proc'[p].version = v /\ proc'[p].cmd = proc[p].cmd
        /\ proc' \in [Procs -> ProcType]
        /\ \A q \in Procs : q # p => proc'[q] = proc[q]
    BY <1>0, <2>1, <2>2 DEF ProcType, Places
  <2>5. db'.version = db.version /\ db'.schema = db.schema \cup {c}
    <3>1. db = [version |-> db.version, schema |-> db.schema]
      BY <1>0 DEF TypeOK
    <3>2. QED
      BY <2>1, <3>1
  <2>6. LogIsThere' /\ stream' \in [Procs -> 0..Len(log'.size)]
    BY <1>1, <2>4, QuietStep
  <2>7. TypeOK'
    <3>1. db' \in [version : 0..SchemaVersion, schema : SUBSET Changes]
      BY <1>0, <1>3, <2>1 DEF TypeOK
    <3>2. QED
      BY <1>0, <1>1, <2>4, <2>6, <3>1 DEF TypeOK, ProcType, Cmds, Places
  <2>8. 1..(c + 1 - 1) \subseteq db'.schema
    BY <1>2, <1>3, <2>5
  <2>9. Placed'
    <3>1. pc = "script" => c + 1 \in Script(v)
      BY <2>2
    <3>2. pc = "version" => c + 1 = LastChange[NextVersion(v) - 1] + 1 /\ Upto(NextVersion(v)) \subseteq db'.schema
      <4>1. Upto(NextVersion(v)) = 1..LastChange[NextVersion(v) - 1]
        BY <1>2, Scripts
      <4>2. QED
        BY <1>3, <2>2, <2>3, <2>8, <4>1
    <3>3. v < SchemaVersion
      BY <1>2, StartupAssumption
    <3> HIDE DEF done, c, v
    <3>4. \A q \in Procs : q # p => proc'[q] = proc[q]
      BY <2>4
    <3>5. /\ proc'[p].pc \in {"version", "script"}
          /\ proc'[p].pc = "script" => /\ proc'[p].version < SchemaVersion
                                       /\ proc'[p].next \in Script(proc'[p].version)
                                       /\ 1..(proc'[p].next - 1) \subseteq db'.schema
          /\ proc'[p].pc = "version" => /\ proc'[p].version < SchemaVersion
                                        /\ proc'[p].next = LastChange[NextVersion(proc'[p].version) - 1] + 1
                                        /\ Upto(NextVersion(proc'[p].version)) \subseteq db'.schema
      BY <1>2, <1>3, <2>2, <2>4, <2>8, <3>1, <3>2, <3>3
    <3>6. db.schema \subseteq db'.schema
      BY <2>5
    <3>7. QED
      BY <3>4, <3>5, <3>6 DEF IInv, Placed
  <2>10. Undisturbed'
    <3> SUFFICES ASSUME ~torn', ~met' PROVE Undisturbed'
      BY DEF Undisturbed
    <3>1. \A q \in Procs : Migrating(q)' <=> Migrating(q)
      BY <1>1, <2>2, <2>4 DEF Migrating
    <3>2. ~torn /\ ~met
      BY <1>1
    <3>3. /\ \A x, q \in Procs : Migrating(x) /\ Migrating(q) => x = q
          /\ db.version = v /\ db.schema = 1..(c - 1)
          /\ \A q \in Procs : proc[q].pc # "failed"
      BY <1>1, <3>2 DEF IInv, Undisturbed
    <3>4. db'.version = proc'[p].version /\ db'.schema = 1..(proc'[p].next - 1)
      <4>1. db'.schema = 1..(c + 1 - 1)
        BY <1>3, <2>5, <3>3
      <4> HIDE DEF c, v, done
      <4>2. QED
        BY <1>2, <1>3, <2>4, <2>5, <3>3, <4>1
    <3>5. \A q \in Procs : proc'[q].pc # "failed"
      BY <2>2, <2>4, <3>3
    <3>6. Migrating(p)' /\ \A q \in Procs : Migrating(q)' => q = p
      BY <1>1, <3>1, <3>3
    <3>7. QED
      BY <3>4, <3>5, <3>6 DEF Undisturbed
  <2>11. VersionIsBacked'
    BY <1>0, <1>3, <2>2, <2>4, <2>5 DEF IInv, VersionIsBacked, TypeOK
  <2>12. LockIsTheLiveCanvas'
    <3>1. ~Holding(p)'
      BY <2>2, <2>4 DEF Holding
    <3>2. QED
      BY <1>1, <2>4, <3>1, LockUntouched DEF IInv
  <2>13. QED
    BY <2>6, <2>7, <2>9, <2>10, <2>11, <2>12 DEF IInv
<1>6. QED
  BY <1>4, <1>5

LEMMA SetVersionKeepsIInv == ASSUME IInv, NEW p \in Procs, SetVersion(p) PROVE IInv'
<1> DEFINE old == proc[p].version
           v == NextVersion(old)
           pc == IF v = SchemaVersion THEN Opened(p) ELSE "script"
<1>0. proc \in [Procs -> ProcType] /\ TypeOK
  BY ProcTyped DEF IInv
<1>1. /\ proc[p].pc = "version" /\ Migrating(p) /\ ~Holding(p)
      /\ UNCHANGED <<lock, logVars, torn, met>>
  BY DEF SetVersion, Migrating, Holding
<1>2. /\ old \in 0..(SchemaVersion - 1)
      /\ proc[p].next = LastChange[v - 1] + 1 /\ Upto(v) \subseteq db.schema
  BY <1>0, <1>1, StartupAssumption DEF IInv, Placed, ProcType
<1>3. v \in 1..SchemaVersion /\ Upto(v) = 1..LastChange[v - 1] /\ LastChange[v - 1] \in Nat \ {0}
  BY <1>2, Scripts
<1>4. /\ db' = [db EXCEPT !.version = v]
      /\ proc' = [proc EXCEPT ![p] = [proc[p] EXCEPT !.version = v, !.pc = pc]]
  BY DEF SetVersion
<1>5. /\ v = SchemaVersion => pc \in {"lock", "running"} /\ (pc = "lock" <=> proc[p].cmd = "canvas")
      /\ v # SchemaVersion => pc = "script"
  BY DEF Opened
<1>6. v # SchemaVersion => v < SchemaVersion /\ LastChange[v - 1] + 1 \in Script(v)
  <2> SUFFICES ASSUME v # SchemaVersion PROVE v < SchemaVersion /\ LastChange[v - 1] + 1 \in Script(v)
    OBVIOUS
  <2>1. v \in 0..(SchemaVersion - 1) /\ v # 0 /\ v < SchemaVersion
    BY <1>3, StartupAssumption
  <2> HIDE DEF v
  <2>2. QED
    BY <2>1, Scripts
<1> HIDE DEF pc, v, old
<1>7. /\ proc'[p].pc = pc /\ proc'[p].version = v /\ proc'[p].next = proc[p].next /\ proc'[p].cmd = proc[p].cmd
      /\ proc' \in [Procs -> ProcType]
      /\ \A q \in Procs : q # p => proc'[q] = proc[q]
  <2>1. pc \in Places
    BY <1>5 DEF Places
  <2>2. v \in 0..SchemaVersion
    BY <1>3
  <2>3. QED
    BY <1>0, <1>4, <2>1, <2>2 DEF ProcType
<1>8. db' \in [version : 0..SchemaVersion, schema : SUBSET Changes]
      /\ db'.version = v /\ db'.schema = db.schema
  <2>1. v \in 0..SchemaVersion
    BY <1>3
  <2>2. QED
    BY <1>0, <1>4, <2>1 DEF TypeOK
<1>9. LogIsThere' /\ stream' \in [Procs -> 0..Len(log'.size)]
  BY <1>1, <1>7, QuietStep
<1>10. TypeOK'
  BY <1>0, <1>1, <1>7, <1>8, <1>9 DEF TypeOK, ProcType, Cmds, Places
<1>11. Placed'
  <2>1. proc'[p].next = LastChange[v - 1] + 1 /\ 1..(proc'[p].next - 1) \subseteq db'.schema
    BY <1>2, <1>3, <1>7, <1>8 DEF v, old
  <2>2. proc'[p].pc = "script" => proc'[p].version < SchemaVersion /\ proc'[p].next \in Script(proc'[p].version)
    BY <1>5, <1>6, <1>7, <2>1
  <2>3. proc'[p].pc # "version" /\ proc'[p].pc \notin {"stamp", "readpid", "refused"}
        /\ (proc'[p].pc = "lock" => proc'[p].cmd = "canvas")
    BY <1>5, <1>7
  <2>4. QED
    BY <1>7, <1>8, <2>1, <2>2, <2>3 DEF IInv, Placed
<1>12. Undisturbed'
  <2> SUFFICES ASSUME ~torn', ~met' PROVE Undisturbed'
    BY DEF Undisturbed
  <2>1. ~torn /\ ~met
    BY <1>1
  <2>2. /\ \A x, q \in Procs : Migrating(x) /\ Migrating(q) => x = q
        /\ db.schema = 1..(proc[p].next - 1)
        /\ \A q \in Procs : proc[q].pc # "failed"
    BY <1>1, <2>1 DEF IInv, Undisturbed
  <2>3. \A q \in Procs : Migrating(q)' => q = p
    BY <1>1, <1>7, <2>2 DEF Migrating
  <2>4. db'.version = v /\ db'.schema = Upto(v) /\ db'.schema = 1..(proc'[p].next - 1)
    <3>1. proc[p].next - 1 = LastChange[v - 1]
      BY <1>2, <1>3 DEF v, old
    <3>2. QED
      BY <1>3, <1>7, <1>8, <2>2, <3>1
  <2>5. \A q \in Procs : proc'[q].pc # "failed"
    BY <1>5, <1>7, <2>2
  <2>6. QED
    BY <1>7, <2>3, <2>4, <2>5 DEF Undisturbed
<1>13. VersionIsBacked'
  <2>1. Upto(db'.version) \subseteq db'.schema
    BY <1>2, <1>8 DEF v, old
  <2>2. v = SchemaVersion => db.schema = Changes
    BY <1>0, <1>8, <2>1, ChangesInOrder DEF TypeOK
  <2>3. proc'[p].pc # "script" => db'.schema = Changes
    BY <1>5, <1>7, <1>8, <2>2
  <2>4. QED
    BY <1>7, <1>8, <2>1, <2>3 DEF IInv, VersionIsBacked
<1>14. LockIsTheLiveCanvas'
  <2>1. ~Holding(p)'
    BY <1>5, <1>7 DEF Holding
  <2>2. QED
    BY <1>1, <1>7, <2>1, LockUntouched DEF IInv
<1>15. QED
  BY <1>9, <1>10, <1>11, <1>12, <1>13, <1>14 DEF IInv

-----------------------------------------------------------------------------
(* The lock.                                                               *)
LEMMA PcStep ==
  ASSUME IInv, NEW p \in Procs, NEW pc \in Places, NEW s \in Procs \cup {NoProc},
         proc' = [proc EXCEPT ![p] = [proc[p] EXCEPT !.pc = pc, !.shown = s]],
         UNCHANGED <<db, logVars, torn, met>>,
         proc[p].pc \in {"lock", "stamp", "readpid"},
         pc \in {"stamp", "readpid", "running", "refused"},
         lock' \in [holder : Procs \cup {NoProc}, pid : Procs \cup {NoProc}]
  PROVE  /\ TypeOK' /\ LogIsThere' /\ Placed' /\ Undisturbed' /\ VersionIsBacked'
         /\ proc'[p].pc = pc /\ proc[p].cmd = "canvas" /\ proc'[p].cmd = "canvas"
         /\ \A q \in Procs : q # p => proc'[q] = proc[q]
<1>0. proc \in [Procs -> ProcType] /\ TypeOK
  BY ProcTyped DEF IInv
<1>1. /\ proc'[p].pc = pc /\ proc'[p].cmd = proc[p].cmd /\ proc' \in [Procs -> ProcType]
      /\ \A q \in Procs : q # p => proc'[q] = proc[q]
  BY <1>0 DEF ProcType
<1>2. proc[p].cmd = "canvas" /\ ~Migrating(p)
  BY DEF IInv, Placed, Migrating
<1>3. db.schema = Changes
  BY <1>2 DEF IInv, VersionIsBacked
<1>4. LogIsThere' /\ stream' \in [Procs -> 0..Len(log'.size)]
  BY <1>1, QuietStep
<1>5. TypeOK'
  BY <1>0, <1>1, <1>4 DEF TypeOK, ProcType, Cmds, Places
<1>6. Placed' /\ VersionIsBacked'
  BY <1>1, <1>2, <1>3 DEF IInv, Placed, VersionIsBacked
<1>7. \A q \in Procs : (Migrating(q)' <=> Migrating(q)) /\ (Migrating(q) => proc'[q] = proc[q])
  BY <1>1, <1>2 DEF Migrating
<1>8. Undisturbed'
  BY <1>1, <1>7 DEF IInv, Undisturbed
<1>9. QED
  BY <1>1, <1>2, <1>4, <1>5, <1>6, <1>8

LEMMA AcquireLockKeepsIInv == ASSUME IInv, NEW p \in Procs, AcquireLock(p) PROVE IInv'
<1>0. proc \in [Procs -> ProcType] /\ lock \in [holder : Procs \cup {NoProc}, pid : Procs \cup {NoProc}]
  BY ProcTyped DEF IInv, TypeOK
<1>1. CASE TryLock(p) /\ lock.holder = NoProc
  <2>1. /\ proc[p].pc = "lock" /\ lock' = [lock EXCEPT !.holder = p]
        /\ proc' = [proc EXCEPT ![p] = [proc[p] EXCEPT !.pc = "stamp"]]
        /\ UNCHANGED <<db, logVars, torn, met>>
    BY <1>1 DEF TryLock
  <2>2. /\ proc' = [proc EXCEPT ![p] = [proc[p] EXCEPT !.pc = "stamp", !.shown = proc[p].shown]]
        /\ proc[p].shown \in Procs \cup {NoProc}
    BY <1>0, <2>1 DEF ProcType
  <2>3. lock' \in [holder : Procs \cup {NoProc}, pid : Procs \cup {NoProc}] /\ lock'.holder = p
    BY <1>0, <2>1
  <2>4. /\ TypeOK' /\ LogIsThere' /\ Placed' /\ Undisturbed' /\ VersionIsBacked'
        /\ proc'[p].pc = "stamp" /\ proc'[p].cmd = "canvas"
        /\ \A q \in Procs : q # p => proc'[q] = proc[q]
    BY <2>1, <2>2, <2>3, PcStep DEF Places
  <2>5. LockIsTheLiveCanvas'
    <3>1. \A q \in Procs : ~Holding(q)
      BY <1>1, StartupAssumption DEF IInv, LockIsTheLiveCanvas
    <3>2. \A q \in Procs : Holding(q)' <=> q = p
      BY <2>4, <3>1 DEF Holding
    <3>3. QED
      BY <2>3, <3>2 DEF LockIsTheLiveCanvas
  <2>6. QED
    BY <2>4, <2>5 DEF IInv
<1>2. CASE TryLock(p) /\ lock.holder # NoProc
  <2>1. /\ proc[p].pc = "lock" /\ lock' = lock
        /\ proc' = [proc EXCEPT ![p] = [proc[p] EXCEPT !.pc = "readpid"]]
        /\ UNCHANGED <<db, logVars, torn, met>>
    BY <1>2 DEF TryLock
  <2>2. /\ proc' = [proc EXCEPT ![p] = [proc[p] EXCEPT !.pc = "readpid", !.shown = proc[p].shown]]
        /\ proc[p].shown \in Procs \cup {NoProc}
    BY <1>0, <2>1 DEF ProcType
  <2>3. /\ TypeOK' /\ LogIsThere' /\ Placed' /\ Undisturbed' /\ VersionIsBacked'
        /\ proc'[p].pc = "readpid"
        /\ \A q \in Procs : q # p => proc'[q] = proc[q]
    BY <1>0, <2>1, <2>2, PcStep DEF Places
  <2>4. ~Holding(p)' /\ ~Holding(p)
    BY <2>1, <2>3 DEF Holding
  <2>5. LockIsTheLiveCanvas'
    BY <2>1, <2>3, <2>4, LockUntouched DEF IInv
  <2>6. QED
    BY <2>3, <2>5 DEF IInv
<1>3. CASE StampPid(p)
  <2>1. /\ proc[p].pc = "stamp" /\ lock' = [lock EXCEPT !.pid = p]
        /\ proc' = [proc EXCEPT ![p] = [proc[p] EXCEPT !.pc = "running"]]
        /\ UNCHANGED <<db, logVars, torn, met>>
    BY <1>3 DEF StampPid
  <2>2. /\ proc' = [proc EXCEPT ![p] = [proc[p] EXCEPT !.pc = "running", !.shown = proc[p].shown]]
        /\ proc[p].shown \in Procs \cup {NoProc}
    BY <1>0, <2>1 DEF ProcType
  <2>3. lock' \in [holder : Procs \cup {NoProc}, pid : Procs \cup {NoProc}] /\ lock'.holder = lock.holder
    BY <1>0, <2>1
  <2>4. /\ TypeOK' /\ LogIsThere' /\ Placed' /\ Undisturbed' /\ VersionIsBacked'
        /\ proc'[p].pc = "running" /\ proc[p].cmd = "canvas" /\ proc'[p].cmd = "canvas"
        /\ \A q \in Procs : q # p => proc'[q] = proc[q]
    BY <2>1, <2>2, <2>3, PcStep DEF Places
  <2>5. \A q \in Procs : Holding(q)' <=> Holding(q)
    BY <2>1, <2>4 DEF Holding
  <2>6. LockIsTheLiveCanvas'
    BY <2>3, <2>5 DEF IInv, LockIsTheLiveCanvas
  <2>7. QED
    BY <2>4, <2>6 DEF IInv
<1>4. CASE ReadPid(p)
  <2>1. /\ proc[p].pc = "readpid" /\ lock' = lock
        /\ proc' = [proc EXCEPT ![p] = [proc[p] EXCEPT !.pc = "refused", !.shown = lock.pid]]
        /\ UNCHANGED <<db, logVars, torn, met>>
    BY <1>4 DEF ReadPid
  <2>2. lock.pid \in Procs \cup {NoProc}
    BY <1>0
  <2>3. /\ TypeOK' /\ LogIsThere' /\ Placed' /\ Undisturbed' /\ VersionIsBacked'
        /\ proc'[p].pc = "refused"
        /\ \A q \in Procs : q # p => proc'[q] = proc[q]
    BY <1>0, <2>1, <2>2, PcStep DEF Places
  <2>4. ~Holding(p)' /\ ~Holding(p)
    BY <2>1, <2>3 DEF Holding
  <2>5. LockIsTheLiveCanvas'
    BY <2>1, <2>3, <2>4, LockUntouched DEF IInv
  <2>6. QED
    BY <2>3, <2>5 DEF IInv
<1>5. QED
  BY <1>1, <1>2, <1>3, <1>4 DEF AcquireLock

LEMMA DieKeepsIInv == ASSUME IInv, NEW p \in Procs, Die(p) PROVE IInv'
<1>0. proc \in [Procs -> ProcType] /\ TypeOK
  BY ProcTyped DEF IInv
<1>1. /\ proc' = [proc EXCEPT ![p] = [proc[p] EXCEPT !.pc = "gone"]]
      /\ lock' = IF lock.holder = p THEN [lock EXCEPT !.holder = NoProc] ELSE lock
      /\ torn' = (torn \/ Migrating(p)) /\ stream' = [stream EXCEPT ![p] = 0]
      /\ UNCHANGED <<db, log, met>>
  BY DEF Die
<1>2. /\ proc'[p].pc = "gone" /\ proc' \in [Procs -> ProcType]
      /\ \A q \in Procs : q # p => proc'[q] = proc[q]
  BY <1>0, <1>1 DEF ProcType, Places
<1>3. /\ lock' \in [holder : Procs \cup {NoProc}, pid : Procs \cup {NoProc}]
      /\ lock'.holder = IF lock.holder = p THEN NoProc ELSE lock.holder
  BY <1>0, <1>1 DEF TypeOK
<1>4. stream' \in [Procs -> 0..Len(log'.size)] /\ \A q \in Procs : q # p => stream'[q] = stream[q]
  BY <1>0, <1>1 DEF TypeOK, IInv, LogIsThere
<1>5. LogIsThere'
  BY <1>1, <1>2, <1>4 DEF IInv, LogIsThere
<1>6. TypeOK'
  <2>1. torn' \in BOOLEAN
    BY <1>0, <1>1 DEF TypeOK, Migrating
  <2>2. QED
    BY <1>0, <1>1, <1>2, <1>3, <1>4, <2>1 DEF TypeOK, ProcType, Cmds, Places
<1>7. Placed' /\ VersionIsBacked'
  BY <1>1, <1>2 DEF IInv, Placed, VersionIsBacked
<1>8. Undisturbed'
  <2> SUFFICES ASSUME ~torn', ~met' PROVE Undisturbed'
    BY DEF Undisturbed
  <2>1. ~torn /\ ~met /\ ~Migrating(p)
    BY <1>1
  <2>2. \A q \in Procs : (Migrating(q)' <=> Migrating(q)) /\ (Migrating(q) => proc'[q] = proc[q])
    BY <1>2, <2>1 DEF Migrating
  <2>3. QED
    BY <1>1, <1>2, <2>1, <2>2 DEF IInv, Undisturbed
<1>9. LockIsTheLiveCanvas'
  <2>1. ~Holding(p)' /\ \A q \in Procs : q # p => (Holding(q)' <=> Holding(q))
    BY <1>2 DEF Holding
  <2>2. QED
    BY <1>3, <2>1, StartupAssumption DEF IInv, LockIsTheLiveCanvas
<1>10. QED
  BY <1>5, <1>6, <1>7, <1>8, <1>9 DEF IInv

-----------------------------------------------------------------------------
LEMMA NextKeepsIInv == IInv /\ [Next]_vars => IInv'
<1> SUFFICES ASSUME IInv, [Next]_vars PROVE IInv'
  OBVIOUS
<1>1. ASSUME NEW p \in Procs, NEW cmd \in {"canvas", "ingest", "other"}, Launch(p, cmd) PROVE IInv'
  BY <1>1, LaunchKeepsIInv
<1>2. ASSUME NEW p \in Procs, LogLine(p) \/ Migrate(p) \/ AcquireLock(p) \/ Die(p) PROVE IInv'
  BY <1>2, LogLineKeepsIInv, ReadVersionKeepsIInv, RunStatementKeepsIInv, SetVersionKeepsIInv,
     AcquireLockKeepsIInv, DieKeepsIInv DEF Migrate
<1>3. CASE UNCHANGED vars
  BY <1>3 DEF vars, logVars, IInv, TypeOK, LogIsThere, Placed, Undisturbed, VersionIsBacked,
              LockIsTheLiveCanvas, Migrating, Holding
<1>4. QED
  BY <1>1, <1>2, <1>3 DEF Next

(* The inductive invariant: types, what each place promises, what holds as *)
(* long as no migration was disturbed, and the lock.                       *)
THEOREM StartupInvariant == Spec => []IInv
<1>1. Init => IInv
  BY InitEstablishesIInv
<1>2. QED
  BY <1>1, NextKeepsIInv, PTL DEF Spec

(* Type correctness of the database, the processes, the lock and the logs. *)
THEOREM StartupTypes == Spec => []TypeOK
<1>1. IInv => TypeOK
  BY DEF IInv
<1>2. QED
  BY <1>1, StartupInvariant, PTL

(* user_version never promises a change that was not made, and who is past *)
(* Store.open sees the whole schema (store.py, _migrate), whatever is      *)
(* killed and however many migrate.                                        *)
THEOREM StartupVersionIsBacked == Spec => []VersionIsBacked
<1>1. IInv => VersionIsBacked
  BY DEF IInv
<1>2. QED
  BY <1>1, StartupInvariant, PTL

(* Only a kill in the middle of a migration, or two at once, make an open  *)
(* fail or leave changes without their version (store.py, _migrate).       *)
THEOREM StartupFailsOnlyIfDisturbed == Spec => []FailsOnlyIfDisturbed
<1>1. IInv => FailsOnlyIfDisturbed
  BY DEF IInv, Undisturbed, FailsOnlyIfDisturbed
<1>2. QED
  BY <1>1, StartupInvariant, PTL

(* The holder of the lock is the canvas past it, and there is at most one  *)
(* (single_instance.py, acquire_db_lock).                                  *)
THEOREM StartupLockIsTheLiveCanvas == Spec => []LockIsTheLiveCanvas
<1>1. IInv => LockIsTheLiveCanvas
  BY DEF IInv
<1>2. QED
  BY <1>1, StartupInvariant, PTL

-----------------------------------------------------------------------------
(* Values: what _validate lets pass is allowed by the schema or NaN, and   *)
(* such a value it lets pass as it is.                                     *)
ValueTypes == {"bool", "int", "float", "text"}

LEMMA TypesDiffer ==
  /\ "invalid" \notin ValueTypes /\ "raises" \notin ValueTypes /\ "nan" \notin ValueTypes
  /\ Invalid.type = "invalid" /\ Raises.type = "raises" /\ Nan.type = "nan"
BY DEF ValueTypes, Invalid, Raises, Nan

\* A value of its field's type.
IsOf(field, value) ==
  /\ value = [type |-> field.default.type, v |-> value.v]
  /\ Numeric(field) => value.v \in Int

\* float() and int() of what can be read, and of what a text spells.
LEMMA AsFloatIs ==
  ASSUME NEW raw, IsRaw(raw)
  PROVE  AsFloat(raw) \in {Invalid, Raises, Nan} \/ \E x \in Int : AsFloat(raw) = Decimal(x)
<1>1. CASE raw.type \in {"int", "float"}
  <2>1. raw.v \in Int
    BY <1>1 DEF IsRaw
  <2>2. AsFloat(raw) = Decimal(raw.v)
    BY <1>1 DEF AsFloat
  <2>3. QED
    BY <2>1, <2>2
<1>2. CASE raw.type = "bool"
  <2>1. AsFloat(raw) = Decimal(IF raw.v THEN 200 ELSE 0)
    BY <1>2 DEF AsFloat
  <2>2. (IF raw.v THEN 200 ELSE 0) \in Int
    OBVIOUS
  <2>3. QED
    BY <2>1, <2>2
<1>3. CASE raw.type \notin {"int", "float", "bool"}
  <2>1. CASE raw.type = "nan"
    BY <2>1 DEF AsFloat
  <2>2. CASE raw.type = "huge"
    BY <2>2 DEF AsFloat
  <2>3. CASE raw.type \notin {"nan", "huge"}
    BY <1>3, <2>3 DEF AsFloat
  <2>4. QED
    BY <2>1, <2>2, <2>3
<1>4. QED
  BY <1>1, <1>2, <1>3

LEMMA AsIntIs ==
  ASSUME NEW raw, IsRaw(raw)
  PROVE  AsInt(raw) \in {Invalid, Raises} \/ \E n \in Int : AsInt(raw) = [type |-> "int", v |-> n]
<1>1. CASE raw.type = "int"
  BY <1>1 DEF AsInt, IsRaw
<1>2. CASE raw.type = "float"
  <2>1. raw.v \in Int
    BY <1>2 DEF IsRaw
  <2>2. 200 * (raw.v \div 200) \in Int
    BY <2>1
  <2>3. AsInt(raw) = [type |-> "int", v |-> 200 * (raw.v \div 200)]
    BY <1>2 DEF AsInt
  <2>4. QED
    BY <2>2, <2>3
<1>3. CASE raw.type \notin {"int", "float"}
  <2>1. CASE raw.type = "infinity"
    BY <2>1 DEF AsInt
  <2>2. CASE raw.type # "infinity"
    BY <1>3, <2>2 DEF AsInt
  <2>3. QED
    BY <2>1, <2>2
<1>4. QED
  BY <1>1, <1>2, <1>3

LEMMA SpeltIsRaw ==
  ASSUME NEW raw, NEW types, Spells(raw, types)
  PROVE  IsRaw(Spelt[raw.v]) /\ Spelt[raw.v].type \in types
<1>1. raw.v \in DOMAIN Spelt /\ Spelt[raw.v].type \in types
  BY DEF Spells
<1>2. PICK spelt : spelt = Spelt[raw.v]
  OBVIOUS
<1>3. \/ spelt.type \in {"int", "float"} /\ spelt = [type |-> spelt.type, v |-> spelt.v] /\ spelt.v \in Int
      \/ spelt = Nan \/ spelt.type = "infinity"
  BY <1>1, <1>2, PreferencesAssumption
<1>4. IsRaw(spelt)
  BY <1>3 DEF IsRaw, Nan
<1>5. QED
  BY <1>1, <1>2, <1>4

LEMMA CoercedIs ==
  ASSUME NEW field, field.default.type \in ValueTypes, NEW raw, IsRaw(raw)
  PROVE  \/ Coerced(field, raw) \in {Invalid, Raises}
         \/ IsOf(field, Coerced(field, raw))
         \/ Coerced(field, raw) = Nan /\ field.default.type = "float"
<1>1. CASE field.default.type = "bool"
  <2>1. CASE raw.type = "bool"
    BY <1>1, <2>1 DEF Coerced, IsOf, IsRaw, Numeric
  <2>2. CASE raw.type # "bool"
    BY <1>1, <2>2 DEF Coerced
  <2>3. QED
    BY <2>1, <2>2
<1>2. CASE field.default.type = "int"
  <2>1. CASE Spells(raw, {"int"})
    <3>1. PICK spelt : spelt = Spelt[raw.v] /\ IsRaw(spelt) /\ spelt.type = "int"
      BY <2>1, SpeltIsRaw
    <3>2. Coerced(field, raw) = spelt
      BY <1>2, <2>1, <3>1 DEF Coerced
    <3>3. QED
      BY <1>2, <3>1, <3>2 DEF IsOf, IsRaw
  <2>2. CASE ~Spells(raw, {"int"})
    <3>1. Coerced(field, raw) = AsInt(raw)
      BY <1>2, <2>2 DEF Coerced
    <3>2. CASE AsInt(raw) \in {Invalid, Raises}
      BY <3>1, <3>2
    <3>3. CASE \E n \in Int : AsInt(raw) = [type |-> "int", v |-> n]
      BY <1>2, <3>1, <3>3 DEF IsOf
    <3>4. QED
      BY <3>2, <3>3, AsIntIs
  <2>3. QED
    BY <2>1, <2>2
<1>3. CASE field.default.type = "float"
  <2>1. PICK number : IsRaw(number) /\ Coerced(field, raw) = AsFloat(number)
    <3>1. CASE Spells(raw, {"int", "float", "nan"})
      BY <1>3, <3>1, SpeltIsRaw DEF Coerced
    <3>2. CASE ~Spells(raw, {"int", "float", "nan"})
      BY <1>3, <3>2 DEF Coerced
    <3>3. QED
      BY <3>1, <3>2
  <2>2. CASE AsFloat(number) \in {Invalid, Raises, Nan}
    BY <1>3, <2>1, <2>2
  <2>3. CASE \E x \in Int : AsFloat(number) = Decimal(x)
    BY <1>3, <2>1, <2>3 DEF IsOf, Decimal
  <2>4. QED
    BY <2>1, <2>2, <2>3, AsFloatIs
<1>4. CASE field.default.type = "text"
  <2>1. CASE raw.type = "text"
    BY <1>4, <2>1 DEF Coerced, IsOf, IsRaw, Numeric
  <2>2. CASE raw.type # "text"
    BY <1>4, <2>2 DEF Coerced, IsOf, Text, Numeric
  <2>3. QED
    BY <2>1, <2>2
<1>5. QED
  BY <1>1, <1>2, <1>3, <1>4 DEF ValueTypes

\* What _validate checks of a coerced value.
Refused(field, value) ==
  \/ field.enum # {} /\ value.v \notin field.enum
  \/ Numeric(field) /\ value # Nan /\ (value.v < field.min \/ value.v > field.max)

LEMMA ValidateIs ==
  ASSUME NEW field, NEW raw
  PROVE  LET value == Coerced(field, raw) IN
         Validate(field, raw) = IF value.type \in {"invalid", "raises"} THEN value
                                ELSE IF Refused(field, value) THEN Invalid ELSE value
BY DEF Validate, Refused

LEMMA ValidateTolerates ==
  ASSUME NEW field, field.default.type \in ValueTypes,
         Numeric(field) => field.min \in Int /\ field.max \in Int,
         NEW raw, IsRaw(raw)
  PROVE  Validate(field, raw) \in {Invalid, Raises} \/ Tolerates(field, Validate(field, raw))
<1> DEFINE value == Coerced(field, raw)
<1>1. CASE value.type \in {"invalid", "raises"}
  <2>1. Validate(field, raw) = value
    BY <1>1, ValidateIs
  <2>2. ~IsOf(field, value) /\ value # Nan
    BY <1>1, TypesDiffer DEF IsOf
  <2>3. QED
    BY <2>1, <2>2, CoercedIs
<1>2. CASE value.type \notin {"invalid", "raises"}
  <2>1. Validate(field, raw) = IF Refused(field, value) THEN Invalid ELSE value
    BY <1>2, ValidateIs
  <2>2. IsOf(field, value) \/ (value = Nan /\ field.default.type = "float")
    BY <1>2, CoercedIs, TypesDiffer
  <2> HIDE DEF value
  <2>3. CASE IsOf(field, value)
    <3>1. value # Nan
      BY <2>3, TypesDiffer DEF IsOf
    <3>2. ~Refused(field, value) => Allows(field, value)
      BY <2>3, <3>1 DEF IsOf, Refused, Allows
    <3>3. QED
      BY <2>1, <3>2 DEF Tolerates
  <2>4. CASE value = Nan /\ field.default.type = "float"
    BY <2>1, <2>4 DEF Tolerates
  <2>5. QED
    BY <2>2, <2>3, <2>4
<1>3. QED
  BY <1>1, <1>2

LEMMA ValidateKeeps ==
  ASSUME NEW field, field.default.type \in ValueTypes, Numeric(field) => field.enum = {},
         Numeric(field) => field.min \in Int /\ field.max \in Int,
         NEW value, Tolerates(field, value)
  PROVE  Validate(field, value) = value /\ value \notin {Invalid, Raises}
<1>1. CASE Allows(field, value)
  <2>1. value.type = field.default.type /\ value = [type |-> value.type, v |-> value.v]
    <3>1. PICK ty, v : ty = field.default.type /\ v = value.v
      OBVIOUS
    <3>2. value = [type |-> ty, v |-> v]
      BY <1>1, <3>1 DEF Allows
    <3>3. value.type = ty
      BY <3>2
    <3>4. QED
      BY <3>1, <3>2, <3>3
  <2>2. value.type \notin {"invalid", "raises"} /\ value \notin {Invalid, Raises}
    BY <2>1, TypesDiffer
  <2>3. Coerced(field, value) = value
    <3>1. CASE field.default.type = "bool"
      BY <2>1, <3>1 DEF Coerced
    <3>2. CASE field.default.type = "int"
      BY <2>1, <3>2 DEF Coerced, Spells, AsInt
    <3>3. CASE field.default.type = "float"
      <4>1. ~Spells(value, {"int", "float", "nan"})
        BY <2>1, <3>3 DEF Spells
      <4>2. Coerced(field, value) = AsFloat(value)
        BY <3>3, <4>1 DEF Coerced
      <4>3. AsFloat(value) = [type |-> "float", v |-> value.v]
        BY <2>1, <3>3 DEF AsFloat, Decimal
      <4>4. QED
        BY <2>1, <3>3, <4>2, <4>3
    <3>4. CASE field.default.type = "text"
      BY <2>1, <3>4 DEF Coerced
    <3>5. QED
      BY <3>1, <3>2, <3>3, <3>4 DEF ValueTypes
  <2>4. ~Refused(field, value)
    BY <1>1 DEF Refused, Allows
  <2>5. QED
    BY <2>2, <2>3, <2>4, ValidateIs
<1>2. CASE value = Nan /\ field.default.type = "float"
  <2>1. value.type = "nan" /\ value \notin {Invalid, Raises}
    BY <1>2, TypesDiffer
  <2>2. Coerced(field, value) = AsFloat(value)
    BY <1>2, <2>1 DEF Coerced, Spells
  <2>3. AsFloat(value) = value
    BY <1>2, <2>1 DEF AsFloat
  <2>4. ~Refused(field, value)
    BY <1>2 DEF Refused, Numeric
  <2>5. QED
    BY <2>1, <2>2, <2>3, <2>4, ValidateIs
<1>3. QED
  BY <1>1, <1>2 DEF Tolerates

-----------------------------------------------------------------------------
(* The values of all the keys.                                             *)
ValuesOk(values) ==
  values = [key \in Keys |-> values[key]] /\ \A key \in Keys : Tolerates(Field[key], values[key])

LEMMA FieldIs ==
  ASSUME SchemaIsSound, NEW key \in Keys
  PROVE  /\ Field[key].default.type \in ValueTypes
         /\ Numeric(Field[key]) => Field[key].enum = {}
         /\ Numeric(Field[key]) => Field[key].min \in Int /\ Field[key].max \in Int
         /\ Allows(Field[key], ResolvedDefault(Field[key]))
         /\ Field[key].file \in Range(FilesWritten) /\ key \in Range(KeysOf(Field[key].file))
BY DEF SchemaIsSound, ValueTypes

LEMMA KeysAre ==
  ASSUME SchemaIsSound, NEW file \in Range(FilesWritten)
  PROVE  KeysOf(file) \in Seq(Keys) /\ Range(KeysOf(file)) \subseteq Keys
<1>1. PICK keys \in Seq(Keys) : keys = KeysOf(file)
  BY DEF SchemaIsSound
<1>2. Range(keys) \subseteq Keys
  BY DEF Range
<1>3. QED
  BY <1>1, <1>2

\* The files, by any function of them, hold readable values.
FilesRaw(files) == \A file \in Range(FilesWritten) : AllRaw(Table(files[file]))

LEMMA LoadedIs ==
  ASSUME SchemaIsSound, NEW files, FilesRaw(files), NEW e, AllRaw(e), NEW key \in Keys
  PROVE  Loaded(files, e, key) = Raises \/ Tolerates(Field[key], Loaded(files, e, key))
<1> DEFINE field == Field[key]
           table == Table(files[field.file])
           given(from) == IF key \in DOMAIN from THEN Validate(field, from[key]) ELSE Invalid
<1>1. ASSUME NEW from, AllRaw(from) PROVE given(from) \in {Invalid, Raises} \/ Tolerates(field, given(from))
  <2>1. CASE key \in DOMAIN from
    <3>1. IsRaw(from[key])
      BY <1>1, <2>1 DEF AllRaw
    <3>2. QED
      BY <2>1, <3>1, FieldIs, ValidateTolerates
  <2>2. CASE key \notin DOMAIN from
    BY <2>2
  <2>3. QED
    BY <2>1, <2>2
<1>2. AllRaw(table)
  BY FieldIs DEF FilesRaw
<1>3. Loaded(files, e, key) = IF given(e) # Invalid THEN given(e)
                              ELSE IF given(table) # Invalid THEN given(table) ELSE ResolvedDefault(field)
  BY DEF Loaded
<1>4. Tolerates(field, ResolvedDefault(field))
  BY FieldIs DEF Tolerates
<1>5. PICK fromEnv, fromFile : fromEnv = given(e) /\ fromFile = given(table)
  OBVIOUS
<1>6. /\ fromEnv \in {Invalid, Raises} \/ Tolerates(field, fromEnv)
      /\ fromFile \in {Invalid, Raises} \/ Tolerates(field, fromFile)
  BY <1>1, <1>2, <1>5
<1>7. Loaded(files, e, key) = IF fromEnv # Invalid THEN fromEnv
                              ELSE IF fromFile # Invalid THEN fromFile ELSE ResolvedDefault(field)
  BY <1>3, <1>5
<1>8. QED
  BY <1>4, <1>6, <1>7

LEMMA LoadAllIs ==
  ASSUME SchemaIsSound, NEW files, FilesRaw(files), NEW e, AllRaw(e), LoadAll(files, e) # None
  PROVE  ValuesOk(LoadAll(files, e))
<1>1. PICK values : values = [key \in Keys |-> Loaded(files, e, key)]
  OBVIOUS
<1>2. LoadAll(files, e) = values /\ \A key \in Keys : Loaded(files, e, key) # Raises
  BY <1>1 DEF LoadAll, Readable
<1>3. \A key \in Keys : Tolerates(Field[key], values[key])
  BY <1>1, <1>2, LoadedIs
<1>4. QED
  BY <1>1, <1>2, <1>3 DEF ValuesOk

(* What was saved in a file is read back from it.                          *)
TableOk(table, file) ==
  DOMAIN table = Range(KeysOf(file)) /\ \A key \in Range(KeysOf(file)) : Tolerates(Field[key], table[key])

LEMMA SavedTableOk ==
  ASSUME SchemaIsSound, NEW values, ValuesOk(values), NEW file \in Range(FilesWritten)
  PROVE  TableOk(SavedIn(values, file), file) /\ Emitted(values, file) = Toml(SavedIn(values, file))
BY KeysAre DEF SavedIn, TableOk, ValuesOk, Emitted

LEMMA TomlIs == \A table : Toml(table).kind = "toml" /\ Table(Toml(table)) = table /\ Toml(table) # Undecodable
<1>1. TAKE table
<1>2. Toml(table).kind = "toml" /\ Toml(table).table = table /\ Undecodable.kind = "undecodable"
  BY DEF Toml, Undecodable
<1>3. QED
  BY <1>2 DEF Table

LEMMA Reloaded ==
  ASSUME SchemaIsSound, NEW files, NEW file \in Range(FilesWritten), NEW table, TableOk(table, file),
         files[file] = Toml(table), NEW key \in Range(KeysOf(file)), NEW e
  PROVE  /\ key \in Keys /\ table[key] # Raises
         /\ Loaded(files, e, key) = IF key \in DOMAIN e /\ Validate(Field[key], e[key]) # Invalid
                                    THEN Validate(Field[key], e[key]) ELSE table[key]
<1>1. key \in Keys /\ Field[key].file = file
  BY KeysAre DEF SchemaIsSound
<1>2. Table(files[file]) = table /\ key \in DOMAIN table
  BY TomlIs DEF TableOk
<1>3. Validate(Field[key], table[key]) = table[key] /\ table[key] \notin {Invalid, Raises}
  BY <1>1, FieldIs, ValidateKeeps DEF TableOk
<1>4. QED
  BY <1>1, <1>2, <1>3 DEF Loaded

\* What overrides a path in the environment is a text: it does not raise.
LEMMA OverrideIs ==
  ASSUME SchemaIsSound, InputsAreTyped, NEW e \in Envs, NEW key \in DOMAIN e
  PROVE  Validate(Field[key], e[key]) # Raises
<1>1. Field[key].default.type = "text" /\ e[key].type = "text"
  BY DEF InputsAreTyped, SchemaIsSound
<1>2. Coerced(Field[key], e[key]) = e[key]
  BY <1>1 DEF Coerced
<1>3. e[key] # Raises /\ Invalid # Raises
  BY <1>1 DEF Raises, Invalid
<1>4. QED
  BY <1>1, <1>2, <1>3, ValidateIs

-----------------------------------------------------------------------------
(* What is on disk can be read, what is held and shown is allowed or NaN,  *)
(* and the files hold what was saved in them.                              *)
SavedOk ==
  /\ DOMAIN saved \subseteq Range(FilesWritten)
  /\ \A file \in DOMAIN saved : TableOk(saved[file], file) /\ disk[file] = Toml(saved[file])
DialogOk ==
  /\ env # None
  /\ dialog = [widgets |-> dialog.widgets, forced |-> dialog.forced, broken |-> dialog.broken]
  /\ ValuesOk(dialog.widgets) /\ ValuesOk(prefs)
  /\ dialog.forced \subseteq {"capture.coded_phy"}
PrefsInv ==
  /\ disk = [file \in Range(FilesWritten) |-> disk[file]]
  /\ FilesRaw(disk)
  /\ env # None => env \in Envs
  /\ prefs # None => ValuesOk(prefs)
  /\ dialog # None => DialogOk
  /\ writing \in Seq(Range(FilesWritten))
  /\ writing # <<>> => dialog # None
  /\ SavedOk

LEMMA ToleratedIsRaw ==
  ASSUME SchemaIsSound, NEW key \in Keys, NEW value, Tolerates(Field[key], value)
  PROVE  IsRaw(value)
<1>1. CASE Allows(Field[key], value)
  <2>1. PICK ty, v : ty = Field[key].default.type /\ v = value.v
    OBVIOUS
  <2>2. value = [type |-> ty, v |-> v] /\ ty \in ValueTypes
    BY <1>1, <2>1, FieldIs DEF Allows
  <2>3. value.type = ty
    BY <2>2
  <2>4. ty \in {"int", "float"} => v \in Int
    BY <1>1, <2>1, FieldIs DEF Allows, Numeric
  <2>5. QED
    BY <2>1, <2>2, <2>3, <2>4 DEF IsRaw
<1>2. CASE value = Nan
  BY <1>2 DEF IsRaw, Nan
<1>3. QED
  BY <1>1, <1>2 DEF Tolerates

LEMMA EmittedRaw ==
  ASSUME SchemaIsSound, NEW values, ValuesOk(values), NEW file \in Range(FilesWritten)
  PROVE  AllRaw(Table(Emitted(values, file)))
<1>1. Table(Emitted(values, file)) = SavedIn(values, file) /\ TableOk(SavedIn(values, file), file)
  BY SavedTableOk, TomlIs
<1>2. QED
  BY <1>1, ToleratedIsRaw, KeysAre DEF AllRaw, TableOk

\* The first lines of a file, the last of them perhaps with fewer digits.
LEMMA FirstsRaw ==
  ASSUME SchemaIsSound, NEW values, ValuesOk(values), NEW keys, keys \subseteq Keys, NEW key, NEW n \in Int
  PROVE  /\ AllRaw([k \in keys |-> values[k]])
         /\ AllRaw([[k \in keys |-> values[k]] EXCEPT ![key] = [type |-> "int", v |-> n]])
<1>1. \A k \in keys : IsRaw(values[k])
  BY ToleratedIsRaw DEF ValuesOk
<1>2. IsRaw([type |-> "int", v |-> n])
  BY DEF IsRaw
<1>3. QED
  BY <1>1, <1>2 DEF AllRaw

LEMMA CutOffRaw ==
  ASSUME SchemaIsSound, NEW values, ValuesOk(values), NEW file \in Range(FilesWritten),
         NEW contents \in CutOff(values, file)
  PROVE  AllRaw(Table(contents))
<1> DEFINE keys == KeysOf(file)
           first(k) == {keys[j] : j \in 1..k}
           firsts(k) == [key \in first(k) |-> values[key]]
<1>1. ASSUME NEW k \in 0..Len(keys) PROVE first(k) \subseteq Keys
  <2>1. PICK all \in Seq(Keys) : all = keys
    BY KeysAre
  <2>2. {all[j] : j \in 1..k} \subseteq Keys
    BY <2>1
  <2>3. QED
    BY <2>1, <2>2
<1>2. \A t : Table(Toml(t)) = t
  BY DEF Table, Toml
<1>3. CASE contents \in {Broken, Undecodable}
  <2>1. DOMAIN Table(contents) = {}
    BY <1>3 DEF Broken, Undecodable, Table
  <2>2. QED
    BY <2>1 DEF AllRaw
<1>4. CASE \E k \in 0..Len(keys) : contents = Toml(firsts(k))
  <2>1. PICK k \in 0..Len(keys) : contents = Toml(firsts(k))
    BY <1>4
  <2>2. AllRaw(firsts(k))
    <3>1. PICK some, zero : some = first(k) /\ zero = 0
      OBVIOUS
    <3>2. some \subseteq Keys /\ zero \in Int
      BY <1>1, <3>1
    <3>3. AllRaw([j \in some |-> values[j]])
      BY <3>2, FirstsRaw
    <3>4. QED
      BY <3>1, <3>3
  <2>3. QED
    BY <1>2, <2>1, <2>2
<1>5. CASE \E k \in DOMAIN keys : \E short \in FewerDigits(values[keys[k]]) :
             Numeric(Field[keys[k]]) /\ contents = Toml([firsts(k) EXCEPT ![keys[k]] = short])
  <2>1. PICK k, short :
          /\ k \in DOMAIN keys /\ short \in FewerDigits(values[keys[k]]) /\ Numeric(Field[keys[k]])
          /\ contents = Toml([firsts(k) EXCEPT ![keys[k]] = short])
    BY <1>5
  <2>2. k \in 0..Len(keys) /\ keys[k] \in Keys
    BY <2>1, KeysAre
  <2>3. values[keys[k]].v \in Int
    BY <2>1, <2>2, FieldIs DEF ValuesOk, Tolerates, Allows, FewerDigits
  <2>4. PICK n \in Int : short = [type |-> "int", v |-> n]
    <3>1. PICK v \in Int : v = values[keys[k]].v
      BY <2>3
    <3>2. PICK m \in {1, 10, 100, 1000} : short = [type |-> "int", v |-> 200 * ((v \div 200) \div m)]
      BY <2>1, <3>1 DEF FewerDigits, Whole
    <3>3. \A i \in Int, j \in {1, 10, 100, 1000} : 200 * ((i \div 200) \div j) \in Int
      OBVIOUS
    <3>4. QED
      BY <3>1, <3>2, <3>3
  <2>5. AllRaw([firsts(k) EXCEPT ![keys[k]] = short])
    <3>1. first(k) \subseteq Keys
      BY <1>1, <2>2
    <3>2. QED
      BY <2>4, <3>1, FirstsRaw
  <2>6. QED
    BY <1>2, <2>1, <2>5
<1>6. QED
  BY <1>3, <1>4, <1>5 DEF CutOff
LEMMA PrefsInitOk == ASSUME SchemaIsSound, PrefsInit PROVE PrefsInv
<1>1. /\ disk = [file \in Range(FilesWritten) |-> Absent]
      /\ env = None /\ prefs = None /\ dialog = None /\ writing = <<>> /\ saved = <<>>
  BY DEF PrefsInit
<1>2. AllRaw(Table(Absent))
  BY DEF Absent, Table, AllRaw
<1>3. FilesRaw(disk)
  BY <1>1, <1>2 DEF FilesRaw
<1>4. SavedOk
  BY <1>1 DEF SavedOk
<1>5. QED
  BY <1>1, <1>3, <1>4 DEF PrefsInv

(* Processes come and go.                                                  *)
LEMMA HeldOrLoadedIs ==
  ASSUME SchemaIsSound, InputsAreTyped, PrefsInv, env # None, HeldOrLoaded # None
  PROVE  ValuesOk(HeldOrLoaded)
<1>1. AllRaw(env) /\ FilesRaw(disk)
  BY DEF PrefsInv, InputsAreTyped
<1>2. QED
  BY <1>1, LoadAllIs DEF PrefsInv, HeldOrLoaded

LEMMA StartOk ==
  ASSUME SchemaIsSound, InputsAreTyped, PrefsInv, NEW e \in Envs, Start(e)
  PROVE  PrefsInv'
<1>1. /\ env = None /\ env' = e /\ prefs' = LoadAll(disk, e)
      /\ UNCHANGED <<disk, dialog, writing, saved>>
  BY DEF Start
<1>2. prefs' # None => ValuesOk(prefs')
  BY <1>1, LoadAllIs DEF PrefsInv, InputsAreTyped
<1>3. dialog = None /\ writing = <<>>
  BY <1>1 DEF PrefsInv, DialogOk
<1>4. QED
  BY <1>1, <1>2, <1>3 DEF PrefsInv, FilesRaw, SavedOk

LEMMA GetPrefsOk ==
  ASSUME SchemaIsSound, InputsAreTyped, PrefsInv, GetPrefs
  PROVE  PrefsInv'
<1>1. /\ env # None /\ dialog = None /\ prefs' = HeldOrLoaded
      /\ UNCHANGED <<disk, env, dialog, writing, saved>>
  BY DEF GetPrefs
<1>2. prefs' # None => ValuesOk(prefs')
  BY <1>1, HeldOrLoadedIs
<1>3. writing = <<>>
  BY <1>1 DEF PrefsInv
<1>4. QED
  BY <1>1, <1>2, <1>3 DEF PrefsInv, FilesRaw, SavedOk

\* What a file cut off, or left as it is, holds.
LEMMA LeftIsRaw ==
  ASSUME SchemaIsSound, PrefsInv, writing # <<>>,
         NEW contents \in CutOff(prefs, Head(writing)) \cup {disk[Head(writing)]}
  PROVE  AllRaw(Table(contents)) /\ Head(writing) \in Range(FilesWritten) /\ ValuesOk(prefs)
<1>1. PICK files \in Seq(Range(FilesWritten)) : files = writing
  BY DEF PrefsInv
<1>2. Head(writing) \in Range(FilesWritten)
  BY <1>1
<1>3. ValuesOk(prefs)
  BY DEF PrefsInv, DialogOk
<1>4. QED
  BY <1>2, <1>3, CutOffRaw DEF PrefsInv, FilesRaw

\* One file has other contents.
LEMMA PutRaw ==
  ASSUME disk = [file \in Range(FilesWritten) |-> disk[file]], FilesRaw(disk), NEW file, NEW contents,
         AllRaw(Table(contents)), disk' = [disk EXCEPT ![file] = contents]
  PROVE  disk' = [f \in Range(FilesWritten) |-> disk'[f]] /\ FilesRaw(disk')
<1>1. \A f \in Range(FilesWritten) : disk'[f] = IF f = file THEN contents ELSE disk[f]
  OBVIOUS
<1>2. QED
  BY <1>1 DEF FilesRaw

\* What was saved in the file that is written, or was to be, is forgotten.
LEMMA DroppedOk ==
  ASSUME SavedOk, NEW file, NoLongerSaved(file), NEW contents,
         disk = [f \in Range(FilesWritten) |-> disk[f]], disk' = [disk EXCEPT ![file] = contents]
  PROVE  SavedOk'
<1>1. saved' = [f \in DOMAIN saved \ {file} |-> saved[f]]
  BY DEF NoLongerSaved
<1>2. \A f \in DOMAIN saved' : f \in Range(FilesWritten) /\ saved'[f] = saved[f] /\ disk'[f] = disk[f]
  BY <1>1 DEF SavedOk
<1>3. QED
  BY <1>1, <1>2 DEF SavedOk

\* A process that is gone leaves what is on disk.
LEMMA GoneOk ==
  ASSUME NEW files, files = [file \in Range(FilesWritten) |-> files[file]], FilesRaw(files), Gone(files), SavedOk'
  PROVE  PrefsInv'
<1>1. disk' = files /\ env' = None /\ prefs' = None /\ dialog' = None /\ writing' = <<>>
  BY DEF Gone
<1>2. <<>> \in Seq(Range(FilesWritten))
  OBVIOUS
<1>3. QED
  BY <1>1, <1>2 DEF PrefsInv

LEMMA EndOk == ASSUME PrefsInv, End PROVE PrefsInv'
<1>1. SavedOk'
  BY DEF End, Gone, PrefsInv, SavedOk
<1>2. QED
  BY <1>1, GoneOk DEF End, PrefsInv

LEMMA CutShortOk ==
  ASSUME SchemaIsSound, PrefsInv, writing # <<>>,
         NEW contents \in CutOff(prefs, Head(writing)) \cup {disk[Head(writing)]},
         WriteFails(contents) \/ CrashWriting(contents)
  PROVE  PrefsInv'
<1>1. AllRaw(Table(contents)) /\ Head(writing) \in Range(FilesWritten) /\ ValuesOk(prefs)
  BY LeftIsRaw
<1>2. PICK file : file = Head(writing)
  OBVIOUS
<1>3. disk' = [disk EXCEPT ![file] = contents] /\ NoLongerSaved(file)
  BY <1>2 DEF WriteFails, CrashWriting, Gone
<1>4. disk' = [f \in Range(FilesWritten) |-> disk'[f]] /\ FilesRaw(disk')
  BY <1>1, <1>3, PutRaw DEF PrefsInv
<1>5. SavedOk'
  BY <1>3, DroppedOk DEF PrefsInv
<1>6. CASE CrashWriting(contents)
  <2>1. Gone(disk')
    BY <1>6 DEF CrashWriting, Gone
  <2>2. QED
    BY <1>4, <1>5, <2>1, GoneOk
<1>7. CASE WriteFails(contents)
  <2>1. writing' = <<>> /\ UNCHANGED <<env, prefs, dialog>>
    BY <1>7 DEF WriteFails
  <2>2. <<>> \in Seq(Range(FilesWritten))
    OBVIOUS
  <2>3. (dialog # None => DialogOk)'
    BY <2>1 DEF PrefsInv, DialogOk
  <2>4. QED
    BY <1>1, <1>4, <1>5, <2>1, <2>2, <2>3 DEF PrefsInv
<1>8. QED
  BY <1>6, <1>7

LEMMA HandEditOk ==
  ASSUME InputsAreTyped, PrefsInv, NEW file \in Range(FilesWritten), NEW contents \in Edits[file],
         HandEdit(file, contents)
  PROVE  PrefsInv'
<1>1. /\ writing = <<>> /\ disk' = [disk EXCEPT ![file] = contents] /\ NoLongerSaved(file)
      /\ UNCHANGED <<env, prefs, dialog, writing>>
  BY DEF HandEdit
<1>2. AllRaw(Table(contents))
  BY DEF InputsAreTyped
<1>3. disk' = [f \in Range(FilesWritten) |-> disk'[f]] /\ FilesRaw(disk')
  BY <1>1, <1>2, PutRaw DEF PrefsInv
<1>4. (dialog # None => DialogOk)'
  BY <1>1 DEF PrefsInv, DialogOk
<1>5. SavedOk'
  BY <1>1, DroppedOk DEF PrefsInv
<1>6. QED
  BY <1>1, <1>3, <1>4, <1>5 DEF PrefsInv

(* The dialog.                                                             *)
LEMMA ShownAllows ==
  ASSUME SchemaIsSound, NEW key \in Keys, NEW value, Tolerates(Field[key], value), NEW round \in {-1, 1}
  PROVE  Allows(Field[key], Shown(Field[key], value, round))
<1> DEFINE field == Field[key]
<1>1. \A x : [type |-> "float", v |-> x] # Nan
  <2>1. TAKE x
  <2>2. [type |-> "float", v |-> x].type = "float"
    OBVIOUS
  <2>3. QED
    BY <2>2, TypesDiffer
<1>2. ASSUME field.default.type = "float", NEW x \in Int, field.min <= x, x <= field.max
      PROVE  Allows(field, Decimal(x))
  <2>1. PICK low, high : low = field.min /\ high = field.max
    OBVIOUS
  <2>2. low \in Int /\ high \in Int /\ field.enum = {}
    BY <1>2, <2>1, FieldIs DEF Numeric
  <2>3. x \in low..high
    BY <1>2, <2>1, <2>2
  <2>4. Decimal(x) = [type |-> "float", v |-> x] /\ Decimal(x).v = x
    BY DEF Decimal
  <2>5. QED
    BY <1>1, <1>2, <2>1, <2>2, <2>3, <2>4 DEF Allows
<1>3. CASE value = Nan
  <2>1. field.default.type = "float" /\ Numeric(field)
    BY <1>3 DEF Tolerates, Allows, Numeric
  <2>2. PICK low, high, v : low = field.min /\ high = field.max /\ v = ResolvedDefault(field).v
    OBVIOUS
  <2>3. low \in Int /\ high \in Int /\ v \in low..high
    BY <2>1, <2>2, FieldIs DEF Allows
  <2>4. low <= high
    BY <2>3
  <2>5. Shown(field, value, round) = Decimal(IF round < 0 THEN low ELSE high)
    BY <1>3, <2>2 DEF Shown
  <2>6. Allows(field, Decimal(low)) /\ Allows(field, Decimal(high))
    BY <1>2, <2>1, <2>2, <2>3, <2>4
  <2>7. QED
    BY <2>5, <2>6
<1>4. CASE value # Nan /\ field.default.type = "float" /\ value.v % 2 = 1
  <2>1. PICK low, high, v : low = field.min /\ high = field.max /\ v = value.v
    OBVIOUS
  <2>2. low \in Int /\ high \in Int /\ low % 2 = 0 /\ high % 2 = 0 /\ v \in low..high
    BY <1>4, <2>1 DEF SchemaIsSound, Tolerates, Allows, Numeric
  <2>3. v + round \in low..high
    <3>1. v % 2 = 1
      BY <1>4, <2>1
    <3>2. QED
      BY <2>2, <3>1
  <2>4. Shown(field, value, round) = Decimal(v + round)
    BY <1>4, <2>1 DEF Shown
  <2>5. v + round \in Int /\ low <= v + round /\ v + round <= high
    BY <2>2, <2>3
  <2>6. QED
    BY <1>2, <1>4, <2>1, <2>4, <2>5
<1>5. CASE value # Nan /\ ~(field.default.type = "float" /\ value.v % 2 = 1)
  BY <1>5 DEF Shown, Tolerates
<1>6. QED
  BY <1>3, <1>4, <1>5

\* Values of which one is changed.
LEMMA PutAllows ==
  ASSUME NEW values, ValuesOk(values), NEW key \in Keys, NEW value, Tolerates(Field[key], value)
  PROVE  ValuesOk([values EXCEPT ![key] = value])
BY DEF ValuesOk

LEMMA OpenDialogOk ==
  ASSUME SchemaIsSound, InputsAreTyped, PrefsInv, NEW rack \in Racks, OpenDialog(rack)
  PROVE  PrefsInv'
<1> DEFINE coded == "capture.coded_phy"
           blocked(heard) == CodedPhyStatus({d.port : d \in heard}) = "blocked"
           shown(round) == [key \in Keys |-> Shown(Field[key], prefs'[key], round)]
<1>1. /\ env # None /\ dialog = None /\ HeldOrLoaded # None /\ prefs' = HeldOrLoaded
      /\ UNCHANGED <<disk, env, writing, saved>>
  BY DEF OpenDialog
<1>2. ValuesOk(prefs')
  BY <1>1, HeldOrLoadedIs
<1>3. PICK round \in {-1, 1}, heard \in HeardOf(rack) :
        dialog' = [widgets |-> IF blocked(heard) THEN [shown(round) EXCEPT ![coded] = Truth(FALSE)]
                                                 ELSE shown(round),
                   forced |-> IF blocked(heard) THEN {coded} ELSE {},
                   broken |-> {d \in heard : d.runs = KnownBroken}]
  BY <1>1 DEF OpenDialog
<1>4. ValuesOk(shown(round))
  BY <1>2, ShownAllows DEF ValuesOk, Tolerates
<1>5. coded \in Keys /\ Tolerates(Field[coded], Truth(FALSE))
  BY PreferencesAssumption DEF SchemaIsSound, Tolerates
<1>6. ValuesOk([shown(round) EXCEPT ![coded] = Truth(FALSE)])
  BY <1>4, <1>5, PutAllows
<1> HIDE DEF blocked, shown
<1>7. DialogOk'
  BY <1>1, <1>2, <1>3, <1>4, <1>6 DEF DialogOk
<1>8. writing' = <<>>
  BY <1>1 DEF PrefsInv
<1>9. QED
  BY <1>1, <1>2, <1>7, <1>8 DEF PrefsInv, FilesRaw, SavedOk

\* The widgets change, and nothing else.
LEMMA WidgetsChange ==
  ASSUME PrefsInv, dialog # None, NEW widgets, ValuesOk(widgets), dialog' = [dialog EXCEPT !.widgets = widgets],
         UNCHANGED <<disk, env, prefs, writing, saved>>, writing = <<>>
  PROVE  PrefsInv'
<1>1. DialogOk
  BY DEF PrefsInv
<1>2. /\ dialog' = [widgets |-> widgets, forced |-> dialog.forced, broken |-> dialog.broken]
      /\ dialog'.widgets = widgets /\ dialog'.forced = dialog.forced
  BY <1>1 DEF DialogOk
<1>3. DialogOk'
  BY <1>1, <1>2 DEF DialogOk
<1>4. QED
  BY <1>3 DEF PrefsInv, FilesRaw, SavedOk

LEMMA EditOk ==
  ASSUME InputsAreTyped, PrefsInv, NEW key \in Keys, NEW value \in Entries[key], Edit(key, value)
  PROVE  PrefsInv'
<1>1. PICK widgets : widgets = [dialog.widgets EXCEPT ![key] = value]
  OBVIOUS
<1>2. dialog # None /\ writing = <<>> /\ dialog' = [dialog EXCEPT !.widgets = widgets]
      /\ UNCHANGED <<disk, env, prefs, writing, saved>>
  BY <1>1 DEF Edit
<1>3. ValuesOk(widgets)
  BY <1>1, <1>2, PutAllows DEF PrefsInv, DialogOk, InputsAreTyped, Tolerates
<1>4. QED
  BY <1>2, <1>3, WidgetsChange

LEMMA ResetSectionOk ==
  ASSUME SchemaIsSound, PrefsInv, NEW file, ResetSection(file)
  PROVE  PrefsInv'
<1>1. PICK widgets : widgets = [key \in Keys |-> IF Field[key].file = file THEN ResolvedDefault(Field[key])
                                                 ELSE dialog.widgets[key]]
  OBVIOUS
<1>2. dialog # None /\ writing = <<>> /\ dialog' = [dialog EXCEPT !.widgets = widgets]
      /\ UNCHANGED <<disk, env, prefs, writing, saved>>
  BY <1>1 DEF ResetSection
<1>3. ValuesOk(widgets)
  BY <1>1, <1>2, FieldIs DEF PrefsInv, DialogOk, ValuesOk, Tolerates
<1>4. QED
  BY <1>2, <1>3, WidgetsChange

LEMMA CancelOk == ASSUME PrefsInv, Cancel PROVE PrefsInv'
<1>1. writing = <<>> /\ dialog' = None /\ UNCHANGED <<disk, env, prefs, writing, saved>>
  BY DEF Cancel
<1>2. QED
  BY <1>1 DEF PrefsInv, FilesRaw, SavedOk

(* A save.                                                                 *)
LEMMA BeginWritingOk ==
  ASSUME SchemaIsSound, PrefsInv, dialog # None, ValuesOk(prefs'), NEW who, BeginWriting(who),
         UNCHANGED <<disk, env, dialog, saved>>
  PROVE  PrefsInv'
<1>1. writing' = FilesWritten
  BY DEF BeginWriting
<1>2. writing' \in Seq(Range(FilesWritten))
  BY <1>1 DEF SchemaIsSound, Range
<1>3. DialogOk'
  BY DEF PrefsInv, DialogOk
<1>4. QED
  BY <1>1, <1>2, <1>3 DEF PrefsInv, FilesRaw, SavedOk

LEMMA SaveOk == ASSUME SchemaIsSound, PrefsInv, Save PROVE PrefsInv'
<1>1. /\ prefs' = [key \in Keys |-> IF key \in dialog.forced THEN Truth(FALSE) ELSE dialog.widgets[key]]
      /\ dialog # None /\ BeginWriting("save") /\ UNCHANGED <<disk, env, dialog, saved>>
  BY DEF Save
<1>2. DialogOk /\ Tolerates(Field["capture.coded_phy"], Truth(FALSE))
  BY <1>1 DEF PrefsInv, SchemaIsSound, Tolerates
<1>3. ValuesOk(prefs')
  BY <1>1, <1>2 DEF ValuesOk, DialogOk
<1>4. QED
  BY <1>1, <1>3, BeginWritingOk

LEMMA OpenTomlOk == ASSUME SchemaIsSound, PrefsInv, NEW file, OpenToml(file) PROVE PrefsInv'
<1>1. dialog # None /\ BeginWriting("open") /\ prefs' = prefs /\ UNCHANGED <<disk, env, dialog, saved>>
  BY DEF OpenToml
<1>2. ValuesOk(prefs')
  BY <1>1 DEF PrefsInv, DialogOk
<1>3. QED
  BY <1>1, <1>2, BeginWritingOk

LEMMA WriteFileOk == ASSUME SchemaIsSound, PrefsInv, WriteFile PROVE PrefsInv'
<1>1. PICK files, file, rest :
        files \in Seq(Range(FilesWritten)) /\ files = writing /\ file = Head(writing) /\ rest = Tail(writing)
  BY DEF PrefsInv
<1>2. /\ disk' = [disk EXCEPT ![file] = Emitted(prefs, file)] /\ files # <<>> /\ writing' = rest
      /\ saved' = [f \in DOMAIN saved \cup {file} |-> IF f = file THEN SavedIn(prefs, f) ELSE saved[f]]
      /\ UNCHANGED <<env, prefs>>
  BY <1>1 DEF WriteFile
<1>3. file \in Range(FilesWritten) /\ rest \in Seq(Range(FilesWritten))
  BY <1>1, <1>2
<1>4. DialogOk /\ ValuesOk(prefs) /\ dialog # None
  BY <1>1, <1>2 DEF PrefsInv, DialogOk
<1>5. disk' = [f \in Range(FilesWritten) |-> disk'[f]] /\ FilesRaw(disk')
  BY <1>2, <1>3, <1>4, EmittedRaw, PutRaw DEF PrefsInv
<1>6. SavedOk'
  <2>1. \A f \in Range(FilesWritten) : disk'[f] = IF f = file THEN Emitted(prefs, file) ELSE disk[f]
    BY <1>2 DEF PrefsInv
  <2>2. TableOk(SavedIn(prefs, file), file) /\ Emitted(prefs, file) = Toml(SavedIn(prefs, file))
    BY <1>3, <1>4, SavedTableOk
  <2>3. QED
    BY <1>2, <1>3, <2>1, <2>2 DEF PrefsInv, SavedOk
<1>7. CASE rest # <<>>
  <2>1. UNCHANGED dialog
    BY <1>1, <1>7 DEF WriteFile
  <2>2. DialogOk'
    BY <1>2, <1>4, <2>1 DEF DialogOk
  <2>3. QED
    BY <1>2, <1>3, <1>4, <1>5, <1>6, <2>1, <2>2 DEF PrefsInv
<1>8. CASE rest = <<>>
  <2>1. dialog' = None \/ dialog' = dialog
    BY <1>1, <1>8 DEF WriteFile
  <2>2. dialog' # None => DialogOk'
    BY <1>2, <1>4, <2>1 DEF DialogOk
  <2>3. QED
    BY <1>2, <1>3, <1>4, <1>5, <1>6, <1>8, <2>2 DEF PrefsInv
<1>9. QED
  BY <1>7, <1>8

LEMMA PrefsNextOk ==
  ASSUME SchemaIsSound, InputsAreTyped, PrefsInv, [PrefsNext]_prefsVars
  PROVE  PrefsInv'
<1>1. CASE \E e \in Envs : Start(e)
  BY <1>1, StartOk
<1>2. CASE GetPrefs
  BY <1>2, GetPrefsOk
<1>3. CASE End
  BY <1>3, EndOk
<1>4. CASE \E rack \in Racks : OpenDialog(rack)
  BY <1>4, OpenDialogOk
<1>5. CASE \E key \in Keys : \E value \in Entries[key] : Edit(key, value)
  BY <1>5, EditOk
<1>6. CASE \E file \in Range(FilesWritten) : ResetSection(file) \/ OpenToml(file)
  BY <1>6, ResetSectionOk, OpenTomlOk
<1>7. CASE Save \/ Cancel \/ WriteFile
  BY <1>7, SaveOk, CancelOk, WriteFileOk
<1>8. CASE /\ writing # <<>>
           /\ \E contents \in CutOff(prefs, Head(writing)) \cup {disk[Head(writing)]} :
                WriteFails(contents) \/ CrashWriting(contents)
  BY <1>8, CutShortOk
<1>9. CASE \E file \in Range(FilesWritten) : \E contents \in Edits[file] : HandEdit(file, contents)
  BY <1>9, HandEditOk
<1>10. CASE UNCHANGED prefsVars
  BY <1>10 DEF prefsVars, PrefsInv, DialogOk, FilesRaw, SavedOk
<1>11. QED
  BY <1>1, <1>2, <1>3, <1>4, <1>5, <1>6, <1>7, <1>8, <1>9, <1>10 DEF PrefsNext

(* The inductive invariant of the preferences.                             *)
THEOREM PrefsInvariant ==
  ASSUME SchemaIsSound, InputsAreTyped
  PROVE  PrefsSpec => []PrefsInv
<1>1. PrefsInit => PrefsInv
  BY PrefsInitOk
<1>2. PrefsInv /\ [PrefsNext]_prefsVars => PrefsInv'
  BY PrefsNextOk
<1>3. QED
  BY <1>1, <1>2, PTL DEF PrefsSpec

(* Whatever was left in the files - by hand, by a failed save, by a crash  *)
(* in the middle of a number - a process only ever works with values the   *)
(* schema allows, or with NaN for a number that may have decimals: that    *)
(* one passes the comparisons with the bounds (loader.py, _validate).      *)
THEOREM PreferencesAreValidButForNan ==
  ASSUME SchemaIsSound, InputsAreTyped
  PROVE  PrefsSpec => []ValidButForNan
<1>1. PrefsInv => ValidButForNan
  BY DEF PrefsInv, ValuesOk, ValidButForNan
<1>2. QED
  BY <1>1, PrefsInvariant, PTL

LEMMA SavedReloads ==
  ASSUME SchemaIsSound, InputsAreTyped, PrefsInv
  PROVE  SavedIsReloaded
<1> SUFFICES ASSUME NEW e \in Envs
             PROVE  /\ Readable(disk, e) =>
                         \A file \in DOMAIN saved : \A key \in DOMAIN saved[file] \ DOMAIN e :
                           LoadAll(disk, e)[key] = saved[file][key]
                    /\ DOMAIN saved = Range(FilesWritten) => Readable(disk, e)
  BY DEF SavedIsReloaded
<1>1. ASSUME NEW file \in DOMAIN saved, NEW key \in DOMAIN saved[file]
      PROVE  /\ key \in Keys /\ saved[file][key] # Raises
             /\ Loaded(disk, e, key) = IF key \in DOMAIN e /\ Validate(Field[key], e[key]) # Invalid
                                       THEN Validate(Field[key], e[key]) ELSE saved[file][key]
  <2>1. /\ file \in Range(FilesWritten) /\ TableOk(saved[file], file) /\ disk[file] = Toml(saved[file])
        /\ key \in Range(KeysOf(file))
    BY DEF PrefsInv, SavedOk, TableOk
  <2>2. QED
    BY <2>1, Reloaded
<1>2. ASSUME Readable(disk, e), NEW file \in DOMAIN saved, NEW key \in DOMAIN saved[file] \ DOMAIN e
      PROVE  LoadAll(disk, e)[key] = saved[file][key]
  <2>1. key \in Keys /\ Loaded(disk, e, key) = saved[file][key]
    BY <1>1
  <2>2. LoadAll(disk, e) = [k \in Keys |-> Loaded(disk, e, k)]
    BY <1>2 DEF LoadAll
  <2>3. QED
    BY <2>1, <2>2
<1>3. ASSUME DOMAIN saved = Range(FilesWritten) PROVE Readable(disk, e)
  <2>1. \A file \in DOMAIN disk : disk[file] # Undecodable
    BY <1>3, TomlIs DEF PrefsInv, SavedOk
  <2>2. ASSUME NEW key \in Keys PROVE Loaded(disk, e, key) # Raises
    <3>1. PICK file \in DOMAIN saved : key \in DOMAIN saved[file]
      BY <1>3, FieldIs DEF PrefsInv, SavedOk, TableOk
    <3>2. QED
      BY <1>1, <3>1, OverrideIs
  <2>3. QED
    BY <2>1, <2>2 DEF Readable
<1>4. QED
  BY <1>2, <1>3

(* What was saved in a file is what any process that starts reads there,   *)
(* but for what its environment overrides, until the file is written       *)
(* again; and if that goes for all the files, it can start (loader.py,     *)
(* save_all and load_all).                                                 *)
THEOREM PreferencesReloadSaved ==
  ASSUME SchemaIsSound, InputsAreTyped
  PROVE  PrefsSpec => []SavedIsReloaded
<1>1. PrefsInv => SavedIsReloaded
  BY SavedReloads
<1>2. QED
  BY <1>1, PrefsInvariant, PTL

-----------------------------------------------------------------------------
(* The query finds the answer, whichever of the rates it comes at.         *)
LEMMA QueryFindsTheAnswer ==
  ASSUME BrokenDonglesAnswer, NEW rack \in Racks, NEW d \in rack, d.runs = KnownBroken
  PROVE  ParseVersion(QueryFirmwareVersion(d.port)) = KnownBroken
<1> DEFINE answers == {k \in DOMAIN d.port : VersionIn(d.port[k]) # Unknown}
           first == CHOOSE k \in answers : \A j \in answers : k <= j
<1>1. PICK k \in DOMAIN d.port :
        /\ DOMAIN d.port \subseteq Nat
        /\ VersionIn(d.port[k]) # Unknown /\ ParseVersion(VersionIn(d.port[k])) = KnownBroken
        /\ \A j \in DOMAIN d.port : j < k => VersionIn(d.port[j]) = Unknown
  BY DEF BrokenDonglesAnswer
<1>2. k \in answers /\ \A j \in answers : k <= j
  BY <1>1
<1>3. first \in answers /\ first <= k
  BY <1>2
<1>4. first = k
  BY <1>1, <1>2, <1>3
<1>5. QueryFirmwareVersion(d.port) = VersionIn(d.port[first])
  BY <1>2 DEF QueryFirmwareVersion
<1> QED
  BY <1>1, <1>4, <1>5

(* The checkbox is disabled as long as the dialog is open.                 *)
CodedForced ==
  dialog # None => (dialog.broken # {} => "capture.coded_phy" \in dialog.forced)

LEMMA OpenDialogForces ==
  ASSUME BrokenDonglesAnswer, NEW rack \in Racks, OpenDialog(rack)
  PROVE  CodedForced'
<1>1. PICK heard \in SUBSET rack :
        /\ dialog'.broken = {d \in heard : d.runs = KnownBroken}
        /\ CodedPhyStatus({d.port : d \in heard}) = "blocked" => "capture.coded_phy" \in dialog'.forced
  <2>1. PICK heard, widgets, forced :
          /\ heard \in SUBSET rack
          /\ dialog' = [widgets |-> widgets, forced |-> forced, broken |-> {d \in heard : d.runs = KnownBroken}]
          /\ CodedPhyStatus({d.port : d \in heard}) = "blocked" => forced = {"capture.coded_phy"}
    BY DEF OpenDialog, HeardOf
  <2>2. QED
    BY <2>1
<1>2. ASSUME NEW d \in heard, d.runs = KnownBroken PROVE CodedPhyStatus({x.port : x \in heard}) = "blocked"
  <2>1. ParseVersion(QueryFirmwareVersion(d.port)) = KnownBroken
    BY <1>2, QueryFindsTheAnswer
  <2>2. KnownBroken \in {ParseVersion(QueryFirmwareVersion(p)) : p \in {x.port : x \in heard}}
    BY <2>1
  <2>3. QED
    BY <2>2 DEF CodedPhyStatus
<1>3. QED
  BY <1>1, <1>2 DEF CodedForced

LEMMA CodedForcedNext ==
  ASSUME BrokenDonglesAnswer, PrefsInv, CodedForced, [PrefsNext]_prefsVars
  PROVE  CodedForced'
<1>1. CASE \E rack \in Racks : OpenDialog(rack)
  BY <1>1, OpenDialogForces
<1>2. CASE dialog' = None \/ dialog' = dialog
  BY <1>2 DEF CodedForced
<1>3. CASE dialog # None /\ \E widgets : dialog' = [dialog EXCEPT !.widgets = widgets]
  BY <1>3 DEF CodedForced, PrefsInv, DialogOk
<1>4. QED
  BY <1>1, <1>2, <1>3 DEF PrefsNext, prefsVars, Start, GetPrefs, End, Gone, Edit, ResetSection, OpenToml, Save,
       Cancel, WriteFile, WriteFails, CrashWriting, HandEdit

(* Coded PHY capture is not switched on by the dialog while a dongle is    *)
(* attached that was heard of in time and runs the firmware which breaks   *)
(* it, whichever of the baud rates it answers at.                          *)
THEOREM CodedPhyStaysOff ==
  ASSUME SchemaIsSound, InputsAreTyped, BrokenDonglesAnswer
  PROVE  PrefsSpec => CodedStaysOff
<1> DEFINE on(values) == values["capture.coded_phy"].v
           Step == dialog # None /\ dialog.broken # {} /\ prefs' # None
                     /\ prefs'["capture.coded_phy"].v => prefs["capture.coded_phy"].v
<1>1. PrefsInit => CodedForced
  BY DEF PrefsInit, CodedForced
<1>2. PrefsInv /\ CodedForced /\ [PrefsNext]_prefsVars => CodedForced'
  BY CodedForcedNext
<1>3. ASSUME PrefsInv, CodedForced, [PrefsNext]_prefsVars PROVE [Step]_prefsVars
  <2> SUFFICES ASSUME dialog # None, dialog.broken # {}, prefs' # None
               PROVE  prefs' = prefs \/ ~prefs'["capture.coded_phy"].v
    OBVIOUS
  <2>1. CASE Save
    <3>1. "capture.coded_phy" \in dialog.forced /\ "capture.coded_phy" \in Keys
      BY <1>3, PreferencesAssumption DEF CodedForced
    <3>2. prefs'["capture.coded_phy"] = Truth(FALSE)
      BY <2>1, <3>1 DEF Save
    <3>3. QED
      BY <3>2 DEF Truth
  <2>2. env # None
    BY <1>3 DEF PrefsInv, DialogOk
  <2>3. CASE ~Save
    BY <1>3, <2>2, <2>3 DEF PrefsNext, prefsVars, Start, GetPrefs, End, Gone, OpenDialog, Edit, ResetSection,
         OpenToml, Cancel, WriteFile, WriteFails, CrashWriting, HandEdit
  <2>4. QED
    BY <2>1, <2>3
<1>4. [][Step]_prefsVars => CodedStaysOff
  BY DEF CodedStaysOff
<1> HIDE DEF Step
<1>5. QED
  BY <1>1, <1>2, <1>3, <1>4, PrefsInvariant, PTL DEF PrefsSpec
=============================================================================
