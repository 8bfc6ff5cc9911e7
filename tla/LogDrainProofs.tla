--------------------------- MODULE LogDrainProofs ---------------------------
(* Proofs about LogDrain: see section 5 of the README.                     *)
EXTENDS LogDrain, FiniteSetTheorems, SequenceTheorems, TLAPS

On == drainer.pc # "off"
WasRead(n) == fate[n] \notin {"skipped", "unread"}

-----------------------------------------------------------------------------
(* The files partition the log in their order.                             *)
FilesInOrder ==
  /\ \A i \in 1..Len(first) : first[i] \in 1..(Len(log) + 1)
  /\ \A i, j \in 1..Len(first) : i =< j => first[i] =< first[j]

(* The position is in the open file or at its end, and not before the line *)
(* the run started at; between it and the start of the file all is read or *)
(* was skipped.                                                            *)
InTheFile ==
  On /\ drainer.fd # 0 =>
    /\ drainer.pos >= since /\ drainer.pos >= first[drainer.fd]
    /\ drainer.pos =< LastLine(drainer.fd) + 1
    /\ \A n \in 1..Len(log) : first[drainer.fd] =< n /\ n < drainer.pos => fate[n] # "unread"

(* The file a run starts in is never opened again.                         *)
StartFileStays ==
  On /\ path # 0 /\ first[path] < since =>
    /\ drainer.fd = path
    /\ drainer.pc \in {"stat", "read", "tick", "check"}
    /\ drainer.pc # "stat" => drainer.inode = path

(* Lines before the start are skipped, no others; a template is known if   *)
(* and only if a line of it was read, and then one was shown.              *)
KnownIsShown ==
  On => /\ \A n \in 1..Len(log) : fate[n] = "skipped" <=> n < since
        /\ \A n \in 1..Len(log) : WasRead(n) /\ log[n] \in Templates => stats[log[n]].known
        /\ \A t \in Templates : stats[t].known => \E m \in 1..Len(log) : log[m] = t /\ fate[m] = "shown"

(* What was left unread before something read lies behind, in a file that  *)
(* is not read any more.                                                   *)
Here == IF drainer.fd # 0 THEN first[drainer.fd]
        ELSE IF path # 0 THEN first[path] ELSE Len(log) + 1
GapsAreBehind ==
  On => \A m, n \in 1..Len(log) : n < m /\ WasRead(m) /\ fate[n] = "unread" => n < Here

(* Where a calm run of the drainer can be, relative to the path.           *)
CalmPlaces ==
  On /\ calm =>
    /\ drainer.pc = "stat" => path = drainer.fd
    /\ drainer.pc \in {"read", "tick", "check"} => drainer.inode = drainer.fd
    /\ drainer.pc = "reopen" => path # 0 /\ drainer.inode = path
    /\ IF drainer.fd = 0
       THEN since = IF path = 0 THEN Len(log) + 1 ELSE first[path]
       ELSE /\ Len(first) = drainer.fd \/ path = drainer.fd + 1
            /\ drainer.pc = "reopen" => path = drainer.fd + 1
            /\ drainer.pc \in {"tick", "check", "reopen"} /\ path # drainer.fd =>
                 drainer.pos = LastLine(drainer.fd) + 1

(* ... and what it has read: all from its start to where it is.            *)
Frontier == IF drainer.fd # 0 THEN drainer.pos ELSE since
CalmReadsAll ==
  On /\ calm =>
    /\ ~again
    /\ \A n \in 1..Len(log) : n >= since => (fate[n] = "unread" <=> n >= Frontier)

IInv ==
  /\ TypeOK
  /\ FilesInOrder /\ InTheFile /\ StartFileStays
  /\ KnownIsShown /\ GapsAreBehind
  /\ CalmPlaces /\ CalmReadsAll
  /\ RepeatsHaveAnExample

-----------------------------------------------------------------------------
DrainerType == [pc : {"off", "stat", "read", "tick", "check", "reopen"},
                fd : 0..Len(first), inode : 0..Len(first), pos : 0..(Len(log) + 1)]
StatsType == [Templates -> [known : BOOLEAN, window : Nat]]
Fates == {"skipped", "unread", "shown", "pending", "counted", "dropped"}
Lines == Templates \cup OtherKinds

LEMMA Types ==
  ASSUME TypeOK
  PROVE  /\ log \in Seq(Lines) /\ fate \in Seq(Fates) /\ Len(fate) = Len(log) /\ Len(log) \in Nat
         /\ first \in Seq(Nat) /\ Len(first) \in Nat /\ path \in {0, Len(first)}
         /\ drainer \in DrainerType /\ stats \in StatsType
         /\ drainer.fd \in 0..Len(first) /\ drainer.inode \in 0..Len(first) /\ drainer.pos \in 0..(Len(log) + 1)
         /\ drainer.pc \in {"off", "stat", "read", "tick", "check", "reopen"}
         /\ since \in 1..(Len(log) + 1) /\ DOMAIN log = 1..Len(log) /\ DOMAIN fate = 1..Len(log)
         /\ DOMAIN first = 1..Len(first)
BY DEF TypeOK, DrainerType, StatsType, Fates, Lines

LEMMA TypesFrom ==
  ASSUME log \in Seq(Lines), fate \in Seq(Fates), Len(fate) = Len(log),
         first \in Seq(Nat), path \in {0, Len(first)}, drainer \in DrainerType, stats \in StatsType,
         since \in 1..(Len(log) + 1), again \in BOOLEAN, calm \in BOOLEAN
  PROVE  TypeOK
BY DEF TypeOK, DrainerType, StatsType, Fates, Lines

(* A file ends before the next one starts, the newest with the log.        *)
LEMMA LastLines ==
  ASSUME TypeOK, FilesInOrder, NEW i \in 1..Len(first)
  PROVE  /\ LastLine(i) \in Int /\ LastLine(i) =< Len(log)
         /\ first[i] \in 1..(Len(log) + 1) /\ first[i] =< LastLine(i) + 1
         /\ i = Len(first) => LastLine(i) = Len(log)
         /\ i # Len(first) => i + 1 \in 1..Len(first) /\ LastLine(i) + 1 = first[i + 1]
<1>1. Len(log) \in Nat /\ Len(first) \in Nat /\ first[i] \in 1..(Len(log) + 1)
  BY Types DEF FilesInOrder
<1>2. CASE i = Len(first)
  BY <1>1, <1>2 DEF LastLine
<1>3. CASE i # Len(first)
  <2>1. i + 1 \in 1..Len(first) /\ LastLine(i) = first[i + 1] - 1
    BY <1>1, <1>3 DEF LastLine
  <2>2. first[i] =< first[i + 1] /\ first[i + 1] \in 1..(Len(log) + 1)
    BY <1>1, <2>1 DEF FilesInOrder
  <2>3. QED
    BY <1>1, <1>3, <2>1, <2>2
<1>4. QED
  BY <1>2, <1>3

LEMMA InitEstablishesIInv == ASSUME Init PROVE IInv
<1>1. /\ log = <<>> /\ drainer = Off /\ stats = FreshStats
      /\ fate = <<>> /\ again = FALSE /\ since = 1 /\ calm = TRUE
      /\ (first = <<1>> /\ path = 1) \/ (first = <<>> /\ path = 0)
  BY DEF Init
<1>2. ~On
  BY <1>1 DEF On, Off
<1>3. Len(log) = 0 /\ Len(first) \in {0, 1} /\ \A i \in 1..Len(first) : first[i] = 1
  BY <1>1
<1>4. drainer \in DrainerType /\ stats \in StatsType /\ first \in Seq(Nat) /\ path \in {0, Len(first)}
  <2>1. Len(first) \in Nat /\ first \in Seq(Nat) /\ path \in {0, Len(first)}
    <3>1. <<1>> \in Seq(Nat) /\ Len(<<1>>) = 1
      OBVIOUS
    <3>2. <<>> \in Seq(Nat) /\ Len(<<>>) = 0
      OBVIOUS
    <3>3. QED
      BY <1>1, <3>1, <3>2
  <2>2. Off \in DrainerType
    BY <1>3, <2>1 DEF Off, DrainerType
  <2>3. FreshStats \in StatsType
    BY DEF FreshStats, StatsType
  <2>4. QED
    BY <1>1, <2>1, <2>2, <2>3
<1>5. TypeOK
  <2>1. log \in Seq(Lines) /\ fate \in Seq(Fates) /\ Len(fate) = Len(log)
    BY <1>1
  <2>2. since \in 1..(Len(log) + 1) /\ again \in BOOLEAN /\ calm \in BOOLEAN
    <3>1. 1 \in 1..(0 + 1)
      OBVIOUS
    <3>2. QED
      BY <1>1, <1>3, <3>1
  <2>3. QED
    BY <1>4, <2>1, <2>2, TypesFrom
<1>6. FilesInOrder
  BY <1>3 DEF FilesInOrder
<1>7. RepeatsHaveAnExample
  BY <1>1 DEF RepeatsHaveAnExample
<1>8. QED
  BY <1>2, <1>5, <1>6, <1>7
     DEF IInv, InTheFile, StartFileStays, KnownIsShown, GapsAreBehind, CalmPlaces, CalmReadsAll

-----------------------------------------------------------------------------
(* The program that logs.                                                  *)
LEMMA WriteKeepsIInv == ASSUME IInv, NEW kind \in Lines, Write(kind) PROVE IInv'
<1> DEFINE N == Len(log)
<1>0. TypeOK /\ FilesInOrder
  BY DEF IInv
<1>1. /\ path # 0 /\ log' = Append(log, kind) /\ fate' = Append(fate, "unread")
      /\ UNCHANGED <<first, path, drainer, stats, again, since, calm>>
  BY DEF Write
<1>2. /\ log \in Seq(Lines) /\ fate \in Seq(Fates) /\ Len(fate) = N /\ N \in Nat
      /\ since \in 1..(N + 1) /\ DOMAIN log = 1..N /\ DOMAIN fate = 1..N
      /\ Len(first) \in Nat /\ path = Len(first)
  BY <1>0, <1>1, Types
<1>3. /\ Len(log') = N + 1 /\ log' \in Seq(Lines) /\ DOMAIN log' = 1..(N + 1)
      /\ fate' \in Seq(Fates) /\ Len(fate') = N + 1
      /\ log'[N + 1] = kind /\ fate'[N + 1] = "unread"
      /\ \A n \in 1..N : log'[n] = log[n] /\ fate'[n] = fate[n]
  BY <1>1, <1>2 DEF Fates
<1> HIDE DEF N
<1>4. /\ \A n \in 1..(N + 1) : n \in 1..N \/ n = N + 1
      /\ \A n \in 1..N : n \in 1..(N + 1) /\ n < N + 1
  BY <1>2
<1>5. TypeOK'
  <2>1. drainer' \in DrainerType'
    BY <1>0, <1>1, <1>2, <1>3, Types DEF DrainerType, N
  <2>2. since' \in 1..(Len(log') + 1)
    BY <1>1, <1>2, <1>3
  <2>3. first' \in Seq(Nat) /\ path' \in {0, Len(first')} /\ stats' \in StatsType /\ again' \in BOOLEAN /\ calm' \in BOOLEAN
    BY <1>0, <1>1, Types DEF TypeOK
  <2>4. QED
    BY <1>3, <2>1, <2>2, <2>3 DEF TypeOK, DrainerType, StatsType, Fates, Lines
<1>6. FilesInOrder'
  BY <1>0, <1>1, <1>2, <1>3 DEF FilesInOrder, N
<1>7. ASSUME drainer.fd # 0
      PROVE  /\ drainer.fd \in 1..Len(first) /\ LastLine(drainer.fd) \in Int /\ LastLine(drainer.fd)' \in Int
             /\ LastLine(drainer.fd) =< N /\ LastLine(drainer.fd)' >= LastLine(drainer.fd)
             /\ drainer.fd # path => LastLine(drainer.fd)' = LastLine(drainer.fd)
  <2>1. drainer.fd \in 1..Len(first)
    BY <1>0, <1>7, Types
  <2>2. LastLine(drainer.fd) \in Int /\ LastLine(drainer.fd) =< N
    BY <1>0, <2>1, LastLines DEF N
  <2>3. CASE drainer.fd = Len(first)
    BY <1>1, <1>2, <1>3, <2>1, <2>2, <2>3 DEF LastLine, N
  <2>4. CASE drainer.fd # Len(first)
    BY <1>1, <1>2, <1>3, <2>1, <2>2, <2>4 DEF LastLine, N
  <2>5. QED
    BY <2>1, <2>2, <2>3, <2>4
<1>8. InTheFile'
  <2> SUFFICES ASSUME On, drainer.fd # 0
               PROVE  /\ drainer.pos >= since /\ drainer.pos >= first[drainer.fd]
                      /\ drainer.pos =< LastLine(drainer.fd)' + 1
                      /\ \A n \in 1..(N + 1) : first[drainer.fd] =< n /\ n < drainer.pos => fate'[n] # "unread"
    BY <1>1, <1>3 DEF InTheFile, On
  <2>1. /\ drainer.pos >= since /\ drainer.pos >= first[drainer.fd] /\ drainer.pos \in Int
        /\ drainer.pos =< LastLine(drainer.fd) + 1
        /\ \A n \in 1..N : first[drainer.fd] =< n /\ n < drainer.pos => fate[n] # "unread"
    BY <1>0, Types DEF IInv, InTheFile, N
  <2>2. drainer.pos =< N + 1 /\ drainer.pos =< LastLine(drainer.fd)' + 1
    BY <1>2, <1>7, <2>1
  <2>3. QED
    BY <1>2, <1>3, <1>4, <2>1, <2>2
<1>9. StartFileStays'
  BY <1>1 DEF IInv, StartFileStays, On
<1>10. KnownIsShown'
  <2> SUFFICES ASSUME On PROVE KnownIsShown'
    BY <1>1 DEF KnownIsShown, On
  <2>1. /\ \A n \in 1..N : fate[n] = "skipped" <=> n < since
        /\ \A n \in 1..N : WasRead(n) /\ log[n] \in Templates => stats[log[n]].known
        /\ \A t \in Templates : stats[t].known => \E m \in 1..N : log[m] = t /\ fate[m] = "shown"
    BY DEF IInv, KnownIsShown, N
  <2>2. \A n \in 1..(N + 1) : fate'[n] = "skipped" <=> n < since
    BY <1>2, <1>3, <1>4, <2>1
  <2>3. \A n \in 1..(N + 1) : WasRead(n)' => n \in 1..N /\ WasRead(n)
    BY <1>3, <1>4 DEF WasRead
  <2>4. \A n \in 1..(N + 1) : WasRead(n)' /\ log'[n] \in Templates => stats[log'[n]].known
    BY <1>3, <2>1, <2>3
  <2>5. \A t \in Templates : stats[t].known => \E m \in 1..(N + 1) : log'[m] = t /\ fate'[m] = "shown"
    BY <1>3, <1>4, <2>1
  <2>6. QED
    BY <1>1, <1>3, <2>2, <2>4, <2>5 DEF KnownIsShown
<1>11. GapsAreBehind'
  <2> SUFFICES ASSUME On, NEW m \in 1..(N + 1), NEW n \in 1..(N + 1), n < m, WasRead(m)', fate'[n] = "unread"
               PROVE  n < Here'
    BY <1>1, <1>3 DEF GapsAreBehind, On
  <2>1. m \in 1..N /\ WasRead(m)
    BY <1>3, <1>4 DEF WasRead
  <2>2. n \in 1..N /\ fate[n] = "unread"
    BY <1>2, <1>3, <2>1
  <2>3. n < Here
    BY <2>1, <2>2 DEF IInv, GapsAreBehind, N
  <2>4. QED
    BY <1>1, <2>3 DEF Here
<1>12. CalmPlaces'
  <2> SUFFICES ASSUME On, calm PROVE CalmPlaces'
    BY <1>1 DEF CalmPlaces, On
  <2>1. /\ drainer.pc = "stat" => path = drainer.fd
        /\ drainer.pc \in {"read", "tick", "check"} => drainer.inode = drainer.fd
        /\ drainer.pc = "reopen" => path # 0 /\ drainer.inode = path
    BY DEF IInv, CalmPlaces
  <2>2. drainer.fd = 0 => since = first[path]
    BY <1>1 DEF IInv, CalmPlaces
  <2>3. ASSUME drainer.fd # 0
        PROVE  /\ Len(first) = drainer.fd \/ path = drainer.fd + 1
               /\ drainer.pc = "reopen" => path = drainer.fd + 1
               /\ drainer.pc \in {"tick", "check", "reopen"} /\ path # drainer.fd =>
                    drainer.pos = LastLine(drainer.fd)' + 1
    BY <1>7, <2>3 DEF IInv, CalmPlaces
  <2>4. QED
    BY <1>1, <2>1, <2>2, <2>3 DEF CalmPlaces
<1>13. CalmReadsAll'
  <2> SUFFICES ASSUME On, calm PROVE CalmReadsAll'
    BY <1>1 DEF CalmReadsAll, On
  <2>1. ~again /\ \A n \in 1..N : n >= since => (fate[n] = "unread" <=> n >= Frontier)
    BY DEF IInv, CalmReadsAll, N
  <2>2. Frontier' = Frontier /\ N + 1 >= Frontier
    <3>1. drainer.fd # 0 => drainer.pos =< LastLine(drainer.fd) + 1 /\ drainer.pos \in Int
      BY <1>0, Types DEF IInv, InTheFile
    <3>2. QED
      BY <1>1, <1>2, <1>7, <3>1 DEF Frontier
  <2>3. \A n \in 1..(N + 1) : n >= since => (fate'[n] = "unread" <=> n >= Frontier)
    BY <1>3, <1>4, <2>1, <2>2
  <2>4. QED
    BY <1>1, <1>3, <2>1, <2>2, <2>3 DEF CalmReadsAll
<1>14. RepeatsHaveAnExample'
  <2>1. \A n \in 1..N : fate[n] \in {"pending", "counted", "dropped"} =>
          \E m \in 1..(n - 1) : log[m] = log[n] /\ fate[m] = "shown"
    BY <1>2 DEF IInv, RepeatsHaveAnExample
  <2>2. ASSUME NEW n \in 1..(N + 1), fate'[n] \in {"pending", "counted", "dropped"}
        PROVE  \E m \in 1..(n - 1) : log'[m] = log'[n] /\ fate'[m] = "shown"
    <3>1. n \in 1..N /\ fate'[n] = fate[n] /\ log'[n] = log[n]
      BY <1>3, <1>4, <2>2
    <3>2. PICK m \in 1..(n - 1) : log[m] = log[n] /\ fate[m] = "shown"
      BY <2>1, <2>2, <3>1
    <3>3. m \in 1..N
      BY <1>2, <3>1
    <3>4. QED
      BY <1>3, <3>1, <3>2, <3>3
  <2>3. QED
    BY <1>3, <2>2 DEF RepeatsHaveAnExample
<1>15. QED
  BY <1>5, <1>6, <1>8, <1>9, <1>10, <1>11, <1>12, <1>13, <1>14 DEF IInv

(* Steps that touch neither the log nor what became of its lines.          *)
LEMMA QuietStep ==
  ASSUME IInv, UNCHANGED <<log, first, stats, fate, since, again>>, path' \in {0, Len(first)},
         drainer' \in DrainerType, calm' \in BOOLEAN, On' => On
  PROVE  TypeOK' /\ FilesInOrder' /\ KnownIsShown' /\ RepeatsHaveAnExample'
<1>1. TypeOK'
  BY DEF IInv, TypeOK, DrainerType
<1>2. FilesInOrder' /\ RepeatsHaveAnExample'
  BY DEF IInv, FilesInOrder, RepeatsHaveAnExample
<1>3. KnownIsShown'
  BY DEF IInv, KnownIsShown, WasRead
<1>4. QED
  BY <1>1, <1>2, <1>3

LEMMA RenameKeepsIInv == ASSUME IInv, Rename PROVE IInv'
<1>0. TypeOK /\ FilesInOrder
  BY DEF IInv
<1>1. /\ path # 0 /\ path' = 0
      /\ calm' = (calm /\ \/ drainer.pc = "off"
                          \/ drainer.fd = path /\ drainer.pc = "read"
                          \/ drainer.fd = path /\ drainer.pc \in {"tick", "check"} /\ ~HasUnread)
      /\ UNCHANGED <<log, first, drainer, stats, fate, again, since>>
  BY DEF Rename
<1>2. Len(log) \in Nat /\ drainer \in DrainerType /\ path = Len(first) /\ drainer.pos \in Int
  BY <1>0, <1>1, Types
<1>3. calm' \in BOOLEAN /\ (calm' => calm)
  BY <1>0, <1>1 DEF TypeOK
<1>4. TypeOK' /\ FilesInOrder' /\ KnownIsShown' /\ RepeatsHaveAnExample'
  BY <1>1, <1>2, <1>3, QuietStep DEF On
<1>5. InTheFile'
  BY <1>1 DEF IInv, InTheFile, On, LastLine
<1>6. StartFileStays'
  BY <1>1 DEF StartFileStays
<1>7. GapsAreBehind'
  <2>1. \A n \in 1..Len(log) : n < Here => n < Here'
    BY <1>1, <1>2 DEF Here
  <2>2. QED
    BY <1>1, <2>1 DEF IInv, GapsAreBehind, On, WasRead
<1>8. CalmPlaces'
  <2> SUFFICES ASSUME On, calm' PROVE CalmPlaces'
    BY <1>1 DEF CalmPlaces, On
  <2>1. /\ drainer.fd = path /\ drainer.pc \in {"read", "tick", "check"}
        /\ drainer.pc # "read" => ~HasUnread
    BY <1>1 DEF On
  <2>2. drainer.inode = drainer.fd
    BY <1>3, <2>1 DEF IInv, CalmPlaces
  <2>3. drainer.pc # "read" => drainer.pos = LastLine(drainer.fd) + 1
    <3>1. drainer.fd \in 1..Len(first)
      BY <1>1, <1>2, <2>1, Types
    <3>2. LastLine(drainer.fd) \in Int /\ drainer.pos =< LastLine(drainer.fd) + 1
      BY <1>0, <1>1, <2>1, <3>1, LastLines DEF IInv, InTheFile
    <3>3. QED
      BY <1>1, <1>2, <2>1, <3>2 DEF HasUnread
  <2>4. LastLine(drainer.fd)' = LastLine(drainer.fd)
    BY <1>1 DEF LastLine
  <2>5. QED
    BY <1>1, <1>2, <2>1, <2>2, <2>3, <2>4 DEF CalmPlaces
<1>9. CalmReadsAll'
  BY <1>1, <1>3 DEF IInv, CalmReadsAll, On, Frontier
<1>10. QED
  BY <1>4, <1>5, <1>6, <1>7, <1>8, <1>9 DEF IInv

LEMMA CreateKeepsIInv == ASSUME IInv, Create PROVE IInv'
<1> DEFINE K == Len(first)
           N == Len(log)
<1>0. TypeOK /\ FilesInOrder
  BY DEF IInv
<1>1. /\ path = 0 /\ first' = Append(first, N + 1) /\ path' = K + 1
      /\ calm' = (calm /\ drainer.pc # "stat")
      /\ UNCHANGED <<log, drainer, stats, fate, again, since>>
  BY DEF Create
<1>2. /\ first \in Seq(Nat) /\ K \in Nat /\ N \in Nat /\ drainer.fd \in 0..K /\ since \in 1..(N + 1)
      /\ \A i \in 1..K : first[i] \in 1..(N + 1)
  BY <1>0, Types DEF FilesInOrder
<1>3. /\ Len(first') = K + 1 /\ first' \in Seq(Nat) /\ first'[K + 1] = N + 1
      /\ \A i \in 1..K : first'[i] = first[i]
  BY <1>1, <1>2
<1> HIDE DEF K, N
<1>4. calm' \in BOOLEAN /\ (calm' => calm)
  BY <1>0, <1>1 DEF TypeOK
<1>5. /\ \A i \in 1..(K + 1) : i \in 1..K \/ i = K + 1
      /\ \A i \in 1..K : i < K + 1 /\ i \in 1..(K + 1)
  BY <1>2
<1>6. TypeOK'
  <2>1. drainer' \in DrainerType'
    BY <1>0, <1>1, <1>2, <1>3, Types DEF DrainerType, K
  <2>2. path' \in {0, Len(first')}
    BY <1>1, <1>3
  <2>3. /\ log' \in Seq(Lines) /\ fate' \in Seq(Fates) /\ Len(fate') = Len(log') /\ stats' \in StatsType
        /\ since' \in 1..(Len(log') + 1) /\ again' \in BOOLEAN
    BY <1>0, <1>1, Types DEF TypeOK
  <2>4. QED
    BY <1>3, <1>4, <2>1, <2>2, <2>3 DEF TypeOK, DrainerType, StatsType, Fates, Lines
<1>7. FilesInOrder'
  <2>1. \A i \in 1..(K + 1) : first'[i] \in 1..(N + 1)
    BY <1>2, <1>3, <1>5
  <2>2. ASSUME NEW i \in 1..(K + 1), NEW j \in 1..(K + 1), i =< j PROVE first'[i] =< first'[j]
    <3>1. CASE j = K + 1
      BY <1>2, <1>3, <2>1, <3>1
    <3>2. CASE j # K + 1
      <4>1. i \in 1..K /\ j \in 1..K
        BY <1>2, <2>2, <3>2
      <4>2. first[i] =< first[j]
        BY <1>0, <2>2, <4>1 DEF FilesInOrder, K
      <4>3. QED
        BY <1>3, <4>1, <4>2
    <3>3. QED
      BY <3>1, <3>2
  <2>3. QED
    BY <1>1, <1>3, <2>1, <2>2 DEF FilesInOrder, N
<1>8. ASSUME drainer.fd # 0
      PROVE  /\ drainer.fd \in 1..K /\ first'[drainer.fd] = first[drainer.fd]
             /\ LastLine(drainer.fd)' = LastLine(drainer.fd)
  <2>1. drainer.fd \in 1..K
    BY <1>2, <1>8
  <2>2. LastLine(drainer.fd)' = first'[drainer.fd + 1] - 1
    BY <1>1, <1>2, <1>3, <2>1 DEF LastLine
  <2>3. CASE drainer.fd = K
    BY <1>2, <1>3, <2>1, <2>2, <2>3 DEF LastLine, K, N
  <2>4. CASE drainer.fd # K
    <3>1. drainer.fd + 1 \in 1..K
      BY <1>2, <2>1, <2>4
    <3>2. QED
      BY <1>3, <2>1, <2>2, <2>4, <3>1 DEF LastLine, K
  <2>5. QED
    BY <1>3, <2>1, <2>3, <2>4
<1>9. InTheFile'
  BY <1>1, <1>8 DEF IInv, InTheFile, On
<1>10. StartFileStays'
  BY <1>1, <1>2, <1>3 DEF StartFileStays
<1>11. KnownIsShown' /\ RepeatsHaveAnExample'
  BY <1>1 DEF IInv, KnownIsShown, RepeatsHaveAnExample, On, WasRead
<1>12. GapsAreBehind'
  <2>1. Here' = Here
    <3>1. CASE drainer.fd = 0
      BY <1>1, <1>2, <1>3, <3>1 DEF Here, N
    <3>2. CASE drainer.fd # 0
      BY <1>1, <1>8, <3>2 DEF Here
    <3>3. QED
      BY <3>1, <3>2
  <2>2. QED
    BY <1>1, <2>1 DEF IInv, GapsAreBehind, On, WasRead
<1>13. CalmPlaces'
  <2> SUFFICES ASSUME On, calm, drainer.pc # "stat" PROVE CalmPlaces'
    BY <1>1 DEF CalmPlaces, On
  <2>1. /\ drainer.pc \in {"read", "tick", "check"} => drainer.inode = drainer.fd
        /\ drainer.pc # "reopen"
    BY <1>1 DEF IInv, CalmPlaces
  <2>2. CASE drainer.fd = 0
    <3>1. since = N + 1
      BY <1>1, <2>2 DEF IInv, CalmPlaces, N
    <3>2. since' = first'[path'] /\ path' # 0
      BY <1>1, <1>2, <1>3, <3>1
    <3>3. QED
      BY <1>1, <2>1, <2>2, <3>2 DEF CalmPlaces
  <2>3. CASE drainer.fd # 0
    <3>1. K = drainer.fd
      BY <1>1, <1>8, <2>3 DEF IInv, CalmPlaces, K
    <3>2. drainer.pc \in {"tick", "check"} => drainer.pos = LastLine(drainer.fd) + 1
      BY <1>1, <2>3 DEF IInv, CalmPlaces
    <3>3. path' = drainer.fd + 1
      BY <1>1, <3>1
    <3>4. QED
      BY <1>1, <1>8, <2>1, <2>3, <3>2, <3>3 DEF CalmPlaces
  <2>4. QED
    BY <2>2, <2>3
<1>14. CalmReadsAll'
  BY <1>1, <1>4 DEF IInv, CalmReadsAll, On, Frontier
<1>15. QED
  BY <1>6, <1>7, <1>9, <1>10, <1>11, <1>12, <1>13, <1>14 DEF IInv

-----------------------------------------------------------------------------
(* The drainer, where it reads nothing.                                    *)
LEMMA StopKeepsIInv == ASSUME IInv, Stop PROVE IInv'
<1>0. TypeOK
  BY DEF IInv
<1>1. drainer' = Off /\ UNCHANGED <<inputVars, stats, out, historyVars>> /\ ~On'
  BY DEF Stop, On, Off
<1>2. drainer' \in DrainerType /\ calm' \in BOOLEAN /\ path' \in {0, Len(first)}
  BY <1>0, <1>1, Types DEF TypeOK, DrainerType, Off, inputVars, historyVars
<1>3. TypeOK' /\ FilesInOrder' /\ KnownIsShown' /\ RepeatsHaveAnExample'
  BY <1>1, <1>2, QuietStep DEF inputVars, historyVars
<1>4. QED
  BY <1>1, <1>3 DEF IInv, InTheFile, StartFileStays, GapsAreBehind, CalmPlaces, CalmReadsAll

(* a step that changes nothing but its place and the inode it remembers    *)
LEMMA PcStep ==
  ASSUME IInv, On, UNCHANGED <<inputVars, stats, out, historyVars>>,
         drainer' \in DrainerType, drainer'.fd = drainer.fd, drainer'.pos = drainer.pos
  PROVE  /\ TypeOK' /\ FilesInOrder' /\ KnownIsShown' /\ RepeatsHaveAnExample'
         /\ InTheFile' /\ GapsAreBehind' /\ CalmReadsAll'
<1>1. UNCHANGED <<log, first, path, stats, fate, since, again, calm>>
  BY DEF inputVars, historyVars
<1>2. calm' \in BOOLEAN /\ path' \in {0, Len(first)}
  BY <1>1, Types DEF IInv, TypeOK
<1>3. TypeOK' /\ FilesInOrder' /\ KnownIsShown' /\ RepeatsHaveAnExample'
  BY <1>1, <1>2, QuietStep
<1>4. InTheFile'
  BY <1>1 DEF IInv, InTheFile, LastLine
<1>5. GapsAreBehind' /\ CalmReadsAll'
  BY <1>1 DEF IInv, GapsAreBehind, CalmReadsAll, WasRead, Here, Frontier
<1>6. QED
  BY <1>3, <1>4, <1>5

LEMMA StatInputKeepsIInv == ASSUME IInv, StatInput PROVE IInv'
<1>0. TypeOK
  BY DEF IInv
<1>1. /\ drainer.pc = "stat" /\ On
      /\ drainer' = [drainer EXCEPT !.pc = "read", !.inode = path]
      /\ UNCHANGED <<inputVars, stats, out, historyVars>>
  BY DEF StatInput, On
<1>2. UNCHANGED <<log, first, path, since, calm>>
  BY <1>1 DEF inputVars, historyVars
<1>3. /\ drainer' \in DrainerType /\ drainer'.fd = drainer.fd /\ drainer'.pos = drainer.pos
      /\ drainer'.pc = "read" /\ drainer'.inode = path
  <2>1. path \in 0..Len(first) /\ drainer \in DrainerType
    BY <1>0, Types
  <2>2. QED
    BY <1>1, <1>2, <2>1 DEF DrainerType
<1>4. /\ TypeOK' /\ FilesInOrder' /\ KnownIsShown' /\ RepeatsHaveAnExample'
      /\ InTheFile' /\ GapsAreBehind' /\ CalmReadsAll'
  BY <1>1, <1>3, PcStep
<1>5. StartFileStays'
  BY <1>1, <1>2, <1>3 DEF IInv, StartFileStays
<1>6. CalmPlaces'
  BY <1>1, <1>2, <1>3 DEF IInv, CalmPlaces
<1>7. QED
  BY <1>4, <1>5, <1>6 DEF IInv

LEMMA ReachEndKeepsIInv == ASSUME IInv, ReachEnd PROVE IInv'
<1>0. TypeOK /\ FilesInOrder
  BY DEF IInv
<1>1. /\ drainer.pc = "read" /\ On /\ ~HasUnread
      /\ drainer' = [drainer EXCEPT !.pc = "tick"]
      /\ UNCHANGED <<inputVars, stats, out, historyVars>>
  BY DEF ReachEnd, On
<1>2. UNCHANGED <<log, first, path, since, calm>>
  BY <1>1 DEF inputVars, historyVars
<1>3. /\ drainer' \in DrainerType /\ drainer'.fd = drainer.fd /\ drainer'.pos = drainer.pos
      /\ drainer'.pc = "tick" /\ drainer'.inode = drainer.inode
  BY <1>0, <1>1, Types DEF DrainerType
<1>4. /\ TypeOK' /\ FilesInOrder' /\ KnownIsShown' /\ RepeatsHaveAnExample'
      /\ InTheFile' /\ GapsAreBehind' /\ CalmReadsAll'
  BY <1>1, <1>3, PcStep
<1>5. StartFileStays'
  BY <1>1, <1>2, <1>3 DEF IInv, StartFileStays
<1>6. drainer.fd # 0 => drainer.pos = LastLine(drainer.fd) + 1
  <2> SUFFICES ASSUME drainer.fd # 0 PROVE drainer.pos = LastLine(drainer.fd) + 1
    OBVIOUS
  <2>1. drainer.fd \in 1..Len(first) /\ drainer.pos \in Int
    BY <1>0, Types
  <2>2. LastLine(drainer.fd) \in Int
    BY <1>0, <2>1, LastLines
  <2>3. drainer.pos =< LastLine(drainer.fd) + 1
    BY <1>1 DEF IInv, InTheFile
  <2>4. QED
    BY <1>1, <2>1, <2>2, <2>3 DEF HasUnread
<1>7. LastLine(drainer.fd)' = LastLine(drainer.fd)
  BY <1>2, <1>3 DEF LastLine
<1>8. CalmPlaces'
  <2> SUFFICES ASSUME calm PROVE CalmPlaces'
    BY <1>2 DEF CalmPlaces
  <2>1. /\ drainer.inode = drainer.fd
        /\ drainer.fd = 0 => since = IF path = 0 THEN Len(log) + 1 ELSE first[path]
        /\ drainer.fd # 0 => Len(first) = drainer.fd \/ path = drainer.fd + 1
    BY <1>1 DEF IInv, CalmPlaces
  <2>2. QED
    BY <1>2, <1>3, <1>6, <1>7, <2>1 DEF CalmPlaces
<1>9. QED
  BY <1>4, <1>5, <1>8 DEF IInv

LEMMA CheckInodeKeepsIInv == ASSUME IInv, CheckInode PROVE IInv'
<1> DEFINE moved == path # 0 /\ path # drainer.inode
<1>0. TypeOK
  BY DEF IInv
<1>1. /\ drainer.pc = "check" /\ On
      /\ drainer' = IF moved THEN [drainer EXCEPT !.pc = "reopen", !.inode = path]
                    ELSE [drainer EXCEPT !.pc = "read"]
      /\ UNCHANGED <<inputVars, stats, out, historyVars>>
  BY DEF CheckInode, On
<1>2. UNCHANGED <<log, first, path, since, calm>>
  BY <1>1 DEF inputVars, historyVars
<1>3. /\ drainer' \in DrainerType /\ drainer'.fd = drainer.fd /\ drainer'.pos = drainer.pos
      /\ moved => drainer'.pc = "reopen" /\ drainer'.inode = path
      /\ ~moved => drainer'.pc = "read" /\ drainer'.inode = drainer.inode
  <2>1. path \in 0..Len(first) /\ drainer \in DrainerType
    BY <1>0, Types
  <2> HIDE DEF moved
  <2>2. QED
    BY <1>1, <1>2, <2>1 DEF DrainerType
<1>4. /\ TypeOK' /\ FilesInOrder' /\ KnownIsShown' /\ RepeatsHaveAnExample'
      /\ InTheFile' /\ GapsAreBehind' /\ CalmReadsAll'
  BY <1>1, <1>3, PcStep
<1>5. StartFileStays'
  BY <1>1, <1>2, <1>3 DEF IInv, StartFileStays
<1>6. LastLine(drainer.fd)' = LastLine(drainer.fd)
  BY <1>2, <1>3 DEF LastLine
<1>7. CalmPlaces'
  <2> SUFFICES ASSUME calm PROVE CalmPlaces'
    BY <1>2 DEF CalmPlaces
  <2>1. /\ drainer.inode = drainer.fd
        /\ drainer.fd = 0 => since = IF path = 0 THEN Len(log) + 1 ELSE first[path]
        /\ drainer.fd # 0 => Len(first) = drainer.fd \/ path = drainer.fd + 1
        /\ drainer.fd # 0 /\ path # drainer.fd => drainer.pos = LastLine(drainer.fd) + 1
    BY <1>1 DEF IInv, CalmPlaces
  <2>2. CASE moved
    <3>1. drainer.fd # 0 => path = drainer.fd + 1
      BY <1>0, <2>1, <2>2, Types
    <3>2. QED
      BY <1>2, <1>3, <1>6, <2>1, <2>2, <3>1 DEF CalmPlaces
  <2>3. CASE ~moved
    <3>1. drainer'.pc = "read" /\ drainer'.inode = drainer.inode
      BY <1>3, <2>3
    <3>2. QED
      BY <1>2, <1>3, <2>1, <3>1 DEF CalmPlaces
  <2>4. QED
    BY <2>2, <2>3
<1>8. QED
  BY <1>4, <1>5, <1>7 DEF IInv

LEMMA ReopenKeepsIInv == ASSUME IInv, Reopen PROVE IInv'
<1> DEFINE pos == IF path = 0 THEN 0 ELSE first[path]
<1>0. TypeOK /\ FilesInOrder
  BY DEF IInv
<1>1. /\ drainer.pc = "reopen" /\ On
      /\ drainer' = [drainer EXCEPT !.pc = "read", !.fd = path, !.pos = pos]
      /\ UNCHANGED <<inputVars, stats, out, historyVars>>
  BY DEF Reopen, On
<1>2. UNCHANGED <<log, first, path, stats, fate, since, again, calm>>
  BY <1>1 DEF inputVars, historyVars
<1>3. path # 0 => path \in 1..Len(first) /\ path = Len(first) /\ first[path] \in 1..(Len(log) + 1)
  BY <1>0, Types DEF FilesInOrder
<1>4. pos \in 0..(Len(log) + 1) /\ path \in 0..Len(first) /\ path' \in {0, Len(first)} /\ calm' \in BOOLEAN
  <2>1. Len(log) \in Nat /\ path \in {0, Len(first)} /\ Len(first) \in Nat
    BY <1>0, Types
  <2>2. pos \in 0..(Len(log) + 1)
    BY <1>3, <2>1
  <2>3. QED
    BY <1>0, <1>2, <2>1, <2>2 DEF TypeOK
<1> HIDE DEF pos
<1>5. /\ drainer' \in DrainerType /\ drainer'.fd = path /\ drainer'.pos = pos
      /\ drainer'.pc = "read" /\ drainer'.inode = drainer.inode
  BY <1>0, <1>1, <1>4, Types DEF DrainerType
<1>6. TypeOK' /\ FilesInOrder' /\ KnownIsShown' /\ RepeatsHaveAnExample'
  BY <1>1, <1>2, <1>4, <1>5, QuietStep
<1>7. path # 0 => first[path] >= since
  <2>1. ~(path # 0 /\ first[path] < since)
    BY <1>1 DEF IInv, StartFileStays
  <2>2. QED
    BY <1>0, <1>3, <2>1, Types
<1>8. InTheFile'
  <2> SUFFICES ASSUME path # 0 PROVE InTheFile'
    BY <1>5 DEF InTheFile
  <2>1. pos = first[path] /\ pos \in Int
    BY <1>3 DEF pos
  <2>2. first[path] =< LastLine(path) + 1
    BY <1>0, <1>3, LastLines
  <2>3. LastLine(path)' = LastLine(path)
    BY <1>2 DEF LastLine
  <2>4. \A n \in 1..Len(log) : ~(first[path] =< n /\ n < pos)
    BY <1>3, <2>1
  <2>5. QED
    BY <1>2, <1>3, <1>5, <1>7, <2>1, <2>2, <2>3, <2>4 DEF InTheFile
<1>9. StartFileStays'
  <2>1. path # 0 => ~(first[path] < since)
    BY <1>1 DEF IInv, StartFileStays
  <2>2. QED
    BY <1>2, <2>1 DEF StartFileStays
<1>10. GapsAreBehind'
  <2>1. Here' = IF path # 0 THEN first[path] ELSE Len(log) + 1
    BY <1>2, <1>5 DEF Here
  <2>2. ASSUME NEW n \in 1..Len(log), n < Here PROVE n < Here'
    <3>1. CASE path = 0
      BY <1>0, <2>1, <2>2, <3>1, Types
    <3>2. CASE path # 0 /\ drainer.fd = 0
      BY <2>1, <2>2, <3>2 DEF Here
    <3>3. CASE path # 0 /\ drainer.fd # 0
      <4>1. drainer.fd \in 1..Len(first) /\ drainer.fd =< path
        BY <1>0, <1>3, <3>3, Types
      <4>2. first[drainer.fd] =< first[path] /\ first[drainer.fd] \in Int
        BY <1>0, <1>3, <3>3, <4>1 DEF FilesInOrder
      <4>3. QED
        BY <1>3, <2>1, <2>2, <3>3, <4>2 DEF Here
    <3>4. QED
      BY <3>1, <3>2, <3>3
  <2>3. QED
    BY <1>1, <1>2, <2>2 DEF IInv, GapsAreBehind, WasRead
<1>11. CalmPlaces'
  <2> SUFFICES ASSUME calm PROVE CalmPlaces'
    BY <1>2 DEF CalmPlaces
  <2>1. path # 0 /\ drainer.inode = path
    BY <1>1 DEF IInv, CalmPlaces
  <2>2. QED
    BY <1>2, <1>3, <1>5, <2>1 DEF CalmPlaces
<1>12. CalmReadsAll'
  <2> SUFFICES ASSUME calm PROVE CalmReadsAll'
    BY <1>2 DEF CalmReadsAll
  <2>1. path # 0
    BY <1>1 DEF IInv, CalmPlaces
  <2>2. Frontier' = first[path]
    BY <1>5, <2>1 DEF Frontier, pos
  <2>3. Frontier = first[path]
    <3>1. CASE drainer.fd = 0
      BY <1>1, <2>1, <3>1 DEF IInv, CalmPlaces, Frontier
    <3>2. CASE drainer.fd # 0
      <4>1. drainer.fd \in 1..Len(first)
        BY <1>0, <3>2, Types
      <4>2. path = drainer.fd + 1
        BY <1>1, <3>2 DEF IInv, CalmPlaces
      <4>3. path # drainer.fd /\ drainer.fd # Len(first)
        BY <1>3, <2>1, <4>1, <4>2
      <4>4. drainer.pos = LastLine(drainer.fd) + 1
        BY <1>1, <3>2, <4>3 DEF IInv, CalmPlaces
      <4>5. LastLine(drainer.fd) + 1 = first[drainer.fd + 1]
        BY <1>0, <4>1, <4>3, LastLines
      <4>6. QED
        BY <3>2, <4>2, <4>4, <4>5 DEF Frontier
    <3>3. QED
      BY <3>1, <3>2
  <2>4. QED
    BY <1>1, <1>2, <2>2, <2>3 DEF IInv, CalmReadsAll
<1>13. QED
  BY <1>6, <1>8, <1>9, <1>10, <1>11, <1>12 DEF IInv

-----------------------------------------------------------------------------
LEMMA StartKeepsIInv == ASSUME IInv, NEW fromStart \in BOOLEAN, Start(fromStart) PROVE IInv'
<1> DEFINE N == Len(log)
           from == IF fromStart /\ path # 0 THEN first[path] ELSE N + 1
<1>0. TypeOK /\ FilesInOrder
  BY DEF IInv
<1>1. /\ drainer.pc = "off" /\ since' = from
      /\ drainer' = [pc |-> "stat", fd |-> path, inode |-> 0, pos |-> from]
      /\ stats' = FreshStats
      /\ fate' = [n \in DOMAIN log |-> IF n < from THEN "skipped" ELSE "unread"]
      /\ again' = FALSE /\ calm' = TRUE /\ UNCHANGED <<log, first, path>>
  BY DEF Start, inputVars, SeekEnd
<1>2. /\ N \in Nat /\ DOMAIN log = 1..N /\ path \in {0, Len(first)} /\ Len(first) \in Nat
      /\ path # 0 => path \in 1..Len(first) /\ first[path] \in 1..(N + 1)
  BY <1>0, Types DEF FilesInOrder
<1>3. /\ from \in 1..(N + 1) /\ (path # 0 => from >= first[path]) /\ (path = 0 => from = N + 1)
  BY <1>2
<1> HIDE DEF from, N
<1>4. /\ fate' \in Seq(Fates) /\ Len(fate') = N
      /\ \A n \in 1..N : fate'[n] = IF n < from THEN "skipped" ELSE "unread"
  BY <1>1, <1>2 DEF Fates
<1>5. TypeOK'
  <2>1. drainer' \in DrainerType'
    BY <1>1, <1>2, <1>3 DEF DrainerType, N
  <2>2. stats' \in StatsType
    BY <1>1 DEF FreshStats, StatsType
  <2>3. log' \in Seq(Lines) /\ first' \in Seq(Nat) /\ path' \in {0, Len(first')}
    BY <1>0, <1>1, Types
  <2>4. Len(fate') = Len(log') /\ since' \in 1..(Len(log') + 1) /\ again' \in BOOLEAN /\ calm' \in BOOLEAN
    BY <1>1, <1>3, <1>4 DEF N
  <2>5. QED
    BY <1>4, <2>1, <2>2, <2>3, <2>4 DEF TypeOK, DrainerType, StatsType, Fates, Lines
<1>6. FilesInOrder'
  BY <1>0, <1>1 DEF FilesInOrder
<1>7. InTheFile'
  <2> SUFFICES ASSUME path # 0 PROVE InTheFile'
    BY <1>1 DEF InTheFile
  <2>1. path = Len(first)
    BY <1>2
  <2>2. LastLine(path)' = N
    BY <1>1, <2>1 DEF LastLine, N
  <2>3. \A n \in 1..N : n < from => fate'[n] # "unread"
    BY <1>4
  <2>4. QED
    BY <1>1, <1>2, <1>3, <2>2, <2>3 DEF InTheFile, N
<1>8. StartFileStays'
  BY <1>1 DEF StartFileStays
<1>9. \A n \in 1..N : ~WasRead(n)'
  BY <1>4 DEF WasRead
<1>10. KnownIsShown'
  <2>1. \A t \in Templates : ~stats'[t].known
    BY <1>1 DEF FreshStats
  <2>2. QED
    BY <1>1, <1>4, <1>9, <2>1 DEF KnownIsShown, N
<1>11. GapsAreBehind'
  BY <1>1, <1>9 DEF GapsAreBehind, N
<1>12. CalmPlaces'
  BY <1>1, <1>2, <1>3 DEF CalmPlaces, N
<1>13. CalmReadsAll'
  <2>1. Frontier' = from
    BY <1>1 DEF Frontier
  <2>2. \A n \in 1..N : n >= from => (fate'[n] = "unread" <=> n >= from)
    BY <1>3, <1>4
  <2>3. QED
    BY <1>1, <2>1, <2>2 DEF CalmReadsAll, N
<1>14. RepeatsHaveAnExample'
  BY <1>1, <1>2, <1>4 DEF RepeatsHaveAnExample
<1>15. QED
  BY <1>5, <1>6, <1>7, <1>8, <1>10, <1>11, <1>12, <1>13, <1>14 DEF IInv

-----------------------------------------------------------------------------
LEMMA TickKeepsIInv == ASSUME IInv, NEW due \in BOOLEAN, Tick(due) PROVE IInv'
<1> DEFINE N == Len(log)
<1>0. TypeOK
  BY DEF IInv
<1>1. /\ drainer.pc = "tick" /\ On /\ drainer' = [drainer EXCEPT !.pc = "check"]
      /\ UNCHANGED <<log, first, path, again, since, calm>>
  BY DEF Tick, On, inputVars
<1>2. /\ drainer' \in DrainerType /\ drainer'.fd = drainer.fd /\ drainer'.pos = drainer.pos
      /\ drainer'.pc = "check" /\ drainer'.inode = drainer.inode
  BY <1>0, <1>1, Types DEF DrainerType
<1>3. /\ fate \in Seq(Fates) /\ Len(fate) = N /\ N \in Nat /\ DOMAIN fate = 1..N /\ stats \in StatsType
      /\ DOMAIN log = 1..N
  BY <1>0, Types
<1> HIDE DEF N
<1>4. /\ stats' \in StatsType
      /\ \A t \in Templates : stats'[t].known = stats[t].known
      /\ fate' \in Seq(Fates) /\ Len(fate') = N
      /\ \A n \in 1..N : \/ fate'[n] = fate[n]
                         \/ fate[n] = "pending" /\ fate'[n] \in {"counted", "dropped"}
  <2>1. CASE due
    <3>1. /\ stats' = [t \in Templates |-> [stats[t] EXCEPT !.window = 0]]
          /\ fate' = [n \in DOMAIN fate |-> IF fate[n] # "pending" THEN fate[n]
                                            ELSE IF Summed(log[n]) THEN "counted" ELSE "dropped"]
      BY <2>1 DEF Tick
    <3>2. stats' \in StatsType /\ \A t \in Templates : stats'[t].known = stats[t].known
      BY <1>3, <3>1 DEF StatsType
    <3>3. \A n \in 1..N : fate[n] \in Fates
      BY <1>3
    <3>4. \A n \in 1..N : /\ fate'[n] \in Fates
                          /\ \/ fate'[n] = fate[n]
                             \/ fate[n] = "pending" /\ fate'[n] \in {"counted", "dropped"}
      BY <1>3, <3>1, <3>3 DEF Fates
    <3>5. DOMAIN fate' = 1..N /\ fate' = [n \in 1..N |-> fate'[n]]
      BY <1>3, <3>1
    <3>6. fate' \in Seq(Fates) /\ Len(fate') = N
      BY <1>3, <3>4, <3>5
    <3>7. QED
      BY <3>2, <3>4, <3>6
  <2>2. CASE ~due
    <3>1. UNCHANGED <<stats, fate>>
      BY <2>2 DEF Tick
    <3>2. QED
      BY <1>3, <3>1
  <2>3. QED
    BY <2>1, <2>2
<1>5. /\ \A n \in 1..N : /\ fate'[n] = "unread" <=> fate[n] = "unread"
                         /\ fate'[n] = "skipped" <=> fate[n] = "skipped"
                         /\ fate'[n] = "shown" <=> fate[n] = "shown"
                         /\ fate'[n] \in {"pending", "counted", "dropped"} <=> fate[n] \in {"pending", "counted", "dropped"}
      /\ \A n \in 1..N : WasRead(n)' <=> WasRead(n)
  BY <1>4 DEF WasRead
<1>6. TypeOK'
  <2>1. drainer' \in DrainerType'
    BY <1>1, <1>2 DEF DrainerType
  <2>2. /\ log' \in Seq(Lines) /\ first' \in Seq(Nat) /\ path' \in {0, Len(first')} /\ Len(fate') = Len(log')
        /\ since' \in 1..(Len(log') + 1) /\ again' \in BOOLEAN /\ calm' \in BOOLEAN
    BY <1>0, <1>1, <1>4, Types DEF TypeOK, N
  <2>3. QED
    BY <1>4, <2>1, <2>2 DEF TypeOK, DrainerType, StatsType, Fates, Lines
<1>7. FilesInOrder'
  BY <1>1 DEF IInv, FilesInOrder
<1>8. \A i \in Nat : LastLine(i)' = LastLine(i)
  BY <1>1 DEF LastLine
<1>9. drainer.fd \in Nat
  BY <1>0, Types
<1>10. InTheFile'
  BY <1>1, <1>2, <1>5, <1>8, <1>9 DEF IInv, InTheFile, N
<1>11. StartFileStays'
  BY <1>1, <1>2 DEF IInv, StartFileStays
<1>12. KnownIsShown'
  BY <1>1, <1>4, <1>5 DEF IInv, KnownIsShown, N
<1>13. GapsAreBehind'
  BY <1>1, <1>2, <1>5 DEF IInv, GapsAreBehind, Here, N
<1>14. CalmPlaces'
  BY <1>1, <1>2, <1>8, <1>9 DEF IInv, CalmPlaces
<1>15. CalmReadsAll'
  BY <1>1, <1>2, <1>5 DEF IInv, CalmReadsAll, Frontier, N
<1>16. RepeatsHaveAnExample'
  <2>1. ASSUME NEW n \in 1..N, fate[n] \in {"pending", "counted", "dropped"}
        PROVE  \E m \in 1..(n - 1) : log[m] = log[n] /\ fate'[m] = "shown"
    <3>1. PICK m \in 1..(n - 1) : log[m] = log[n] /\ fate[m] = "shown"
      BY <1>3, <2>1 DEF IInv, RepeatsHaveAnExample
    <3>2. m \in 1..N
      BY <1>3
    <3>3. QED
      BY <1>5, <3>1, <3>2
  <2>2. QED
    BY <1>1, <1>3, <1>5, <2>1 DEF RepeatsHaveAnExample
<1>17. QED
  BY <1>6, <1>7, <1>10, <1>11, <1>12, <1>13, <1>14, <1>15, <1>16 DEF IInv

-----------------------------------------------------------------------------
(* Reading a line.  A repeat has its example before it: what was read      *)
(* after a line that is only read now lies in an earlier file.             *)
LEMMA ReadKeepsIInv == ASSUME IInv, Read PROVE IInv'
<1> DEFINE N == Len(log)
           n == drainer.pos
           kind == log[n]
           repeat == kind \in Templates /\ stats[kind].known
           new == IF fate[n] # "unread" THEN fate[n] ELSE IF repeat THEN "pending" ELSE "shown"
<1>0. TypeOK /\ FilesInOrder
  BY DEF IInv
<1>1. /\ drainer.pc = "read" /\ On /\ HasUnread
      /\ drainer' = [drainer EXCEPT !.pos = n + 1]
      /\ again' = (again \/ fate[n] # "unread")
      /\ stats' = IF kind \in Templates THEN Ingest(kind) ELSE stats
      /\ fate' = [fate EXCEPT ![n] = new]
      /\ UNCHANGED <<log, first, path, since, calm>>
  BY DEF Read, On, inputVars
<1>2. /\ fate \in Seq(Fates) /\ Len(fate) = N /\ N \in Nat /\ DOMAIN fate = 1..N /\ stats \in StatsType
      /\ DOMAIN log = 1..N /\ log \in Seq(Lines) /\ n \in Int /\ since \in 1..(N + 1)
      /\ again \in BOOLEAN
  BY <1>0, Types DEF TypeOK
<1>3. /\ drainer.fd # 0 /\ drainer.fd \in 1..Len(first) /\ n =< LastLine(drainer.fd)
      /\ LastLine(drainer.fd) \in Int /\ LastLine(drainer.fd) =< N
  <2>1. drainer.fd # 0 /\ n =< LastLine(drainer.fd) /\ drainer.fd \in 1..Len(first)
    BY <1>0, <1>1, Types DEF HasUnread
  <2>2. QED
    BY <1>0, <2>1, LastLines
<1>4. /\ n >= since /\ n >= first[drainer.fd] /\ first[drainer.fd] \in Int
      /\ \A k \in 1..N : first[drainer.fd] =< k /\ k < n => fate[k] # "unread"
  BY <1>0, <1>1, <1>3 DEF IInv, InTheFile, FilesInOrder
<1>5. n \in 1..N /\ n >= 1
  BY <1>2, <1>3, <1>4
<1>6. /\ \A k \in 1..N : fate[k] = "skipped" <=> k < since
      /\ \A k \in 1..N : WasRead(k) /\ log[k] \in Templates => stats[log[k]].known
      /\ \A t \in Templates : stats[t].known => \E m \in 1..N : log[m] = t /\ fate[m] = "shown"
  BY <1>1 DEF IInv, KnownIsShown
<1>7. fate[n] # "skipped" /\ fate[n] \in Fates
  BY <1>2, <1>4, <1>5, <1>6
<1>8. /\ new \in Fates /\ new \notin {"skipped", "unread"}
      /\ fate[n] # "unread" => new = fate[n]
      /\ fate[n] = "unread" /\ repeat => new = "pending"
      /\ fate[n] = "unread" /\ ~repeat => new = "shown"
  BY <1>7 DEF Fates
<1>9. /\ drainer'.fd = drainer.fd /\ drainer'.pos = n + 1 /\ drainer'.pc = "read" /\ drainer'.inode = drainer.inode
      /\ drainer' \in DrainerType
  <2>1. n + 1 \in 0..(N + 1)
    BY <1>2, <1>5
  <2>2. QED
    BY <1>0, <1>1, <2>1, Types DEF DrainerType
<1>10. /\ stats' \in StatsType
       /\ \A t \in Templates : stats'[t].known <=> stats[t].known \/ t = kind
  <2>1. CASE kind \in Templates
    <3>1. stats' = [stats EXCEPT ![kind] = [known |-> TRUE, window |-> stats[kind].window + 1]]
      BY <1>1, <2>1 DEF Ingest
    <3> HIDE DEF kind
    <3>2. stats[kind].window + 1 \in Nat
      BY <1>2, <2>1 DEF StatsType
    <3>3. QED
      BY <1>2, <2>1, <3>1, <3>2 DEF StatsType
  <2>2. CASE kind \notin Templates
    BY <1>1, <1>2, <2>2
  <2>3. QED
    BY <2>1, <2>2
<1> HIDE DEF new
<1>11. /\ fate' \in Seq(Fates) /\ Len(fate') = N /\ fate'[n] = new
       /\ \A k \in 1..N : k # n => fate'[k] = fate[k]
  BY <1>1, <1>2, <1>5, <1>8
<1>12. \A k \in 1..N : fate[k] # "unread" => fate'[k] = fate[k]
  BY <1>8, <1>11
<1>13. \A k \in 1..N : WasRead(k)' <=> WasRead(k) \/ k = n
  <2>1. ASSUME NEW k \in 1..N PROVE WasRead(k)' <=> WasRead(k) \/ k = n
    <3>1. WasRead(k)' <=> fate'[k] \notin {"skipped", "unread"}
      BY DEF WasRead
    <3> HIDE DEF n
    <3>2. CASE k = n
      BY <1>8, <1>11, <3>1, <3>2
    <3>3. CASE k # n
      BY <1>11, <3>1, <3>3 DEF WasRead
    <3>4. QED
      BY <3>2, <3>3
  <2>2. QED
    BY <2>1
<1>14. LastLine(drainer.fd)' = LastLine(drainer.fd)
  BY <1>1, <1>9 DEF LastLine
<1> HIDE DEF N, n, kind, repeat
<1>15. TypeOK'
  <2>1. drainer' \in DrainerType'
    BY <1>1, <1>9 DEF DrainerType
  <2>2. /\ log' \in Seq(Lines) /\ first' \in Seq(Nat) /\ path' \in {0, Len(first')} /\ Len(fate') = Len(log')
        /\ since' \in 1..(Len(log') + 1) /\ again' \in BOOLEAN /\ calm' \in BOOLEAN
    BY <1>0, <1>1, <1>2, <1>11, Types DEF TypeOK, N
  <2>3. QED
    BY <1>10, <1>11, <2>1, <2>2 DEF TypeOK, DrainerType, StatsType, Fates, Lines
<1>16. FilesInOrder'
  BY <1>1 DEF IInv, FilesInOrder
<1>17. InTheFile'
  <2>1. \A k \in 1..N : first[drainer.fd] =< k /\ k < n + 1 => fate'[k] # "unread"
    <3>1. \A k \in 1..N : k < n + 1 => k = n \/ k < n
      BY <1>2, <1>5
    <3>2. QED
      BY <1>4, <1>8, <1>11, <1>12, <3>1
  <2>2. n + 1 >= since /\ n + 1 >= first[drainer.fd] /\ n + 1 =< LastLine(drainer.fd) + 1
    BY <1>2, <1>3, <1>4, <1>5
  <2>3. QED
    BY <1>1, <1>9, <1>14, <2>1, <2>2 DEF InTheFile, N
<1>18. StartFileStays'
  BY <1>1, <1>9 DEF IInv, StartFileStays
<1>19. KnownIsShown'
  <2>1. \A k \in 1..N : fate'[k] = "skipped" <=> k < since
    BY <1>4, <1>6, <1>7, <1>8, <1>11
  <2>2. \A k \in 1..N : WasRead(k)' /\ log[k] \in Templates => stats'[log[k]].known
    BY <1>6, <1>10, <1>13 DEF kind
  <2>3. ASSUME NEW t \in Templates, stats'[t].known
        PROVE  \E m \in 1..N : log[m] = t /\ fate'[m] = "shown"
    <3>1. CASE stats[t].known
      BY <1>6, <1>12, <3>1
    <3>2. CASE ~stats[t].known
      <4>1. t = kind /\ ~repeat
        BY <1>10, <2>3, <3>2 DEF repeat
      <4>2. fate[n] = "unread"
        BY <1>5, <1>6, <1>7, <3>2, <4>1 DEF WasRead, kind
      <4>3. fate'[n] = "shown"
        BY <1>8, <1>11, <4>1, <4>2
      <4>4. QED
        BY <1>5, <4>1, <4>3 DEF kind
    <3>3. QED
      BY <3>1, <3>2
  <2>4. QED
    BY <1>1, <2>1, <2>2, <2>3 DEF KnownIsShown, N
<1>20. /\ Here = first[drainer.fd] /\ Here' = Here
  BY <1>1, <1>3, <1>9 DEF Here
<1>21. GapsAreBehind'
  <2> SUFFICES ASSUME NEW m \in 1..N, NEW k \in 1..N, k < m, WasRead(m)', fate'[k] = "unread" PROVE k < Here
    BY <1>1, <1>20 DEF GapsAreBehind, N
  <2>1. k # n /\ fate[k] = "unread"
    BY <1>8, <1>11
  <2>2. CASE WasRead(m)
    BY <1>1, <2>1, <2>2 DEF IInv, GapsAreBehind, N
  <2>3. CASE ~WasRead(m)
    <3>1. m = n
      BY <1>13, <2>3
    <3>2. QED
      BY <1>2, <1>4, <1>20, <2>1, <3>1
  <2>4. QED
    BY <2>2, <2>3
<1>22. CalmPlaces'
  BY <1>1, <1>3, <1>9 DEF IInv, CalmPlaces
<1>23. CalmReadsAll'
  <2> SUFFICES ASSUME calm PROVE CalmReadsAll'
    BY <1>1 DEF CalmReadsAll
  <2>1. /\ Frontier = n /\ Frontier' = n + 1
    BY <1>3, <1>9 DEF Frontier, n
  <2>2. ~again /\ \A k \in 1..N : k >= since => (fate[k] = "unread" <=> k >= n)
    BY <1>1, <2>1 DEF IInv, CalmReadsAll, N
  <2>3. fate[n] = "unread" /\ ~again'
    <3>1. fate[n] = "unread"
      BY <1>2, <1>4, <1>5, <2>2
    <3>2. QED
      BY <1>1, <2>2, <3>1
  <2>4. \A k \in 1..N : k >= since => (fate'[k] = "unread" <=> k >= n + 1)
    BY <1>2, <1>5, <1>8, <1>11, <2>2
  <2>5. QED
    BY <1>1, <2>1, <2>3, <2>4 DEF CalmReadsAll, N
<1>24. RepeatsHaveAnExample'
  <2> SUFFICES ASSUME NEW k \in 1..N, fate'[k] \in {"pending", "counted", "dropped"}
               PROVE  \E m \in 1..(k - 1) : log[m] = log[k] /\ fate'[m] = "shown"
    BY <1>1, <1>2 DEF RepeatsHaveAnExample
  <2>1. CASE fate[k] # "unread"
    <3>1. fate[k] \in {"pending", "counted", "dropped"}
      BY <1>12, <2>1
    <3>2. PICK m \in 1..(k - 1) : log[m] = log[k] /\ fate[m] = "shown"
      BY <1>2, <3>1 DEF IInv, RepeatsHaveAnExample
    <3>3. m \in 1..N
      BY <1>2
    <3>4. QED
      BY <1>12, <3>2, <3>3
  <2>2. CASE fate[k] = "unread"
    <3>1. k = n
      BY <1>11, <2>2
    <3>2. repeat
      BY <1>8, <1>11, <2>2, <3>1
    <3>3. PICK m \in 1..N : log[m] = kind /\ fate[m] = "shown"
      BY <1>6, <3>2 DEF repeat
    <3>4. m # n /\ WasRead(m) /\ fate'[m] = "shown"
      BY <1>12, <2>2, <3>1, <3>3 DEF WasRead
    <3>5. ~(n < m)
      <4>1. n < m => n < Here
        BY <1>1, <1>5, <2>2, <3>1, <3>4 DEF IInv, GapsAreBehind, N
      <4>2. QED
        BY <1>2, <1>4, <1>20, <4>1
    <3>6. m \in 1..(k - 1)
      BY <1>2, <3>1, <3>4, <3>5
    <3>7. QED
      BY <3>1, <3>3, <3>4, <3>6 DEF kind
  <2>3. QED
    BY <2>1, <2>2
<1>25. QED
  BY <1>15, <1>16, <1>17, <1>18, <1>19, <1>21, <1>22, <1>23, <1>24 DEF IInv

-----------------------------------------------------------------------------
LEMMA NextKeepsIInv == IInv /\ [Next]_vars => IInv'
<1> SUFFICES ASSUME IInv, [Next]_vars PROVE IInv'
  OBVIOUS
<1>1. ASSUME NEW kind \in Templates \cup OtherKinds, Write(kind) PROVE IInv'
  BY <1>1, WriteKeepsIInv DEF Lines
<1>2. CASE Rename \/ Create
  BY <1>2, RenameKeepsIInv, CreateKeepsIInv
<1>3. ASSUME NEW fromStart \in BOOLEAN, Start(fromStart) PROVE IInv'
  BY <1>3, StartKeepsIInv
<1>4. CASE Step
  <2>1. ASSUME NEW due \in BOOLEAN, Tick(due) PROVE IInv'
    BY <2>1, TickKeepsIInv
  <2>2. QED
    BY <1>4, <2>1, StatInputKeepsIInv, ReadKeepsIInv, ReachEndKeepsIInv, CheckInodeKeepsIInv, ReopenKeepsIInv
       DEF Step
<1>5. CASE Stop
  BY <1>5, StopKeepsIInv
<1>6. CASE UNCHANGED vars
  BY <1>6 DEF vars, inputVars, historyVars, IInv, TypeOK, FilesInOrder, InTheFile, StartFileStays, KnownIsShown,
              GapsAreBehind, CalmPlaces, CalmReadsAll, RepeatsHaveAnExample, On, WasRead, Here, Frontier, LastLine
<1>7. QED
  BY <1>1, <1>2, <1>3, <1>4, <1>5, <1>6 DEF Next

(* The inductive invariant: where a run is in the files and what it left   *)
(* behind, in general and as long as no rotation hit it off guard.         *)
THEOREM DrainInvariant == Spec => []IInv
<1>1. Init => IInv
  BY InitEstablishesIInv
<1>2. QED
  BY <1>1, NextKeepsIInv, PTL DEF Spec

(* Type correctness of the log, the drainer and its statistics.            *)
THEOREM DrainTypes == Spec => []TypeOK
<1>1. IInv => TypeOK
  BY DEF IInv
<1>2. QED
  BY <1>1, DrainInvariant, PTL

(* Over any number of rotations that do not hit it off guard, the drainer  *)
(* reads every line once and in order (tailer.py, follow_log).             *)
THEOREM DrainReadsOnceInOrder == Spec => []ReadOnceInOrder
<1>1. ASSUME IInv PROVE ReadOnceInOrder
  <2> SUFFICES ASSUME On, calm,
                      NEW m \in 1..Len(log), NEW n \in 1..Len(log), since =< m, m < n, fate[n] # "unread"
               PROVE  ~again /\ fate[m] # "unread"
    <3>1. TypeOK /\ DOMAIN log = 1..Len(log)
      BY <1>1, Types DEF IInv
    <3>2. On /\ calm => ~again
      BY <1>1 DEF IInv, CalmReadsAll
    <3>3. QED
      BY <3>1, <3>2 DEF ReadOnceInOrder, On
  <2>1. /\ ~again
        /\ \A k \in 1..Len(log) : k >= since => (fate[k] = "unread" <=> k >= Frontier)
    BY <1>1 DEF IInv, CalmReadsAll
  <2>2. Frontier \in Int /\ since \in Int
    BY <1>1, Types DEF IInv, Frontier
  <2>3. QED
    BY <2>1, <2>2
<1>2. QED
  BY <1>1, DrainInvariant, PTL

(* A repeat is summed up, or waits to be, only after the first line of its *)
(* template was shown, whatever is rotated or interrupted (drainer.py,     *)
(* DrainerEngine.ingest and tick_summary).                                 *)
THEOREM DrainRepeatsHaveAnExample == Spec => []RepeatsHaveAnExample
<1>1. IInv => RepeatsHaveAnExample
  BY DEF IInv
<1>2. QED
  BY <1>1, DrainInvariant, PTL

-----------------------------------------------------------------------------
(* The output.  Each file is an interval of the lines put out, the live    *)
(* file ends with the latest, each backup where the next newer file starts. *)
Interval(a, b) == [k \in 1..(b - a) |-> a + k]

(* Where the files end, the live one first, and then where the oldest      *)
(* starts.  Lines are missing only if all backups are in use.              *)
Marks(o, s) ==
  /\ s \in [0..(Len(o.backups) + 1) -> Nat]
  /\ s[0] = o.count /\ s[1] <= s[0] /\ o.live = Interval(s[1], s[0])
  /\ \A i \in 1..Len(o.backups) : s[i + 1] <= s[i] /\ o.backups[i] = Interval(s[i + 1], s[i])
  /\ s[Len(o.backups) + 1] # 0 => Len(o.backups) = BackupCount

Output == [live : Seq(Nat), buffered : Nat, backups : Seq(Seq(Nat)), count : Nat]
IsSink(o) == o \in Output /\ Len(o.backups) <= BackupCount /\ \E s : Marks(o, s)

Fits(n) == n < MaxSize + Cardinality(Templates) \/ n = MaxSize

(* The output between two writes: nothing is buffered, every file fits.    *)
SinkInv ==
  /\ IsSink(out) /\ out.buffered = 0
  /\ Fits(Len(out.live)) /\ \A i \in 1..Len(out.backups) : Fits(Len(out.backups[i]))

(* ... and after n writes of one Emit.  Only the first of them may find    *)
(* enough on disk to rotate.                                               *)
Midway(o, n) ==
  /\ IsSink(o) /\ o.buffered = n /\ n <= Len(o.live)
  /\ n > 0 => Len(o.live) - n = 0 \/ Len(o.live) - n + 1 <= MaxSize
  /\ n = 0 => Fits(Len(o.live))
  /\ \A i \in 1..Len(o.backups) : Fits(Len(o.backups[i]))

LEMMA IntervalIs ==
  ASSUME NEW a \in Nat, NEW b \in Nat, a <= b
  PROVE  /\ Interval(a, b) \in Seq(Nat) /\ Len(Interval(a, b)) = b - a
         /\ \A k \in 1..(b - a) : Interval(a, b)[k] = a + k
BY DEF Interval

LEMMA IntervalsMeet ==
  ASSUME NEW a \in Nat, NEW b \in Nat, NEW c \in Nat, a <= b, b <= c
  PROVE  Interval(a, b) \o Interval(b, c) = Interval(a, c)
<1>1. Interval(a, b) \in Seq(Nat) /\ Len(Interval(a, b)) = b - a
  BY IntervalIs
<1>2. Interval(b, c) \in Seq(Nat) /\ Len(Interval(b, c)) = c - b
  BY IntervalIs
<1>3. a <= c
  OBVIOUS
<1>4. Interval(a, c) \in Seq(Nat) /\ Len(Interval(a, c)) = c - a
  BY <1>3, IntervalIs
<1>5. /\ Interval(a, b) \o Interval(b, c) \in Seq(Nat)
      /\ Len(Interval(a, b) \o Interval(b, c)) = c - a
      /\ \A k \in 1..(c - a) : (Interval(a, b) \o Interval(b, c))[k] =
           IF k <= b - a THEN Interval(a, b)[k] ELSE Interval(b, c)[k - (b - a)]
  <2> DEFINE p == Interval(a, b)
             q == Interval(b, c)
  <2> HIDE DEF p, q
  <2>1. p \in Seq(Nat) /\ Len(p) = b - a /\ q \in Seq(Nat) /\ Len(q) = c - b
    BY <1>1, <1>2 DEF p, q
  <2>2. /\ p \o q \in Seq(Nat) /\ Len(p \o q) = Len(p) + Len(q)
        /\ \A k \in 1..(Len(p) + Len(q)) : (p \o q)[k] = IF k <= Len(p) THEN p[k] ELSE q[k - Len(p)]
    BY <2>1, ConcatProperties
  <2>3. Len(p) + Len(q) = c - a
    BY <2>1
  <2>4. QED
    BY <2>1, <2>2, <2>3 DEF p, q
<1>6. ASSUME NEW k \in 1..(c - a)
      PROVE  (Interval(a, b) \o Interval(b, c))[k] = Interval(a, c)[k]
  <2>1. Interval(a, c)[k] = a + k
    BY <1>3, IntervalIs
  <2>2. CASE k <= b - a
    <3>1. k \in 1..(b - a)
      BY <2>2
    <3>2. Interval(a, b)[k] = a + k
      BY <3>1, IntervalIs
    <3>3. QED
      BY <1>5, <2>1, <2>2, <3>2
  <2>3. CASE ~(k <= b - a)
    <3>1. k - (b - a) \in 1..(c - b)
      BY <2>3
    <3>2. Interval(b, c)[k - (b - a)] = a + k
      BY <3>1, IntervalIs
    <3>3. QED
      BY <1>5, <2>1, <2>3, <3>2
  <2>4. QED
    BY <2>2, <2>3
<1>7. QED
  BY <1>4, <1>5, <1>6, SeqEqual

LEMMA IntervalGrows ==
  ASSUME NEW a \in Nat, NEW b \in Nat, a <= b
  PROVE  Append(Interval(a, b), b + 1) = Interval(a, b + 1)
<1>1. Interval(a, b) \in Seq(Nat) /\ Len(Interval(a, b)) = b - a
  BY IntervalIs
<1>2. a <= b + 1 /\ b + 1 \in Nat
  OBVIOUS
<1>3. Interval(a, b + 1) \in Seq(Nat) /\ Len(Interval(a, b + 1)) = b + 1 - a
  BY <1>2, IntervalIs
<1>4. /\ Append(Interval(a, b), b + 1) \in Seq(Nat)
      /\ Len(Append(Interval(a, b), b + 1)) = b + 1 - a
  BY <1>1
<1>5. ASSUME NEW k \in 1..(b + 1 - a)
      PROVE  Append(Interval(a, b), b + 1)[k] = Interval(a, b + 1)[k]
  <2>1. Interval(a, b + 1)[k] = a + k
    BY <1>2, IntervalIs
  <2>2. CASE k = b + 1 - a
    BY <1>1, <2>1, <2>2
  <2>3. CASE k # b + 1 - a
    <3>1. Interval(a, b)[k] = a + k /\ k \in 1..(b - a)
      BY <2>3, IntervalIs
    <3>2. QED
      BY <1>1, <2>1, <3>1
  <2>4. QED
    BY <2>2, <2>3
<1>6. QED
  BY <1>3, <1>4, <1>5, SeqEqual

(* A line that goes to the live file.                                      *)
LEMMA AppendKeepsSink ==
  ASSUME NEW o, IsSink(o)
  PROVE  LET new == [o EXCEPT !.live = Append(@, o.count + 1), !.buffered = @ + 1, !.count = o.count + 1]
         IN  /\ IsSink(new) /\ new.buffered = o.buffered + 1 /\ new.backups = o.backups
             /\ Len(new.live) = Len(o.live) + 1
<1> DEFINE n == o.count + 1
           new == [o EXCEPT !.live = Append(@, n), !.buffered = @ + 1, !.count = n]
<1>1. /\ o \in Output /\ o.live \in Seq(Nat) /\ o.count \in Nat /\ o.buffered \in Nat
      /\ o.backups \in Seq(Seq(Nat)) /\ Len(o.backups) <= BackupCount
  BY DEF IsSink, Output
<1>2. PICK s : Marks(o, s)
  BY DEF IsSink
<1>3. /\ new.live = Append(o.live, n) /\ new.buffered = o.buffered + 1
      /\ new.backups = o.backups /\ new.count = n /\ new \in Output
  <2> DEFINE live == Append(o.live, n)
             buffered == o.buffered + 1
  <2>1. live \in Seq(Nat) /\ buffered \in Nat /\ n \in Nat
    BY <1>1
  <2>2. new = [o EXCEPT !.live = live, !.buffered = buffered, !.count = n]
    OBVIOUS
  <2> HIDE DEF live, buffered, n, new
  <2>3. /\ new.live = live /\ new.buffered = buffered
        /\ new.backups = o.backups /\ new.count = n /\ new \in Output
    BY <1>1, <2>1, <2>2 DEF Output
  <2>4. QED
    BY <2>3 DEF live, buffered
<1>4. Len(new.live) = Len(o.live) + 1
  BY <1>1, <1>3
<1> HIDE DEF new
<1>5. Marks(new, [s EXCEPT ![0] = n])
  <2> DEFINE s2 == [s EXCEPT ![0] = n]
  <2>1. /\ s \in [0..(Len(o.backups) + 1) -> Nat] /\ Len(o.backups) \in Nat
        /\ s[0] = o.count /\ s[1] <= s[0] /\ o.live = Interval(s[1], s[0])
        /\ \A i \in 1..Len(o.backups) : s[i + 1] <= s[i] /\ o.backups[i] = Interval(s[i + 1], s[i])
        /\ s[Len(o.backups) + 1] # 0 => Len(o.backups) = BackupCount
    BY <1>1, <1>2 DEF Marks
  <2>2. /\ s2 \in [0..(Len(o.backups) + 1) -> Nat] /\ s2[0] = n
        /\ \A i \in 1..(Len(o.backups) + 1) : s2[i] = s[i]
    BY <1>1, <2>1
  <2> HIDE DEF s2
  <2>3. s[1] \in Nat /\ s2[1] = s[1] /\ s2[1] <= n
    <3>1. 1 \in 1..(Len(o.backups) + 1) /\ 1 \in 0..(Len(o.backups) + 1)
      BY <2>1
    <3>2. s[1] \in Nat /\ s2[1] = s[1] /\ s[1] <= o.count
      BY <2>1, <2>2, <3>1
    <3> HIDE DEF Marks
    <3>3. QED
      BY <1>1, <3>2
  <2>4. new.live = Interval(s2[1], s2[0])
    <3>1. Append(Interval(s[1], o.count), o.count + 1) = Interval(s[1], o.count + 1)
      BY <1>1, <2>1, <2>3, IntervalGrows
    <3>2. QED
      BY <1>3, <2>1, <2>2, <2>3, <3>1
  <2>5. ASSUME NEW i \in 1..Len(o.backups)
        PROVE  s2[i + 1] <= s2[i] /\ o.backups[i] = Interval(s2[i + 1], s2[i])
    <3>1. i \in 1..(Len(o.backups) + 1) /\ i + 1 \in 1..(Len(o.backups) + 1)
      BY <2>1
    <3>2. s2[i] = s[i] /\ s2[i + 1] = s[i + 1]
      BY <2>2, <3>1
    <3>3. QED
      BY <2>1, <3>2
  <2>6. s2[Len(o.backups) + 1] = s[Len(o.backups) + 1]
    BY <2>1, <2>2
  <2>7. Marks(new, s2)
    BY <1>3, <2>1, <2>2, <2>3, <2>4, <2>5, <2>6 DEF Marks
  <2>8. QED
    BY <2>7 DEF s2
<1>6. IsSink(new)
  BY <1>1, <1>3, <1>5 DEF IsSink
<1>7. QED
  BY <1>3, <1>4, <1>6 DEF new

(* A line that rotates the files: the live one becomes the newest backup,  *)
(* the oldest goes if there is one too many.                               *)
Shifted(o) ==
  LET shifted == <<o.live>> \o o.backups
  IN  IF Len(shifted) > BackupCount THEN SubSeq(shifted, 1, BackupCount) ELSE shifted

LEMMA ShiftedIs ==
  ASSUME NEW o \in Output, Len(o.backups) <= BackupCount
  PROVE  /\ Shifted(o) \in Seq(Seq(Nat))
         /\ Len(Shifted(o)) = IF Len(o.backups) = BackupCount THEN BackupCount ELSE Len(o.backups) + 1
         /\ \A i \in 1..Len(Shifted(o)) : Shifted(o)[i] = IF i = 1 THEN o.live ELSE o.backups[i - 1]
<1> DEFINE all == <<o.live>> \o o.backups
<1>1. o.live \in Seq(Nat) /\ o.backups \in Seq(Seq(Nat)) /\ BackupCount \in Nat \ {0}
  BY LogDrainAssumption DEF Output
<1>2. /\ all \in Seq(Seq(Nat)) /\ Len(all) = Len(o.backups) + 1
      /\ \A i \in 1..Len(all) : all[i] = IF i = 1 THEN o.live ELSE o.backups[i - 1]
  <2>1. <<o.live>> \in Seq(Seq(Nat)) /\ Len(<<o.live>>) = 1 /\ <<o.live>>[1] = o.live
    BY <1>1
  <2>2. QED
    BY <1>1, <2>1
<1> HIDE DEF all
<1>3. Shifted(o) = IF Len(all) > BackupCount THEN SubSeq(all, 1, BackupCount) ELSE all
  BY DEF Shifted, all
<1>4. CASE Len(o.backups) = BackupCount
  <2>1. Shifted(o) = SubSeq(all, 1, BackupCount)
    BY <1>1, <1>2, <1>3, <1>4
  <2>2. /\ SubSeq(all, 1, BackupCount) \in Seq(Seq(Nat)) /\ Len(SubSeq(all, 1, BackupCount)) = BackupCount
        /\ \A i \in 1..BackupCount : SubSeq(all, 1, BackupCount)[i] = all[i] /\ i \in 1..Len(all)
    BY <1>1, <1>2, <1>4
  <2>3. QED
    BY <1>2, <1>4, <2>1, <2>2
<1>5. CASE Len(o.backups) # BackupCount
  <2>1. Shifted(o) = all
    BY <1>1, <1>2, <1>3, <1>5
  <2>2. QED
    BY <1>2, <1>5, <2>1
<1>6. QED
  BY <1>4, <1>5

LEMMA RotateKeepsSink ==
  ASSUME NEW o, IsSink(o)
  PROVE  IsSink([live |-> <<o.count + 1>>, buffered |-> 1, count |-> o.count + 1, backups |-> Shifted(o)])
<1> DEFINE n == o.count + 1
           new == [live |-> <<n>>, buffered |-> 1, count |-> n, backups |-> Shifted(o)]
           L == Len(o.backups)
           M == Len(Shifted(o))
<1>1. /\ o \in Output /\ o.count \in Nat /\ o.backups \in Seq(Seq(Nat)) /\ L <= BackupCount /\ L \in Nat
      /\ BackupCount \in Nat \ {0}
  BY LogDrainAssumption DEF IsSink, Output
<1>2. PICK s : Marks(o, s)
  BY DEF IsSink
<1>3. /\ s \in [0..(L + 1) -> Nat]
      /\ s[0] = o.count /\ s[1] <= s[0] /\ o.live = Interval(s[1], s[0])
      /\ \A i \in 1..L : s[i + 1] <= s[i] /\ o.backups[i] = Interval(s[i + 1], s[i])
      /\ s[L + 1] # 0 => L = BackupCount
  BY <1>2 DEF Marks
<1>4. /\ Shifted(o) \in Seq(Seq(Nat)) /\ M = IF L = BackupCount THEN BackupCount ELSE L + 1
      /\ \A i \in 1..M : Shifted(o)[i] = IF i = 1 THEN o.live ELSE o.backups[i - 1]
  BY <1>1, ShiftedIs
<1>5. /\ new.live = <<n>> /\ new.count = n /\ new.backups = Shifted(o)
      /\ new \in Output
  <2>1. <<n>> \in Seq(Nat)
    BY <1>1
  <2>2. QED
    BY <1>1, <1>4, <2>1 DEF Output
<1> DEFINE s2 == [i \in 0..(M + 1) |-> IF i = 0 THEN n ELSE s[i - 1]]
<1>6. M \in 1..BackupCount /\ M <= L + 1
  BY <1>1, <1>4
<1> HIDE DEF L, M, new
<1>7. /\ s2 \in [0..(M + 1) -> Nat] /\ s2[0] = n
      /\ \A i \in 1..(M + 1) : s2[i] = s[i - 1]
  BY <1>1, <1>3, <1>6
<1> HIDE DEF s2
<1>8. s2[1] = o.count /\ <<n>> = Interval(o.count, n)
  <2>1. Interval(o.count, n) = [k \in 1..1 |-> n]
    BY <1>1 DEF Interval
  <2>2. QED
    BY <1>3, <1>6, <1>7, <2>1
<1>9. ASSUME NEW i \in 1..M
      PROVE  s2[i + 1] <= s2[i] /\ Shifted(o)[i] = Interval(s2[i + 1], s2[i])
  <2>1. s2[i + 1] = s[i] /\ s2[i] = s[i - 1]
    BY <1>6, <1>7
  <2>2. CASE i = 1
    BY <1>3, <1>4, <2>1, <2>2
  <2>3. CASE i # 1
    <3>1. i - 1 \in 1..L /\ i - 1 + 1 = i
      BY <1>1, <1>6, <2>3
    <3>2. s[i - 1 + 1] <= s[i - 1] /\ o.backups[i - 1] = Interval(s[i - 1 + 1], s[i - 1])
      BY <1>3, <3>1
    <3>3. QED
      BY <1>4, <2>1, <2>3, <3>1, <3>2
  <2>4. QED
    BY <2>2, <2>3
<1>10. s2[M + 1] # 0 => M = BackupCount
  <2>1. s2[M + 1] = s[M]
    BY <1>6, <1>7
  <2>2. CASE L = BackupCount
    BY <1>4, <2>2
  <2>3. CASE L # BackupCount
    <3>1. M = L + 1 /\ s[L + 1] = 0
      BY <1>3, <1>4, <2>3
    <3>2. QED
      BY <2>1, <3>1
  <2>4. QED
    BY <2>2, <2>3
<1>11. Marks(new, s2)
  <2>1. Len(new.backups) = M
    BY <1>5 DEF M
  <2>2. s2[1] <= s2[0]
    BY <1>1, <1>7, <1>8
  <2>3. QED
    BY <1>5, <1>7, <1>8, <1>9, <1>10, <2>1, <2>2 DEF Marks
<1>12. Len(new.backups) <= BackupCount
  BY <1>5, <1>6 DEF M
<1>13. IsSink(new)
  BY <1>5, <1>11, <1>12 DEF IsSink
<1>14. QED
  BY <1>13 DEF new

LEMMA PutIs ==
  ASSUME NEW o, NEW onDisk, onDisk = Len(o.live) - o.buffered
  PROVE  Put(o) =
           IF onDisk + 1 > MaxSize /\ onDisk > 0
           THEN [live |-> <<o.count + 1>>, buffered |-> 1, count |-> o.count + 1, backups |-> Shifted(o)]
           ELSE [o EXCEPT !.live = Append(@, o.count + 1), !.buffered = @ + 1, !.count = o.count + 1]
BY DEF Put, Shifted

LEMMA BoundsAre ==
  /\ MaxSize \in Nat \ {0} /\ BackupCount \in Nat \ {0} /\ Cardinality(Templates) \in Nat
BY LogDrainAssumption, FS_CardinalityType

LEMMA PutKeepsMidway ==
  ASSUME NEW o, NEW n \in Nat, Midway(o, n) PROVE Midway(Put(o), n + 1)
<1> DEFINE onDisk == Len(o.live) - o.buffered
<1>1. /\ IsSink(o) /\ o.buffered = n /\ n <= Len(o.live)
      /\ n > 0 => Len(o.live) - n = 0 \/ Len(o.live) - n + 1 <= MaxSize
      /\ n = 0 => Fits(Len(o.live))
      /\ \A i \in 1..Len(o.backups) : Fits(Len(o.backups[i]))
  BY DEF Midway
<1>2. /\ o \in Output /\ Len(o.live) \in Nat /\ Len(o.backups) \in Nat
      /\ Len(o.backups) <= BackupCount
  BY <1>1 DEF IsSink, Output
<1>3. onDisk = Len(o.live) - n /\ onDisk \in Nat
  BY <1>1, <1>2
<1>4. Put(o) =
        IF onDisk + 1 > MaxSize /\ onDisk > 0
        THEN [live |-> <<o.count + 1>>, buffered |-> 1, count |-> o.count + 1, backups |-> Shifted(o)]
        ELSE [o EXCEPT !.live = Append(@, o.count + 1), !.buffered = @ + 1, !.count = o.count + 1]
  BY PutIs
<1> HIDE DEF onDisk
<1>5. CASE onDisk + 1 > MaxSize /\ onDisk > 0
  <2> DEFINE new == [live |-> <<o.count + 1>>, buffered |-> 1, count |-> o.count + 1, backups |-> Shifted(o)]
  <2>1. n = 0
    BY <1>1, <1>3, <1>5, BoundsAre
  <2>2. IsSink(new) /\ Put(o) = new
    BY <1>1, <1>4, <1>5, RotateKeepsSink
  <2>3. new.live = <<o.count + 1>> /\ new.buffered = 1 /\ new.backups = Shifted(o)
    OBVIOUS
  <2>4. Len(new.live) = 1
    BY <2>3
  <2>5. /\ Len(Shifted(o)) = IF Len(o.backups) = BackupCount THEN BackupCount ELSE Len(o.backups) + 1
        /\ \A i \in 1..Len(Shifted(o)) : Shifted(o)[i] = IF i = 1 THEN o.live ELSE o.backups[i - 1]
    BY <1>2, ShiftedIs
  <2>6. ASSUME NEW i \in 1..Len(Shifted(o))
        PROVE  Fits(Len(Shifted(o)[i]))
    <3>1. CASE i = 1
      BY <1>1, <2>1, <2>5, <3>1
    <3>2. CASE i # 1
      <4>1. i - 1 \in 1..Len(o.backups)
        BY <1>2, <2>5, <3>2, BoundsAre
      <4>2. Shifted(o)[i] = o.backups[i - 1]
        BY <2>5, <3>2
      <4>3. QED
        BY <1>1, <4>1, <4>2
    <3>3. QED
      BY <3>1, <3>2
  <2> HIDE DEF new
  <2>7. QED
    BY <2>1, <2>2, <2>3, <2>4, <2>6 DEF Midway
<1>6. CASE ~(onDisk + 1 > MaxSize /\ onDisk > 0)
  <2> DEFINE new == [o EXCEPT !.live = Append(@, o.count + 1), !.buffered = @ + 1, !.count = o.count + 1]
  <2>1. /\ IsSink(new) /\ new.buffered = o.buffered + 1 /\ new.backups = o.backups
        /\ Len(new.live) = Len(o.live) + 1
    BY <1>1, AppendKeepsSink
  <2>2. Put(o) = new
    BY <1>4, <1>6
  <2> HIDE DEF new
  <2>3. new.buffered = n + 1 /\ n + 1 <= Len(new.live) /\ Len(new.live) - (n + 1) = onDisk
    BY <1>1, <1>2, <1>3, <2>1
  <2>4. onDisk = 0 \/ onDisk + 1 <= MaxSize
    BY <1>3, <1>6, BoundsAre
  <2>5. \A i \in 1..Len(new.backups) : Fits(Len(new.backups[i]))
    BY <1>1, <2>1
  <2>6. n + 1 # 0
    OBVIOUS
  <2>7. QED
    BY <2>1, <2>2, <2>3, <2>4, <2>5, <2>6 DEF Midway
<1>7. QED
  BY <1>5, <1>6

-----------------------------------------------------------------------------
(* Recursive functions on the numbers, and what holds of each value.  The  *)
(* library's induction theorems take an operator; a set of the numbers for *)
(* which the claim holds serves instead: one outside it would have a least. *)
LEMMA NatInductionOnSet ==
  ASSUME NEW X, 0 \in X, \A n \in Nat : n \in X => n + 1 \in X
  PROVE  Nat \subseteq X
<1> DEFINE R == OpToRel(<, Nat)
<1>1. IsWellFoundedOn(R, Nat)
  BY NatLessThanWellFounded
<1>2. R = {p \in Nat \X Nat : p[1] < p[2]}
  BY DEF OpToRel
<1> HIDE DEF R
<1> SUFFICES ASSUME Nat \ X # {} PROVE FALSE
  OBVIOUS
<1>3. PICK n \in Nat \ X : \A m \in Nat \ X : <<m, n>> \notin R
  BY <1>1, WFMin
<1>4. n # 0 /\ n - 1 \in Nat /\ n - 1 < n /\ n - 1 \notin X
  BY <1>3
<1>5. QED
  BY <1>2, <1>3, <1>4

Written(lines) ==
  LET written[n \in 0..lines] == IF n = 0 THEN out ELSE Put(written[n - 1])
  IN  written

LEMMA EmitIs == ASSUME NEW lines PROVE Emit(lines) = [Written(lines)[lines] EXCEPT !.buffered = 0]
BY DEF Emit, Written

LEMMA WrittenIs ==
  ASSUME NEW lines \in Nat
  PROVE  Written(lines) = [n \in 0..lines |-> IF n = 0 THEN out ELSE Put(Written(lines)[n - 1])]
<1> DEFINE X == {m \in Nat : \E f : f = [n \in 0..m |-> IF n = 0 THEN out ELSE Put(f[n - 1])]}
<1>1. 0 \in X
  <2> DEFINE f == [n \in 0..0 |-> out]
  <2>1. f = [n \in 0..0 |-> IF n = 0 THEN out ELSE Put(f[n - 1])]
    BY \A n \in 0..0 : n = 0
  <2>2. QED
    BY <2>1
<1>2. ASSUME NEW m \in Nat, m \in X PROVE m + 1 \in X
  <2>1. PICK f : f = [n \in 0..m |-> IF n = 0 THEN out ELSE Put(f[n - 1])]
    BY <1>2
  <2> DEFINE g == [n \in 0..(m + 1) |-> IF n = 0 THEN out ELSE Put(f[n - 1])]
  <2>2. \A n \in 0..m : g[n] = f[n]
    <3>1. \A n \in 0..m : f[n] = IF n = 0 THEN out ELSE Put(f[n - 1])
      BY <2>1
    <3>2. QED
      BY <3>1
  <2>3. \A n \in 0..(m + 1) : n # 0 => n - 1 \in 0..m
    OBVIOUS
  <2> HIDE DEF g
  <2>4. g = [n \in 0..(m + 1) |-> IF n = 0 THEN out ELSE Put(g[n - 1])]
    BY <2>2, <2>3 DEF g
  <2>5. QED
    BY <2>4
<1>3. lines \in X
  <2> HIDE DEF X
  <2> QED BY <1>1, <1>2, NatInductionOnSet
<1>4. QED
  BY <1>3 DEF Written

(* Emit puts out some lines and keeps the files as they should be, if the  *)
(* lines are one or as many as there are templates.                        *)
LEMMA EmitKeepsSink ==
  ASSUME SinkInv, NEW lines \in Nat, lines <= 1 \/ lines <= Cardinality(Templates), out' = Emit(lines)
  PROVE  SinkInv'
<1> DEFINE X == {n \in Nat : n <= lines => Midway(Written(lines)[n], n)}
           last == Written(lines)[lines]
<1>1. Written(lines) = [n \in 0..lines |-> IF n = 0 THEN out ELSE Put(Written(lines)[n - 1])]
  BY WrittenIs
<1>2. 0 \in X
  <2>1. Written(lines)[0] = out
    BY <1>1
  <2>2. Len(out.live) \in Nat
    BY DEF SinkInv, IsSink, Output
  <2>3. Midway(out, 0)
    BY <2>2 DEF Midway, SinkInv
  <2>4. QED
    BY <2>1, <2>3
<1>3. ASSUME NEW n \in Nat, n \in X PROVE n + 1 \in X
  <2> SUFFICES ASSUME n + 1 <= lines PROVE Midway(Written(lines)[n + 1], n + 1)
    OBVIOUS
  <2>1. Midway(Written(lines)[n], n)
    BY <1>3
  <2>2. n + 1 \in 0..lines /\ n + 1 # 0 /\ (n + 1) - 1 = n
    OBVIOUS
  <2>3. Written(lines)[n + 1] = Put(Written(lines)[(n + 1) - 1])
    BY <1>1, <2>2
  <2>4. Written(lines)[n + 1] = Put(Written(lines)[n])
    BY <2>2, <2>3
  <2>5. QED
    BY <2>1, <2>4, PutKeepsMidway
<1>4. lines \in X
  <2> HIDE DEF X
  <2> QED BY <1>2, <1>3, NatInductionOnSet
<1>5. Midway(last, lines)
  BY <1>4
<1>6. out' = [last EXCEPT !.buffered = 0]
  BY EmitIs
<1> HIDE DEF last
<1>7. /\ last \in Output /\ out' \in Output /\ out'.live = last.live /\ out'.buffered = 0
      /\ out'.backups = last.backups /\ out'.count = last.count
  <2>1. last \in Output
    BY <1>5 DEF Midway, IsSink
  <2>2. out' = [live |-> last.live, buffered |-> 0, backups |-> last.backups, count |-> last.count]
    BY <1>6, <2>1 DEF Output
  <2>3. QED
    BY <2>1, <2>2 DEF Output
<1>8. \A s : Marks(last, s) => Marks(out', s)
  BY <1>7 DEF Marks
<1>9. IsSink(out')
  BY <1>5, <1>7, <1>8 DEF Midway, IsSink
<1>10. Fits(Len(last.live))
  <2>1. Len(last.live) \in Nat
    BY <1>7 DEF Output
  <2>2. lines > 0 => Len(last.live) - lines = 0 \/ Len(last.live) - lines + 1 <= MaxSize
    BY <1>5 DEF Midway
  <2>3. CASE lines = 0
    BY <1>5, <2>3 DEF Midway
  <2>4. CASE lines > 0
    BY <2>1, <2>2, <2>4, BoundsAre DEF Fits
  <2>5. QED
    BY <2>3, <2>4
<1>11. \A i \in 1..Len(out'.backups) : Fits(Len(out'.backups[i]))
  BY <1>5, <1>7 DEF Midway
<1>12. QED
  BY <1>7, <1>9, <1>10, <1>11 DEF SinkInv, IsSink, Fits, Marks

LEMMA NextKeepsSink == TypeOK /\ SinkInv /\ [Next]_vars => SinkInv'
<1> SUFFICES ASSUME TypeOK, SinkInv, [Next]_vars PROVE SinkInv'
  OBVIOUS
<1>1. CASE out' = out
  BY <1>1 DEF SinkInv, IsSink, Fits, Marks
<1>2. CASE out' = Emit(1)
  BY <1>2, EmitKeepsSink
<1>3. CASE out' = Emit(Cardinality({t \in Templates : Summed(t)}))
  <2> DEFINE S == {t \in Templates : Summed(t)}
  <2>1. Cardinality(S) \in Nat /\ Cardinality(S) <= Cardinality(Templates)
    BY LogDrainAssumption, FS_Subset, FS_CardinalityType
  <2> HIDE DEF S
  <2>2. out' = Emit(Cardinality(S))
    BY <1>3 DEF S
  <2>3. QED
    BY <2>1, <2>2, EmitKeepsSink
<1>4. CASE Read
  <2>1. out' = out \/ out' = Emit(1)
    BY <1>4 DEF Read
  <2>2. QED
    BY <1>1, <1>2, <2>1
<1>5. ASSUME NEW due \in BOOLEAN, Tick(due) PROVE SinkInv'
  <2>1. out' = out \/ out' = Emit(Cardinality({t \in Templates : Summed(t)}))
    BY <1>5 DEF Tick
  <2>2. QED
    BY <1>1, <1>3, <2>1
<1>6. CASE \/ \E kind \in Templates \cup OtherKinds : Write(kind)
           \/ Rename \/ Create \/ (\E fromStart \in BOOLEAN : Start(fromStart))
           \/ StatInput \/ ReachEnd \/ CheckInode \/ Reopen \/ Stop \/ UNCHANGED vars
  BY <1>1, <1>6 DEF Write, Rename, Create, Start, StatInput, ReachEnd, CheckInode, Reopen, Stop, vars
<1>7. QED
  BY <1>4, <1>5, <1>6 DEF Next, Step

LEMMA InitSink == Init => SinkInv
<1> SUFFICES ASSUME Init PROVE SinkInv
  OBVIOUS
<1>1. out = [live |-> <<>>, buffered |-> 0, backups |-> <<>>, count |-> 0]
  BY DEF Init
<1>2. out \in Output /\ Len(out.live) = 0 /\ Len(out.backups) = 0
  <2>1. <<>> \in Seq(Nat) /\ <<>> \in Seq(Seq(Nat))
    OBVIOUS
  <2>2. QED
    BY <1>1, <2>1 DEF Output
<1>3. Marks(out, [i \in 0..1 |-> 0])
  <2>1. <<>> = Interval(0, 0)
    BY DEF Interval
  <2>2. QED
    BY <1>1, <1>2, <2>1 DEF Marks
<1>4. Fits(0)
  BY BoundsAre DEF Fits
<1>5. QED
  BY <1>1, <1>2, <1>3, <1>4, BoundsAre DEF SinkInv, IsSink

(* One after the other the backups, oldest first, are one interval.        *)
Flattened(seqs) ==
  LET flatten[i \in 1..Len(seqs)] == IF i = 1 THEN seqs[i] ELSE flatten[i - 1] \o seqs[i]
  IN  flatten

LEMMA FlattenIs ==
  ASSUME NEW seqs, Len(seqs) # 0 PROVE FlattenSeq(seqs) = Flattened(seqs)[Len(seqs)]
BY DEF FlattenSeq, Flattened

LEMMA FlattenedIs ==
  ASSUME NEW seqs, Len(seqs) \in Nat
  PROVE  Flattened(seqs) =
           [i \in 1..Len(seqs) |-> IF i = 1 THEN seqs[i] ELSE Flattened(seqs)[i - 1] \o seqs[i]]
<1> DEFINE Reaches(m) == \E f : f = [i \in 1..m |-> IF i = 1 THEN seqs[i] ELSE f[i - 1] \o seqs[i]]
           X == {m \in Nat : Reaches(m)}
<1>1. 0 \in X
  <2> DEFINE f == [i \in 1..0 |-> seqs]
  <2>1. f = [i \in 1..0 |-> IF i = 1 THEN seqs[i] ELSE f[i - 1] \o seqs[i]]
    BY \A i \in 1..0 : FALSE
  <2>2. QED
    BY <2>1
<1>2. ASSUME NEW m \in Nat, m \in X PROVE m + 1 \in X
  <2>1. PICK f : f = [i \in 1..m |-> IF i = 1 THEN seqs[i] ELSE f[i - 1] \o seqs[i]]
    BY <1>2
  <2> DEFINE g == [i \in 1..(m + 1) |-> IF i = 1 THEN seqs[i] ELSE f[i - 1] \o seqs[i]]
  <2>2. \A i \in 1..m : g[i] = f[i]
    <3>1. \A i \in 1..m : f[i] = IF i = 1 THEN seqs[i] ELSE f[i - 1] \o seqs[i]
      BY <2>1
    <3>2. QED
      BY <3>1
  <2>3. \A i \in 1..(m + 1) : i # 1 => i - 1 \in 1..m
    OBVIOUS
  <2> HIDE DEF g
  <2>4. g = [i \in 1..(m + 1) |-> IF i = 1 THEN seqs[i] ELSE g[i - 1] \o seqs[i]]
    BY <2>2, <2>3 DEF g
  <2>5. Reaches(m + 1)
    BY <2>4
  <2> HIDE DEF Reaches
  <2>6. QED
    BY <2>5
<1>3. Len(seqs) \in X
  <2> HIDE DEF X
  <2> QED BY <1>1, <1>2, NatInductionOnSet
<1>4. QED
  BY <1>3 DEF Flattened

LEMMA BackupsAreAnInterval ==
  ASSUME NEW o \in Output, NEW s, Marks(o, s)
  PROVE  /\ FlattenSeq(Reverse(o.backups)) = Interval(s[Len(o.backups) + 1], s[1])
         /\ s[1] \in Nat /\ s[Len(o.backups) + 1] \in Nat /\ s[Len(o.backups) + 1] <= s[1]
<1> DEFINE L == Len(o.backups)
           R == Reverse(o.backups)
           X == {m \in Nat : m + 1 <= L => /\ Flattened(R)[m + 1] = Interval(s[L + 1], s[L - m])
                                           /\ s[L + 1] <= s[L - m]}
<1>1. /\ o.backups \in Seq(Seq(Nat)) /\ L \in Nat
      /\ s \in [0..(L + 1) -> Nat]
      /\ \A i \in 1..L : s[i + 1] <= s[i] /\ o.backups[i] = Interval(s[i + 1], s[i])
  BY DEF Marks, Output
<1>2. /\ R = [i \in 1..L |-> o.backups[(L - i) + 1]]
  BY DEF Reverse
<1> HIDE DEF L, R
<1>3. Len(R) = L
  BY <1>1, <1>2
<1>4. \A i \in 1..L : R[i] = Interval(s[L - i + 2], s[L - i + 1]) /\ s[L - i + 2] <= s[L - i + 1]
  <2> TAKE i \in 1..L
  <2>1. (L - i) + 1 \in 1..L /\ ((L - i) + 1) + 1 = L - i + 2
    BY <1>1
  <2>2. QED
    BY <1>1, <1>2, <2>1
<1>5. \A i \in 1..L : Flattened(R)[i] = IF i = 1 THEN R[i] ELSE Flattened(R)[i - 1] \o R[i]
  <2>1. Flattened(R) = [i \in 1..L |-> IF i = 1 THEN R[i] ELSE Flattened(R)[i - 1] \o R[i]]
    BY <1>1, <1>3, FlattenedIs
  <2>2. QED
    BY <2>1
<1>6. 0 \in X
  <2> SUFFICES ASSUME 1 <= L
               PROVE  Flattened(R)[0 + 1] = Interval(s[L + 1], s[L - 0]) /\ s[L + 1] <= s[L - 0]
    BY <1>1
  <2>1. 1 \in 1..L /\ L - 1 + 2 = L + 1 /\ L - 1 + 1 = L - 0 /\ 0 + 1 = 1
    BY <1>1
  <2>2. Flattened(R)[1] = R[1] /\ R[1] = Interval(s[L - 1 + 2], s[L - 1 + 1]) /\ s[L - 1 + 2] <= s[L - 1 + 1]
    BY <1>4, <1>5, <2>1
  <2>3. QED
    BY <2>1, <2>2
<1>7. ASSUME NEW m \in Nat, m \in X PROVE m + 1 \in X
  <2> SUFFICES ASSUME (m + 1) + 1 <= L
               PROVE  /\ Flattened(R)[(m + 1) + 1] = Interval(s[L + 1], s[L - (m + 1)])
                      /\ s[L + 1] <= s[L - (m + 1)]
    OBVIOUS
  <2> DEFINE i == (m + 1) + 1
  <2>1. /\ i \in 1..L /\ i # 1 /\ i - 1 = m + 1 /\ m + 1 <= L
        /\ L - i + 2 = L - m /\ L - i + 1 = L - (m + 1)
        /\ L + 1 \in 0..(L + 1) /\ L - m \in 0..(L + 1) /\ L - (m + 1) \in 0..(L + 1)
    BY <1>1
  <2>2. Flattened(R)[m + 1] = Interval(s[L + 1], s[L - m]) /\ s[L + 1] <= s[L - m]
    BY <1>7, <2>1
  <2>3. R[i] = Interval(s[L - m], s[L - (m + 1)]) /\ s[L - m] <= s[L - (m + 1)]
    BY <1>4, <2>1
  <2>4. Flattened(R)[i] = Flattened(R)[m + 1] \o R[i]
    <3>1. Flattened(R)[i] = Flattened(R)[i - 1] \o R[i]
      BY <1>5, <2>1
    <3>2. QED
      BY <2>1, <3>1
  <2>5. s[L + 1] \in Nat /\ s[L - m] \in Nat /\ s[L - (m + 1)] \in Nat
    BY <1>1, <2>1
  <2> HIDE DEF i
  <2>6. Flattened(R)[i] = Interval(s[L + 1], s[L - (m + 1)])
    <3>1. Interval(s[L + 1], s[L - m]) \o Interval(s[L - m], s[L - (m + 1)])
            = Interval(s[L + 1], s[L - (m + 1)])
      BY <2>2, <2>3, <2>5, IntervalsMeet
    <3>2. QED
      BY <2>2, <2>3, <2>4, <3>1
  <2>7. s[L + 1] <= s[L - (m + 1)]
    BY <2>2, <2>3, <2>5
  <2>8. QED
    BY <2>6, <2>7 DEF i
<1>8. \A m \in Nat : m \in X
  <2> HIDE DEF X
  <2> QED BY <1>6, <1>7, NatInductionOnSet
<1>9. s[1] \in Nat /\ s[L + 1] \in Nat
  BY <1>1
<1>10. CASE L = 0
  <2>1. FlattenSeq(R) = R /\ R = <<>>
    BY <1>2, <1>3, <1>10 DEF FlattenSeq
  <2>2. Interval(s[1], s[1]) = <<>>
    BY <1>9 DEF Interval
  <2>3. QED
    BY <1>9, <1>10, <2>1, <2>2 DEF L, R
<1>11. CASE L # 0
  <2>1. L - 1 \in X /\ L - 1 + 1 = L /\ L - (L - 1) = 1 /\ L <= L
    <3>1. L - 1 \in Nat /\ L - 1 + 1 = L /\ L - (L - 1) = 1 /\ L <= L
      BY <1>1, <1>11
    <3> HIDE DEF X
    <3>2. QED
      BY <1>8, <3>1
  <2>2. Flattened(R)[L - 1 + 1] = Interval(s[L + 1], s[L - (L - 1)]) /\ s[L + 1] <= s[L - (L - 1)]
    BY <2>1
  <2>3. FlattenSeq(R) = Flattened(R)[L]
    BY <1>3, <1>11, FlattenIs
  <2>4. QED
    BY <1>9, <2>1, <2>2, <2>3 DEF L, R
<1>12. QED
  BY <1>10, <1>11

(* Whatever the sink writes and rotates, it keeps the latest lines in      *)
(* order and without a gap, and gives up lines only when all backups are   *)
(* in use.                                                                 *)
THEOREM DrainKeepsTheLatest == Spec => []SinkKeepsTheLatest
<1>1. SinkInv => SinkKeepsTheLatest
  <2> SUFFICES ASSUME SinkInv PROVE SinkKeepsTheLatest
    OBVIOUS
  <2> DEFINE kept == FlattenSeq(Reverse(out.backups)) \o out.live
             L == Len(out.backups)
  <2>1. out \in Output /\ out.live \in Seq(Nat) /\ out.count \in Nat /\ L \in Nat
    BY DEF SinkInv, IsSink, Output
  <2>2. PICK s : Marks(out, s)
    BY DEF SinkInv, IsSink
  <2>3. s[0] = out.count /\ s[1] <= s[0] /\ out.live = Interval(s[1], s[0])
        /\ (s[L + 1] # 0 => L = BackupCount)
    BY <2>2 DEF Marks
  <2>4. /\ FlattenSeq(Reverse(out.backups)) = Interval(s[L + 1], s[1])
        /\ s[1] \in Nat /\ s[L + 1] \in Nat /\ s[L + 1] <= s[1]
    BY <2>1, <2>2, BackupsAreAnInterval
  <2>5. kept = Interval(s[L + 1], out.count) /\ s[L + 1] <= out.count
    <3>1. Interval(s[L + 1], s[1]) \o Interval(s[1], out.count) = Interval(s[L + 1], out.count)
      BY <2>1, <2>3, <2>4, IntervalsMeet
    <3>2. kept = Interval(s[L + 1], s[1]) \o Interval(s[1], out.count)
      BY <2>3, <2>4
    <3>3. s[L + 1] <= out.count
      BY <2>1, <2>3, <2>4
    <3> HIDE DEF kept
    <3>4. QED
      BY <3>1, <3>2, <3>3
  <2> HIDE DEF kept
  <2>6. Len(kept) = out.count - s[L + 1]
    BY <2>1, <2>4, <2>5, IntervalIs
  <2>7. kept = [i \in 1..Len(kept) |-> out.count - Len(kept) + i]
    BY <2>1, <2>4, <2>5, <2>6 DEF Interval
  <2>8. Len(kept) < out.count => Len(out.backups) = BackupCount
    BY <2>1, <2>3, <2>4, <2>6
  <2>9. QED
    BY <2>7, <2>8 DEF SinkKeepsTheLatest, kept
<1>2. Spec => []SinkInv
  BY DrainTypes, InitSink, NextKeepsSink, PTL DEF Spec
<1>3. QED
  BY <1>1, <1>2, PTL

(* An output file outgrows MaxSize by the summaries of one tick at most:   *)
(* the sink is not as tight as its comment says (SinkIsBounded), and not   *)
(* much worse.                                                             *)
THEOREM DrainOverrunsByOneTick == Spec => []SinkOverrunsByOneTick
<1>1. SinkInv => SinkOverrunsByOneTick
  <2> SUFFICES ASSUME SinkInv PROVE SinkOverrunsByOneTick
    OBVIOUS
  <2>1. DOMAIN out.backups = 1..Len(out.backups)
    BY DEF SinkInv, IsSink, Output
  <2>2. QED
    BY <2>1 DEF SinkInv, Fits, SinkOverrunsByOneTick, OutputFiles
<1>2. Spec => []SinkInv
  BY DrainTypes, InitSink, NextKeepsSink, PTL DEF Spec
<1>3. QED
  BY <1>1, <1>2, PTL
=============================================================================
