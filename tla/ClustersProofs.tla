--------------------------- MODULE ClustersProofs ---------------------------
(***************************************************************************)
(* The cluster tables are sound and only grow, for any devices, classes    *)
(* and decisions, and whatever rolls back or ends in between.              *)
(***************************************************************************)
EXTENDS Clusters, TLAPS

(* device_to_cluster says what the table says.                             *)
Agree(t, g) == \A c \in Nat \ {0}, d \in Devs : <<c, d>> \in t.members <=> g[d] = c

(* Devices in one cluster of t are in one cluster of u, no younger.        *)
Grows(t, u) ==
  \A m, n \in t.members :
    m[1] = n[1] => \E c \in 1..m[1] : <<c, m[2]>> \in u.members /\ <<c, n[2]>> \in u.members

(* Outside a transaction the tables are the committed ones; inside, they   *)
(* have grown out of them and agree with grouping.                         *)
IInv ==
  /\ TypeOK
  /\ ClustersAreSound
  /\ Grows(saved, work)
  /\ IF applying THEN Agree(work, grouping) ELSE work = saved

LEMMA GrowsReflexive ==
  ASSUME NEW t \in Tables PROVE Grows(t, t)
BY DEF Grows, Tables

(* A loop over the decisions starts with a grouping that agrees.           *)
LEMMA GroupingAgrees ==
  ASSUME NEW t \in Tables, Sound(t)
  PROVE  GroupingOf(t) \in [Devs -> Nat] /\ Agree(t, GroupingOf(t))
<1>1. \A c \in Nat \ {0}, d \in Devs : <<c, d>> \in t.members => c \in t.rows
  BY DEF Sound
<1>2. \A b, c \in Nat \ {0}, d \in Devs : <<b, d>> \in t.members /\ <<c, d>> \in t.members => b = c
  BY DEF Sound
<1>3. t.rows \subseteq Nat \ {0}
  BY DEF Tables
<1>4. \A d \in Devs : /\ GroupingOf(t)[d] \in Nat
                      /\ \A c \in Nat \ {0} : <<c, d>> \in t.members <=> GroupingOf(t)[d] = c
  <2> TAKE d \in Devs
  <2>1. CASE \E c \in t.rows : <<c, d>> \in t.members
    <3>1. GroupingOf(t)[d] = CHOOSE c \in t.rows : <<c, d>> \in t.members
      BY <2>1 DEF GroupingOf
    <3>2. GroupingOf(t)[d] \in t.rows /\ <<GroupingOf(t)[d], d>> \in t.members
      BY <2>1, <3>1
    <3>3. QED
      BY <1>2, <1>3, <3>2
  <2>2. CASE ~ \E c \in t.rows : <<c, d>> \in t.members
    <3>1. GroupingOf(t)[d] = 0
      BY <2>2 DEF GroupingOf
    <3>2. QED
      BY <1>1, <2>2, <3>1
  <2>3. QED
    BY <2>1, <2>2
<1>5. QED
  BY <1>4 DEF Agree, GroupingOf

(***************************************************************************)
(* Soundness and growth, said of the grouping instead of the table.        *)
(***************************************************************************)
SoundBy(rows, seq, g) ==
  /\ \A d \in Devs : g[d] # 0 => g[d] \in rows
  /\ \A c \in rows : \E d, e \in Devs : d # e /\ g[d] = c /\ g[e] = c
  /\ \A c \in rows : c <= seq

GrowsBy(g, h) ==
  \A d, e \in Devs : g[d] # 0 /\ g[d] = g[e] => h[d] \in 1..g[d] /\ h[e] = h[d]

LEMMA MembersAreGrouped ==
  ASSUME NEW t \in Tables, NEW g \in [Devs -> Nat], Agree(t, g)
  PROVE  /\ \A m \in t.members : m[2] \in Devs /\ g[m[2]] = m[1] /\ m[1] # 0 /\ m = <<m[1], m[2]>>
         /\ \A d \in Devs : g[d] # 0 => <<g[d], d>> \in t.members
<1>1. t.members \subseteq (Nat \ {0}) \X Devs
  BY DEF Tables
<1>2. \A m \in t.members : m[1] \in Nat \ {0} /\ m[2] \in Devs /\ m = <<m[1], m[2]>>
  BY <1>1
<1>3. QED
  BY <1>2 DEF Agree

LEMMA SoundByGrouping ==
  ASSUME NEW t \in Tables, NEW g \in [Devs -> Nat], Agree(t, g)
  PROVE  Sound(t) <=> SoundBy(t.rows, t.seq, g)
<1>1. /\ \A m \in t.members : m[2] \in Devs /\ g[m[2]] = m[1] /\ m[1] # 0 /\ m = <<m[1], m[2]>>
      /\ \A d \in Devs : g[d] # 0 => <<g[d], d>> \in t.members
  BY MembersAreGrouped
<1>2. \A m, n \in t.members : m[2] = n[2] => m = n
  BY <1>1
<1>3. (\A m \in t.members : m[1] \in t.rows) <=> (\A d \in Devs : g[d] # 0 => g[d] \in t.rows)
  <2>1. ASSUME \A m \in t.members : m[1] \in t.rows, NEW d \in Devs, g[d] # 0
        PROVE  g[d] \in t.rows
    <3>1. <<g[d], d>> \in t.members
      BY <1>1, <2>1
    <3>2. <<g[d], d>>[1] \in t.rows
      BY <2>1, <3>1
    <3>3. QED
      BY <3>2
  <2>2. QED
    BY <1>1, <2>1
<1>4. ASSUME NEW c \in t.rows
      PROVE  (\E m, n \in t.members : m # n /\ m[1] = c /\ n[1] = c)
             <=> (\E d, e \in Devs : d # e /\ g[d] = c /\ g[e] = c)
  <2>1. ASSUME NEW m \in t.members, NEW n \in t.members, m # n, m[1] = c, n[1] = c
        PROVE  \E d, e \in Devs : d # e /\ g[d] = c /\ g[e] = c
    <3>1. m[2] # n[2]
      BY <1>1, <2>1
    <3>2. QED
      BY <1>1, <2>1, <3>1
  <2>2. ASSUME NEW d \in Devs, NEW e \in Devs, d # e, g[d] = c, g[e] = c
        PROVE  \E m, n \in t.members : m # n /\ m[1] = c /\ n[1] = c
    <3>1. c # 0
      BY DEF Tables
    <3>2. <<c, d>> \in t.members /\ <<c, e>> \in t.members
      BY <1>1, <2>2, <3>1
    <3>3. <<c, d>> # <<c, e>> /\ <<c, d>>[1] = c /\ <<c, e>>[1] = c
      BY <2>2
    <3>4. QED
      BY <3>2, <3>3
  <2>3. QED
    BY <2>1, <2>2
<1>5. QED
  BY <1>2, <1>3, <1>4 DEF Sound, SoundBy

LEMMA GrowsByGrouping ==
  ASSUME NEW t \in Tables, NEW g \in [Devs -> Nat], Agree(t, g),
         NEW u \in Tables, NEW h \in [Devs -> Nat], Agree(u, h), GrowsBy(g, h)
  PROVE  Grows(t, u)
<1> SUFFICES ASSUME NEW m \in t.members, NEW n \in t.members, m[1] = n[1]
             PROVE  \E c \in 1..m[1] : <<c, m[2]>> \in u.members /\ <<c, n[2]>> \in u.members
  BY DEF Grows
<1>1. /\ m[2] \in Devs /\ g[m[2]] = m[1] /\ m[1] # 0
      /\ n[2] \in Devs /\ g[n[2]] = n[1]
  BY MembersAreGrouped
<1>2. h[m[2]] \in 1..m[1] /\ h[n[2]] = h[m[2]]
  BY <1>1 DEF GrowsBy
<1>3. h[m[2]] # 0 /\ h[n[2]] # 0
  BY <1>1, <1>2
<1>4. <<h[m[2]], m[2]>> \in u.members /\ <<h[n[2]], n[2]>> \in u.members
  BY <1>1, <1>3, MembersAreGrouped
<1>5. QED
  BY <1>2, <1>4

LEMMA GrowsTransitive ==
  ASSUME NEW s \in Tables, NEW t \in Tables, NEW u \in Tables, Grows(s, t), Grows(t, u)
  PROVE  Grows(s, u)
<1> SUFFICES ASSUME NEW m \in s.members, NEW n \in s.members, m[1] = n[1]
             PROVE  \E c \in 1..m[1] : <<c, m[2]>> \in u.members /\ <<c, n[2]>> \in u.members
  BY DEF Grows
<1>1. m[1] \in Nat
  BY DEF Tables
<1>2. PICK b \in 1..m[1] : <<b, m[2]>> \in t.members /\ <<b, n[2]>> \in t.members
  BY DEF Grows
<1>3. <<b, m[2]>>[1] = <<b, n[2]>>[1]
  OBVIOUS
<1>4. PICK c \in 1..b : <<c, m[2]>> \in u.members /\ <<c, n[2]>> \in u.members
  BY <1>2, <1>3 DEF Grows
<1>5. c \in 1..m[1]
  BY <1>1, <1>4
<1>6. QED
  BY <1>4, <1>5

(***************************************************************************)
(* The cases of the loop over the decisions: each yields tables that are   *)
(* sound again, agree with the new grouping, and have grown.               *)
(***************************************************************************)
Progress(t, u, h) ==
  /\ u \in Tables /\ Sound(u)
  /\ h \in [Devs -> Nat] /\ Agree(u, h)
  /\ Grows(t, u)

LEMMA ProgressByGrouping ==
  ASSUME NEW t \in Tables, NEW g \in [Devs -> Nat], Agree(t, g),
         NEW u \in Tables, NEW h \in [Devs -> Nat], Agree(u, h),
         SoundBy(u.rows, u.seq, h), GrowsBy(g, h)
  PROVE  Progress(t, u, h)
BY SoundByGrouping, GrowsByGrouping DEF Progress

Moved(members, keep, drop) == {<<IF m[1] = drop THEN keep ELSE m[1], m[2]>> : m \in members}
Regrouped(g, keep, drop) == [d \in Devs |-> IF g[d] = drop THEN keep ELSE g[d]]

LEMMA MergeProgress ==
  ASSUME NEW t \in Tables, Sound(t), NEW g \in [Devs -> Nat], Agree(t, g),
         NEW keep \in Nat \ {0}, NEW drop \in Nat, keep < drop,
         NEW a \in Devs, g[a] = keep,
         NEW moved, moved = Moved(t.members, keep, drop),
         NEW u, u = [rows |-> t.rows \ {drop}, members |-> moved, seq |-> t.seq],
         NEW h, h = Regrouped(g, keep, drop)
  PROVE  Progress(t, u, h)
<1>0. h = [d \in Devs |-> IF g[d] = drop THEN keep ELSE g[d]]
  BY DEF Regrouped
<1> DEFINE Move(m) == <<IF m[1] = drop THEN keep ELSE m[1], m[2]>>
<1>1. \A x : x \in moved <=> \E m \in t.members : x = Move(m)
  BY DEF Moved
<1>2. /\ \A m \in t.members : m[2] \in Devs /\ g[m[2]] = m[1] /\ m[1] # 0 /\ m = <<m[1], m[2]>>
      /\ \A d \in Devs : g[d] # 0 => <<g[d], d>> \in t.members
  BY MembersAreGrouped
<1>3. SoundBy(t.rows, t.seq, g)
  BY SoundByGrouping
<1>4. h \in [Devs -> Nat]
  BY <1>0
<1>5. \A c \in Nat \ {0}, d \in Devs : <<c, d>> \in moved <=> h[d] = c
  <2> SUFFICES ASSUME NEW c \in Nat \ {0}, NEW d \in Devs PROVE <<c, d>> \in moved <=> h[d] = c
    OBVIOUS
  <2>1. ASSUME <<c, d>> \in moved PROVE h[d] = c
    <3>1. PICK m \in t.members : <<c, d>> = Move(m)
      BY <1>1, <2>1
    <3>2. d = m[2] /\ c = (IF m[1] = drop THEN keep ELSE m[1])
      BY <3>1
    <3>3. QED
      BY <1>0, <1>2, <3>2
  <2>2. ASSUME h[d] = c PROVE <<c, d>> \in moved
    <3>1. g[d] # 0
      BY <1>0, <2>2
    <3>2. <<g[d], d>> \in t.members
      BY <1>2, <3>1
    <3>3. Move(<<g[d], d>>) = <<c, d>>
      BY <1>0, <2>2
    <3>4. QED
      BY <1>1, <3>2, <3>3
  <2>3. QED
    BY <2>1, <2>2
<1>6. u \in Tables
  <2>1. t.members \subseteq (Nat \ {0}) \X Devs /\ t.rows \subseteq Nat \ {0} /\ t.seq \in Nat
    BY DEF Tables
  <2>2. \A m \in t.members : Move(m) \in (Nat \ {0}) \X Devs
    BY <2>1
  <2>3. moved \subseteq (Nat \ {0}) \X Devs
    BY <1>1, <2>2
  <2>4. QED
    BY <2>1, <2>3 DEF Tables
<1>7. SoundBy(t.rows \ {drop}, t.seq, h)
  <2>1. \A d \in Devs : h[d] # 0 => h[d] \in t.rows \ {drop}
    BY <1>0, <1>3 DEF SoundBy
  <2>2. \A c \in t.rows \ {drop} : \E d, e \in Devs : d # e /\ h[d] = c /\ h[e] = c
    BY <1>0, <1>3 DEF SoundBy
  <2>3. QED
    BY <1>3, <2>1, <2>2 DEF SoundBy
<1>8. GrowsBy(g, h)
  BY <1>0 DEF GrowsBy
<1>9. u.rows = t.rows \ {drop} /\ u.members = moved /\ u.seq = t.seq
  OBVIOUS
<1>10. Agree(u, h)
  BY <1>5, <1>9 DEF Agree
<1>11. SoundBy(u.rows, u.seq, h)
  BY <1>7, <1>9
<1>12. QED
  BY <1>4, <1>6, <1>8, <1>10, <1>11, ProgressByGrouping

LEMMA AddProgress ==
  ASSUME NEW t \in Tables, Sound(t), NEW g \in [Devs -> Nat], Agree(t, g),
         NEW c \in Nat \ {0}, NEW a \in Devs, g[a] = c, NEW b \in Devs, g[b] = 0,
         NEW u, u = [t EXCEPT !.members = @ \cup {<<c, b>>}],
         NEW h, h = [g EXCEPT ![b] = c]
  PROVE  Progress(t, u, h)
<1>1. u = [rows |-> t.rows, members |-> t.members \cup {<<c, b>>}, seq |-> t.seq]
  BY DEF Tables
<1>2. SoundBy(t.rows, t.seq, g)
  BY SoundByGrouping
<1>3. h \in [Devs -> Nat]
  OBVIOUS
<1>4. u \in Tables
  BY <1>1 DEF Tables
<1>5. \A k \in Nat \ {0}, d \in Devs : <<k, d>> \in u.members <=> h[d] = k
  <2> SUFFICES ASSUME NEW k \in Nat \ {0}, NEW d \in Devs PROVE <<k, d>> \in u.members <=> h[d] = k
    OBVIOUS
  <2>1. <<k, d>> \in u.members <=> <<k, d>> \in t.members \/ (k = c /\ d = b)
    BY <1>1
  <2>2. <<k, d>> \in t.members <=> g[d] = k
    BY DEF Agree
  <2>3. QED
    BY <2>1, <2>2
<1>6. SoundBy(t.rows, t.seq, h)
  <2>1. c \in t.rows
    BY <1>2 DEF SoundBy
  <2>2. \A k \in t.rows : \E d, e \in Devs : d # e /\ h[d] = k /\ h[e] = k
    <3> TAKE k \in t.rows
    <3>1. PICK d \in Devs, e \in Devs : d # e /\ g[d] = k /\ g[e] = k
      BY <1>2 DEF SoundBy
    <3>2. k # 0
      BY DEF Tables
    <3>3. h[d] = k /\ h[e] = k
      BY <3>1, <3>2
    <3>4. QED
      BY <3>1, <3>3
  <2>3. QED
    BY <1>2, <2>1, <2>2 DEF SoundBy
<1>7. GrowsBy(g, h)
  BY DEF GrowsBy
<1>8. QED
  BY <1>1, <1>3, <1>4, <1>5, <1>6, <1>7, ProgressByGrouping DEF Agree

LEMMA CreateProgress ==
  ASSUME NEW t \in Tables, Sound(t), NEW g \in [Devs -> Nat], Agree(t, g),
         NEW a \in Devs, g[a] = 0, NEW b \in Devs, g[b] = 0, a # b,
         NEW c, c = t.seq + 1,
         NEW u, u = [rows |-> t.rows \cup {c}, seq |-> c,
                     members |-> t.members \cup {<<c, d>> : d \in {a, b}}],
         NEW h, h = [d \in Devs |-> IF d \in {a, b} THEN c ELSE g[d]]
  PROVE  Progress(t, u, h)
<1>1. t.seq \in Nat /\ t.rows \subseteq Nat \ {0} /\ c \in Nat \ {0}
  BY DEF Tables
<1>2. SoundBy(t.rows, t.seq, g)
  BY SoundByGrouping
<1>3. h \in [Devs -> Nat]
  BY <1>1
<1>4. u \in Tables
  BY <1>1 DEF Tables
<1>5. \A d \in Devs : g[d] # c
  BY <1>1, <1>2 DEF SoundBy
<1>6. \A k \in Nat \ {0}, d \in Devs : <<k, d>> \in u.members <=> h[d] = k
  <2> SUFFICES ASSUME NEW k \in Nat \ {0}, NEW d \in Devs PROVE <<k, d>> \in u.members <=> h[d] = k
    OBVIOUS
  <2>1. <<k, d>> \in u.members <=> <<k, d>> \in t.members \/ (k = c /\ d \in {a, b})
    OBVIOUS
  <2>2. <<k, d>> \in t.members <=> g[d] = k
    BY DEF Agree
  <2>3. QED
    BY <1>5, <2>1, <2>2
<1>7. SoundBy(u.rows, u.seq, h)
  <2>1. \A d \in Devs : h[d] # 0 => h[d] \in u.rows
    BY <1>2 DEF SoundBy
  <2>2. \A k \in u.rows : \E d, e \in Devs : d # e /\ h[d] = k /\ h[e] = k
    <3> TAKE k \in u.rows
    <3>1. CASE k = c
      BY <3>1
    <3>2. CASE k \in t.rows
      <4>1. PICK d \in Devs, e \in Devs : d # e /\ g[d] = k /\ g[e] = k
        BY <1>2, <3>2 DEF SoundBy
      <4>2. h[d] = k /\ h[e] = k
        BY <1>1, <3>2, <4>1
      <4>3. QED
        BY <4>1, <4>2
    <3>3. QED
      BY <3>1, <3>2
  <2>3. \A k \in u.rows : k <= u.seq
    BY <1>1, <1>2 DEF SoundBy
  <2>4. QED
    BY <2>1, <2>2, <2>3 DEF SoundBy
<1>8. GrowsBy(g, h)
  BY DEF GrowsBy
<1>9. Agree(u, h)
  BY <1>6 DEF Agree
<1>10. QED
  BY <1>3, <1>4, <1>7, <1>8, <1>9, ProgressByGrouping

(***************************************************************************)
(* The steps of the system.                                                *)
(***************************************************************************)
LEMMA PairsAreTwo ==
  ASSUME NEW e \in Pairs PROVE \E a, b \in Devs : a # b /\ e = {a, b}
<1>1. PICK a \in Devs, b \in Devs : e = {a, b}
  BY DEF Pairs
<1>2. a # b
  BY <1>1 DEF Pairs
<1>3. QED
  BY <1>1, <1>2

(* What a step of the loop has to show.                                    *)
LEMMA DecisionKeepsIInv ==
  ASSUME IInv, NEW e \in Pairs, Decision(e), Progress(work, work', grouping')
  PROVE  IInv'
<1>1. TypeOK'
  BY DEF IInv, TypeOK, Decision, Progress, workerVars
<1>2. ClustersAreSound'
  <2>1. saved' = saved
    BY DEF Decision
  <2>2. Sound(saved) /\ Sound(work')
    BY DEF IInv, ClustersAreSound, Progress
  <2>3. QED
    BY <2>1, <2>2 DEF ClustersAreSound
<1>3. Grows(saved, work)' /\ saved' = saved
  <2>1. saved \in Tables /\ work \in Tables /\ work' \in Tables
    BY DEF IInv, TypeOK, Progress
  <2>2. Grows(saved, work) /\ Grows(work, work')
    BY DEF IInv, Progress
  <2>3. Grows(saved, work')
    BY <2>1, <2>2, GrowsTransitive
  <2>4. saved' = saved
    BY DEF Decision
  <2>5. QED
    BY <2>3, <2>4
<1>4. applying' /\ Agree(work, grouping)'
  BY DEF Decision, Progress
<1>5. QED
  BY <1>1, <1>2, <1>3, <1>4 DEF IInv

LEMMA LoopKeepsIInv ==
  ASSUME IInv, NEW e \in Pairs,
         Touch(e) \/ MergeClusters(e) \/ AddMember(e) \/ CreateCluster(e)
  PROVE  IInv'
<1>1. Decision(e) /\ applying
  BY DEF Touch, MergeClusters, AddMember, CreateCluster, Decision
<1>2. work \in Tables /\ Sound(work) /\ grouping \in [Devs -> Nat] /\ Agree(work, grouping)
  BY <1>1 DEF IInv, TypeOK, ClustersAreSound
<1>3. PICK a \in Devs, b \in Devs : a # b /\ e = {a, b}
  BY PairsAreTwo
<1>4. CASE Touch(e)
  <2>1. work' = work /\ grouping' = grouping
    BY <1>4 DEF Touch
  <2>2. Progress(work, work', grouping')
    BY <1>2, <2>1, GrowsReflexive DEF Progress
  <2>3. QED
    BY <1>1, <2>2, DecisionKeepsIInv
<1>5. CASE MergeClusters(e)
  <2>1. PICK keep \in ClustersOf(e), drop \in ClustersOf(e) :
          /\ keep < drop
          /\ work' = [work EXCEPT !.rows = @ \ {drop},
                                  !.members = {<<IF m[1] = drop THEN keep ELSE m[1], m[2]>> : m \in @}]
          /\ grouping' = [d \in Devs |-> IF grouping[d] = drop THEN keep ELSE grouping[d]]
    BY <1>5 DEF MergeClusters
  <2>2. keep \in Nat \ {0} /\ drop \in Nat \ {0}
    BY <1>2, <1>3, <2>1 DEF ClustersOf
  <2>3. PICK x \in Devs : grouping[x] = keep
    BY <1>3, <2>1 DEF ClustersOf
  <2> DEFINE moved == Moved(work.members, keep, drop)
  <2>4. work' = [rows |-> work.rows \ {drop}, members |-> moved, seq |-> work.seq]
    BY <1>2, <2>1 DEF Tables, Moved
  <2>5. moved = Moved(work.members, keep, drop) /\ grouping' = Regrouped(grouping, keep, drop)
    BY <2>1 DEF Regrouped
  <2> HIDE DEF moved
  <2>6. keep < drop
    BY <2>1
  <2>7. Progress(work, work', grouping')
    BY <1>2, <2>2, <2>3, <2>4, <2>5, <2>6, MergeProgress
  <2>8. QED
    BY <1>1, <2>7, DecisionKeepsIInv
<1>6. CASE AddMember(e)
  <2>1. PICK c \in ClustersOf(e), y \in e :
          /\ grouping[y] = 0
          /\ work' = [work EXCEPT !.members = @ \cup {<<c, y>>}]
          /\ grouping' = [grouping EXCEPT ![y] = c]
    BY <1>6 DEF AddMember
  <2>2. c \in Nat \ {0} /\ y \in Devs
    BY <1>2, <1>3, <2>1 DEF ClustersOf
  <2>3. PICK x \in Devs : grouping[x] = c
    BY <1>3, <2>1 DEF ClustersOf
  <2>4. Progress(work, work', grouping')
    BY <1>2, <2>1, <2>2, <2>3, AddProgress
  <2>5. QED
    BY <1>1, <2>4, DecisionKeepsIInv
<1>7. CASE CreateCluster(e)
  <2> DEFINE c == work.seq + 1
  <2>1. /\ work' = [rows |-> work.rows \cup {c}, seq |-> c,
                    members |-> work.members \cup {<<c, d>> : d \in {a, b}}]
        /\ grouping' = [d \in Devs |-> IF d \in {a, b} THEN c ELSE grouping[d]]
    BY <1>3, <1>7 DEF CreateCluster
  <2>2. grouping[a] = 0 /\ grouping[b] = 0
    BY <1>3, <1>7 DEF CreateCluster, ClustersOf
  <2>3. c = work.seq + 1
    OBVIOUS
  <2> HIDE DEF c
  <2>4. Progress(work, work', grouping')
    BY <1>2, <1>3, <2>1, <2>2, <2>3, CreateProgress
  <2>5. QED
    BY <1>1, <2>4, DecisionKeepsIInv
<1>8. QED
  BY <1>4, <1>5, <1>6, <1>7

(* The tables and the loop are left alone.                                 *)
LEMMA OutsideKeepsIInv ==
  ASSUME IInv, TypeOK', applying' = applying, grouping' = grouping, work' = work, saved' = saved
  PROVE  IInv'
BY DEF IInv, ClustersAreSound, Agree

(* The end of a transaction: whichever tables survive, they grew.          *)
LEMMA TablesEndEqual ==
  ASSUME IInv, TypeOK', ~applying', work' = saved', saved' \in {saved, work}
  PROVE  IInv'
<1>1. Sound(saved')
  BY DEF IInv, ClustersAreSound
<1>2. Grows(saved', saved')
  BY GrowsReflexive DEF TypeOK
<1>3. ClustersAreSound'
  BY <1>1 DEF ClustersAreSound
<1>4. Grows(saved, work)'
  BY <1>2
<1>5. QED
  BY <1>3, <1>4 DEF IInv

LEMMA InitEstablishesIInv == Init => IInv
<1> SUFFICES ASSUME Init PROVE IInv
  OBVIOUS
<1>1. TypeOK
  BY DEF Init, TypeOK, Idle, NotGrouped, NoTables, Tables, Snapshot, Nothing
<1>2. ClustersAreSound
  BY DEF Init, NoTables, ClustersAreSound, Sound
<1>3. Grows(saved, work)
  BY DEF Init, NoTables, Grows
<1>4. QED
  BY <1>1, <1>2, <1>3 DEF IInv, Init

LEMMA NextKeepsIInv == IInv /\ [Next]_vars => IInv'
<1> SUFFICES ASSUME IInv, [Next]_vars PROVE IInv'
  OBVIOUS
<1>0. TypeOK
  BY DEF IInv
<1>1. ASSUME NEW d \in Devs, NEW c \in Classes \cup {NoClass}, Classify(d, c) PROVE IInv'
  <2>1. class' \in Snapshot
    BY <1>0, <1>1 DEF Classify, TypeOK, Snapshot
  <2>2. TypeOK'
    BY <1>0, <1>1, <2>1 DEF Classify, TypeOK, workerVars, applyVars
  <2>3. QED
    BY <1>1, <2>2, OutsideKeepsIInv DEF Classify, applyVars
<1>2. ASSUME NEW recent \in SUBSET Devs, RunClusterTick(recent) PROVE IInv'
  <2>1. [d \in Devs |-> IF d \in recent THEN class[d] ELSE NoClass] \in Snapshot
    BY <1>0 DEF TypeOK, Snapshot
  <2>2. TypeOK'
    BY <1>0, <1>2, <2>1 DEF RunClusterTick, TypeOK, Idle, applyVars
  <2>3. QED
    BY <1>2, <2>2, OutsideKeepsIInv DEF RunClusterTick, applyVars
<1>3. ASSUME NEW merges \in SUBSET Pairs, RunOnce(merges) PROVE IInv'
  <2>1. TypeOK'
    BY <1>0, <1>3 DEF RunOnce, TypeOK, Idle, Snapshot, Nothing, applyVars
  <2>2. QED
    BY <1>3, <2>1, OutsideKeepsIInv DEF RunOnce, applyVars
<1>4. CASE RunFails
  <2>1. TypeOK'
    BY <1>0, <1>4 DEF RunFails, TypeOK, Idle, Snapshot, Nothing, applyVars
  <2>2. QED
    BY <1>4, <2>1, OutsideKeepsIInv DEF RunFails, applyVars
<1>5. CASE OnClusterFailed
  <2>1. TypeOK'
    BY <1>0, <1>5 DEF OnClusterFailed, TypeOK, Idle, Snapshot, Nothing, applyVars
  <2>2. QED
    BY <1>5, <2>1, OutsideKeepsIInv DEF OnClusterFailed, applyVars
<1>6. CASE OnClusterFinished
  <2>1. work \in Tables /\ Sound(work) /\ (~applying => work = saved)
    BY <1>0 DEF IInv, TypeOK, ClustersAreSound
  <2>2. GroupingOf(work) \in [Devs -> Nat] /\ Agree(work, GroupingOf(work))
    BY <2>1, GroupingAgrees
  <2>3. worker' \in [pc : {"idle", "requested", "finished", "failed"}, seen : Snapshot,
                     merges : SUBSET Pairs]
    BY <1>6 DEF OnClusterFinished, Idle, Snapshot, Nothing
  <2>4. CASE worker.merges = {}
    <3>1. UNCHANGED applyVars /\ busy' = FALSE /\ class' = class
      BY <1>6, <2>4 DEF OnClusterFinished
    <3>2. TypeOK'
      BY <1>0, <2>3, <3>1 DEF TypeOK, applyVars
    <3>3. QED
      BY <3>1, <3>2, OutsideKeepsIInv DEF applyVars
  <2>5. CASE worker.merges # {}
    <3>1. /\ applying' = TRUE
          /\ run' = worker.merges /\ todo' = worker.merges
          /\ grouping' = GroupingOf(work)
          /\ work' = work /\ saved' = saved /\ evidence' = evidence
          /\ busy' = FALSE /\ class' = class
      BY <1>6, <2>5 DEF OnClusterFinished
    <3>2. TypeOK'
      BY <1>0, <2>2, <2>3, <3>1 DEF TypeOK
    <3>3. QED
      BY <2>2, <3>1, <3>2 DEF IInv, ClustersAreSound
  <2>6. QED
    BY <2>4, <2>5
<1>7. ASSUME NEW e \in Pairs, Touch(e) \/ MergeClusters(e) \/ AddMember(e) \/ CreateCluster(e)
      PROVE  IInv'
  BY <1>7, LoopKeepsIInv
<1>8. CASE Commit
  <2>1. TypeOK'
    BY <1>0, <1>8 DEF Commit, Leave, NotGrouped, TypeOK, workerVars
  <2>2. QED
    BY <1>8, <2>1, TablesEndEqual DEF Commit, Leave
<1>9. CASE Rollback
  <2>1. TypeOK'
    BY <1>0, <1>9 DEF Rollback, Leave, NotGrouped, TypeOK, workerVars
  <2>2. QED
    BY <1>9, <2>1, TablesEndEqual DEF Rollback, Leave
<1>10. CASE Restart
  <2>1. TypeOK'
    BY <1>0, <1>10 DEF Restart, Leave, NotGrouped, TypeOK, Idle, Snapshot, Nothing
  <2>2. QED
    BY <1>10, <2>1, TablesEndEqual DEF Restart, Leave
<1>11. CASE UNCHANGED vars
  <2>1. TypeOK'
    BY <1>0, <1>11 DEF vars, workerVars, applyVars, TypeOK
  <2>2. QED
    BY <1>11, <2>1, OutsideKeepsIInv DEF vars, applyVars
<1>12. QED
  BY <1>1, <1>2, <1>3, <1>4, <1>5, <1>6, <1>7, <1>8, <1>9, <1>10, <1>11 DEF Next

(* The inductive invariant: within a transaction the working tables and    *)
(* the dictionary device_to_cluster of apply_run say the same, and the     *)
(* tables have only grown since the last commit.                           *)
THEOREM ClustersInvariant == Spec => []IInv
BY InitEstablishesIInv, NextKeepsIInv, PTL DEF Spec

(* Type correctness of the pass and its tables.                            *)
THEOREM ClustersTypes == Spec => []TypeOK
<1>1. IInv => TypeOK
  BY DEF IInv
<1>2. QED
  BY <1>1, ClustersInvariant, PTL

(* At every point of apply_run, and after every rollback or restart, no    *)
(* device is in two clusters and no membership or cluster dangles.         *)
THEOREM ClustersStaySound == Spec => []ClustersAreSound
<1>1. IInv => ClustersAreSound
  BY DEF IInv
<1>2. QED
  BY <1>1, ClustersInvariant, PTL

(* Sticky clusters (repos.py, apply_run): what a committed run grouped is  *)
(* never separated, and stays in the older cluster row.                    *)
THEOREM ClustersNeverShrink == Spec => ClustersOnlyGrow
<1>1. IInv /\ [Next]_vars => [Grows(saved, saved')]_vars
  <2> SUFFICES ASSUME IInv, [Next]_vars PROVE Grows(saved, saved')
    OBVIOUS
  <2>1. CASE Commit
    <3>1. saved' = work /\ Grows(saved, work)
      BY <2>1 DEF Commit, IInv
    <3>2. QED
      BY <3>1
  <2>2. CASE ~Commit
    <3>1. saved' = saved
      BY <2>2 DEF Next, vars, applyVars, Classify, RunClusterTick, RunOnce, RunFails, OnClusterFailed,
                  OnClusterFinished, Decision, Touch, MergeClusters, AddMember, CreateCluster,
                  Rollback, Restart
    <3>2. saved \in Tables
      BY DEF IInv, TypeOK
    <3>3. QED
      BY <3>1, <3>2, GrowsReflexive
  <2>3. QED
    BY <2>1, <2>2
<1>2. [Grows(saved, saved')]_vars <=>
        [\A m, n \in saved.members :
           m[1] = n[1] =>
             \E c \in 1..m[1] : <<c, m[2]>> \in saved'.members /\ <<c, n[2]>> \in saved'.members]_vars
  BY DEF Grows
<1>3. QED
  BY <1>1, <1>2, ClustersInvariant, PTL DEF Spec, ClustersOnlyGrow

(***************************************************************************)
(* The committed clusters are the components of the committed decisions.   *)
(* A grouping spans a set of decisions when it groups the devices decided  *)
(* on, and the sets it does not cut are those no decision crosses.         *)
(***************************************************************************)
Uncrossed(S, E) == \A e \in E : e \cap S = {} \/ e \subseteq S
Uncut(S, g) == \A d, x \in Devs : g[d] # 0 /\ g[x] = g[d] /\ d \in S => x \in S

Spans(g, E) ==
  /\ \A d \in Devs : g[d] # 0 <=> d \in UNION E
  /\ \A S \in SUBSET Devs : Uncrossed(S, E) <=> Uncut(S, g)

(* The strengthening of IInv: in the loop, grouping spans the decisions    *)
(* committed and those already applied.                                    *)
PInv ==
  /\ IInv
  /\ Spans(GroupingOf(saved), evidence)
  /\ applying => Spans(grouping, evidence \cup (run \ todo))

LEMMA OneMoreDecision ==
  ASSUME NEW g \in [Devs -> Nat], NEW h \in [Devs -> Nat], NEW E \in SUBSET Pairs, Spans(g, E),
         NEW a \in Devs, NEW b \in Devs,
         \A d \in Devs : h[d] # 0 <=> g[d] # 0 \/ d \in {a, b},
         \A S \in SUBSET Devs : Uncut(S, h) <=> Uncut(S, g) /\ (a \in S <=> b \in S)
  PROVE  Spans(h, E \cup {{a, b}})
<1>1. \A d \in Devs : d \in UNION (E \cup {{a, b}}) <=> d \in UNION E \/ d \in {a, b}
  OBVIOUS
<1>2. ASSUME NEW S \in SUBSET Devs
      PROVE  Uncrossed(S, E \cup {{a, b}}) <=> Uncrossed(S, E) /\ (a \in S <=> b \in S)
  <2>1. ({a, b} \cap S = {} \/ {a, b} \subseteq S) <=> (a \in S <=> b \in S)
    OBVIOUS
  <2>2. Uncrossed(S, E \cup {{a, b}}) <=> Uncrossed(S, E) /\ ({a, b} \cap S = {} \/ {a, b} \subseteq S)
    BY Zenon DEF Uncrossed
  <2>3. QED
    BY <2>1, <2>2
<1>3. QED
  BY <1>1, <1>2 DEF Spans

LEMMA MergeCuts ==
  ASSUME NEW g \in [Devs -> Nat], NEW a \in Devs, NEW b \in Devs,
         g[a] # 0, g[b] # 0, g[a] # g[b],
         NEW keep, NEW drop, (g[a] = keep /\ g[b] = drop) \/ (g[a] = drop /\ g[b] = keep),
         NEW h, h = Regrouped(g, keep, drop), NEW S \in SUBSET Devs
  PROVE  Uncut(S, h) <=> Uncut(S, g) /\ (a \in S <=> b \in S)
<1>1. \A d \in Devs : h[d] = IF g[d] = drop THEN keep ELSE g[d]
  BY DEF Regrouped
<1>2. ASSUME Uncut(S, h) PROVE Uncut(S, g) /\ (a \in S <=> b \in S)
  <2>1. Uncut(S, g)
    BY <1>1, <1>2 DEF Uncut
  <2>2. h[a] = h[b] /\ h[a] # 0
    BY <1>1
  <2>3. QED
    BY <1>2, <2>1, <2>2 DEF Uncut
<1>3. ASSUME Uncut(S, g), a \in S <=> b \in S, NEW d \in Devs, NEW x \in Devs,
             h[d] # 0, h[x] = h[d], d \in S
      PROVE  x \in S
  <2>1. CASE g[x] = g[d]
    <3>1. g[d] # 0
      BY <1>1, <1>3
    <3>2. QED
      BY <1>3, <2>1, <3>1 DEF Uncut
  <2>2. CASE g[x] # g[d]
    <3>1. (g[x] = g[a] /\ g[d] = g[b]) \/ (g[x] = g[b] /\ g[d] = g[a])
      BY <1>1, <1>3, <2>2
    <3>2. QED
      BY <1>3, <3>1 DEF Uncut
  <2>3. QED
    BY <2>1, <2>2
<1>4. QED
  BY <1>2, <1>3 DEF Uncut

LEMMA AddCuts ==
  ASSUME NEW g \in [Devs -> Nat], NEW a \in Devs, NEW b \in Devs, g[a] # 0, g[b] = 0,
         NEW h, h = [g EXCEPT ![b] = g[a]], NEW S \in SUBSET Devs
  PROVE  Uncut(S, h) <=> Uncut(S, g) /\ (a \in S <=> b \in S)
<1>1. \A d \in Devs : h[d] = IF d = b THEN g[a] ELSE g[d]
  OBVIOUS
<1>2. ASSUME Uncut(S, h) PROVE Uncut(S, g) /\ (a \in S <=> b \in S)
  <2>1. Uncut(S, g)
    BY <1>1, <1>2 DEF Uncut
  <2>2. QED
    BY <1>1, <1>2, <2>1 DEF Uncut
<1>3. ASSUME Uncut(S, g), a \in S <=> b \in S, NEW d \in Devs, NEW x \in Devs,
             h[d] # 0, h[x] = h[d], d \in S
      PROVE  x \in S
  BY <1>1, <1>3 DEF Uncut
<1>4. QED
  BY <1>2, <1>3 DEF Uncut

LEMMA CreateCuts ==
  ASSUME NEW g \in [Devs -> Nat], NEW a \in Devs, NEW b \in Devs, g[a] = 0, g[b] = 0,
         NEW c \in Nat \ {0}, \A d \in Devs : g[d] # c,
         NEW h, h = [d \in Devs |-> IF d \in {a, b} THEN c ELSE g[d]], NEW S \in SUBSET Devs
  PROVE  Uncut(S, h) <=> Uncut(S, g) /\ (a \in S <=> b \in S)
<1>1. \A d \in Devs : h[d] = IF d \in {a, b} THEN c ELSE g[d]
  OBVIOUS
<1>2. ASSUME Uncut(S, h) PROVE Uncut(S, g) /\ (a \in S <=> b \in S)
  <2>1. Uncut(S, g)
    BY <1>1, <1>2 DEF Uncut
  <2>2. QED
    BY <1>1, <1>2, <2>1 DEF Uncut
<1>3. ASSUME Uncut(S, g), a \in S <=> b \in S, NEW d \in Devs, NEW x \in Devs,
             h[d] # 0, h[x] = h[d], d \in S
      PROVE  x \in S
  BY <1>1, <1>3 DEF Uncut
<1>4. QED
  BY <1>2, <1>3 DEF Uncut

(* Every case of the loop adds its decision to what the grouping spans.    *)
LEMMA LoopSpans ==
  ASSUME IInv, NEW e \in Pairs, NEW E \in SUBSET Pairs, Spans(grouping, E), grouping' \in [Devs -> Nat],
         Touch(e) \/ MergeClusters(e) \/ AddMember(e) \/ CreateCluster(e)
  PROVE  Spans(grouping', E \cup {e})
<1>1. applying
  BY DEF Touch, MergeClusters, AddMember, CreateCluster, Decision
<1>2. work \in Tables /\ Sound(work) /\ grouping \in [Devs -> Nat] /\ Agree(work, grouping)
  BY <1>1 DEF IInv, TypeOK, ClustersAreSound
<1>3. PICK a \in Devs, b \in Devs : a # b /\ e = {a, b}
  BY PairsAreTwo
<1>4. CASE Touch(e)
  <2>1. grouping' = grouping /\ grouping[a] = grouping[b] /\ grouping[a] # 0
    BY <1>3, <1>4 DEF Touch, ClustersOf
  <2>2. \A S \in SUBSET Devs : Uncut(S, grouping) => (a \in S <=> b \in S)
    BY <2>1 DEF Uncut
  <2>3. QED
    BY <1>2, <1>3, <2>1, <2>2, OneMoreDecision
<1>5. CASE MergeClusters(e)
  <2>1. PICK keep \in ClustersOf(e), drop \in ClustersOf(e) :
          keep < drop /\ grouping' = Regrouped(grouping, keep, drop)
    BY <1>5 DEF MergeClusters, Regrouped
  <2>2. /\ grouping[a] # 0 /\ grouping[b] # 0 /\ grouping[a] # grouping[b]
        /\ (grouping[a] = keep /\ grouping[b] = drop) \/ (grouping[a] = drop /\ grouping[b] = keep)
    <3>1. keep # 0 /\ drop # 0 /\ keep # drop
      BY <1>2, <1>3, <2>1 DEF ClustersOf
    <3>2. keep \in {grouping[a], grouping[b]} /\ drop \in {grouping[a], grouping[b]}
      BY <1>3, <2>1 DEF ClustersOf
    <3>3. QED
      BY <3>1, <3>2
  <2>3. \A S \in SUBSET Devs : Uncut(S, grouping') <=> Uncut(S, grouping) /\ (a \in S <=> b \in S)
    BY <1>2, <2>1, <2>2, MergeCuts
  <2>4. \A d \in Devs : grouping'[d] # 0 <=> grouping[d] # 0 \/ d \in {a, b}
    BY <2>1, <2>2 DEF Regrouped
  <2>5. QED
    BY <1>2, <1>3, <2>3, <2>4, OneMoreDecision
<1>6. CASE AddMember(e)
  <2>1. PICK c \in ClustersOf(e), y \in e : grouping[y] = 0 /\ grouping' = [grouping EXCEPT ![y] = c]
    BY <1>6 DEF AddMember
  <2>2. PICK x \in e : grouping[x] = c /\ c # 0
    BY <2>1 DEF ClustersOf
  <2>3. x \in Devs /\ y \in Devs /\ e = {x, y} /\ grouping[x] # 0 /\ grouping' = [grouping EXCEPT ![y] = grouping[x]]
    BY <1>3, <2>1, <2>2
  <2>4. \A S \in SUBSET Devs : Uncut(S, grouping') <=> Uncut(S, grouping) /\ (x \in S <=> y \in S)
    BY <1>2, <2>1, <2>3, AddCuts
  <2>5. \A d \in Devs : grouping'[d] # 0 <=> grouping[d] # 0 \/ d \in {x, y}
    BY <1>2, <2>3
  <2>6. QED
    BY <1>2, <2>3, <2>4, <2>5, OneMoreDecision
<1>7. CASE CreateCluster(e)
  <2> DEFINE c == work.seq + 1
  <2>1. grouping' = [d \in Devs |-> IF d \in {a, b} THEN c ELSE grouping[d]]
    BY <1>3, <1>7 DEF CreateCluster
  <2>2. grouping[a] = 0 /\ grouping[b] = 0
    BY <1>3, <1>7 DEF CreateCluster, ClustersOf
  <2>3. c \in Nat \ {0} /\ \A d \in Devs : grouping[d] # c
    <3>1. work.seq \in Nat
      BY <1>2 DEF Tables
    <3>2. SoundBy(work.rows, work.seq, grouping)
      BY <1>2, SoundByGrouping
    <3>3. \A d \in Devs : grouping[d] <= work.seq
      BY <1>2, <3>1, <3>2 DEF SoundBy
    <3>4. QED
      BY <3>1, <3>3
  <2> HIDE DEF c
  <2>4. \A S \in SUBSET Devs : Uncut(S, grouping') <=> Uncut(S, grouping) /\ (a \in S <=> b \in S)
    BY <1>2, <2>1, <2>2, <2>3, CreateCuts
  <2>5. \A d \in Devs : grouping'[d] # 0 <=> grouping[d] # 0 \/ d \in {a, b}
    BY <2>1, <2>3
  <2>6. QED
    BY <1>2, <1>3, <2>4, <2>5, OneMoreDecision
<1>8. QED
  BY <1>4, <1>5, <1>6, <1>7

(* Two groupings that agree with one table are the same.                   *)
LEMMA GroupingIsUnique ==
  ASSUME NEW t, NEW g \in [Devs -> Nat], Agree(t, g), NEW h \in [Devs -> Nat], Agree(t, h)
  PROVE  g = h
<1>1. ASSUME NEW d \in Devs PROVE g[d] = h[d]
  BY DEF Agree
<1>2. QED
  BY <1>1

(* The clusters of a grouping that spans E are the components of E.        *)
LEMMA SpanningMakesComponents ==
  ASSUME NEW t \in Tables, Sound(t), NEW E \in SUBSET Pairs, Spans(GroupingOf(t), E)
  PROVE  Blocks(t) = P!Components(E)
<1> DEFINE g == GroupingOf(t)
           Block(c) == {d \in Devs : g[d] = c}
<1>1. g \in [Devs -> Nat] /\ Agree(t, g)
  BY GroupingAgrees
<1>2. SoundBy(t.rows, t.seq, g) /\ Spans(g, E)
  BY <1>1, SoundByGrouping
<1>3. /\ \A m \in t.members : m[2] \in Devs /\ g[m[2]] = m[1] /\ m[1] # 0 /\ m = <<m[1], m[2]>>
      /\ \A d \in Devs : g[d] # 0 => <<g[d], d>> \in t.members
  BY <1>1, MembersAreGrouped
<1>4. t.rows \subseteq Nat \ {0} /\ UNION E \subseteq Devs
  BY DEF Tables, Pairs
<1> HIDE DEF g
<1>5. ASSUME NEW c \in t.rows PROVE {m[2] : m \in {n \in t.members : n[1] = c}} = Block(c)
  <2>1. ASSUME NEW d \in Block(c) PROVE d \in {m[2] : m \in {n \in t.members : n[1] = c}}
    <3>1. <<c, d>> \in t.members
      BY <1>3, <1>4, <2>1
    <3>2. <<c, d>>[1] = c /\ <<c, d>>[2] = d
      OBVIOUS
    <3>3. QED
      BY <3>1, <3>2
  <2>2. QED
    BY <1>3, <2>1
<1>6. ASSUME NEW d \in UNION E PROVE P!Component(E, d) = Block(g[d])
  <2>1. d \in Devs /\ g[d] # 0
    BY <1>2, <1>4 DEF Spans
  <2>2. ASSUME NEW x \in Block(g[d]), NEW S \in SUBSET Devs, d \in S, Uncrossed(S, E) PROVE x \in S
    BY <1>2, <2>1, <2>2 DEF Spans, Uncut
  <2>3. Uncut(Block(g[d]), g) /\ d \in Block(g[d]) /\ Block(g[d]) \in SUBSET Devs
    BY <2>1 DEF Uncut
  <2>4. Uncrossed(Block(g[d]), E)
    BY <1>2, <2>3 DEF Spans
  <2>5. P!Component(E, d) = {x \in Devs : \A S \in SUBSET Devs : d \in S /\ Uncrossed(S, E) => x \in S}
    BY DEF P!Component, Uncrossed
  <2>6. QED
    BY <2>2, <2>3, <2>4, <2>5
<1>7. Blocks(t) = {Block(c) : c \in t.rows}
  BY <1>5 DEF Blocks
<1>8. P!Components(E) = {Block(g[d]) : d \in UNION E}
  BY <1>6 DEF P!Components
<1>9. t.rows = {g[d] : d \in UNION E}
  <2>1. \A d \in UNION E : g[d] \in t.rows
    BY <1>2, <1>4 DEF Spans, SoundBy
  <2>2. \A c \in t.rows : \E d \in UNION E : g[d] = c
    <3> TAKE c \in t.rows
    <3>1. PICK d \in Devs : g[d] = c
      BY <1>2 DEF SoundBy
    <3>2. d \in UNION E
      BY <1>2, <1>4, <3>1 DEF Spans
    <3>3. QED
      BY <3>1, <3>2
  <2>3. QED
    BY <2>1, <2>2
<1> HIDE DEF Block
<1>10. QED
  BY <1>7, <1>8, <1>9

LEMMA InitEstablishesPInv == Init => PInv
<1> SUFFICES ASSUME Init PROVE PInv
  OBVIOUS
<1>1. GroupingOf(saved) = NotGrouped
  BY DEF Init, NoTables, GroupingOf, NotGrouped
<1>2. Spans(NotGrouped, {})
  BY DEF Spans, NotGrouped, Uncrossed, Uncut
<1>3. QED
  BY <1>1, <1>2, InitEstablishesIInv DEF Init, PInv

LEMMA NextKeepsPInv == PInv /\ [Next]_vars => PInv'
<1> SUFFICES ASSUME PInv, [Next]_vars PROVE PInv'
  OBVIOUS
<1>1. IInv /\ IInv'
  BY NextKeepsIInv DEF PInv
<1>2. /\ run \subseteq Pairs /\ todo \subseteq run /\ evidence \subseteq Pairs
      /\ saved \in Tables /\ Sound(saved) /\ work \in Tables /\ Sound(work)
      /\ grouping \in [Devs -> Nat] /\ grouping' \in [Devs -> Nat]
  BY <1>1 DEF IInv, TypeOK, ClustersAreSound
<1>3. ASSUME UNCHANGED <<applying, run, todo, grouping, saved, evidence>> PROVE PInv'
  BY <1>1, <1>3 DEF PInv
<1>4. ASSUME ~applying', saved' = saved, evidence' = evidence PROVE PInv'
  BY <1>1, <1>4 DEF PInv
<1>5. CASE OnClusterFinished
  <2>1. CASE worker.merges = {}
    BY <1>3, <1>5, <2>1 DEF OnClusterFinished, applyVars
  <2>2. CASE worker.merges # {}
    <3>1. /\ grouping' = GroupingOf(work) /\ work = saved
          /\ run' = todo' /\ saved' = saved /\ evidence' = evidence
      BY <1>1, <1>5, <2>2 DEF OnClusterFinished, IInv
    <3>2. evidence' \cup (run' \ todo') = evidence
      BY <3>1
    <3>3. QED
      BY <1>1, <3>1, <3>2 DEF PInv
  <2>3. QED
    BY <2>1, <2>2
<1>6. ASSUME NEW e \in Pairs, Touch(e) \/ MergeClusters(e) \/ AddMember(e) \/ CreateCluster(e)
      PROVE  PInv'
  <2>1. /\ applying /\ e \in todo /\ todo' = todo \ {e}
        /\ applying' = applying /\ run' = run /\ saved' = saved /\ evidence' = evidence
    BY <1>6 DEF Touch, MergeClusters, AddMember, CreateCluster, Decision
  <2> DEFINE done == evidence \cup (run \ todo)
  <2>2. done \in SUBSET Pairs /\ Spans(grouping, done)
    BY <1>2, <2>1 DEF PInv
  <2> HIDE DEF done
  <2>3. Spans(grouping', done \cup {e})
    BY <1>1, <1>2, <1>6, <2>2, LoopSpans
  <2>4. done \cup {e} = evidence' \cup (run' \ todo')
    BY <1>2, <2>1 DEF done
  <2>5. QED
    BY <1>1, <2>1, <2>3, <2>4 DEF PInv
<1>7. CASE Commit
  <2>1. applying /\ todo = {} /\ ~applying' /\ saved' = work /\ evidence' = evidence \cup run
    BY <1>7 DEF Commit, Leave
  <2>2. GroupingOf(work) \in [Devs -> Nat] /\ Agree(work, GroupingOf(work)) /\ Agree(work, grouping)
    BY <1>1, <1>2, <2>1, GroupingAgrees DEF IInv
  <2>3. GroupingOf(work) = grouping
    BY <1>2, <2>2, GroupingIsUnique
  <2>4. Spans(grouping, evidence \cup (run \ todo)) /\ evidence \cup (run \ todo) = evidence'
    BY <2>1 DEF PInv
  <2>5. QED
    BY <1>1, <2>1, <2>3, <2>4 DEF PInv
<1>8. CASE Rollback
  BY <1>4, <1>8 DEF Rollback, Leave
<1>9. CASE Restart
  BY <1>4, <1>9 DEF Restart, Leave
<1>10. ASSUME NEW d \in Devs, NEW c \in Classes \cup {NoClass}, Classify(d, c) PROVE PInv'
  BY <1>3, <1>10 DEF Classify, applyVars
<1>11. ASSUME NEW recent \in SUBSET Devs, RunClusterTick(recent) PROVE PInv'
  BY <1>3, <1>11 DEF RunClusterTick, applyVars
<1>12. ASSUME NEW merges \in SUBSET Pairs, RunOnce(merges) PROVE PInv'
  BY <1>3, <1>12 DEF RunOnce, applyVars
<1>13. CASE RunFails
  BY <1>3, <1>13 DEF RunFails, applyVars
<1>14. CASE OnClusterFailed
  BY <1>3, <1>14 DEF OnClusterFailed, applyVars
<1>15. CASE UNCHANGED vars
  BY <1>3, <1>15 DEF vars, applyVars
<1>16. QED
  BY <1>5, <1>6, <1>7, <1>8, <1>9, <1>10, <1>11, <1>12, <1>13, <1>14, <1>15 DEF Next

(* The refinement: the committed clusters of the code are the connected    *)
(* components of all decisions ever committed.  The order of decisions,    *)
(* how they fall into runs, rollbacks and restarts leave no trace in them  *)
(* (repos.py, apply_run).                                                  *)
THEOREM ClustersImplementPartition == Spec => ImplementsPartition
<1>1. PInv => saved \in Tables /\ Sound(saved) /\ evidence \in SUBSET Pairs
  BY DEF PInv, IInv, TypeOK, ClustersAreSound
<1>2. PInv => Blocks(saved) = P!Components(evidence)
  BY <1>1, SpanningMakesComponents DEF PInv
<1>3. Init => P!Init
  BY DEF Init, NoTables, Blocks, P!Init
<1>4. PInv /\ PInv' /\ [Next]_vars => [P!Next]_<<evidence, Blocks(saved)>>
  <2> SUFFICES ASSUME PInv, PInv', [Next]_vars
               PROVE  [P!Next]_<<evidence, Blocks(saved)>>
    OBVIOUS
  <2>1. CASE Commit
    <3>1. evidence' = evidence \cup run
      BY <2>1 DEF Commit
    <3>2. Blocks(saved') = P!Components(evidence')
      <4>1. /\ saved' \in Tables /\ Sound(saved') /\ evidence' \in SUBSET Pairs
            /\ Spans(GroupingOf(saved'), evidence')
        BY DEF PInv, IInv, TypeOK, ClustersAreSound
      <4>2. QED
        BY <4>1, SpanningMakesComponents
    <3>3. run \in SUBSET P!Pairs
      BY DEF PInv, IInv, TypeOK, Pairs, P!Pairs
    <3>4. QED
      BY <3>1, <3>2, <3>3 DEF P!Next, P!Decide
  <2>2. CASE ~Commit
    <3>1. saved' = saved /\ evidence' = evidence
      BY <2>2 DEF Next, vars, applyVars, Classify, RunClusterTick, RunOnce, RunFails, OnClusterFailed,
                  OnClusterFinished, Decision, Touch, MergeClusters, AddMember, CreateCluster,
                  Rollback, Restart
    <3>2. QED
      BY <3>1 DEF Blocks
  <2>3. QED
    BY <2>1, <2>2
<1>5. Spec => []PInv
  BY InitEstablishesPInv, NextKeepsPInv, PTL DEF Spec
<1>6. QED
  BY <1>3, <1>4, <1>5, PTL DEF Spec, ImplementsPartition, P!Spec
=============================================================================
