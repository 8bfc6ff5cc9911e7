------------------------ MODULE SnifferRegistryProofs -----------------------
(***************************************************************************)
(* The sniffers table and the panel, for any units, any number of ports    *)
(* and whatever raises.                                                    *)
(***************************************************************************)
EXTENDS SnifferRegistry, WellFoundedInduction, NaturalsInduction, TLAPS

(* A port or serial number that the discovery thread may rely on is on the *)
(* bus, and once it has looked, in what it hands over.                     *)
OnBus == KeysOf(Enumerate)
WorkerHasSeen ==
  /\ Keys \ absent \subseteq OnBus
  /\ worker.pc = "slow" /\ worker.ok => Keys \ absent \subseteq worker.fast
  /\ worker.pc = "sent" /\ worker.ok => Keys \ absent \subseteq worker.records

(* CapturingIsShownActive speaks of the panel.  What a step preserves is   *)
(* that the table has the session's dongles as present: nothing but a      *)
(* click on the X of an inactive row could hide one, and PanelShowsTheTable*)
(* says that no dongle's row is inactive.                                  *)
CapturingIsInTheTable ==
  session /\ ~late /\ ~raised =>
    \A d \in dongles : table[d.key].known /\ table[d.key].active /\ ~table[d.key].removed

IInv == TypeOK /\ WorkerHasSeen /\ PanelShowsTheTable /\ CapturingIsInTheTable

-----------------------------------------------------------------------------
(* Lemmas about the operators.                                             *)

(* A set of ports that is not empty has a lowest one.                      *)
LEMMA LowestPort == ASSUME NEW S \in SUBSET Ports, S # {} PROVE Min(S) \in Ports
<1> DEFINE R == OpToRel(<, Nat)
<1>1. IsWellFoundedOn(R, Nat)
  BY NatLessThanWellFounded
<1>2. R = {p \in Nat \X Nat : p[1] < p[2]}
  BY DEF OpToRel
<1>3. NumPorts \in Nat
  BY RegistryAssumption
<1>4. S \subseteq Nat
  BY <1>3 DEF Ports
<1> HIDE DEF R
<1>5. PICK p \in S : \A q \in S : <<q, p>> \notin R
  BY <1>1, <1>4, WFMin
<1>6. ASSUME NEW q \in S PROVE p =< q
  <2>1. p \in Nat /\ q \in Nat /\ <<q, p>> \notin R
    BY <1>4, <1>5
  <2>2. ~(q < p)
    BY <1>2, <2>1
  <2>3. QED
    BY <2>1, <2>2
<1>7. \E x \in S : \A y \in S : x =< y
  BY <1>6
<1>8. QED
  BY <1>7 DEF Min

LEMMA UnitsAre ==
  /\ NoUnit \notin Serialled \cup Plain \cup Others
  /\ Serialled \subseteq Units /\ Plain \subseteq Units
  /\ Serialled \subseteq Keys /\ Ports \subseteq Keys
BY RegistryAssumption DEF Units, Keys

(* A unit with a serial number is known by it wherever it is, a unit       *)
(* without by its port.                                                    *)
BusShows == OnBus = {u \in Serialled : PortsOf(u) # {}} \cup {p \in Ports : bus[p] \in Plain}

LEMMA EnumerateIs == BusShows /\ OnBus \subseteq Keys /\ Enumerate \subseteq [key : Keys, port : Ports]
<1>1. \A u : PortsOf(u) \subseteq Ports
  BY DEF PortsOf
<1>2. \A u \in Serialled : PortsOf(u) # {} => Min(PortsOf(u)) \in Ports
  BY <1>1, LowestPort
<1> HIDE DEF Min
<1>3. Enumerate \subseteq [key : Keys, port : Ports]
  BY <1>2, UnitsAre DEF Enumerate
<1>4. BusShows
  <2>1. \A k : k \in OnBus <=> \E d \in Enumerate : d.key = k
    BY DEF OnBus, KeysOf
  <2> DEFINE A == {u \in Serialled : PortsOf(u) # {}}
             B == {p \in Ports : bus[p] \in Plain}
  <2>2. Enumerate = {[key |-> u, port |-> Min(PortsOf(u))] : u \in A}
                      \cup {[key |-> p, port |-> p] : p \in B}
    BY DEF Enumerate
  <2> HIDE DEF A, B
  <2>3. \A d \in Enumerate : d.key \in A \cup B
    BY <2>2
  <2>4. ASSUME NEW k \in A PROVE \E d \in Enumerate : d.key = k
    <3>1. [key |-> k, port |-> Min(PortsOf(k))] \in Enumerate
      BY <2>2
    <3>2. [key |-> k, port |-> Min(PortsOf(k))].key = k
      OBVIOUS
    <3>3. QED
      BY <3>1, <3>2
  <2>5. ASSUME NEW k \in B PROVE \E d \in Enumerate : d.key = k
    <3>1. [key |-> k, port |-> k] \in Enumerate
      BY <2>2
    <3>2. [key |-> k, port |-> k].key = k
      OBVIOUS
    <3>3. QED
      BY <3>1, <3>2
  <2>6. OnBus = A \cup B
    BY <2>1, <2>3, <2>4, <2>5
  <2>7. QED
    BY <2>6 DEF A, B, BusShows
<1>5. QED
  BY <1>3, <1>4, UnitsAre DEF BusShows

LEMMA BusShowsNext == BusShows'
BY EnumerateIs, PTL

(* What a sweep leaves: rows that have kept their flags, rows that were    *)
(* deactivated, rows upserted.                                             *)
LEMMA UpsertIs ==
  ASSUME NEW row \in Rows
  PROVE  /\ Upsert(row) \in Rows
         /\ Upsert(row).known /\ Upsert(row).active /\ ~Upsert(row).removed
<1>1. 0 \in 0..(MaxStalls + 1)
  BY RegistryAssumption
<1>2. NoRow \in Rows /\ ~NoRow.removed
  BY <1>1 DEF Rows, NoRow
<1>3. NewRow \in Rows /\ NewRow.known /\ NewRow.active /\ ~NewRow.removed
  BY <1>2 DEF Rows, NewRow
<1>4. CASE row.known
  <2>1. Upsert(row) = [row EXCEPT !.active = TRUE, !.removed = FALSE]
    BY <1>4 DEF Upsert
  <2>2. QED
    BY <2>1, <1>4 DEF Rows
<1>5. CASE ~row.known
  BY <1>3, <1>5 DEF Upsert
<1>6. QED
  BY <1>4, <1>5

LEMMA RecordedIs ==
  ASSUME TypeOK, NEW seen \in SUBSET Keys, NEW done \in SUBSET Keys
  PROVE  /\ Recorded(seen, done) \in [Keys -> Rows]
         /\ \A k \in done : Recorded(seen, done)[k] = Upsert(table[k])
         /\ \A k \in seen \ done : Recorded(seen, done)[k] = table[k]
<1>1. table \in [Keys -> Rows]
  BY DEF TypeOK
<1>2. \A k \in Keys : Upsert(table[k]) \in Rows /\ [table[k] EXCEPT !.active = FALSE] \in Rows
  <2> SUFFICES ASSUME NEW k \in Keys
               PROVE  Upsert(table[k]) \in Rows /\ [table[k] EXCEPT !.active = FALSE] \in Rows
    OBVIOUS
  <2>1. table[k] \in Rows
    BY <1>1
  <2>2. [table[k] EXCEPT !.active = FALSE] \in Rows
    BY <2>1 DEF Rows
  <2>3. QED
    BY <2>1, <2>2, UpsertIs
<1>3. QED
  BY <1>1, <1>2 DEF Recorded

(* A sweep that raised or not: rows it should see do not lose `active`,    *)
(* and if it did not raise, all of them are there.                         *)
LEMMA SweepsAre ==
  ASSUME TypeOK, NEW seen \in SUBSET Keys, NEW sweep \in Sweeps(seen)
  PROVE  /\ sweep.table \in [Keys -> Rows] /\ sweep.ok \in BOOLEAN
         /\ \A k \in seen : table[k].active => sweep.table[k].active
         /\ sweep.ok => \A k \in seen : /\ sweep.table[k].known
                                        /\ sweep.table[k].active
                                        /\ ~sweep.table[k].removed
<1>1. table \in [Keys -> Rows]
  BY DEF TypeOK
<1>2. \A k \in Keys : /\ Upsert(table[k]).known /\ Upsert(table[k]).active
                      /\ ~Upsert(table[k]).removed
  BY <1>1, UpsertIs
<1>3. CASE sweep = [table |-> Recorded(seen, seen), ok |-> TRUE]
  <2>1. sweep.table = Recorded(seen, seen) /\ sweep.ok = TRUE
    BY <1>3
  <2>2. Recorded(seen, seen) \in [Keys -> Rows]
        /\ \A k \in seen : Recorded(seen, seen)[k] = Upsert(table[k])
    BY RecordedIs
  <2>3. QED
    BY <2>1, <2>2, <1>2
<1>4. CASE sweep = [table |-> table, ok |-> FALSE]
  <2>1. sweep.table = table /\ sweep.ok = FALSE
    BY <1>4
  <2>2. QED
    BY <2>1, <1>1
<1>5. ASSUME NEW done \in SUBSET seen, sweep = [table |-> Recorded(seen, done), ok |-> FALSE]
      PROVE  /\ sweep.table \in [Keys -> Rows] /\ sweep.ok = FALSE
             /\ \A k \in seen : table[k].active => sweep.table[k].active
  <2>1. sweep.table = Recorded(seen, done) /\ sweep.ok = FALSE
    BY <1>5
  <2>2. done \in SUBSET Keys
    OBVIOUS
  <2>3. \A k \in seen : k \in done \/ k \in seen \ done
    OBVIOUS
  <2>4. QED
    BY <2>1, <2>2, <2>3, <1>2, RecordedIs
<1>6. \/ sweep = [table |-> Recorded(seen, seen), ok |-> TRUE]
      \/ sweep = [table |-> table, ok |-> FALSE]
      \/ \E done \in SUBSET seen : sweep = [table |-> Recorded(seen, done), ok |-> FALSE]
  BY DEF Sweeps
<1>7. QED
  BY <1>3, <1>4, <1>5, <1>6

(* The panel's rows are rows of the table.                                 *)
LEMMA VisibleIs ==
  ASSUME NEW t \in [Keys -> Rows]
  PROVE  /\ DOMAIN Visible(t) = {k \in Keys : t[k].known /\ ~t[k].removed}
         /\ DOMAIN Visible(t) \subseteq Keys /\ Visible(t) \in [DOMAIN Visible(t) -> Rows]
         /\ \A k \in DOMAIN Visible(t) : Visible(t)[k] = t[k]
<1> DEFINE D == {k \in Keys : t[k].known /\ ~t[k].removed}
<1>1. Visible(t) = [k \in D |-> t[k]]
  BY DEF Visible
<1>2. D \subseteq Keys
  OBVIOUS
<1> HIDE DEF D
<1>3. DOMAIN Visible(t) = D /\ \A k \in D : Visible(t)[k] = t[k] /\ t[k] \in Rows
  BY <1>1, <1>2
<1>4. Visible(t) \in [D -> Rows]
  BY <1>1, <1>3
<1>5. QED
  BY <1>2, <1>3, <1>4 DEF D

(* Two tables whose rows agree in everything but stalls show the same.     *)
SameFlags(s, t) ==
  \A k \in Keys : s[k].known = t[k].known /\ s[k].removed = t[k].removed /\ s[k].active = t[k].active

LEMMA SameVisible ==
  ASSUME NEW s \in [Keys -> Rows], NEW t \in [Keys -> Rows], SameFlags(s, t)
  PROVE  /\ DOMAIN Visible(s) = DOMAIN Visible(t)
         /\ \A k \in DOMAIN Visible(s) : Visible(s)[k].active = Visible(t)[k].active
<1>1. {k \in Keys : s[k].known /\ ~s[k].removed} = {k \in Keys : t[k].known /\ ~t[k].removed}
  BY DEF SameFlags
<1>2. QED
  BY <1>1, VisibleIs DEF SameFlags

-----------------------------------------------------------------------------
(* Type correctness.                                                       *)
PanelRows == UNION {[K -> Rows] : K \in SUBSET Keys}

LEMMA PanelRowsAre ==
  ASSUME NEW r
  PROVE  r \in PanelRows <=> DOMAIN r \subseteq Keys /\ r \in [DOMAIN r -> Rows]
BY DEF PanelRows

LEMMA VisibleType == ASSUME NEW t \in [Keys -> Rows] PROVE Visible(t) \in PanelRows
BY VisibleIs, PanelRowsAre

(* The parts of TypeOK, so that a step proves those it disturbs.           *)
BusTyped == bus \in [Ports -> Units \cup {NoUnit}] /\ plugs \in 0..MaxPlugs
WorkerTyped ==
  worker \in [pc : {"fast", "slow", "sent", "done"}, fast : SUBSET Keys, ok : BOOLEAN, records : SUBSET Keys]
MainTyped ==
  main \in {"idle", "starting"} /\ session \in BOOLEAN /\ dongles \subseteq [key : Keys, port : Ports]
PanelTyped ==
  panel \in [rows : PanelRows, anchored : BOOLEAN, unreachable : SUBSET Keys,
             dots : BOOLEAN, tags : BOOLEAN, animated : BOOLEAN]
HistoryTyped == absent \subseteq Keys \cup Units /\ late \in BOOLEAN /\ raised \in BOOLEAN
Typed ==
  BusTyped /\ table \in [Keys -> Rows] /\ WorkerTyped /\ MainTyped /\ PanelTyped /\ HistoryTyped

LEMMA TypedIs == TypeOK <=> Typed
<1>1. panel.rows \in PanelRows <=> DOMAIN panel.rows \subseteq Keys /\ panel.rows \in [DOMAIN panel.rows -> Rows]
  BY PanelRowsAre
<1>2. PanelTyped <=> /\ panel.rows \in PanelRows
                     /\ panel \in [rows : {panel.rows}, anchored : BOOLEAN, unreachable : SUBSET Keys,
                                  dots : BOOLEAN, tags : BOOLEAN, animated : BOOLEAN]
  BY DEF PanelTyped
<1>3. QED
  BY <1>1, <1>2 DEF TypeOK, Typed, BusTyped, WorkerTyped, MainTyped, HistoryTyped

LEMMA TypedNextIs == TypeOK' <=> Typed'
BY TypedIs, PTL

LEMMA InitTypes == Init => TypeOK
<1> SUFFICES ASSUME Init PROVE TypeOK
  OBVIOUS
<1>1. 0 \in 0..(MaxStalls + 1) /\ 1 \in 0..(MaxStalls + 1) /\ 0 \in 0..MaxPlugs
  BY RegistryAssumption
<1>2. NoRow \in Rows
  BY <1>1 DEF NoRow, Rows
<1>3. NewRow \in Rows
  BY <1>2 DEF NewRow, Rows
<1>4. [NewRow EXCEPT !.active = FALSE, !.removed = TRUE, !.stalls = 1, !.last = "before"] \in Rows
  BY <1>1, <1>3 DEF Rows
<1>5. table \in [Keys -> Rows]
  BY <1>2, <1>3, <1>4 DEF Init
<1>6. panel \in [rows : PanelRows, anchored : BOOLEAN, unreachable : SUBSET Keys,
                dots : BOOLEAN, tags : BOOLEAN, animated : BOOLEAN]
  BY <1>5, VisibleType DEF Init
<1>7. QED
  BY <1>1, <1>5, <1>6, TypedIs DEF Init, Typed, BusTyped, WorkerTyped, MainTyped, PanelTyped, HistoryTyped

(* The session starts: what its sweep has done to the table and the panel. *)
LEMMA StartSweepIs ==
  ASSUME TypeOK, PanelTyped, NEW ok \in BOOLEAN, StartSweep(ok)
  PROVE  /\ table' \in [Keys -> Rows] /\ PanelTyped' /\ raised' \in BOOLEAN
         /\ raised => raised'
         /\ ~raised' =>
              /\ panel'.rows = Visible(table')
              /\ \A k \in KeysOf(dongles) : table'[k].known /\ table'[k].active /\ ~table'[k].removed
         /\ panel'.dots = panel.dots /\ panel'.tags = panel.tags /\ panel'.animated = panel.animated
<1> DEFINE seen == KeysOf(dongles) \cup KeysOf(Enumerate)
           After(t) == [k \in Keys |-> IF t[k].last = "now" THEN [t[k] EXCEPT !.last = "before"] ELSE t[k]]
           Dimmed(rows) == [k \in DOMAIN rows |-> IF rows[k].last = "now"
                                                  THEN [rows[k] EXCEPT !.last = "before"] ELSE rows[k]]
<1>1. seen \in SUBSET Keys /\ KeysOf(dongles) \subseteq seen
  <2>1. KeysOf(Enumerate) \subseteq Keys
    BY EnumerateIs DEF OnBus
  <2>2. KeysOf(dongles) \subseteq Keys
    BY DEF TypeOK, KeysOf
  <2>3. QED
    BY <2>1, <2>2
<1>2. PICK sweep \in IF ok THEN Sweeps(seen) ELSE {[table |-> table, ok |-> FALSE]} :
        /\ table' = After(sweep.table)
        /\ panel' = [panel EXCEPT !.rows = IF sweep.ok THEN Visible(After(sweep.table)) ELSE Dimmed(panel.rows),
                                  !.unreachable = DOMAIN Visible(After(sweep.table)) \ KeysOf(dongles),
                                  !.anchored = TRUE]
        /\ raised' = (raised \/ ~sweep.ok)
  BY DEF StartSweep
<1>3. /\ sweep.table \in [Keys -> Rows] /\ sweep.ok \in BOOLEAN
      /\ sweep.ok => \A k \in seen : /\ sweep.table[k].known /\ sweep.table[k].active
                                     /\ ~sweep.table[k].removed
  <2>1. CASE ok
    BY <1>1, <1>2, <2>1, SweepsAre
  <2>2. CASE ~ok
    <3>1. sweep = [table |-> table, ok |-> FALSE]
      BY <1>2, <2>2
    <3>2. sweep.table = table /\ sweep.ok = FALSE
      BY <3>1
    <3>3. QED
      BY <3>2 DEF TypeOK
  <2>3. QED
    BY <2>1, <2>2
<1>4. ASSUME NEW row \in Rows
      PROVE  /\ [row EXCEPT !.last = "before"] \in Rows
             /\ [row EXCEPT !.last = "before"].known = row.known
             /\ [row EXCEPT !.last = "before"].active = row.active
             /\ [row EXCEPT !.last = "before"].removed = row.removed
  BY DEF Rows
<1>5. /\ After(sweep.table) \in [Keys -> Rows]
      /\ \A k \in Keys : /\ After(sweep.table)[k].known = sweep.table[k].known
                         /\ After(sweep.table)[k].active = sweep.table[k].active
                         /\ After(sweep.table)[k].removed = sweep.table[k].removed
  <2>1. \A k \in Keys : sweep.table[k] \in Rows
    BY <1>3
  <2> HIDE DEF Rows
  <2>2. QED
    BY <1>4, <2>1
<1>6. Dimmed(panel.rows) \in PanelRows
  <2>1. panel.rows \in PanelRows
    BY DEF PanelTyped
  <2>2. DOMAIN panel.rows \subseteq Keys /\ panel.rows \in [DOMAIN panel.rows -> Rows]
    BY <2>1, PanelRowsAre
  <2>3. DOMAIN Dimmed(panel.rows) = DOMAIN panel.rows
    OBVIOUS
  <2>4. Dimmed(panel.rows) \in [DOMAIN panel.rows -> Rows]
    BY <1>4, <2>2
  <2>5. QED
    BY <2>2, <2>3, <2>4, PanelRowsAre
<1> HIDE DEF After, Dimmed, seen
<1>7. Visible(After(sweep.table)) \in PanelRows /\ DOMAIN Visible(After(sweep.table)) \subseteq Keys
  BY <1>5, VisibleType, VisibleIs
<1>8. PanelTyped' /\ panel'.dots = panel.dots /\ panel'.tags = panel.tags
      /\ panel'.animated = panel.animated
  BY <1>2, <1>6, <1>7 DEF PanelTyped
<1>9. sweep.ok => panel'.rows = Visible(table')
  BY <1>2 DEF PanelTyped
<1>10. raised \in BOOLEAN
  BY DEF TypeOK
<1>11. ASSUME sweep.ok, NEW k \in KeysOf(dongles)
       PROVE  table'[k].known /\ table'[k].active /\ ~table'[k].removed
  BY <1>1, <1>2, <1>3, <1>5, <1>11
<1>12. QED
  BY <1>2, <1>3, <1>5, <1>8, <1>9, <1>10, <1>11

(* A stall changes what is counted, not what is shown as there.            *)
LEMMA StallIs ==
  ASSUME TypeOK, NEW d, d.key \in Keys, Stall(d)
  PROVE  table' \in [Keys -> Rows] /\ SameFlags(table', table)
<1>1. /\ table \in [Keys -> Rows] /\ table[d.key].stalls < MaxStalls
      /\ table' = [table EXCEPT ![d.key].stalls = @ + 1, ![d.key].last = "now"]
  BY DEF Stall, TypeOK
<1>2. table[d.key] \in Rows /\ table[d.key].stalls \in 0..(MaxStalls + 1)
  BY <1>1 DEF Rows
<1>3. table[d.key].stalls + 1 \in 0..(MaxStalls + 1)
  BY <1>1, <1>2, RegistryAssumption
<1> DEFINE new == [table[d.key] EXCEPT !.stalls = @ + 1, !.last = "now"]
<1>4. /\ new \in Rows
      /\ new.known = table[d.key].known /\ new.removed = table[d.key].removed
      /\ new.active = table[d.key].active
  BY <1>2, <1>3 DEF Rows
<1>5. table' = [table EXCEPT ![d.key] = new]
  BY <1>1
<1> HIDE DEF new
<1>6. QED
  BY <1>1, <1>4, <1>5 DEF SameFlags

LEMMA NextTyped == TypeOK /\ [Next]_vars => Typed'
<1> SUFFICES ASSUME TypeOK, [Next]_vars PROVE Typed'
  OBVIOUS
<1> USE DEF busVars, historyVars
<1>1. Typed
  BY TypedIs
<1>2. BusTyped /\ table \in [Keys -> Rows] /\ WorkerTyped /\ MainTyped /\ PanelTyped /\ HistoryTyped
  BY <1>1 DEF Typed
<1>3. OnBus \subseteq Keys /\ KeysOf(Enumerate) = OnBus /\ Enumerate \subseteq [key : Keys, port : Ports]
  BY EnumerateIs DEF OnBus
<1>4. KeysOf(dongles) \subseteq Keys
  BY <1>2 DEF KeysOf, MainTyped
<1>5. ASSUME NEW u \in Units, NEW ports \in SUBSET Ports, Plug(u, ports) PROVE Typed'
  <2>1. plugs' = plugs + 1 /\ plugs < MaxPlugs
        /\ bus' = [p \in Ports |-> IF p \in ports THEN u ELSE bus[p]]
        /\ UNCHANGED <<table, worker, main, session, dongles, panel, absent, late, raised>>
    BY <1>5 DEF Plug
  <2>2. plugs' \in 0..MaxPlugs
    BY <1>2, <2>1, RegistryAssumption DEF BusTyped
  <2>3. bus' \in [Ports -> Units \cup {NoUnit}]
    BY <1>2, <2>1 DEF BusTyped
  <2>4. QED
    BY <1>2, <2>1, <2>2, <2>3 DEF Typed, BusTyped, WorkerTyped, MainTyped, PanelTyped, HistoryTyped
<1>6. ASSUME NEW u \in Units, Unplug(u) PROVE Typed'
  <2>1. plugs' = plugs + 1 /\ plugs < MaxPlugs
        /\ bus' = [p \in Ports |-> IF bus[p] = u THEN NoUnit ELSE bus[p]]
        /\ absent' = absent \cup {u} \cup PortsOf(u)
        /\ UNCHANGED <<table, worker, main, session, dongles, panel, late, raised>>
    BY <1>6 DEF Unplug
  <2>2. plugs' \in 0..MaxPlugs
    BY <1>2, <2>1, RegistryAssumption DEF BusTyped
  <2>3. bus' \in [Ports -> Units \cup {NoUnit}]
    BY <1>2, <2>1 DEF BusTyped
  <2>4. absent' \subseteq Keys \cup Units
    BY <1>2, <2>1 DEF HistoryTyped, PortsOf, Keys
  <2>5. QED
    BY <1>2, <2>1, <2>2, <2>3, <2>4 DEF Typed, BusTyped, WorkerTyped, MainTyped, PanelTyped, HistoryTyped
<1>7. ASSUME NEW ok \in BOOLEAN, ProbeFast(ok) \/ ProbeSlow(ok) PROVE Typed'
  <2>1. WorkerTyped' /\ absent' \subseteq Keys \cup Units
    BY <1>2, <1>3, <1>7 DEF ProbeFast, ProbeSlow, WorkerTyped, HistoryTyped
  <2>2. UNCHANGED <<bus, plugs, table, main, session, dongles, panel, late, raised>>
    BY <1>7 DEF ProbeFast, ProbeSlow
  <2>3. QED
    BY <1>2, <2>1, <2>2 DEF Typed, BusTyped, MainTyped, PanelTyped, HistoryTyped
<1>8. ASSUME TakeResult PROVE Typed'
  <2>1. worker' = [worker EXCEPT !.pc = "done", !.fast = {}, !.records = {}]
        /\ UNCHANGED <<bus, plugs, absent, main, session, dongles>>
    BY <1>8 DEF TakeResult
  <2>2. WorkerTyped'
    BY <1>2, <2>1 DEF WorkerTyped
  <2>3. table' \in [Keys -> Rows] /\ PanelTyped' /\ late' \in BOOLEAN /\ raised' \in BOOLEAN
    <3>1. CASE worker.ok
      <4>1. PICK sweep \in Sweeps(worker.records) :
              /\ table' = sweep.table
              /\ panel' = [panel EXCEPT !.rows = Visible(sweep.table),
                                        !.unreachable = DOMAIN Visible(sweep.table) \ worker.records]
              /\ raised' = (raised \/ ~sweep.ok)
              /\ late' = session
        BY <1>8, <3>1 DEF TakeResult
      <4>2. worker.records \in SUBSET Keys
        BY <1>2 DEF WorkerTyped
      <4>3. sweep.table \in [Keys -> Rows]
        BY <4>1, <4>2, SweepsAre
      <4>4. Visible(sweep.table) \in PanelRows /\ DOMAIN Visible(sweep.table) \subseteq Keys
        BY <4>3, VisibleType, VisibleIs
      <4>5. PanelTyped'
        BY <1>2, <4>1, <4>4 DEF PanelTyped
      <4>6. QED
        BY <1>2, <4>1, <4>3, <4>5 DEF MainTyped
    <3>2. CASE ~worker.ok
      <4>1. panel' = [panel EXCEPT !.rows = Visible(table)] /\ UNCHANGED <<table, raised, late>>
        BY <1>8, <3>2 DEF TakeResult
      <4>2. Visible(table) \in PanelRows
        BY <1>2, VisibleType
      <4>3. PanelTyped'
        BY <1>2, <4>1, <4>2 DEF PanelTyped
      <4>4. QED
        BY <1>2, <4>1, <4>3 DEF HistoryTyped
    <3>3. QED
      BY <3>1, <3>2
  <2>4. QED
    BY <1>2, <2>1, <2>2, <2>3 DEF Typed, BusTyped, MainTyped, HistoryTyped
<1>9. ASSUME NEW ok \in BOOLEAN, StartProbe(ok) PROVE Typed'
  <2>1. UNCHANGED <<bus, plugs, absent, worker, session, late>>
    BY <1>9 DEF StartProbe
  <2>2. CASE ok /\ Enumerate = {}
    <3>1. PICK sweep \in Sweeps({}) :
            /\ table' = sweep.table
            /\ panel' = IF sweep.ok THEN [panel EXCEPT !.rows = Visible(sweep.table)] ELSE panel
            /\ raised' = (raised \/ ~sweep.ok)
      BY <1>9, <2>2 DEF StartProbe
    <3>2. UNCHANGED <<main, dongles>>
      BY <1>9, <2>2 DEF StartProbe
    <3>3. sweep.table \in [Keys -> Rows]
      BY <3>1, SweepsAre
    <3>4. Visible(sweep.table) \in PanelRows
      BY <3>3, VisibleType
    <3>5. PanelTyped'
      BY <1>2, <3>1, <3>4 DEF PanelTyped
    <3>6. QED
      BY <1>2, <2>1, <3>1, <3>2, <3>3, <3>5 DEF Typed, BusTyped, WorkerTyped, MainTyped, HistoryTyped
  <2>3. CASE ~(ok /\ Enumerate = {})
    <3>1. /\ main' = IF ok THEN "starting" ELSE "idle"
          /\ dongles' = IF ok THEN Enumerate ELSE {}
          /\ UNCHANGED <<table, panel, raised>>
      BY <1>9, <2>3 DEF StartProbe
    <3>2. MainTyped'
      BY <1>2, <1>3, <2>1, <3>1 DEF MainTyped
    <3>3. QED
      BY <1>2, <2>1, <3>1, <3>2 DEF Typed, BusTyped, WorkerTyped, PanelTyped, HistoryTyped
  <2>4. QED
    BY <2>2, <2>3
<1>10. ASSUME NEW ok \in BOOLEAN, StartSweep(ok) PROVE Typed'
  <2>1. main' = "idle" /\ session' = TRUE /\ late' = FALSE
        /\ UNCHANGED <<bus, plugs, absent, worker, dongles>>
    BY <1>10 DEF StartSweep
  <2>2. table' \in [Keys -> Rows] /\ PanelTyped' /\ raised' \in BOOLEAN
    BY <1>2, <1>3, <1>4, <1>10, StartSweepIs DEF PanelTyped, HistoryTyped
  <2>3. QED
    BY <1>2, <2>1, <2>2 DEF Typed, BusTyped, WorkerTyped, MainTyped, HistoryTyped
<1>11. ASSUME StopLive PROVE Typed'
  <2>1. /\ session' = FALSE /\ dongles' = {} /\ late' = FALSE
        /\ panel' = [panel EXCEPT !.unreachable = {}]
        /\ UNCHANGED <<bus, plugs, absent, table, worker, main, raised>>
    BY <1>11 DEF StopLive
  <2>2. PanelTyped'
    BY <1>2, <2>1 DEF PanelTyped
  <2>3. QED
    BY <1>2, <2>1, <2>2 DEF Typed, BusTyped, WorkerTyped, MainTyped, HistoryTyped
<1>12. ASSUME NEW d \in dongles, Stall(d) PROVE Typed'
  <2>1. table' \in [Keys -> Rows]
    BY <1>2, <1>12, StallIs DEF MainTyped
  <2>2. UNCHANGED <<bus, plugs, absent, worker, main, session, dongles, panel, late, raised>>
    BY <1>12 DEF Stall
  <2>3. QED
    BY <1>2, <2>1, <2>2 DEF Typed, BusTyped, WorkerTyped, MainTyped, PanelTyped, HistoryTyped
<1>13. ASSUME NEW k \in Keys, Hide(k) PROVE Typed'
  <2>1. table' \in [Keys -> Rows]
    BY <1>2, <1>13 DEF Hide, Rows
  <2>2. /\ panel' = [panel EXCEPT !.rows = Visible(table')]
        /\ UNCHANGED <<bus, plugs, absent, worker, main, session, dongles, late, raised>>
    BY <1>13 DEF Hide
  <2>3. Visible(table') \in PanelRows
    BY <2>1, VisibleType
  <2>4. PanelTyped'
    BY <1>2, <2>2, <2>3 DEF PanelTyped
  <2>5. QED
    BY <1>2, <2>1, <2>2, <2>4 DEF Typed, BusTyped, WorkerTyped, MainTyped, HistoryTyped
<1>14. ASSUME NEW tagged \in BOOLEAN, Packet(tagged) PROVE Typed'
  <2>1. panel' = [panel EXCEPT !.dots = TRUE, !.tags = @ \/ tagged, !.animated = TRUE]
        /\ UNCHANGED <<bus, plugs, absent, table, worker, main, session, dongles, late, raised>>
    BY <1>14 DEF Packet
  <2>2. PanelTyped'
    BY <1>2, <2>1 DEF PanelTyped
  <2>3. QED
    BY <1>2, <2>1, <2>2 DEF Typed, BusTyped, WorkerTyped, MainTyped, HistoryTyped
<1>15. ASSUME NEW dots \in BOOLEAN, NEW tags \in BOOLEAN, Animate(dots, tags) PROVE Typed'
  <2>1. panel' = [panel EXCEPT !.dots = dots, !.tags = tags, !.animated = dots \/ tags]
        /\ UNCHANGED <<bus, plugs, absent, table, worker, main, session, dongles, late, raised>>
    BY <1>15 DEF Animate
  <2>2. PanelTyped'
    BY <1>2, <2>1 DEF PanelTyped
  <2>3. QED
    BY <1>2, <2>1, <2>2 DEF Typed, BusTyped, WorkerTyped, MainTyped, HistoryTyped
<1>16. ASSUME UNCHANGED vars PROVE Typed'
  BY <1>2, <1>16 DEF vars, Typed, BusTyped, WorkerTyped, MainTyped, PanelTyped, HistoryTyped
<1>17. QED
  BY <1>5, <1>6, <1>7, <1>8, <1>9, <1>10, <1>11, <1>12, <1>13, <1>14, <1>15, <1>16 DEF Next

LEMMA NextTypes == TypeOK /\ [Next]_vars => TypeOK'
BY NextTyped, TypedNextIs

-----------------------------------------------------------------------------
(* What the discovery thread knows.                                        *)
LEMMA PlugKeepsOnBus ==
  ASSUME TypeOK, TypeOK', NEW u \in Units, NEW ports \in SUBSET Ports, Plug(u, ports)
  PROVE  OnBus \subseteq OnBus'
<1>1. /\ bus \in [Ports -> Units \cup {NoUnit}]
      /\ \A p \in ports : bus[p] = NoUnit
      /\ \A p \in Ports : p \notin ports => bus'[p] = bus[p]
  BY DEF Plug, TypeOK
<1>2. BusShows /\ BusShows'
  BY EnumerateIs, BusShowsNext
<1>3. /\ OnBus = {x \in Serialled : PortsOf(x) # {}} \cup {p \in Ports : bus[p] \in Plain}
      /\ OnBus' = {x \in Serialled : PortsOf(x)' # {}} \cup {p \in Ports : bus'[p] \in Plain}
  BY <1>2 DEF BusShows
<1>4. \A x \in Serialled : PortsOf(x) # {} => PortsOf(x)' # {}
  BY <1>1, UnitsAre DEF PortsOf
<1>5. \A p \in Ports : bus[p] \in Plain => bus'[p] \in Plain
  BY <1>1, UnitsAre
<1>6. QED
  BY <1>3, <1>4, <1>5

LEMMA UnplugKeepsOnBus ==
  ASSUME TypeOK, TypeOK', NEW u \in Units, Unplug(u)
  PROVE  OnBus \ ({u} \cup PortsOf(u)) \subseteq OnBus'
<1>1. /\ bus \in [Ports -> Units \cup {NoUnit}]
      /\ \A p \in Ports : bus[p] # u => bus'[p] = bus[p]
  BY DEF Unplug, TypeOK
<1>2. BusShows /\ BusShows'
  BY EnumerateIs, BusShowsNext
<1>3. /\ OnBus = {x \in Serialled : PortsOf(x) # {}} \cup {p \in Ports : bus[p] \in Plain}
      /\ OnBus' = {x \in Serialled : PortsOf(x)' # {}} \cup {p \in Ports : bus'[p] \in Plain}
  BY <1>2 DEF BusShows
<1>4. \A x \in Serialled \ {u} : PortsOf(x) # {} => PortsOf(x)' # {}
  BY <1>1 DEF PortsOf
<1>5. \A p \in Ports \ PortsOf(u) : bus[p] \in Plain => bus'[p] \in Plain
  BY <1>1 DEF PortsOf
<1>6. QED
  BY <1>3, <1>4, <1>5

LEMMA NextSeen == TypeOK /\ TypeOK' /\ WorkerHasSeen /\ [Next]_vars => WorkerHasSeen'
<1> SUFFICES ASSUME TypeOK, TypeOK', WorkerHasSeen, [Next]_vars PROVE WorkerHasSeen'
  OBVIOUS
<1> USE DEF busVars, historyVars
<1>1. /\ Keys \ absent \subseteq OnBus
      /\ worker.pc = "slow" /\ worker.ok => Keys \ absent \subseteq worker.fast
      /\ worker.pc = "sent" /\ worker.ok => Keys \ absent \subseteq worker.records
  BY DEF WorkerHasSeen
<1>2. ASSUME NEW u \in Units, NEW ports \in SUBSET Ports, Plug(u, ports) PROVE WorkerHasSeen'
  <2>1. OnBus \subseteq OnBus'
    BY <1>2, PlugKeepsOnBus
  <2>2. UNCHANGED <<worker, absent>>
    BY <1>2 DEF Plug
  <2>3. QED
    BY <1>1, <2>1, <2>2 DEF WorkerHasSeen
<1>3. ASSUME NEW u \in Units, Unplug(u) PROVE WorkerHasSeen'
  <2>1. OnBus \ ({u} \cup PortsOf(u)) \subseteq OnBus'
    BY <1>3, UnplugKeepsOnBus
  <2>2. worker' = worker /\ absent' = absent \cup {u} \cup PortsOf(u)
    BY <1>3 DEF Unplug
  <2>3. QED
    BY <1>1, <2>1, <2>2 DEF WorkerHasSeen
<1>4. ASSUME UNCHANGED <<bus, absent>> PROVE OnBus' = OnBus
  BY <1>4 DEF OnBus, KeysOf, Enumerate, PortsOf
<1>5. worker \in [pc : {"fast", "slow", "sent", "done"}, fast : SUBSET Keys, ok : BOOLEAN, records : SUBSET Keys]
  BY DEF TypeOK
<1>6. ASSUME NEW ok \in BOOLEAN, ProbeFast(ok) PROVE WorkerHasSeen'
  <2>1. /\ worker' = [worker EXCEPT !.pc = "slow", !.ok = ok, !.fast = IF ok THEN OnBus ELSE {}]
        /\ absent' = Keys \ OnBus /\ bus' = bus
    BY <1>6 DEF ProbeFast, OnBus
  <2>2. OnBus' = OnBus
    BY <2>1 DEF OnBus, KeysOf, Enumerate, PortsOf
  <2>3. worker'.pc = "slow" /\ worker'.ok = ok /\ (ok => worker'.fast = OnBus)
    BY <1>5, <2>1
  <2>4. QED
    BY <2>1, <2>2, <2>3 DEF WorkerHasSeen
<1>7. ASSUME NEW ok \in BOOLEAN, ProbeSlow(ok) PROVE WorkerHasSeen'
  <2>1. /\ worker.pc = "slow"
        /\ worker' = [worker EXCEPT !.pc = "sent", !.ok = ok \/ worker.ok,
                                    !.records = worker.fast \cup IF ok THEN OnBus ELSE {}]
        /\ UNCHANGED <<bus, absent>>
    BY <1>7 DEF ProbeSlow, OnBus
  <2>2. OnBus' = OnBus
    BY <1>4, <2>1
  <2>3. /\ worker'.pc = "sent" /\ (worker'.ok <=> ok \/ worker.ok)
        /\ worker'.records = worker.fast \cup IF ok THEN OnBus ELSE {}
    BY <1>5, <2>1
  <2>4. QED
    BY <1>1, <2>1, <2>2, <2>3 DEF WorkerHasSeen
<1>8. ASSUME TakeResult PROVE WorkerHasSeen'
  <2>1. worker' = [worker EXCEPT !.pc = "done", !.fast = {}, !.records = {}] /\ UNCHANGED <<bus, absent>>
    BY <1>8 DEF TakeResult
  <2>2. worker'.pc = "done"
    BY <1>5, <2>1
  <2>3. QED
    BY <1>1, <1>4, <2>1, <2>2 DEF WorkerHasSeen
<1>9. ASSUME UNCHANGED <<bus, absent, worker>> PROVE WorkerHasSeen'
  BY <1>1, <1>4, <1>9 DEF WorkerHasSeen
<1>10. QED
  BY <1>2, <1>3, <1>6, <1>7, <1>8, <1>9
     DEF Next, StartProbe, StartSweep, StopLive, Stall, Hide, Packet, Animate, vars

-----------------------------------------------------------------------------
(* The panel, and the dongles of the session.                              *)

(* What every step but a handful leaves alone.                             *)
LEMMA OtherSteps ==
  ASSUME [Next]_vars,
         ~TakeResult, \A ok \in BOOLEAN : ~StartProbe(ok) /\ ~StartSweep(ok),
         \A d \in dongles : ~Stall(d), \A k \in Keys : ~Hide(k)
  PROVE  /\ UNCHANGED <<table, raised>>
         /\ UNCHANGED <<session, dongles, late>> \/ StopLive
         /\ \/ panel' = panel
            \/ StopLive
            \/ \E tagged \in BOOLEAN : Packet(tagged)
            \/ \E dots, tags \in BOOLEAN : Animate(dots, tags)
BY DEF Next, vars, busVars, historyVars, Plug, Unplug, ProbeFast, ProbeSlow, StopLive, Packet, Animate

PanelAgrees ==
  ~raised =>
    /\ DOMAIN panel.rows = DOMAIN Visible(table)
    /\ \A k \in DOMAIN panel.rows : panel.rows[k].active = table[k].active

LEMMA NextPanelAgrees ==
  ASSUME TypeOK, TypeOK', PanelShowsTheTable, [Next]_vars PROVE PanelAgrees'
<1> USE DEF busVars, historyVars
<1>1. PanelTyped /\ table \in [Keys -> Rows] /\ table' \in [Keys -> Rows] /\ raised \in BOOLEAN
  BY TypedIs DEF Typed, TypeOK
<1>2. PanelAgrees
  BY DEF PanelShowsTheTable, PanelAgrees
<1>3. ASSUME panel'.rows = Visible(table') PROVE PanelAgrees'
  BY <1>1, <1>3, VisibleIs DEF PanelAgrees
<1>4. ASSUME UNCHANGED <<table, raised>>, panel'.rows = panel.rows PROVE PanelAgrees'
  BY <1>2, <1>4 DEF PanelAgrees, Visible
<1>5. CASE TakeResult
  <2>1. panel'.rows = Visible(table')
    BY <1>1, <1>5 DEF TakeResult, PanelTyped
  <2>2. QED
    BY <1>3, <2>1
<1>6. ASSUME NEW ok \in BOOLEAN, StartProbe(ok) PROVE PanelAgrees'
  <2>1. CASE ok /\ Enumerate = {}
    <3>1. PICK sweep \in Sweeps({}) :
            /\ table' = sweep.table
            /\ panel' = IF sweep.ok THEN [panel EXCEPT !.rows = Visible(sweep.table)] ELSE panel
            /\ raised' = (raised \/ ~sweep.ok)
      BY <1>6, <2>1 DEF StartProbe
    <3>2. CASE sweep.ok
      <4>1. panel'.rows = Visible(table')
        BY <1>1, <3>1, <3>2 DEF PanelTyped
      <4>2. QED
        BY <1>3, <4>1
    <3>3. CASE ~sweep.ok
      BY <3>1, <3>3 DEF PanelAgrees
    <3>4. QED
      BY <3>2, <3>3
  <2>2. CASE ~(ok /\ Enumerate = {})
    <3>1. UNCHANGED <<table, panel, raised>>
      BY <1>6, <2>2 DEF StartProbe
    <3>2. QED
      BY <1>4, <3>1
  <2>3. QED
    BY <2>1, <2>2
<1>7. ASSUME NEW ok \in BOOLEAN, StartSweep(ok) PROVE PanelAgrees'
  <2>1. ~raised' => panel'.rows = Visible(table')
    BY <1>1, <1>7, StartSweepIs
  <2>2. QED
    BY <1>3, <2>1 DEF PanelAgrees
<1>8. ASSUME NEW d \in dongles, Stall(d) PROVE PanelAgrees'
  <2>1. d.key \in Keys
    BY DEF TypeOK
  <2>2. SameFlags(table', table)
    BY <1>8, <2>1, StallIs
  <2>3. panel' = panel /\ raised' = raised
    BY <1>8 DEF Stall
  <2>4. DOMAIN Visible(table') = DOMAIN Visible(table) /\ DOMAIN Visible(table) \subseteq Keys
    BY <1>1, <2>2, SameVisible, VisibleIs
  <2>5. QED
    BY <1>2, <2>2, <2>3, <2>4 DEF PanelAgrees, SameFlags
<1>9. ASSUME NEW k \in Keys, Hide(k) PROVE PanelAgrees'
  <2>1. panel'.rows = Visible(table')
    BY <1>1, <1>9 DEF Hide, PanelTyped
  <2>2. QED
    BY <1>3, <2>1
<1>10. CASE StopLive \/ (\E tagged \in BOOLEAN : Packet(tagged))
            \/ (\E dots, tags \in BOOLEAN : Animate(dots, tags))
  <2>1. UNCHANGED <<table, raised>> /\ panel'.rows = panel.rows
    BY <1>1, <1>10 DEF StopLive, Packet, Animate, PanelTyped
  <2>2. QED
    BY <1>4, <2>1
<1>11. QED
  BY <1>4, <1>5, <1>6, <1>7, <1>8, <1>9, <1>10, OtherSteps

(* The timer that lets dots and tags fade runs as long as one is lit.      *)
LEMMA NextAnimated ==
  ASSUME TypeOK, panel.dots \/ panel.tags => panel.animated, [Next]_vars
  PROVE  panel'.dots \/ panel'.tags => panel'.animated
<1> USE DEF busVars, historyVars
<1>1. PanelTyped
  BY TypedIs DEF Typed
<1>2. CASE \E tagged \in BOOLEAN : Packet(tagged)
  BY <1>1, <1>2 DEF Packet, PanelTyped
<1>3. CASE \E dots, tags \in BOOLEAN : Animate(dots, tags)
  BY <1>1, <1>3 DEF Animate, PanelTyped
<1>4. ASSUME NEW ok \in BOOLEAN, StartSweep(ok)
      PROVE  UNCHANGED <<panel.dots, panel.tags, panel.animated>>
  BY <1>1, <1>4, StartSweepIs
<1>5. CASE TakeResult \/ StopLive \/ (\E k \in Keys : Hide(k)) \/ (\E ok \in BOOLEAN : StartProbe(ok))
  <2>1. UNCHANGED <<panel.dots, panel.tags, panel.animated>>
    BY <1>1, <1>5 DEF TakeResult, StopLive, Hide, StartProbe, PanelTyped
  <2>2. QED
    BY <2>1
<1>6. CASE \E d \in dongles : Stall(d)
  BY <1>6 DEF Stall
<1>7. QED
  BY <1>2, <1>3, <1>4, <1>5, <1>6, OtherSteps

LEMMA NextCapturing ==
  ASSUME TypeOK, TypeOK', PanelShowsTheTable, CapturingIsInTheTable, [Next]_vars
  PROVE  CapturingIsInTheTable'
<1> USE DEF busVars, historyVars
<1>1. /\ PanelTyped /\ table \in [Keys -> Rows] /\ session \in BOOLEAN
      /\ \A d \in dongles : d.key \in Keys
  BY TypedIs DEF Typed, TypeOK
<1>2. ASSUME NEW t \in [Keys -> Rows], table' = t, SameFlags(t, table),
             UNCHANGED <<session, dongles, late, raised>>
      PROVE  CapturingIsInTheTable'
  BY <1>1, <1>2 DEF CapturingIsInTheTable, SameFlags
<1>3. CASE TakeResult
  <2>1. CASE worker.ok
    <3>1. late' = session /\ session' = session
      BY <1>3, <2>1 DEF TakeResult
    <3>2. QED
      BY <3>1 DEF CapturingIsInTheTable
  <2>2. CASE ~worker.ok
    <3>1. UNCHANGED <<table, session, dongles, late, raised>>
      BY <1>3, <2>2 DEF TakeResult
    <3>2. QED
      BY <1>1, <1>2, <3>1 DEF SameFlags
  <2>3. QED
    BY <2>1, <2>2
<1>4. ASSUME NEW ok \in BOOLEAN, StartProbe(ok) PROVE CapturingIsInTheTable'
  BY <1>4 DEF StartProbe, CapturingIsInTheTable
<1>5. ASSUME NEW ok \in BOOLEAN, StartSweep(ok) PROVE CapturingIsInTheTable'
  <2>1. dongles' = dongles
    BY <1>5 DEF StartSweep
  <2>2. \A d \in dongles : d.key \in KeysOf(dongles)
    BY DEF KeysOf
  <2>3. QED
    BY <1>1, <1>5, <2>1, <2>2, StartSweepIs DEF CapturingIsInTheTable
<1>6. ASSUME NEW d \in dongles, Stall(d) PROVE CapturingIsInTheTable'
  <2>1. table' \in [Keys -> Rows] /\ SameFlags(table', table)
    BY <1>1, <1>6, StallIs
  <2>2. UNCHANGED <<session, dongles, late, raised>>
    BY <1>6 DEF Stall
  <2>3. QED
    BY <1>1, <2>1, <2>2 DEF CapturingIsInTheTable, SameFlags
<1>7. ASSUME NEW k \in Keys, Hide(k) PROVE CapturingIsInTheTable'
  <2>1. /\ k \in DOMAIN panel.rows /\ ~panel.rows[k].active
        /\ table' = [table EXCEPT ![k].removed = TRUE, ![k].active = FALSE]
        /\ UNCHANGED <<session, dongles, late, raised>>
    BY <1>7 DEF Hide
  <2>2. ~raised => ~table[k].active
    BY <2>1 DEF PanelShowsTheTable
  <2>3. \A x \in Keys \ {k} : table'[x] = table[x]
    BY <1>1, <2>1
  <2>4. QED
    BY <1>1, <2>1, <2>2, <2>3 DEF CapturingIsInTheTable
<1>8. CASE StopLive
  BY <1>8 DEF StopLive, CapturingIsInTheTable
<1>9. CASE UNCHANGED <<table, session, dongles, late, raised>>
  BY <1>9 DEF CapturingIsInTheTable
<1>10. QED
  BY <1>3, <1>4, <1>5, <1>6, <1>7, <1>8, <1>9, OtherSteps

-----------------------------------------------------------------------------
LEMMA InitIInv == Init => IInv
<1> SUFFICES ASSUME Init PROVE IInv
  OBVIOUS
<1>1. TypeOK
  BY InitTypes
<1>2. WorkerHasSeen
  BY DEF Init, WorkerHasSeen
<1>3. PanelShowsTheTable
  <2>1. table \in [Keys -> Rows] /\ panel.rows = Visible(table) /\ panel.dots = FALSE /\ panel.tags = FALSE
    BY <1>1 DEF TypeOK, Init
  <2>2. QED
    BY <2>1, VisibleIs DEF PanelShowsTheTable
<1>4. CapturingIsInTheTable
  BY DEF Init, CapturingIsInTheTable
<1>5. QED
  BY <1>1, <1>2, <1>3, <1>4 DEF IInv

LEMMA NextIInv == IInv /\ [Next]_vars => IInv'
<1> SUFFICES ASSUME IInv, [Next]_vars PROVE IInv'
  OBVIOUS
<1>1. TypeOK /\ WorkerHasSeen /\ PanelShowsTheTable /\ CapturingIsInTheTable
  BY DEF IInv
<1>2. TypeOK'
  BY <1>1, NextTypes
<1>3. WorkerHasSeen'
  BY <1>1, <1>2, NextSeen
<1>4. PanelAgrees'
  BY <1>1, <1>2, NextPanelAgrees
<1>5. panel'.dots \/ panel'.tags => panel'.animated
  BY <1>1, NextAnimated DEF PanelShowsTheTable
<1>6. PanelShowsTheTable'
  BY <1>4, <1>5 DEF PanelAgrees, PanelShowsTheTable
<1>7. CapturingIsInTheTable'
  BY <1>1, <1>2, NextCapturing
<1>8. QED
  BY <1>2, <1>3, <1>6, <1>7 DEF IInv

(* IInv holds in every reachable state.                                    *)
THEOREM RegistryInvariant == Spec => []IInv
BY InitIInv, NextIInv, PTL DEF Spec

(* Every variable keeps its type; rows and panel keep the fields they have.*)
THEOREM RegistryTypes == Spec => []TypeOK
<1>1. IInv => TypeOK
  BY DEF IInv
<1>2. QED
  BY <1>1, RegistryInvariant, PTL

(* The panel says of each sniffer's presence what the table says, unless a *)
(* sweep raised, and it keeps repainting while something is lit.           *)
THEOREM RegistryPanelShowsTheTable == Spec => []PanelShowsTheTable
<1>1. IInv => PanelShowsTheTable
  BY DEF IInv
<1>2. QED
  BY <1>1, RegistryInvariant, PTL

(* The dongles of the session are shown as there, unless a sweep raised or *)
(* the initial discovery reported after the session's sweep.               *)
THEOREM RegistryShowsTheSession == Spec => []CapturingIsShownActive
<1>1. ASSUME IInv PROVE CapturingIsShownActive
  <2> SUFFICES ASSUME session, ~late, ~raised, NEW d \in dongles
               PROVE  d.key \in DOMAIN panel.rows /\ panel.rows[d.key].active
    BY DEF CapturingIsShownActive
  <2>1. TypeOK /\ PanelShowsTheTable /\ CapturingIsInTheTable
    BY <1>1 DEF IInv
  <2>2. table \in [Keys -> Rows] /\ d.key \in Keys
    BY <2>1 DEF TypeOK
  <2>3. table[d.key].known /\ table[d.key].active /\ ~table[d.key].removed
    BY <2>1 DEF CapturingIsInTheTable
  <2>4. d.key \in DOMAIN Visible(table)
    BY <2>2, <2>3, VisibleIs
  <2>5. QED
    BY <2>1, <2>3, <2>4 DEF PanelShowsTheTable
<1>2. QED
  BY <1>1, RegistryInvariant, PTL

(* The result of the initial discovery greys out no sniffer that has been  *)
(* on the bus since the thread began, whichever probe or statement raises. *)
THEOREM RegistryKeepsPresentActive == Spec => PresentSniffersStayActive
<1> DEFINE Kept == worker.pc = "sent" /\ worker'.pc = "done" =>
                     \A k \in Keys \ absent : table[k].active => table'[k].active
<1>1. ASSUME IInv, [Next]_vars PROVE Kept
  <2> SUFFICES ASSUME worker.pc = "sent", worker'.pc = "done", NEW k \in Keys \ absent, table[k].active
               PROVE  table'[k].active
    OBVIOUS
  <2>1. TypeOK /\ WorkerHasSeen
    BY <1>1 DEF IInv
  <2>2. TakeResult
    BY <1>1 DEF Next, vars, busVars, historyVars, Plug, Unplug, ProbeFast, ProbeSlow, StartProbe, StartSweep,
                StopLive, Stall, Hide, Packet, Animate
  <2>3. CASE worker.ok
    <3>1. k \in worker.records
      BY <2>1, <2>3 DEF WorkerHasSeen
    <3>2. PICK sweep \in Sweeps(worker.records) : table' = sweep.table
      BY <2>2, <2>3 DEF TakeResult
    <3>3. worker.records \in SUBSET Keys
      BY <2>1 DEF TypeOK
    <3>4. QED
      BY <2>1, <3>1, <3>2, <3>3, SweepsAre
  <2>4. CASE ~worker.ok
    BY <2>2, <2>4 DEF TakeResult
  <2>5. QED
    BY <2>3, <2>4
<1>2. QED
  BY <1>1, RegistryInvariant, PTL DEF Spec, PresentSniffersStayActive
=============================================================================
