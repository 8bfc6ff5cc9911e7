-------------------------- MODULE SnifferRegistry ---------------------------
(***************************************************************************)
(* Which sniffers are there: the USB bus, its enumeration                  *)
(* (extcap/discovery.py), the sniffers table (db/repos.py), the discovery  *)
(* thread the canvas starts with, the sweep Start Capture makes, and the   *)
(* panel that shows the table (ui/sniffer_panel.py).                       *)
(*                                                                         *)
(* The bus changes at any time; the discovery thread looks at it twice and *)
(* hands its result to the main thread, which may be in a session by then. *)
(* Statements on the table commit one by one, and each may raise (another  *)
(* process has the database locked).  Of the columns, the model keeps what *)
(* discovery, the user and the watchdog change; of times, whether a stall  *)
(* was in the latest session.                                              *)
(***************************************************************************)
EXTENDS Integers, FiniteSets, FiniteSetsExt

CONSTANTS
  Serialled,   \* units with a USB serial number
  Plain,       \* units without
  Others,      \* units that run other firmware: not sniffers
  Kits,        \* development kits, which show up on two ports
  NoUnit,
  NumPorts,    \* device paths, in their order
  MayFail,     \* what may raise: a "probe", the "db"
  MaxStalls,   \* bound: stalls of a sniffer
  MaxPlugs     \* bound: changes of the bus

Units == Serialled \cup Plain \cup Others
Ports == 1..NumPorts
Keys == Serialled \cup Ports

ASSUME RegistryAssumption ==
  /\ Serialled \cap Plain = {} /\ Others \cap (Serialled \cup Plain) = {} /\ Kits \subseteq Units
  /\ NoUnit \notin Units /\ IsFiniteSet(Units) /\ Units \cap Ports = {}
  /\ NumPorts \in Nat \ {0} /\ MaxStalls \in Nat /\ MaxPlugs \in Nat
  /\ MayFail \subseteq {"probe", "db"}

VARIABLES
  bus,       \* the unit at each port
  plugs,     \* changes of the bus so far
  table,     \* the sniffers table, by serial number or, failing that, path
  worker,    \* the discovery thread, and the result it hands over
  main,      \* the main thread: in its event loop, or starting a session
  session,   \* a session runs
  dongles,   \* the coordinator's dongles
  panel,     \* rows the panel has read, its anchor, and what is lit
  absent,    \* history: keys (and units) off the bus at some time since the thread began
  late,      \* history: the thread's result came after the session's sweep
  raised     \* history: a statement of a sweep has raised

vars == <<bus, plugs, table, worker, main, session, dongles, panel, absent, late, raised>>
busVars == <<bus, plugs, absent>>
historyVars == <<absent, late, raised>>

NoRow == [known |-> FALSE, active |-> FALSE, removed |-> FALSE, stalls |-> 0, last |-> "never"]
NewRow == [NoRow EXCEPT !.known = TRUE, !.active = TRUE]

-----------------------------------------------------------------------------
(* _enumerate_via_pyserial: one dongle per serial number, at its lowest    *)
(* path; what has no serial number is known by its path.                   *)
PortsOf(u) == {p \in Ports : bus[p] = u}
Enumerate ==
  {[key |-> u, port |-> Min(PortsOf(u))] : u \in {x \in Serialled : PortsOf(x) # {}}}
    \cup {[key |-> p, port |-> p] : p \in {q \in Ports : bus[q] \in Plain}}
KeysOf(found) == {d.key : d \in found}

(* Sniffers.record_discovered: rows not seen are deactivated, then the     *)
(* rows seen are upserted one by one, as far as nothing raises.            *)
\* Mutant: a rediscovered row stays hidden.
UpsertKeepsRemoved(row) == IF row.known THEN [row EXCEPT !.active = TRUE] ELSE NewRow

Upsert(row) == IF row.known THEN [row EXCEPT !.active = TRUE, !.removed = FALSE] ELSE NewRow

Recorded(seen, done) ==
  [k \in Keys |-> IF k \in done THEN Upsert(table[k])
                  ELSE IF k \in seen THEN table[k]
                  ELSE [table[k] EXCEPT !.active = FALSE]]

(* how a sweep may end: the table it leaves, and whether it raised         *)
Sweeps(seen) ==
  {[table |-> Recorded(seen, seen), ok |-> TRUE]}
    \cup IF "db" \notin MayFail THEN {}
         ELSE {[table |-> table, ok |-> FALSE]}
                \cup {[table |-> Recorded(seen, done), ok |-> FALSE] : done \in (SUBSET seen) \ {seen}}

(* SnifferPanel.refresh reads the rows that are not removed; they keep     *)
(* what they say until the next refresh.                                   *)
Visible(t) == [k \in {x \in Keys : t[x].known /\ ~t[x].removed} |-> t[k]]

Init ==
  /\ bus \in [Ports -> {NoUnit}] /\ plugs = 0
  /\ table \in [Keys -> {NoRow, NewRow, [NewRow EXCEPT !.active = FALSE, !.removed = TRUE, !.stalls = 1, !.last = "before"]}]
  /\ worker = [pc |-> "fast", fast |-> {}, ok |-> FALSE, records |-> {}]
  /\ main = "idle" /\ session = FALSE /\ dongles = {}
  /\ panel = [rows |-> Visible(table), anchored |-> FALSE, unreachable |-> {},
              dots |-> FALSE, tags |-> FALSE, animated |-> FALSE]
  /\ absent = Keys /\ late = FALSE /\ raised = FALSE

-----------------------------------------------------------------------------
Plug(u, ports) ==
  /\ plugs < MaxPlugs
  /\ PortsOf(u) = {} /\ \A p \in ports : bus[p] = NoUnit
  /\ Cardinality(ports) = IF u \in Kits THEN 2 ELSE 1
  /\ bus' = [p \in Ports |-> IF p \in ports THEN u ELSE bus[p]]
  /\ plugs' = plugs + 1
  /\ UNCHANGED <<table, worker, main, session, dongles, panel, historyVars>>

Unplug(u) ==
  /\ plugs < MaxPlugs
  /\ PortsOf(u) # {}
  /\ bus' = [p \in Ports |-> IF bus[p] = u THEN NoUnit ELSE bus[p]]
  /\ plugs' = plugs + 1
  /\ absent' = absent \cup {u} \cup PortsOf(u)
  /\ UNCHANGED <<table, worker, main, session, dongles, panel, late, raised>>

-----------------------------------------------------------------------------
(* _initial_discovery_worker: two looks at the bus.  If both fail there is *)
(* no result, which is not the same as an empty one.                       *)
ProbeFast(ok) ==
  /\ worker.pc = "fast"
  /\ ok \/ "probe" \in MayFail
  /\ worker' = [worker EXCEPT !.pc = "slow", !.ok = ok, !.fast = IF ok THEN KeysOf(Enumerate) ELSE {}]
  /\ absent' = Keys \ KeysOf(Enumerate)
  /\ UNCHANGED <<bus, plugs, table, main, session, dongles, panel, late, raised>>

\* Mutant: the flags of the two probes are not looked at.
ProbeSlowTrusting(ok) ==
  /\ worker.pc = "slow"
  /\ ok \/ "probe" \in MayFail
  /\ worker' = [worker EXCEPT !.pc = "sent", !.ok = TRUE,
                              !.records = worker.fast \cup IF ok THEN KeysOf(Enumerate) ELSE {}]
  /\ UNCHANGED <<busVars, table, main, session, dongles, panel, late, raised>>

ProbeSlow(ok) ==
  /\ worker.pc = "slow"
  /\ ok \/ "probe" \in MayFail
  /\ worker' = [worker EXCEPT !.pc = "sent", !.ok = ok \/ worker.ok,
                              !.records = worker.fast \cup IF ok THEN KeysOf(Enumerate) ELSE {}]
  /\ UNCHANGED <<busVars, table, main, session, dongles, panel, late, raised>>

(* _on_initial_discovery_done, in the main thread                          *)
TakeResult ==
  /\ main = "idle" /\ worker.pc = "sent"
  /\ worker' = [worker EXCEPT !.pc = "done", !.fast = {}, !.records = {}]
  /\ IF worker.ok
     THEN \E sweep \in Sweeps(worker.records) :
            /\ table' = sweep.table
            /\ panel' = [panel EXCEPT !.rows = Visible(sweep.table),
                                      !.unreachable = DOMAIN Visible(sweep.table) \ worker.records]
            /\ raised' = (raised \/ ~sweep.ok)
            /\ late' = session
     ELSE /\ panel' = [panel EXCEPT !.rows = Visible(table)]
          /\ UNCHANGED <<table, raised, late>>
  /\ UNCHANGED <<busVars, main, session, dongles>>

-----------------------------------------------------------------------------
(* _start_live: the coordinator's dongles; without any there is no         *)
(* session, but a sweep that found nothing.                                *)
\* Mutant: the panel is not told that nothing is there.
StartProbeQuietly(ok) ==
  /\ main = "idle" /\ ~session
  /\ ok \/ "probe" \in MayFail
  /\ LET found == IF ok THEN Enumerate ELSE {}
     IN IF ok /\ found = {}
        THEN /\ \E sweep \in Sweeps({}) :
                  /\ table' = sweep.table
                  /\ raised' = (raised \/ ~sweep.ok)
             /\ UNCHANGED <<main, dongles, panel>>
        ELSE /\ main' = IF ok THEN "starting" ELSE "idle"
             /\ dongles' = found
             /\ UNCHANGED <<table, panel, raised>>
  /\ UNCHANGED <<busVars, worker, session, late>>

StartProbe(ok) ==
  /\ main = "idle" /\ ~session
  /\ ok \/ "probe" \in MayFail
  /\ LET found == IF ok THEN Enumerate ELSE {}
     IN IF ok /\ found = {}
        THEN /\ \E sweep \in Sweeps({}) :
                  /\ table' = sweep.table
                  /\ panel' = IF sweep.ok THEN [panel EXCEPT !.rows = Visible(sweep.table)] ELSE panel
                  /\ raised' = (raised \/ ~sweep.ok)
             /\ UNCHANGED <<main, dongles>>
        ELSE /\ main' = IF ok THEN "starting" ELSE "idle"
             /\ dongles' = found
             /\ UNCHANGED <<table, panel, raised>>
  /\ UNCHANGED <<busVars, worker, session, late>>

(* The sweep records what the bus shows now besides the dongles; whatever  *)
(* raises in it is ignored.  Then the session starts.                      *)
StartSweep(ok) ==
  /\ main = "starting"
  /\ ok \/ "probe" \in MayFail
  /\ \E sweep \in IF ok THEN Sweeps(KeysOf(dongles) \cup KeysOf(Enumerate))
                  ELSE {[table |-> table, ok |-> FALSE]} :
       LET after == [k \in Keys |-> IF sweep.table[k].last = "now"
                                    THEN [sweep.table[k] EXCEPT !.last = "before"] ELSE sweep.table[k]]
       IN /\ table' = after
          /\ panel' = [panel EXCEPT !.rows = IF sweep.ok THEN Visible(after)
                                             ELSE [k \in DOMAIN @ |-> IF @[k].last = "now"
                                                     THEN [@[k] EXCEPT !.last = "before"] ELSE @[k]],
                                    !.unreachable = DOMAIN Visible(after) \ KeysOf(dongles),
                                    !.anchored = TRUE]
          /\ raised' = (raised \/ ~sweep.ok)
  /\ main' = "idle" /\ session' = TRUE /\ late' = FALSE
  /\ UNCHANGED <<busVars, worker, dongles>>

StopLive ==
  /\ main = "idle" /\ session
  /\ session' = FALSE /\ dongles' = {} /\ late' = FALSE
  /\ panel' = [panel EXCEPT !.unreachable = {}]
  /\ UNCHANGED <<busVars, table, worker, main, raised>>

(* StallWatchdog._bump_db_counter: by serial number, if there is one       *)
Stall(d) ==
  /\ main = "idle" /\ session /\ d \in dongles
  /\ d.key \in Serialled /\ table[d.key].known
  /\ table[d.key].stalls < MaxStalls
  /\ table' = [table EXCEPT ![d.key].stalls = @ + 1, ![d.key].last = "now"]
  /\ UNCHANGED <<busVars, worker, main, session, dongles, panel, late, raised>>

(* The X of a row that is not active: soft_delete.                         *)
Hide(k) ==
  /\ main = "idle"
  /\ k \in DOMAIN panel.rows /\ ~panel.rows[k].active
  /\ table' = [table EXCEPT ![k].removed = TRUE, ![k].active = FALSE]
  /\ panel' = [panel EXCEPT !.rows = Visible(table')]
  /\ UNCHANGED <<busVars, worker, main, session, dongles, late, raised>>

(* notify_packet lights the row's dot and, if the channel is known, its    *)
(* tag; _tick lets them fade and stops the timer when all is dark.         *)
Packet(tagged) ==
  /\ main = "idle" /\ session /\ dongles # {}
  /\ panel' = [panel EXCEPT !.dots = TRUE, !.tags = @ \/ tagged, !.animated = TRUE]
  /\ UNCHANGED <<busVars, table, worker, main, session, dongles, late, raised>>

Animate(dots, tags) ==
  /\ panel.animated /\ (dots => panel.dots) /\ (tags => panel.tags)
  /\ panel' = [panel EXCEPT !.dots = dots, !.tags = tags, !.animated = dots \/ tags]
  /\ UNCHANGED <<busVars, table, worker, main, session, dongles, late, raised>>

-----------------------------------------------------------------------------
Next ==
  \/ \E u \in Units : Unplug(u) \/ \E ports \in SUBSET Ports : Plug(u, ports)
  \/ \E ok \in BOOLEAN : ProbeFast(ok) \/ ProbeSlow(ok) \/ StartProbe(ok) \/ StartSweep(ok)
  \/ TakeResult \/ StopLive
  \/ \E d \in dongles : Stall(d)
  \/ \E k \in Keys : Hide(k)
  \/ \E tagged \in BOOLEAN : Packet(tagged)
  \/ \E dots, tags \in BOOLEAN : Animate(dots, tags)

Spec == Init /\ [][Next]_vars

-----------------------------------------------------------------------------
Rows == [known : BOOLEAN, active : BOOLEAN, removed : BOOLEAN,
         stalls : 0..(MaxStalls + 1), last : {"never", "before", "now"}]

TypeOK ==
  /\ bus \in [Ports -> Units \cup {NoUnit}] /\ plugs \in 0..MaxPlugs
  /\ table \in [Keys -> Rows]
  /\ worker \in [pc : {"fast", "slow", "sent", "done"}, fast : SUBSET Keys, ok : BOOLEAN, records : SUBSET Keys]
  /\ main \in {"idle", "starting"} /\ session \in BOOLEAN
  /\ dongles \subseteq [key : Keys, port : Ports]
  /\ DOMAIN panel.rows \subseteq Keys /\ panel.rows \in [DOMAIN panel.rows -> Rows]
  /\ panel \in [rows : {panel.rows}, anchored : BOOLEAN, unreachable : SUBSET Keys,
               dots : BOOLEAN, tags : BOOLEAN, animated : BOOLEAN]
  /\ absent \subseteq Keys \cup Units /\ late \in BOOLEAN /\ raised \in BOOLEAN

(* The panel shows each dongle of the session as there, hidden before or   *)
(* not, unless a sweep raised or the result of the initial discovery came  *)
(* later than the session's own sweep (canvas.py:3647-3652).               *)
CapturingIsShownActive ==
  session /\ ~late /\ ~raised =>
    \A d \in dongles : d.key \in DOMAIN panel.rows /\ panel.rows[d.key].active

(* A sniffer that has been on the bus ever since the discovery thread      *)
(* began is not greyed out by the thread's result, whatever probe fails    *)
(* (canvas.py:3417-3425).                                                  *)
PresentSniffersStayActive ==
  [][worker.pc = "sent" /\ worker'.pc = "done" =>
       \A k \in Keys \ absent : table[k].active => table'[k].active]_vars

(* What the panel says of a sniffer's presence is what the table says,     *)
(* unless a sweep raised; and it repaints as long as something fades.      *)
PanelShowsTheTable ==
  /\ ~raised =>
       /\ DOMAIN panel.rows = DOMAIN Visible(table)
       /\ \A k \in DOMAIN panel.rows : panel.rows[k].active = table[k].active
  /\ panel.dots \/ panel.tags => panel.animated

(* canvas.py:3738-3742: the watchdog counts stalls "so chronic per-dongle  *)
(* stalls show up as a 'STALL xN' badge in the panel - both within a       *)
(* session and across btviz restarts".                                     *)
Badge(k) == panel.anchored /\ panel.rows[k].stalls > 0 /\ panel.rows[k].last = "now"
StallsShowABadge ==
  session => \A k \in DOMAIN panel.rows : table[k].last = "now" => Badge(k)
=============================================================================
