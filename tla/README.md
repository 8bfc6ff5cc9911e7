# Verification of btviz

btviz captures Bluetooth Low Energy advertisements with a set of USB dongles,
shows the devices on a canvas and stores them in SQLite.  This directory holds
TLA+ models of the parts whose behaviour depends on order, time, failure and
concurrency, TLC configurations that check them on small instances, and proofs
(TLAPS) that hold for every instance.  All paths below are relative to
`src/btviz/`; every definition was translated from that code, and
`PROJECT.json` (`map`) gives the lines each definition stands for.

## 1. Inventory

| component | state | operations | interacts with | what is hard |
|---|---|---|---|---|
| `capture/roles` | none | `default_roles`, role constructors | coordinator | boundary cases at 1, 2, 3, 4 dongles |
| `capture/coordinator` | `dongles`, `roles`, `sniffers` | `refresh_dongles`, `start_discover`, `set_role`, `follow`, `restart_one`, `stop_all` | sniffers (calls), bus (publish) | a start that raises half way; hop sets recomputed after every change |
| `extcap/sniffer` | `SnifferState`, subprocess, two FIFOs, three threads | `start`, `stop`, `set_adv_hop`, `follow_address` | coordinator, bus | FIFO opens that block, threads that outlive a join, a subprocess that dies unnoticed |
| `capture/watchdog` | attempts, stuck set | `tick`, `silent` | coordinator (`restart_one`), database | retries against time; giving up exactly once |
| `cli/sniffers` | position in the loop | pin, scan, follow, idle, refresh, quit | coordinator | exceptions between commands, the unprotected first plan |
| `ui/canvas`: session | session object, timer, watchdog | start, follow, tick, stop, close | coordinator, watchdog, ingest | start that raises half way; stop while threads run |
| `bus` | subscribers per topic | `subscribe`, `publish` | sniffer threads, ingest | a callback still runs after `unsubscribe` |
| `capture/live_ingest` | queue, counters, CRC attribution cache | `start`, `_on_packet`, `flush`, `stop` | bus (callback on reader threads), pipeline, store | readers against the flush; bounded queue; rollback |
| `capture/live_decode`, `decode/*` | none | decoding | ingest | truncated and damaged frames |
| `ingest/*` | identity cache of a session, one transaction per file | `record_packet`, `ingest_file` | repositories, tshark | cache against a transaction that rolls back; a subprocess and its pipes |
| `db/store`, `db/repos` | the SQLite file | migrations, `tx`, repositories | everything above | crash between two steps of a migration, non-monotone time stamps |
| `cluster/*` | none between runs | `ClusterRunner.run`, `apply_run` | repositories, canvas worker | merging decisions into earlier clusters; results that are stale when they arrive |
| `extcap/discovery`, `ui/sniffer_panel` | the sniffers table, rows shown | discovery, sweep, hide | canvas, watchdog | the result of a discovery overtaken by a session start |
| `extcap/firmware_query` | none | query, verdict on Coded PHY | preferences dialog | noise, two baud rates, silence |
| `log_drain`, `cli/drain` | file position, windows of repeats, sink size | read, tick, look at the inode | log files | rotation between two reads; suppression windows |
| `single_instance` | a lock file | acquire | start-up | crash of the holder |
| `preferences` | values, TOML files, dialog | load, edit, save | everything | files edited by hand or cut off; one value in three places |
| `probe`, `interrogator`, drawing code, lookup tables | - | - | - | stubs, presentation, constants |

The chain of a live session is: the canvas (or the command line) asks the
coordinator to apply roles; the coordinator starts, retunes and stops sniffer
subprocesses; a reader thread per sniffer publishes packets on the bus;
`LiveIngest` decodes and queues them on that thread; a Qt timer on the main
thread drains the queue into SQLite and runs the watchdog, which restarts
sniffers through the coordinator.

What makes each part correct:

* **coordinator**: the role table and the subprocesses never drift apart;
  scanning sniffers hop exactly what nobody pins; follow requests use the
  reserve first; a stop leaves nothing running.
* **watchdog**: each stalled sniffer is handled or flagged, flagged once, and
  the number of restarts is bounded.
* **live ingest**: every packet is accounted for; stop loses next to nothing;
  counters tell the truth about committed rows; caches agree with tables.
* **clusters**: always a partition; a confirmed cluster survives a run.
* **sniffer process**: only the threads of the current generation publish;
  what the state says is what the extcap is tuned to; `start` and `stop` return;
  no pipe stays full.
* **log drain**: no line is lost or read twice, and no template goes unseen.
* **store, single instance**: a crash leaves a database that opens.

* **file ingest**: a file is in the tables as a whole or not at all; nothing is
  taken for a device that did not transmit; what is known of a device sharpens.
* **sniffers table**: what is on the bus is shown as there, in whatever order
  discovery, Start Capture and the user write.
* **preferences**: what was saved is loaded, and what is no good is replaced by its
  default.

The hazards these properties aim at are listed in `PROJECT.json`, each at its
line.

## 2. Plan

| # | modules | what | state |
|---|---|---|---|
| 1 | `Roles`, `Coordinator`, `SnifferCli`, `CaptureSession` (+ `CoordinatorProofs`) | roles, coordinator, command line, canvas session with watchdog | done |
| 2 | `LiveIngest` (+ `LiveIngestProofs`) | reader threads, bounded queue, transactional flush, caches | done |
| 3 | `Partition`, `Clusters` (+ `ClustersProofs`) | `apply_run` shown to implement an abstract partition of the devices; the worker thread against edits on the main thread | done |
| 4 | `SnifferProcess` (+ `SnifferProcessProofs`) | the caller, the extcap, its pipes and the reader threads, over restarts | done; left: that it implements the sniffer `Coordinator` assumes |
| 5 | `LogDrain` (+ `LogDrainProofs`) | following a log across rotations, summaries, the rotating output | done |
| 6 | `Startup` (+ `StartupProofs`) | a migration killed after any statement; the lock; capture.log shared by processes | done |
| 7 | `SnifferRegistry` (+ `SnifferRegistryProofs`) | discovery, Start Capture and the user on one table; the panel | done |
| 8 | `LinkLayer`, `AdClues`, `RecordPacket`, `FileIngest` (+ `FileIngestProofs`) | bytes to clues to tables; one transaction per file, fed by tshark | done |
| 9 | `FirmwareQuery`, `Preferences` (proofs in `StartupProofs`) | loading, saving and editing preferences; the verdict on Coded PHY | done |

Runs are kept to one per component: its safety, its action properties and, where
something must eventually happen, its liveness, on one instance.  Two more runs
show a disagreement with the documentation.  Left to prove: that
`SnifferProcess` implements the sniffer `Coordinator` assumes.

## 3. Modules

`Roles`, `Coordinator`, `SnifferCli` and `CaptureSession` form one tower:

* **`Roles`** - the four roles (and `NoRole` for "no entry") as records,
  `default_roles` as `DefaultRole(D, d)`.  Dongles are numbers in the order
  discovery lists them.  A dictionary of the code iterates in insertion order,
  the model in number order; which of several equal dongles is taken affects no
  property.
* **`Coordinator`** - `dongles`, `roles`, `sniffers` as in the code.  A
  `SnifferProcess` is what the coordinator can see of it: running, role, hop
  set, followed address.  `start` either spawns (`ok`), raises before anything
  runs (`raise`: missing binary, `mkfifo`, `Popen`) or notes an error and stops
  itself (`quiet`: a FIFO cannot be opened).  The constant `MayFail` names the
  ways considered; the variable `faults`, chosen once per behaviour, says which
  of them occur, so one run covers "nothing fails", "only quiet failures" and
  "anything fails", and a property says under which it is promised.
  `SetRole` is the whole `set_role`: table, `_apply_role`, rescan, and where an
  exception cuts it short.  `start_discover` is `Register` and one
  `ApplyPlanned` per dongle (`todo` is what is left of its loop), because time
  passes and packets arrive between two `set_role` calls.
* **`SnifferCli`** - the command loop (`cli`: booting, first plan, prompt,
  plan of a `refresh`, the `finally` clause, exited, crashed).
* **`CaptureSession`** - `_start_live`, `_follow_device`, `_live_tick` (watchdog
  half) and `_stop_live`.  Two differences of clock readings matter, silence
  and time since the last attempt; they are ages in watchdog periods, capped
  just above the threshold they are compared with.  `Wedge` is an endpoint that
  stops delivering; a subprocess that died looks the same, because nothing
  clears `state.running`.

**`LiveIngest`** models one session of ingest.  A reader thread goes through
`Publish` (bus lookup, before the callback), `OnPacket` (decode, counters) and
`Enqueue` (append under the lock, evicting the oldest).  `Flush` takes the queue,
`Record` is one packet through `record_packet` or the CRC branch, `Commit` and
`Rollback` end the transaction; `disk` are the committed tables, `work` those the
open transaction sees.  `cached` is `IngestContext.device_state`, `lastClean` is
`_last_clean_device`.  One identity clue stands for the several the code keeps,
they are treated alike.  `heard` and `fate` are history variables for the
properties; no action's guard reads them.  `stop` is four steps (`BeginStop`,
`Unsubscribe`, its flush, `EndSession`), as the reader joins give up after a
second and callbacks may be under way at each of them.

A counter moves in one step: CPython from 3.11, which the package requires,
switches threads at calls and at the ends of loops, so `x += 1` on an attribute
is not torn.

**`Partition`** is what a user is promised of clusters: the connected components
of all merge decisions committed so far.  **`Clusters`** is the way there: a
tick on the main thread takes a snapshot of the recent, classified devices
(`RunClusterTick`), the worker thread decides (`RunOnce`, any pairs of one class
that is not too big; `RunFails`), the main thread applies the result
(`OnClusterFinished`, then `Touch`, `MergeClusters`, `AddMember` or
`CreateCluster` per decision, then `Commit` or `Rollback`).  `saved` are the
committed cluster tables, `work` those of the transaction, `grouping` is the
dictionary `device_to_cluster`.  The docstring of the class says that a run replaces
the clusters of its source; the code adds to them, and so does the model (see
`ClustersReplaced` below).  Between two decisions the database may raise or
the program may end.  `evidence` is the history `Partition` is about: the
refinement mapping takes `Blocks(saved)` for `blocks`.  Nothing in the program
writes unconfirmed or manual clusters or deletes a device, so the model has
neither.

**`SnifferProcess`** opens up what `Coordinator` treats as one step.  `start` is
`Spawn` (or `SpawnRaises`), `OpenCtrl` (or `OpenFails`, which goes on into the
code of `stop`) and `Announce`; `stop` is `Stop`, `Reap` and `JoinThreads`;
`main` says where the caller is.  `SetAdvHop` and `FollowAddress` write a message
and the state.  A *generation* is a `start` that created its FIFOs: `extcap`,
`inbox` (the control FIFO), `pipe` (the other pipes) and `thread` exist per
generation, since they may outlive a stop; `state`, `proc`, `ctrlFd` and `stop`
(the event) are attributes of the object and shared by all.  The extcap is not
part of the repository.  The model assumes of it what the code relies on: it
opens its pipes together, obeys messages in order, starts capturing at INIT, may
die at any time and dies when terminated or killed.  `faults` is chosen once per
behaviour: `spawn` (`Popen` raises), `early` (the extcap dies before it opens its
pipes), `slow` (waits and joins time out).

**`LogDrain`** numbers the lines of the log and knows a file by its inode.  The
program that logs may write, rename and create at any time (`Write`, `Rename`,
`Create`: a `RotatingFileHandler` does the last two one after the other, and the
path names nothing in between).  The drainer's loop is `Read`, `ReachEnd`,
`Tick`, `CheckInode` and `Reopen`, after `Start` and `StatInput`; `Stop` is
Ctrl-C anywhere.  `stats` is `DrainerEngine._stats`, reduced to whether a template
is known and what its window holds; `out` is the rotating sink with its buffer.
`fate`, `again`, `since` and `calm` are history.

**`Startup`** is what happens between the command and the main loop, for several
processes: `Launch` opens the logs, `ReadVersion`, `RunStatement` and
`SetVersion` are `_migrate`, `TryLock`, `StampPid` and `ReadPid` are
`acquire_db_lock`, and `Die` may come anywhere.  The statements of a migration
script are numbered; each commits on its own (`executescript`), and repeating
one is an error, as CREATE TABLE and ALTER TABLE ADD COLUMN are.

**`SnifferRegistry`** has the bus (units at ports), the sniffers table, the
thread of the initial discovery (`ProbeFast`, `ProbeSlow`, `TakeResult`),
`_start_live` (`StartProbe`, `StartSweep`) and the panel with the rows it last
read.  A sweep that raises leaves any part of its upserts behind (`Sweeps`).

**`LinkLayer`** decodes bytes as `decode/adv.py` and `live_decode.py` do, down to
the layer dict; **`AdClues`** draws clues, AD history and broadcasts from that
dict; **`RecordPacket`** is what one packet does to the tables and to
`IngestContext`.  They are operators, without state.  **`FileIngest`** puts them
together: `ingest_file` in its transaction (`tx` against `tables`), the tshark
subprocess with its two pipes, and a live session of another process on the same
tables.  The frames of `MCFileIngest` are bytes; the properties compare what the
tables say with what the transmitter put into them.

**`FirmwareQuery`** is SLIP framing, the query and the verdict on Coded PHY, on
the bytes a port gives.  **`Preferences`** has the files, what a process holds, the
dialog with its widgets, and saves that write one file after the other and may
fail or be cut off (`CutOff` lists what can be left).  A value carries its type,
since loading coerces and validates by it; `Spelt` says which texts spell a number,
as `int()` and `float()` take them too, and NaN and infinities are values of their
own.  `saved` is history: by file, what a save wrote in it and nothing has
written since.  When the dialog opens, any of the dongles may not be heard in time
(`HeardOf`): a busy port, an answer after the future has timed out, an exception.
The code calls that "unknown" and blocks nothing.

The `MC` modules add constraints, symmetry and inputs for TLC;
`MCPreferences` also checks, as ASSUMEs, that SLIP decoding inverts encoding
and that the schema's defaults are valid by the schema.

## 4. Runs

| run | instance | shows |
|---|---|---|
| `Cli` | 2 dongles where starts fail, 3 where they do not; pins {37}, {38,39}, all | scanners hop what nobody pins, gaps are filled, and after any failed starts coverage is complete as soon as every sniffer with work has its subprocess |
| `Session` | 2 dongles where starts fail, up to 4 where they do not; threshold, gap and limit 1 | roles and subprocesses agree; at most one restart more than allowed is ever counted; a stop forgets everything; assigned sniffers run; the reserve protects coverage; a wedged sniffer delivers again or is flagged |
| `Ingest` | 2 readers, 2 devices, queue of 2, 3 packets, 2 instants | packets are conserved, stop loses at most one per reader, counters match committed rows, cache and CRC credit are right until a rollback, the queue is drained whatever flushes fail |
| `Clusters` | 4 devices of one class, of which at most 3 may be clustered in one run | the tables stay sound, clusters only grow, they are the components of what was committed, no run blocks the next for ever |
| `Sniffer` | 2 generations, 2 hop sets, 1 address, 1 kind of thread, every kind of failure (an early death alone) | a stop leaves nothing alive, old threads do not publish unless a join timed out, the extcap is tuned to what the state says, calls return, pipes are drained |
| `Drain` | 2 templates and both other kinds of line, 3 lines, 3 files, output files of one line, 2 backups | lines are read once, in order and in the end, over any rotation that does not hit the drainer off guard; no template is summed up that was never shown; the output kept is the latest |
| `Startup` | 3 processes of any kind, 3 versions of the schema, killed anywhere | the version is backed by the schema, opens fail only after a kill or a simultaneous migration, the lock is the live canvas's |
| `Registry` | a kit with a serial number, a dongle without, a stranger; 2 ports, 3 changes of the bus, failing probes and statements | dongles of the session are shown as there, the panel agrees with the table, failing probes grey nothing out |
| `Files` | 2 transmitters, files of up to 2 of 7 records, live frames cut off at every byte or damaged, 2 sessions | files are in the tables whole or not at all, with the broadcasts announced; no device is invented; classes only sharpen |
| `Prefs` | 6 preferences of every type in 3 files, 2 environments, a good and a broken dongle | values held are valid or NaN, what was saved in a file is reloaded from it, Coded PHY stays off beside a dongle that breaks on it |
| `SessionRestart` | 2 dongles | violated: restarting a scanning sniffer stops it |
| `FilesHang` | files of up to 3 advertisements, pipes of 1 | violated: a statement that raises on the first of them leaves `ingest_file` waiting for tshark, and the transaction open |

Each violated property states what a comment or a text of the program says; the
findings in `PROJECT.json` quote it.

**Known deviations.**  Twelve more places where the program does not do what it says
have a property and a configuration of their own, in which TLC shows how; run
`tlc -config X.cfg MODULE.tla`, with `-continue` for the one that has two properties.

| configuration, module | property | the program says | what happens |
|---|---|---|---|
| `CliGoneDongle`, `MCSnifferCli` | `PresentDonglesFillGaps` | "gaps in primary-channel coverage are filled automatically" (`capture/coordinator.py:6-9`) | a dongle that was unplugged keeps its Pinned role over a refresh, and the rescan (`:206`) leaves its channel out |
| `SessionDeclined`, `MCCaptureSession` | `DeclinedRestartsAreRetried` | a declined restart "is recoverable on the next tick (the watchdog will try again ...)" (`capture/watchdog.py:300-304`) | a restart that left no subprocess makes the sniffer ineligible (`:217`) for good |
| `IngestWrongCredit`, `MCLiveIngest` | `CreditsTheLastTransmitter` | a dropout is credited to the recent transmitter only (`capture/live_ingest.py:44-48`) | after a rollback SQLite hands the row id remembered at `:356` to another device |
| `ClustersReplaced`, `MCClusters` | `RunsReplaceClusters` | `apply_run` "wipes existing clusters of that source before writing the new state" (`db/repos.py:1341-1344`, the docstring of the class) | it adds to them (`:1381-1500`), as its own docstring says; `ClustersOnlyGrow` and `ImplementsPartition` state that |
| `ClustersCrossClass`, `MCClusters` | `MergesAreWithinAClass` | "Cross-class merges are forbidden by construction" (`cluster/base.py:130`) | a device classified anew during a run is merged all the same (`ui/canvas.py:4180`) |
| `SnifferEarlyErrors`, `MCSnifferProcess` | `EarlyErrorsSurface` | stderr is captured so that import failures "surface as last_error" (`extcap/sniffer.py:190-192`) | an extcap that dies at once leaves `start` blocked (`:206`) before the thread that reads stderr is started |
| `StartupLog`, `MCStartup` | `CanvasLogsToTheLiveFile` | an ingest beside a canvas does not write to capture.log (`single_instance.py:19-22`) | every command opens it and logs its start (`__main__.py:34-39`), and may rotate it away under the canvas; so does a second canvas before it is refused |
| `RegistryBadge`, `MCSnifferRegistry` | `StallsShowABadge` | stalls show up as a badge "both within a session and across btviz restarts" (`ui/canvas.py:3738-3742`) | within the session nothing refreshes the panel, across restarts the badge compares with the start of the session |
| `DrainSingles`, `MCLogDrain` | `RepeatsAreSummedUp` | a repeat "is included in the next periodic summary" (`log_drain/drainer.py:20-22`) | a single repeat in a window is in none (`:314-319`) |
| `DrainSinkSize`, `MCLogDrain` | `SinkIsBounded` | the sink "never produces a file marginally larger than max_bytes" (`log_drain/tailer.py:53-55`) | the size compared is that on disk (`:79`); the summaries of a tick are buffered, so a file may exceed the limit by them (`SinkOverrunsByOneTick`) |
| `PrefsDeviations`, `MCPreferences` | `PrefsAreValid` | "out-of-range or wrong-type values fall back to the default" (`preferences/loader.py:9-12`) | `nan` in a file passes both comparisons (`:105-108`); as `watchdog.stall_threshold_s` it keeps the watchdog from ever firing |
| `PrefsDeviations`, `MCPreferences` | `PrefsAreAvailable` | a file that cannot be read is passed over, an invalid value replaced by its default (`preferences/loader.py`) | a write cut off inside one of the dashes of the comments, or `max_attempts = inf`, makes loading raise (`:117-125`, `:91`); `main` and `default_db_path` swallow that, Start Capture and the dialog do not |

**Bounds.**  Two dongles give one pinned and one scanning sniffer, three are all
pinned, four leave one in reserve: `default_roles` makes no other distinction.
One Follow target suffices, since targets are compared with one another nowhere.
In the `Session` run, with more than two dongles at most one sniffer is in the
watchdog's hands at a time (`FewInTrouble`): the watchdog treats sniffers
independently of each other.  A queue of two with three packets reaches an
eviction while a batch is being written; two readers and two instants reach a
late append and a CRC failure outside the window.  Four devices are the fewest of
which two clusters can be merged; the limit of three keeps the runs short
without losing that, since clusters build up over runs.  Two generations are an
old one and its successor; one kind of thread stands for the three in `Sniffer`,
since they touch no state of each other, and the proofs hold for any set of kinds.
`MaxPackets`, `MaxTime`, `MaxStarts` (generations) and `MaxCtrl` (control messages
not yet read) are the counters that are cut off.

Three files give two rotations, so that one can come while the drainer is behind
by another; an output file of one line rotates with each; two backups are the
fewest that can be shifted in the wrong order.  Three processes are a holder of
the lock, one it is refused to and one that comes after a crash, and three
versions make a script that is neither the first nor the last.  Two ports hold a
kit, which takes both, or two single units.  A device's class comes from
one packet and is sharpened or contradicted by the next, so two records, two
frames and two sessions reach every order; pipes of one record block at
once.  The `Prefs` fields are one of each type and of each kind of constraint, in
files of one, three and two fields; texts that spell a number, one of them out of
bounds, and NaN are left in them by hand.  `MaxLines`, `MaxFiles`, `MaxOutput`,
`MaxPlugs`, `MaxStalls`, `MaxRecords`, `MaxFrames`, `MaxSessions` and
`MaxWarnings` cut counters off.

A constraint and liveness: in `Session`, `FewInTrouble` cuts off behaviours in
which two of more than two dongles are in trouble.  That can hide a violation of
`WedgedSniffersAreHandled` in such states but cannot make one up; with two dongles
nothing is cut off, and there the property is checked in full.

**Fairness.**  `CaptureSession` assumes that time passes, that the Qt timer keeps
calling `_live_tick` (the main thread is never blocked for ever, see
*Limits*) and that the main thread finishes a `start_discover` it began.
`LiveIngest` assumes the timer, that a flush under way is finished, and that a
thread in a callback goes on.  Nothing is assumed of users, endpoints, packets
or failures.  A Rollback counts as finishing a flush.  `Clusters`
assumes that the worker finishes or fails and that Qt delivers its signal.
`SnifferProcess` assumes that a call and a reader thread go on whenever they are
not blocked, that an extcap opens its pipes or dies, and that it dies once it
has been terminated (a wait that times out is followed by `kill`).  `LogDrain`
assumes that the drainer runs, nothing of the clock and of who logs.
`FilesHang` assumes that both processes run and that tshark comes to the end of
its file; it is the counterexample that needs it.

## 5. Proofs

`CoordinatorProofs` proves, operation by operation, that `CoordInv` is
preserved: types, every role in the table is one its constructor would accept,
running sniffers serve their role, and scanners hop the gap.  The lemmas are
about the operations; the command line and the canvas session, which the same
module goes on to, share them.

* **Command line and session.**  `RolesAreHonoured` alone is not inductive: what
  `_apply_role` makes of a sniffer depends on its role being well-formed, and a
  plan under way must be a plan for dongles of the discovery result.  The
  invariants, `CliInv` and `IInv`, are `CoordInv` with `todo \subseteq dongles` and
  parts of their own (who runs, what a stop leaves; for the session also that a
  sniffer is stuck exactly when its count passed the limit, without which the
  bound on attempts is not inductive).  From them follow `CliHonoursRoles`,
  `CliScansTheRest`, `CliCoverageComesBack`, `CliFillsGaps`, and `SessionHonoursRoles`,
  `SessionGivesUpOnce`, `SessionStopsClean`, `SessionKeepsSniffersRunning`.
  `CliCoverageComesBack` needs both halves: a channel is either pinned, then its
  pinned sniffer runs, or in the gap, then the scanner runs and hops it.  That the
  hop set of a running scanner is the gap may fail after a start that raised half
  way; the invariant says that it is the gap again once all that should run does
  (`ScannersRetuned`), since the command that started the last of them went through
  its rescan.  `CliFillsGaps` is the case without failures.
* **The reserve.**  `SessionProtectsCoverage` is about the order of
  `default_roles`: the lemmas `PlanPinsEachPrimary` and `PlanReservesTheRest` say
  for any number of dongles which positions it pins and which it reserves.  The
  invariant says that the role table is the plan so far while the plan is worked
  through, and after that, unless more sniffers follow than were reserved, the plan
  but for reserved ones that follow.  That a follow request keeps to that is a
  counting argument: if no reserved sniffer were left to take, all of them and
  then one more would follow.
* **Live ingest.**  The invariant is type correctness, the accounting equation
  and the bound at a stop.  The bound needs the remark that after `Unsubscribe`
  the packets queued or in callbacks together never grow, and the flush of
  `stop` leaves at most one per reader.  Theorems: `IngestTypes`,
  `IngestConservesPackets`, `IngestStopLosesLittle`.  Three more invariants build
  on it.  `MemoryInv` says what flushes remember of rows until one fails: an id is
  handed out once, the cache holds the clue of a row that exists
  (`IngestCacheIsCurrent`), and the row a CRC failure would be credited to is that
  of the device last heard.  `TimeInv` adds that packets keep their order from the
  callback over the queue to the batch, so that a CRC failure is never older than
  the clean packet it is measured against; both together give
  `IngestCreditsTheLastTransmitter`, which is about steps.  For
  `IngestRecordedCountsRows` the open transaction is ahead of the committed tables
  by the advertisements written so far.  The sum over rows is a function defined by
  recursion on sets; what it is after a row has changed is shown by picking a smallest
  set on which that would fail.  The other inductions here go the same way, as the
  induction theorems of the library cannot be instantiated.

* **Clusters.**  The invariant says of the inside of a transaction that the
  dictionary and the table agree (`Agree`) and that the tables have grown out of
  the committed ones (`Grows`): soundness alone is not inductive, since each case
  of the loop decides by the dictionary and writes to the table.  The lemmas
  about the four cases speak of the dictionary only.  Theorems:
  `ClustersStaySound`, `ClustersNeverShrink`.  For the refinement,
  `ClustersImplementPartition`, the invariant adds that the grouping `Spans` the
  decisions applied so far: the sets of devices no decision crosses are the sets
  no cluster is cut by, which needs no induction over paths.

* **Sniffer process.**  The invariant says for each place the caller can be in
  which handles the object holds, that subprocesses of earlier generations have
  at least been told to end, and whose threads may run.  That a stop joins the
  threads matters only together with the event: it is clear exactly while a
  generation may read.  Theorems: `SnifferTypes`, `SnifferStopsClean`,
  `SnifferReadersAreCurrent`.  For `SnifferTunedAsStated` it is strengthened by what
  the extcap will be tuned to once it has read what is in its FIFO.

* **Log drain.**  The invariant says that the files partition the log in their
  order, that the position is in the open file with everything in it up to there
  read or skipped, and where a calm run of the drainer can be relative to the path
  (`CalmPlaces`).  Only then is it inductive that a tick or a reopen leaves nothing
  out (`DrainReadsOnceInOrder`).  `DrainRepeatsHaveAnExample` needs that a template is
  known exactly if a line of it was read, and that what was left unread before
  something read lies behind.  `DrainKeepsTheLatest` has an invariant of its own:
  the output files are consecutive intervals (`Marks`), between two writes of a tick
  too; what an interval may be long gives `DrainOverrunsByOneTick`.  Flattening the backups is recursive, so what it gives is reduced to these
  intervals by a least counterexample.
* **Start-up.**  A migration is between two statements of a script when it is
  killed or overtaken, so the invariant says for each place a process can be in
  what the schema has at least (`StartupVersionIsBacked`), and exactly if nothing
  was `torn` or `met` (`StartupFailsOnlyIfDisturbed`): then only one process
  migrates, and what it has yet to run is what is missing.
  `StartupLockIsTheLiveCanvas` is the part about `flock`.
* **Sniffers table.**  What the discovery thread carries is older than the table it
  is written to.  The invariant (`WorkerHasSeen`) says what of it can be relied on:
  a port or serial number that has been on the bus since the thread began is in
  what it hands over, unless both its looks at the bus failed.  With it go what
  the panel read last (`PanelShowsTheTable`) and that the session's dongles are in
  the table and active: `CapturingIsShownActive` speaks of the panel and is not
  inductive.  Theorems: `RegistryTypes`, `RegistryPanelShowsTheTable`,
  `RegistryShowsTheSession`, and about steps `RegistryKeepsPresentActive`.
* **File ingest.**  `WritersInv` says that the context of a writer and the tables
  it writes to agree about classes: the transaction's with what the transaction
  sees, the live session's with what is committed unless `stale`.  With the lemma
  that an update of a class is a sharper one (`RecordedSharpens`), each writer only
  sharpens, and so does the commit (`FileClassOnlySharpens`, for any packets at
  all).  `FilesInv` relates four things: what tshark has yet to write, what is in
  its pipe, the number of records read, and what the open transaction holds, which
  is what the records read so far amount to.  At the end of the output nothing is
  left, so it is the whole file.  That `record_packet` leaves the rows of other
  sessions alone (`RecordedElsewhere`) keeps the files that are in the tables
  complete.  What an announcement decodes to is data, so `FileSessionsComplete` has
  the hypothesis `RecordsSayWhatTheyAre`: the decoder makes of a record what its
  transmitter said.  `MCFileIngest` states it as an ASSUME, which TLC evaluates on
  the records of the runs; it fails for service data behind lists of UUIDs
  (`WithUuidLists`, see *Limits*), and so does the property.
* **No ghost devices.**  `FileNoGhostDevices` is about bytes.  Its lemmas go through
  the decoder: from any buffer, cut off anywhere, legacy or extended, with or
  without the Nordic header, the address decoded is the sender's or there is none
  (`DecodesTheSender`); a packet whose CRC was wrong is not looked at for an
  identity.  `SentInv` then follows the packets: what is in the pipe, in the open
  transaction and in the tables stems from senders.  The hypothesis
  `RecordsAndFramesAreSent` says of the inputs what a radio does: bytes that pass
  the CRC are the sender's PDU, cut off or not, and the CRC flag tells the others.
  TLC evaluates it on the inputs of `MCFileIngest`.
* **Preferences.**  `PrefsInv` says that values in effect, in the dialog and in the
  files are of their fields' types and within bounds, or NaN where the field is a
  float (`Tolerates`), and that a file in `saved` holds what was saved in it.  The
  lemmas are about `Validate`: what it lets pass is tolerated, numbers spelt in texts
  included, and a tolerated value passes unchanged, also after it was written and
  read back (`Reloaded`), which is what `PreferencesReloadSaved` rests on.
  `PreferencesAreValidButForNan` holds whatever the files contain.  Their hypotheses
  say that the schema is in order (`SchemaIsSound`: defaults within bounds, bounds
  with two decimals, no numeric field with a list of values, environment variables
  for paths only) and that what is read has a type, that the environment gives texts
  and the dialog's widgets keep to the schema (`InputsAreTyped`).  `CodedPhyStaysOff`
  adds `BrokenDonglesAnswer`: a dongle with the broken firmware, if it is heard at
  all, says so at one of the baud rates and is not taken for another version before.
  `MCPreferences` states all three as ASSUMEs.

Assumptions: the named ASSUMEs of the modules (constants are sets and numbers of
the right kind, `NoAddr`, `NoDev`, `NoName` are no members; the migration scripts
of `Startup` come one after the other in the numbering of their statements), and
the hypotheses just named, nothing else.

The theorems of type correctness (`SessionTypes`, `IngestTypes`, `ClustersTypes`,
`SnifferTypes`, `DrainTypes`, `StartupTypes`, `RegistryTypes`) and
`CliHonoursRoles` (which says `RoleDrivesSniffer` of the command line) are proved
only: no run repeats them, since TLC finds an ill-typed state by the other
properties or not at all.

Only model-checked: everything about eventually (liveness and ENABLED are out of
the prover's reach here), and the facts about data the hypotheses state: what the
decoder makes of the announcements of `MCFileIngest`, that SLIP decoding inverts
encoding, and that the shipped schema is in order.

## 6. Limits

Not modelled at all: drawing and layout (`channel_strip`, the painting of
`sniffer_panel`, the canvas itself), lookup tables (`vendors`, `device_classes`),
the formatting of logs, stubs (`probe`, `interrogator`), the USB enrichment
nothing calls (`usb_info`), and what the cluster signals score: floating-point
weights, of which `Clusters` leaves the outcome open.  Projects, groups, layouts and
keys are single statements without an invariant across them.

Left out of the modelled parts: `reset` and `reset_all` of the watchdog and of
`Preferences`, `set_name`, `undelete` and `clear_stall_counter` of the sniffers
table (nothing calls them), UI callbacks and status-line counters of ingest, the
`preferred` argument of follow requests (no caller passes it), BIGInfo, times,
RSSI, channels and PHYs.  A `start` that blocks for ever on a FIFO is not an
outcome of `Coordinator`: `SnifferProcess` has it.  Of the latter, the methods
that feed keys and clear the device list are left out (nothing calls them).  In
`LogDrain` a line is written whole and all lines of the output have one length.
In `Preferences` texts have no control characters (they would be written as broken
TOML).

Observed while reading, without a run: `ui/canvas.py:3759-3763` says extra dongles
are parked as ScanUnmonitored, while the code parks them as Idle; the first plan
of the command line runs outside the `try` whose `finally` stops the sniffers
(`cli` = "crashed" in the model), so an exception there leaves subprocesses.  The watchdog counts every restart of
a session, also those after which packets flowed again, where
`preferences/schema.py:187-190` speaks of failed attempts.  After a flush that
rolled back the identity cache still holds the lost clue
(`ingest/pipeline.py:202`), so the clue is not written again in that session;
`CacheIsCurrentUntilRollback` says exactly up to where the cache is right.
`_recompute_scan_unmonitored` (`capture/coordinator.py:206`) reads the role table
only, so a channel pinned by a sniffer whose start failed counts as covered and
nobody hops it until a command starts it; `GapsAreFilled` is therefore stated for
starts that succeed, and `CoverageComesBack` for the time when all that should run
does.  A
running sniffer taken from Follow to Pinned or ScanUnmonitored keeps the followed
address, since `_apply_role` (`:180`) sends it nothing but a hop set.

* *Drain.*  `_open_input` and `_stat_inode` are two steps (`tailer.py:180-182`): a
  file that appears in between is taken for the open one until the next rotation.
  Lines written after the last read and before a rotation is noticed are lost, and
  two rotations in one poll lose a file; `calm` in the model says exactly when.
* *Start-up.*  A process killed in the middle of a migration leaves a database no
  start can open (`FailsOnlyIfDisturbed` excludes it: `torn`), and so do two
  processes migrating at once; the store is opened before the lock is taken.  The
  dialog of a refused canvas may name an earlier holder, if it reads between
  `flock` and the stamp.
* *Sniffers.*  `record_discovered` speaks of an atomic update (`repos.py:995`), but
  its statements commit one by one.  A result of the initial discovery that comes
  late overwrites the session's sweep (`late`).  The watchdog does not count
  stalls of dongles without a serial number.
* *Ingest.*  A class learned by a file is not known to a live session under way, which
  may replace it by a less specific one (`stale`).  The pairing of service data with
  UUIDs in `auracast.py:49-53` breaks when a list holds other than one UUID
  (`WithUuidLists` turns that on).  The model name, unlike the class, has no
  precedence.
* *Preferences.*  A number cut off in the middle is loaded as a smaller one without
  a warning if it is in bounds.  A save that fails half-way reports that nothing was
  updated, and its values stay in effect until the end of the process.  A value
  from the environment is written to the file by the next save.  What is edited by
  hand while a process runs is overwritten by its next save.  The dialog
  rounds to two decimals, and shows a bound for NaN, which its next save then writes.
  A dongle that is not heard of in time while the dialog opens does not disable Coded
  PHY, whatever it runs.  Nothing reads `general.nrf_extcap_path`,
  `general.log_dir`, `watchdog.period_s` and `canvas.*`.
