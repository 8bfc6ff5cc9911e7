----------------------------- MODULE LiveIngest -----------------------------
(***************************************************************************)
(* One live session of LiveIngest (capture/live_ingest.py): reader threads *)
(* decode packets and append them to a bounded deque, the main thread      *)
(* drains it into SQLite, one transaction per flush, and the canvas starts *)
(* and stops the session (ui/canvas.py).                                   *)
(*                                                                         *)
(* A reader stands for one (source, channel) pair, the key of the cache    *)
(* that credits CRC failures.  A packet keeps what decides its way: what   *)
(* the decoder made of it, the device its address belongs to, the one      *)
(* identity clue it carries and its time stamp.  UI notifications and the  *)
(* counters only a status line shows are left out.                         *)
(*                                                                         *)
(* OnPacket moves its counters in one step: CPython (3.11 and later, which *)
(* the package requires) switches threads at calls and at the ends of      *)
(* loops, so `stats.packets_received += 1` is not torn.                    *)
(***************************************************************************)
EXTENDS Integers, Sequences, FiniteSets

CONSTANTS
  Readers,        \* the (source, channel) pairs packets arrive on
  Devs,           \* stable keys of devices on the air
  Names,          \* values of the identity clue
  NoDev, NoName,  \* "none"
  Cap,            \* queue_cap
  Window,         \* _CRC_ATTRIB_WINDOW_S
  FlushMayFail,   \* can a statement of the write transaction raise?
  MaxPackets,     \* bound: packets delivered in one session
  MaxTime         \* bound: time stamps run from 0 to MaxTime

ASSUME IngestAssumption ==
  /\ NoDev \notin Devs /\ NoName \notin Names
  /\ IsFiniteSet(Devs) /\ IsFiniteSet(Readers)
  /\ Cap \in Nat \ {0} /\ Window \in Nat
  /\ FlushMayFail \in BOOLEAN
  /\ MaxPackets \in Nat /\ MaxTime \in Nat

VARIABLES
  phase,      \* of the session, see Phases
  subscribed, \* _unsub is not None
  reader,     \* reader[r]: where the reader thread stands and the packet it holds
  queue,      \* _queue
  batch,      \* what the flush under way drained from it, <<>> when none is
  written,    \* how many packets of the batch record_packet has been through
  disk,       \* committed tables
  work,       \* tables as the main thread's connection sees them
  cached,     \* ctx.device_state: the clue known for a row id
  lastClean,  \* _last_clean_device[r], a time stamp and a row id
  stats,      \* LiveIngestStats and _source_rejected
  now,        \* the clock behind the time stamps
  heard,      \* history: device and time stamp last recorded cleanly for r
  fate        \* history: packets by what became of them

readVars == <<reader, queue>>
flushVars == <<batch, written, disk, work, cached, lastClean, heard>>
vars == <<phase, subscribed, readVars, flushVars, stats, now, fate>>

Phases ==
  {"new", "starting", "live", "stopping", "draining", "closing", "ended", "aborted"}

Ids == 1..Cardinality(Devs)

(* Only a clean advertising packet has an address that means anything.     *)
Packet ==
  {p \in [src : Readers, ts : 0..MaxTime,
          kind : {"undecodable", "own", "noaddr", "crc", "adv"},
          dev : Devs \cup {NoDev}, name : Names \cup {NoName}] :
     /\ p.kind = "adv" => p.dev # NoDev
     /\ p.kind # "adv" => p.dev = NoDev /\ p.name = NoName}

OnAir(r, t) == {p \in Packet : p.src = r /\ p.ts = t}

(* A thread between two callbacks, and all the states of one.              *)
Reading == [pc |-> "reading", pkt |-> <<>>]
Thread == {Reading} \cup [pc : {"called", "append"}, pkt : Packet]

Stats == [received : Nat, rejected : Nat, decoded : Nat, dropped : Nat, recorded : Nat]
Fate == [own : Nat, flushed : Nat, lost : Nat]

(* The tables: rows of devices (0: no row), their clue, and packet_count   *)
(* and bad_packet_count of this session's observations.                    *)
Tables == [id : [Devs -> 0..Cardinality(Devs)], name : [Devs -> Names \cup {NoName}],
           good : [Devs -> Nat], bad : [Devs -> Nat]]

NotCached == <<>>
CachedClue == {NotCached} \cup {<<n>> : n \in Names \cup {NoName}}

NoEntry == [ts |-> 0, id |-> 0]
CleanEntry == [ts : 0..MaxTime, id : 0..Cardinality(Devs)]
Heard == [dev : Devs \cup {NoDev}, ts : 0..MaxTime]

(* Devices found by earlier sessions have rows already.                    *)
InitialTables ==
  {t \in [id : [Devs -> 0..Cardinality(Devs)], name : [Devs -> Names \cup {NoName}],
          good : [Devs -> {0}], bad : [Devs -> {0}]] :
     /\ \A d, e \in Devs : t.id[d] = t.id[e] /\ t.id[d] # 0 => d = e
     /\ \A d \in Devs, i \in Ids : t.id[d] > i => \E e \in Devs : t.id[e] = i
     /\ \A d \in Devs : t.id[d] = 0 => t.name[d] = NoName}

Init ==
  /\ phase = "new" /\ subscribed = FALSE
  /\ reader = [r \in Readers |-> Reading]
  /\ queue = <<>> /\ batch = <<>> /\ written = 0
  /\ disk \in InitialTables /\ work = disk
  /\ cached = [i \in Ids |-> NotCached]
  /\ lastClean = [r \in Readers |-> NoEntry]
  /\ stats = [received |-> 0, rejected |-> 0, decoded |-> 0, dropped |-> 0, recorded |-> 0]
  /\ now = 0
  /\ heard = [r \in Readers |-> [dev |-> NoDev, ts |-> 0]]
  /\ fate = [own |-> 0, flushed |-> 0, lost |-> 0]

(***************************************************************************)
(* The canvas.  LiveIngest.start opens the session and subscribes; the     *)
(* timer that flushes exists once start_discover has returned, so a        *)
(* session whose start_discover raised stays "starting".                   *)
(***************************************************************************)
Start ==
  /\ phase = "new"
  /\ phase' = "starting" /\ subscribed' = TRUE
  /\ UNCHANGED <<readVars, flushVars, stats, now, fate>>

StartTimer ==
  /\ phase = "starting"
  /\ phase' = "live"
  /\ UNCHANGED <<subscribed, readVars, flushVars, stats, now, fate>>

(* _stop_live drops the timer, then has stop_all join the reader threads.  *)
(* Each join gives up after a second, so LiveIngest.stop may unsubscribe   *)
(* while a reader is in a callback.                                        *)
BeginStop ==
  /\ phase \in {"starting", "live"} /\ batch = <<>>
  /\ phase' = "stopping"
  /\ UNCHANGED <<subscribed, readVars, flushVars, stats, now, fate>>

Unsubscribe ==
  /\ phase = "stopping"
  /\ phase' = "draining" /\ subscribed' = FALSE
  /\ UNCHANGED <<readVars, flushVars, stats, now, fate>>

(* Mutant: stop() leaves out its flush.                                    *)
EndSessionUnflushed ==
  /\ phase = "draining"
  /\ phase' = "ended"
  /\ UNCHANGED <<subscribed, readVars, flushVars, stats, now, fate>>

(* stop() after its flush, or when there was nothing to flush *)
EndSession ==
  /\ \/ phase = "draining" /\ queue = <<>>
     \/ phase = "closing" /\ batch = <<>>
  /\ phase' = "ended"
  /\ UNCHANGED <<subscribed, readVars, flushVars, stats, now, fate>>

Tick ==
  /\ now < MaxTime
  /\ now' = now + 1
  /\ UNCHANGED <<phase, subscribed, readVars, flushVars, stats, fate>>

(***************************************************************************)
(* Reader threads: EventBus.publish, then _on_packet.  The subscription is *)
(* looked up before the callback runs, the counters move before the lock   *)
(* of the queue is taken.                                                  *)
(***************************************************************************)
InCallback == {r \in Readers : reader[r].pc # "reading"}
Appending  == {r \in Readers : reader[r].pc = "append"}

Publish(r, p) ==
  /\ reader[r].pc = "reading" /\ subscribed
  /\ stats.received + Cardinality({x \in Readers : reader[x].pc = "called"}) < MaxPackets
  /\ reader' = [reader EXCEPT ![r] = [pc |-> "called", pkt |-> p]]
  /\ UNCHANGED <<phase, subscribed, queue, flushVars, stats, now, fate>>

OnPacket(r) ==
  /\ reader[r].pc = "called"
  /\ LET kind == reader[r].pkt.kind
         accepted == kind \notin {"undecodable", "own"}
     IN  /\ stats' = [stats EXCEPT !.received = @ + 1,
                                   !.rejected = IF kind = "undecodable" THEN @ + 1 ELSE @,
                                   !.decoded  = IF accepted THEN @ + 1 ELSE @]
         /\ fate' = [fate EXCEPT !.own = IF kind = "own" THEN @ + 1 ELSE @]
         /\ reader' = [reader EXCEPT ![r] = IF accepted THEN [@ EXCEPT !.pc = "append"]
                                            ELSE Reading]
  /\ UNCHANGED <<phase, subscribed, queue, flushVars, now>>

(* append to deque(maxlen = Cap) *)
Append1(q, p) == Append(IF Len(q) = Cap THEN Tail(q) ELSE q, p)

\* Mutant: an eviction nobody counts.
EnqueueUncounted(r) ==
  /\ reader[r].pc = "append"
  /\ queue' = Append1(queue, reader[r].pkt)
  /\ reader' = [reader EXCEPT ![r] = Reading]
  /\ UNCHANGED <<phase, subscribed, flushVars, stats, now, fate>>

Enqueue(r) ==
  /\ reader[r].pc = "append"
  /\ queue' = Append1(queue, reader[r].pkt)
  /\ stats' = [stats EXCEPT !.dropped = IF Len(queue) = Cap THEN @ + 1 ELSE @]
  /\ reader' = [reader EXCEPT ![r] = Reading]
  /\ UNCHANGED <<phase, subscribed, flushVars, now, fate>>

(***************************************************************************)
(* flush, by the timer or by stop: the queue is emptied, then each packet  *)
(* goes through record_packet inside one transaction.                      *)
(***************************************************************************)
(* Mutant: only a full queue is flushed.                                   *)
FlushWhenFull ==
  /\ phase \in {"live", "draining"} /\ batch = <<>> /\ Len(queue) = Cap
  /\ batch' = queue /\ queue' = <<>> /\ written' = 0
  /\ phase' = IF phase = "draining" THEN "closing" ELSE phase
  /\ UNCHANGED <<subscribed, reader, disk, work, cached, lastClean, heard, stats, now, fate>>

Flush ==
  /\ phase \in {"live", "draining"} /\ batch = <<>> /\ queue # <<>>
  /\ batch' = queue /\ queue' = <<>> /\ written' = 0
  /\ phase' = IF phase = "draining" THEN "closing" ELSE phase
  /\ UNCHANGED <<subscribed, reader, disk, work, cached, lastClean, heard, stats, now, fate>>

(* The id of d's row after devices.upsert: SQLite hands out one more than  *)
(* the largest row id in the table, so an id that was rolled back is used  *)
(* again.                                                                  *)
IsRowOf(d, i) ==
  IF work.id[d] # 0 THEN i = work.id[d]
  ELSE /\ \A e \in Devs : work.id[e] < i
       /\ i = 1 \/ \E e \in Devs : work.id[e] = i - 1

(* Mutant: the cache is not told what the table has learnt.                *)
RecordAdvStaleCache(p, i) ==
  LET known == IF cached[i] = NotCached THEN <<work.name[p.dev]>> ELSE cached[i]
      learnt == p.name # NoName /\ p.name # known[1]
  IN  /\ IsRowOf(p.dev, i)
      /\ work' = [work EXCEPT !.id[p.dev] = i,
                              !.name[p.dev] = IF learnt THEN p.name ELSE @,
                              !.good[p.dev] = @ + 1]
      /\ cached' = [cached EXCEPT ![i] = known]
      /\ lastClean' = [lastClean EXCEPT ![p.src] = [ts |-> p.ts, id |-> i]]
      /\ heard' = [heard EXCEPT ![p.src] = [dev |-> p.dev, ts |-> p.ts]]

(* record_packet for a clean advertising packet: the device row, the clue  *)
(* if the cache does not have it, the observation.                         *)
RecordAdv(p, i) ==
  LET known == IF cached[i] = NotCached THEN <<work.name[p.dev]>> ELSE cached[i]
      learnt == p.name # NoName /\ p.name # known[1]
  IN  /\ IsRowOf(p.dev, i)
      /\ work' = [work EXCEPT !.id[p.dev] = i,
                              !.name[p.dev] = IF learnt THEN p.name ELSE @,
                              !.good[p.dev] = @ + 1]
      /\ cached' = [cached EXCEPT ![i] = IF learnt THEN <<p.name>> ELSE known]
      /\ lastClean' = [lastClean EXCEPT ![p.src] = [ts |-> p.ts, id |-> i]]
      /\ heard' = [heard EXCEPT ![p.src] = [dev |-> p.dev, ts |-> p.ts]]

(* Mutant: a clean packet is remembered for ever.                          *)
CreditedForEver(p) ==
  {d \in Devs : lastClean[p.src].id # 0 /\ work.id[d] = lastClean[p.src].id}

(* A CRC failure is credited to the row cached for its source and channel. *)
(* No row has that id after a rollback: the insert violates the foreign    *)
(* key, which flush catches.                                               *)
Credited(p) ==
  {d \in Devs : /\ lastClean[p.src].id # 0
                /\ p.ts - lastClean[p.src].ts <= Window
                /\ work.id[d] = lastClean[p.src].id}

RecordOther(p) ==
  /\ work' = [work EXCEPT !.bad = [d \in Devs |->
       IF p.kind = "crc" /\ d \in Credited(p) THEN @[d] + 1 ELSE @[d]]]
  /\ UNCHANGED <<cached, lastClean, heard>>

Record ==
  /\ written < Len(batch)
  /\ LET p == batch[written + 1]
     IN  IF p.kind = "adv" THEN \E i \in Ids : RecordAdv(p, i) ELSE RecordOther(p)
  /\ written' = written + 1
  /\ UNCHANGED <<phase, subscribed, readVars, batch, disk, stats, now, fate>>

AdvIn(b) == Cardinality({k \in DOMAIN b : b[k].kind = "adv"})

Commit ==
  /\ batch # <<>> /\ written = Len(batch)
  /\ disk' = work
  /\ stats' = [stats EXCEPT !.recorded = @ + AdvIn(batch)]
  /\ fate' = [fate EXCEPT !.flushed = @ + Len(batch)]
  /\ batch' = <<>> /\ written' = 0
  /\ UNCHANGED <<phase, subscribed, readVars, work, cached, lastClean, heard, now>>

\* Mutant: what was written before the failure is counted as recorded.
RollbackCounts ==
  /\ FlushMayFail /\ batch # <<>>
  /\ work' = disk
  /\ stats' = [stats EXCEPT !.recorded = @ + AdvIn(SubSeq(batch, 1, written))]
  /\ fate' = [fate EXCEPT !.lost = @ + Len(batch)]
  /\ batch' = <<>> /\ written' = 0
  /\ phase' = IF phase = "closing" THEN "aborted" ELSE phase
  /\ UNCHANGED <<subscribed, readVars, disk, cached, lastClean, heard, now>>

(* A statement, or the commit, raises: the tables roll back, the batch is  *)
(* gone, and what record_packet and flush remembered of it stays.          *)
Rollback ==
  /\ FlushMayFail /\ batch # <<>>
  /\ work' = disk
  /\ fate' = [fate EXCEPT !.lost = @ + Len(batch)]
  /\ batch' = <<>> /\ written' = 0
  /\ phase' = IF phase = "closing" THEN "aborted" ELSE phase
  /\ UNCHANGED <<subscribed, readVars, disk, cached, lastClean, heard, stats, now>>

Next ==
  \/ Start \/ StartTimer \/ BeginStop \/ Unsubscribe \/ EndSession \/ Tick
  \/ \E r \in Readers : \/ \E p \in OnAir(r, now) : Publish(r, p)
                        \/ OnPacket(r) \/ Enqueue(r)
  \/ Flush \/ Record \/ Commit \/ Rollback

Spec == Init /\ [][Next]_vars

(* Fairness: the main thread finishes a flush it has begun and the timer   *)
(* keeps firing; a reader thread in a callback runs on.                    *)
Fairness ==
  /\ WF_vars(Flush) /\ WF_vars(Record) /\ WF_vars(Commit)
  /\ \A r \in Readers : WF_vars(OnPacket(r) \/ Enqueue(r))

FairSpec == Spec /\ Fairness

-----------------------------------------------------------------------------
TypeOK ==
  /\ phase \in Phases /\ subscribed \in BOOLEAN
  /\ reader \in [Readers -> Thread]
  /\ queue \in Seq(Packet) /\ Len(queue) <= Cap
  /\ batch \in Seq(Packet) /\ Len(batch) <= Cap
  /\ written \in 0..Len(batch)
  /\ disk \in Tables /\ work \in Tables
  /\ cached \in [Ids -> CachedClue]
  /\ lastClean \in [Readers -> CleanEntry]
  /\ stats \in Stats
  /\ now \in 0..MaxTime
  /\ heard \in [Readers -> Heard]
  /\ fate \in Fate

(* No packet is lost without being counted: what was received is rejected, *)
(* our own, or decoded; what was decoded is about to be appended, queued,  *)
(* dropped, being written, written, or was in a batch that was rolled      *)
(* back.  Readers race each other and the flush all the time.              *)
EveryPacketIsAccountedFor ==
  /\ stats.received = stats.rejected + fate.own + stats.decoded
  /\ stats.decoded = Cardinality(Appending) + Len(queue) + stats.dropped
                     + Len(batch) + fate.flushed + fate.lost

(* stop() leaves at most one packet per reader thread out of the tables,   *)
(* the one its callback was busy with: everything queued before is written *)
(* (or was in the batch that failed).                                      *)
StopLosesAtMostOnePerReader ==
  phase \in {"ended", "aborted"} =>
    Len(queue) + Cardinality(InCallback) <= Cardinality(Readers)

(* live_ingest.py:44-48: a CRC failure is credited to the device that      *)
(* transmitted cleanly on the same source and channel in the last two      *)
(* seconds, and to no other.                                               *)
CreditIsDue ==
  \A d \in Devs : work'.bad[d] > work.bad[d] =>
    LET p == batch[written + 1]
    IN  heard[p.src].dev = d /\ p.ts - heard[p.src].ts \in 0..Window

CreditsTheLastTransmitter == [][CreditIsDue]_vars

(* It does so as long as no flush has failed.                              *)
CreditsUntilRollback == [][fate.lost = 0 => CreditIsDue]_vars

(* pipeline.py:94-95: the per-session cache holds the device's current     *)
(* identity fields, so that leaving out an update that changes nothing is  *)
(* safe.  It does so as long as no flush has failed: the cache is not      *)
(* rolled back, and the clue of a lost batch is not written again.         *)
CacheIsCurrentUntilRollback ==
  fate.lost = 0 =>
    \A d \in Devs :
      work.id[d] # 0 /\ cached[work.id[d]] # NotCached => cached[work.id[d]] = <<work.name[d]>>

(* packets_recorded is the number of clean packets in the session's        *)
(* committed observations, whatever flushes failed.                        *)
RecordedCountsCommittedRows ==
  LET total[S \in SUBSET Devs] ==
        IF S = {} THEN 0 ELSE LET d == CHOOSE x \in S : TRUE
                              IN  disk.good[d] + total[S \ {d}]
  IN  stats.recorded = total[Devs]

(* While the timer runs, nothing stays in the queue for ever.              *)
QueueIsDrained == phase = "live" /\ queue # <<>> ~> queue = <<>> \/ phase # "live"
=============================================================================
