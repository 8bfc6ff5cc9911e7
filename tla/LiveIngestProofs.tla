-------------------------- MODULE LiveIngestProofs --------------------------
(***************************************************************************)
(* What every live session satisfies, for any readers, devices, queue      *)
(* capacity, attribution window and number of packets.                     *)
(***************************************************************************)
EXTENDS LiveIngest, FiniteSetTheorems, TLAPS

(* Once the session has unsubscribed no callback begins, so what is still  *)
(* coming when the last flush has emptied the queue is one packet per      *)
(* reader at most.                                                         *)
StopBound ==
  /\ phase \in {"draining", "closing", "ended", "aborted"} => ~subscribed
  /\ phase \in {"closing", "ended", "aborted"} =>
       Len(queue) + Cardinality(InCallback) <= Cardinality(Readers)

IInv == TypeOK /\ EveryPacketIsAccountedFor /\ StopBound

LEMMA SetsAreFinite ==
  /\ IsFiniteSet(Appending) /\ Cardinality(Appending) \in Nat
  /\ IsFiniteSet(InCallback) /\ Cardinality(InCallback) \in Nat
  /\ Cardinality(InCallback) <= Cardinality(Readers) /\ Cardinality(Readers) \in Nat
BY IngestAssumption, FS_Subset, FS_CardinalityType DEF Appending, InCallback

LEMMA InitIInv == Init => IInv
<1> SUFFICES ASSUME Init PROVE IInv
  OBVIOUS
<1>1. disk \in Tables /\ work \in Tables
  <2>1. InitialTables \subseteq Tables
    BY DEF InitialTables, Tables
  <2>2. QED
    BY <2>1 DEF Init
<1>2. NotCached \in CachedClue /\ Reading \in Thread
  BY DEF CachedClue, Thread
<1>3. NoEntry \in CleanEntry
  BY IngestAssumption, FS_CardinalityType DEF NoEntry, CleanEntry
<1>4. [dev |-> NoDev, ts |-> 0] \in Heard /\ stats \in Stats /\ fate \in Fate
  BY IngestAssumption DEF Init, Heard, Stats, Fate
<1>5. queue \in Seq(Packet) /\ batch \in Seq(Packet) /\ Len(queue) = 0 /\ Len(batch) = 0
  BY DEF Init
<1>6. TypeOK
  <2>1. /\ reader \in [Readers -> Thread] /\ cached \in [Ids -> CachedClue]
        /\ lastClean \in [Readers -> CleanEntry] /\ heard \in [Readers -> Heard]
    BY <1>2, <1>3, <1>4 DEF Init
  <2>2. /\ phase \in Phases /\ subscribed \in BOOLEAN /\ written \in 0..Len(batch)
        /\ now \in 0..MaxTime /\ Len(queue) <= Cap /\ Len(batch) <= Cap
    <3>1. phase = "new" /\ subscribed = FALSE /\ written = 0 /\ now = 0
      BY DEF Init
    <3>2. written \in 0..Len(batch) /\ now \in 0..MaxTime /\ Len(queue) <= Cap /\ Len(batch) <= Cap
      BY IngestAssumption, <1>5, <3>1
    <3>3. phase \in Phases
      BY <3>1 DEF Phases
    <3>4. QED
      BY <3>1, <3>2, <3>3
  <2>3. QED
    BY <1>1, <1>4, <1>5, <2>1, <2>2 DEF TypeOK
<1>7. Cardinality(Appending) = 0
  <2>1. Appending = {}
    BY DEF Init, Reading, Appending
  <2>2. QED
    BY <2>1, FS_EmptySet
<1>8. EveryPacketIsAccountedFor
  BY <1>5, <1>7 DEF Init, EveryPacketIsAccountedFor
<1>9. QED
  BY <1>6, <1>8 DEF IInv, StopBound, Init

(* An append to the full deque evicts one packet.                          *)
LEMMA Append1Is ==
  ASSUME NEW q \in Seq(Packet), Len(q) <= Cap, NEW p \in Packet
  PROVE  /\ Append1(q, p) \in Seq(Packet) /\ Len(Append1(q, p)) <= Cap
         /\ Len(Append1(q, p)) = IF Len(q) = Cap THEN Cap ELSE Len(q) + 1
BY IngestAssumption DEF Append1

LEMMA AdvInIs == ASSUME NEW b \in Seq(Packet) PROVE AdvIn(b) \in Nat
<1>1. IsFiniteSet(DOMAIN b)
  BY FS_Interval
<1>2. QED
  BY <1>1, FS_Subset, FS_CardinalityType DEF AdvIn

LEMMA NextIInv == IInv /\ [Next]_vars => IInv'
<1> SUFFICES ASSUME IInv, [Next]_vars PROVE IInv'
  OBVIOUS
<1>1. TypeOK /\ EveryPacketIsAccountedFor /\ StopBound
  BY DEF IInv
<1>0. /\ queue \in Seq(Packet) /\ batch \in Seq(Packet) /\ written \in 0..Len(batch)
      /\ reader \in [Readers -> Thread] /\ stats \in Stats /\ fate \in Fate
      /\ disk \in Tables /\ work \in Tables /\ cached \in [Ids -> CachedClue]
      /\ lastClean \in [Readers -> CleanEntry] /\ heard \in [Readers -> Heard]
  BY <1>1 DEF TypeOK
<1>2. /\ Len(queue) \in Nat /\ Len(batch) \in Nat
      /\ stats.received \in Nat /\ stats.rejected \in Nat /\ stats.decoded \in Nat
      /\ stats.dropped \in Nat /\ stats.recorded \in Nat
      /\ fate.own \in Nat /\ fate.flushed \in Nat /\ fate.lost \in Nat
  BY <1>0 DEF Stats, Fate
<1>3. CASE Start \/ StartTimer \/ BeginStop \/ Unsubscribe \/ EndSession \/ Tick \/ UNCHANGED vars
  <2>1. UNCHANGED <<readVars, flushVars, stats, fate>>
    BY <1>3 DEF Start, StartTimer, BeginStop, Unsubscribe, EndSession, Tick, vars
  <2>2. /\ phase' \in Phases /\ subscribed' \in BOOLEAN /\ now' \in 0..MaxTime
    <3>1. phase \in Phases /\ subscribed \in BOOLEAN /\ now \in 0..MaxTime
      BY <1>1 DEF TypeOK
    <3>2. CASE Tick
      BY IngestAssumption, <3>1, <3>2 DEF Tick
    <3>3. CASE Start \/ StartTimer \/ BeginStop \/ Unsubscribe \/ EndSession
      BY <3>1, <3>3 DEF Start, StartTimer, BeginStop, Unsubscribe, EndSession, Phases
    <3>4. QED
      BY <1>3, <3>1, <3>2, <3>3 DEF vars
  <2>3. TypeOK'
    BY <1>1, <2>1, <2>2 DEF TypeOK, readVars, flushVars
  <2>4. EveryPacketIsAccountedFor'
    <3>1. Appending' = Appending
      BY <2>1 DEF Appending, readVars
    <3>2. QED
      BY <1>1, <2>1, <3>1 DEF EveryPacketIsAccountedFor, readVars, flushVars
  <2>5. StopBound'
    <3>1. phase' \in {"draining", "closing", "ended", "aborted"} => ~subscribed'
      BY <1>1, <1>3 DEF Start, StartTimer, BeginStop, Unsubscribe, EndSession, Tick, vars, StopBound
    <3>2. Cardinality(InCallback)' = Cardinality(InCallback)
      BY <2>1 DEF InCallback, readVars
    <3>3. phase' \in {"closing", "ended", "aborted"} =>
            phase \in {"closing", "ended", "aborted"} \/ Len(queue) = 0
      BY <1>3 DEF Start, StartTimer, BeginStop, Unsubscribe, EndSession, Tick, vars
    <3>4. queue' = queue
      BY <2>1 DEF readVars
    <3>5. QED
      BY <1>1, <1>2, <3>1, <3>2, <3>3, <3>4, SetsAreFinite DEF StopBound
  <2>6. QED
    BY <2>3, <2>4, <2>5 DEF IInv
<1>4. ASSUME NEW r \in Readers, NEW p \in OnAir(r, now), Publish(r, p)
      PROVE  IInv'
  <2>1. /\ reader' = [reader EXCEPT ![r] = [pc |-> "called", pkt |-> p]]
        /\ reader[r].pc = "reading" /\ subscribed
        /\ UNCHANGED <<phase, subscribed, queue, flushVars, stats, now, fate>>
    BY <1>4 DEF Publish
  <2>2. p \in Packet
    BY DEF OnAir
  <2>3. TypeOK'
    <3>1. [pc |-> "called", pkt |-> p] \in Thread
      BY <2>2 DEF Thread
    <3>2. reader' \in [Readers -> Thread]
      BY <1>0, <2>1, <3>1
    <3>3. QED
      BY <1>1, <2>1, <3>2 DEF TypeOK, flushVars
  <2>4. Appending' = Appending
    BY <1>0, <2>1 DEF Appending
  <2>5. EveryPacketIsAccountedFor'
    BY <1>1, <2>1, <2>4 DEF EveryPacketIsAccountedFor, flushVars
  <2>6. StopBound'
    BY <1>1, <2>1 DEF StopBound, TypeOK, Phases
  <2>7. QED
    BY <2>3, <2>5, <2>6 DEF IInv
<1>5. ASSUME NEW r \in Readers, OnPacket(r)
      PROVE  IInv'
  <2> DEFINE kind == reader[r].pkt.kind
             accepted == kind \notin {"undecodable", "own"}
             next == IF accepted THEN [reader[r] EXCEPT !.pc = "append"] ELSE Reading
             rejected == IF kind = "undecodable" THEN stats.rejected + 1 ELSE stats.rejected
             decoded == IF accepted THEN stats.decoded + 1 ELSE stats.decoded
             own == IF kind = "own" THEN fate.own + 1 ELSE fate.own
  <2>1. /\ reader[r].pc = "called"
        /\ stats' = [stats EXCEPT !.received = stats.received + 1, !.rejected = rejected,
                                  !.decoded = decoded]
        /\ fate' = [fate EXCEPT !.own = own]
        /\ reader' = [reader EXCEPT ![r] = next]
        /\ UNCHANGED <<phase, subscribed, queue, flushVars, now>>
    BY <1>5 DEF OnPacket
  <2>2. reader[r] \in [pc : {"called", "append"}, pkt : Packet]
    BY <1>0, <2>1 DEF Thread, Reading
  <2>3. next \in Thread /\ next.pc = IF accepted THEN "append" ELSE "reading"
    BY <2>2 DEF Thread, Reading
  <2> HIDE DEF next
  <2>4. reader' \in [Readers -> Thread]
    BY <1>0, <2>1, <2>3
  <2>5. /\ stats'.received = stats.received + 1 /\ stats'.dropped = stats.dropped
        /\ stats'.rejected = rejected /\ stats'.decoded = decoded /\ stats' \in Stats
    <3>1. rejected \in Nat /\ decoded \in Nat /\ stats.received + 1 \in Nat
      BY <1>2
    <3> HIDE DEF rejected, decoded
    <3>2. QED
      BY <1>0, <2>1, <3>1 DEF Stats
  <2>6. /\ fate'.own = own /\ fate'.flushed = fate.flushed /\ fate'.lost = fate.lost
        /\ fate' \in Fate
    <3>1. own \in Nat
      BY <1>2
    <3> HIDE DEF own
    <3>2. QED
      BY <1>0, <2>1, <3>1 DEF Fate
  <2>7. TypeOK'
    BY <1>1, <2>1, <2>4, <2>5, <2>6 DEF TypeOK, flushVars
  <2>8. Cardinality(Appending)' = Cardinality(Appending) + IF accepted THEN 1 ELSE 0
    <3> HIDE DEF kind
    <3>1. r \notin Appending
      BY <2>1 DEF Appending
    <3>2. CASE accepted
      <4>1. Appending' = Appending \cup {r}
        BY <1>0, <2>1, <2>3, <3>2 DEF Appending
      <4>2. QED
        BY <3>1, <3>2, <4>1, FS_AddElement, SetsAreFinite
    <3>3. CASE ~accepted
      <4>1. Appending' = Appending
        BY <1>0, <2>1, <2>3, <3>3 DEF Appending
      <4>2. QED
        BY <3>3, <4>1, SetsAreFinite
    <3>4. QED
      BY <3>2, <3>3
  <2>9. EveryPacketIsAccountedFor'
    <3>1. queue' = queue /\ batch' = batch
      BY <2>1 DEF flushVars
    <3> HIDE DEF kind
    <3>2. stats'.received = stats'.rejected + fate'.own + stats'.decoded
      BY <1>1, <1>2, <2>5, <2>6 DEF EveryPacketIsAccountedFor
    <3>3. /\ accepted => Cardinality(Appending)' = Cardinality(Appending) + 1
                          /\ stats'.decoded = stats.decoded + 1
          /\ ~accepted => Cardinality(Appending)' = Cardinality(Appending)
                           /\ stats'.decoded = stats.decoded
      BY <2>5, <2>8, SetsAreFinite
    <3> HIDE DEF accepted, decoded
    <3>4. /\ stats'.dropped = stats.dropped
          /\ fate'.flushed = fate.flushed /\ fate'.lost = fate.lost
      BY <2>5, <2>6
    <3>5. PICK a \in Nat, n \in Nat, q \in Nat, d \in Nat, b \in Nat, f \in Nat, l \in Nat :
            /\ a = Cardinality(Appending) /\ n = stats.decoded /\ q = Len(queue)
            /\ d = stats.dropped /\ b = Len(batch) /\ f = fate.flushed /\ l = fate.lost
      BY <1>2, SetsAreFinite
    <3>6. n = a + q + d + b + f + l
      BY <1>1, <3>5 DEF EveryPacketIsAccountedFor
    <3>7. n + 1 = a + 1 + q + d + b + f + l
      BY <3>6
    <3>8. stats'.decoded = Cardinality(Appending)' + Len(queue') + stats'.dropped
                           + Len(batch') + fate'.flushed + fate'.lost
      BY <3>1, <3>3, <3>4, <3>5, <3>6, <3>7
    <3>9. QED
      BY <3>2, <3>8 DEF EveryPacketIsAccountedFor
  <2>10. StopBound'
    <3>1. InCallback' \in SUBSET InCallback
      BY <1>0, <2>1, <2>2 DEF InCallback
    <3>2. Cardinality(InCallback)' <= Cardinality(InCallback) /\ Cardinality(InCallback)' \in Nat
      BY <3>1, SetsAreFinite, FS_Subset, FS_CardinalityType
    <3>3. QED
      BY <1>1, <1>2, <2>1, <3>2, SetsAreFinite DEF StopBound
  <2>11. QED
    BY <2>7, <2>9, <2>10 DEF IInv
<1>6. ASSUME NEW r \in Readers, Enqueue(r)
      PROVE  IInv'
  <2> DEFINE dropped == IF Len(queue) = Cap THEN stats.dropped + 1 ELSE stats.dropped
  <2>1. /\ reader[r].pc = "append" /\ queue' = Append1(queue, reader[r].pkt)
        /\ stats' = [stats EXCEPT !.dropped = dropped]
        /\ reader' = [reader EXCEPT ![r] = Reading]
        /\ UNCHANGED <<phase, subscribed, flushVars, now, fate>>
    BY <1>6 DEF Enqueue
  <2>2. reader[r].pkt \in Packet
    BY <1>0, <2>1 DEF Thread, Reading
  <2>3. /\ queue' \in Seq(Packet) /\ Len(queue') <= Cap
        /\ Len(queue') = IF Len(queue) = Cap THEN Cap ELSE Len(queue) + 1
    BY <1>1, <2>1, <2>2, Append1Is DEF TypeOK
  <2>4. reader' \in [Readers -> Thread]
    BY <1>0, <2>1 DEF Thread
  <2>5. /\ stats'.received = stats.received /\ stats'.rejected = stats.rejected
        /\ stats'.decoded = stats.decoded /\ stats'.dropped = dropped /\ stats' \in Stats
    <3>1. dropped \in Nat
      BY <1>2
    <3> HIDE DEF dropped
    <3>2. QED
      BY <1>0, <2>1, <3>1 DEF Stats
  <2>6. TypeOK'
    BY <1>1, <2>1, <2>3, <2>4, <2>5 DEF TypeOK, flushVars
  <2>7. /\ Cardinality(Appending)' = Cardinality(Appending) - 1
        /\ Cardinality(InCallback)' = Cardinality(InCallback) - 1
    <3>1. /\ Appending' = Appending \ {r} /\ r \in Appending
          /\ InCallback' = InCallback \ {r} /\ r \in InCallback
      BY <1>0, <2>1 DEF Appending, InCallback, Reading
    <3>2. QED
      BY <3>1, FS_RemoveElement, SetsAreFinite
  <2>8. EveryPacketIsAccountedFor'
    <3>1. batch' = batch /\ fate' = fate
      BY <2>1 DEF flushVars
    <3>2. \/ Len(queue') = Len(queue) /\ stats'.dropped = stats.dropped + 1
          \/ Len(queue') = Len(queue) + 1 /\ stats'.dropped = stats.dropped
      BY IngestAssumption, <2>3, <2>5
    <3>3. stats'.decoded = stats.decoded
      BY <2>5
    <3>4. PICK a \in Nat, n \in Nat, q \in Nat, d \in Nat, b \in Nat, f \in Nat, l \in Nat :
            /\ a = Cardinality(Appending) /\ n = stats.decoded /\ q = Len(queue)
            /\ d = stats.dropped /\ b = Len(batch) /\ f = fate.flushed /\ l = fate.lost
      BY <1>2, SetsAreFinite
    <3>5. n = a + q + d + b + f + l
      BY <1>1, <3>4 DEF EveryPacketIsAccountedFor
    <3>6. n = a - 1 + q + (d + 1) + b + f + l /\ n = a - 1 + (q + 1) + d + b + f + l
      BY <3>5
    <3>7. stats'.decoded = Cardinality(Appending)' + Len(queue') + stats'.dropped
                           + Len(batch') + fate'.flushed + fate'.lost
      BY <2>7, <3>1, <3>2, <3>3, <3>4, <3>6
    <3>8. QED
      BY <1>1, <2>5, <3>1, <3>7 DEF EveryPacketIsAccountedFor
  <2>9. StopBound'
    BY <1>1, <1>2, <2>1, <2>3, <2>7, SetsAreFinite DEF StopBound
  <2>10. QED
    BY <2>6, <2>8, <2>9 DEF IInv
<1>7. CASE Flush
  <2>1. /\ batch = <<>> /\ batch' = queue /\ queue' = <<>> /\ written' = 0
        /\ phase' = IF phase = "draining" THEN "closing" ELSE phase
        /\ phase \in {"live", "draining"}
        /\ UNCHANGED <<subscribed, reader, disk, work, cached, lastClean, heard, stats, now, fate>>
    BY <1>7 DEF Flush
  <2>2. TypeOK'
    BY <1>1, <2>1 DEF TypeOK, Phases
  <2>3. EveryPacketIsAccountedFor'
    <3>1. Appending' = Appending
      BY <2>1 DEF Appending
    <3>2. Len(batch) = 0 /\ Len(queue') = 0 /\ Len(batch') = Len(queue)
      BY <2>1
    <3>3. stats' = stats /\ fate' = fate
      BY <2>1
    <3>4. QED
      BY <1>1, <1>2, <3>1, <3>2, <3>3, SetsAreFinite DEF EveryPacketIsAccountedFor
  <2>4. StopBound'
    <3>1. Cardinality(InCallback)' = Cardinality(InCallback) /\ Len(queue') = 0
      BY <2>1 DEF InCallback
    <3>2. QED
      BY <1>1, <2>1, <3>1, SetsAreFinite DEF StopBound
  <2>5. QED
    BY <2>2, <2>3, <2>4 DEF IInv
<1>8. CASE Record
  <2> DEFINE p == batch[written + 1]
  <2>1. /\ written < Len(batch) /\ written' = written + 1
        /\ IF p.kind = "adv" THEN \E i \in Ids : RecordAdv(p, i) ELSE RecordOther(p)
        /\ UNCHANGED <<phase, subscribed, readVars, batch, disk, stats, now, fate>>
    BY <1>8 DEF Record
  <2>2. /\ p \in Packet /\ p.src \in Readers /\ p.ts \in 0..MaxTime
        /\ p.kind = "adv" => p.dev \in Devs
        /\ p.name \in Names \cup {NoName}
    <3>1. written + 1 \in 1..Len(batch) /\ batch \in Seq(Packet)
      BY <1>1, <2>1 DEF TypeOK
    <3>2. p \in Packet
      BY <3>1
    <3> HIDE DEF p
    <3>3. QED
      BY <3>2 DEF Packet
  <2> HIDE DEF p
  <2>3. /\ work' \in Tables /\ cached' \in [Ids -> CachedClue]
        /\ lastClean' \in [Readers -> CleanEntry] /\ heard' \in [Readers -> Heard]
    <3>1. CASE p.kind = "adv"
      <4>1. PICK i \in Ids : RecordAdv(p, i)
        BY <2>1, <3>1
      <4> DEFINE known == IF cached[i] = NotCached THEN <<work.name[p.dev]>> ELSE cached[i]
                 learnt == p.name # NoName /\ p.name # known[1]
      <4>2. /\ work' = [work EXCEPT !.id[p.dev] = i,
                                    !.name[p.dev] = IF learnt THEN p.name ELSE @,
                                    !.good[p.dev] = @ + 1]
            /\ cached' = [cached EXCEPT ![i] = IF learnt THEN <<p.name>> ELSE known]
            /\ lastClean' = [lastClean EXCEPT ![p.src] = [ts |-> p.ts, id |-> i]]
            /\ heard' = [heard EXCEPT ![p.src] = [dev |-> p.dev, ts |-> p.ts]]
        BY <4>1 DEF RecordAdv
      <4>3. i \in 0..Cardinality(Devs) /\ [ts |-> p.ts, id |-> i] \in CleanEntry
        BY <2>2, FS_CardinalityType DEF Ids, CleanEntry
      <4>4. cached[i] \in CachedClue
        BY <1>0
      <4> HIDE DEF learnt
      <4>5. work' \in Tables
        <5>1. work.id \in [Devs -> 0..Cardinality(Devs)] /\ work.name \in [Devs -> Names \cup {NoName}]
              /\ work.good \in [Devs -> Nat] /\ work.bad \in [Devs -> Nat]
          BY <1>0 DEF Tables
        <5>2. /\ work'.id = [work.id EXCEPT ![p.dev] = i]
              /\ work'.name = [work.name EXCEPT ![p.dev] = IF learnt THEN p.name ELSE @]
              /\ work'.good = [work.good EXCEPT ![p.dev] = @ + 1]
              /\ work'.bad = work.bad
              /\ work' = [id |-> work'.id, name |-> work'.name, good |-> work'.good, bad |-> work'.bad]
          BY <1>0, <4>2 DEF Tables
        <5>3. p.dev \in Devs
          BY <2>2, <3>1
        <5>4. work'.id \in [Devs -> 0..Cardinality(Devs)]
          BY <4>3, <5>1, <5>2, <5>3
        <5>5. work'.name \in [Devs -> Names \cup {NoName}]
          BY <2>2, <5>1, <5>2, <5>3
        <5>6. work'.good \in [Devs -> Nat]
          BY <5>1, <5>2, <5>3
        <5>7. QED
          BY <5>1, <5>2, <5>4, <5>5, <5>6 DEF Tables
      <4>6. cached' \in [Ids -> CachedClue]
        <5>1. known \in CachedClue
          BY <1>0, <2>2, <3>1, <4>4 DEF Tables, CachedClue
        <5> HIDE DEF known
        <5>2. QED
          BY <1>0, <2>2, <4>2, <5>1 DEF CachedClue
      <4>7. [dev |-> p.dev, ts |-> p.ts] \in Heard
        BY <2>2, <3>1 DEF Heard
      <4>8. QED
        BY <1>0, <4>2, <4>3, <4>5, <4>6, <4>7
    <3>2. CASE p.kind # "adv"
      <4>1. RecordOther(p)
        BY <2>1, <3>2
      <4>2. work' \in Tables
        <5> DEFINE bad == [d \in Devs |-> IF p.kind = "crc" /\ d \in Credited(p)
                                         THEN work.bad[d] + 1 ELSE work.bad[d]]
        <5>1. work' = [work EXCEPT !.bad = bad]
          BY <4>1 DEF RecordOther
        <5>2. bad \in [Devs -> Nat]
          BY <1>0 DEF Tables
        <5> HIDE DEF bad
        <5>3. QED
          BY <1>0, <5>1, <5>2 DEF Tables
      <4>3. QED
        BY <1>0, <4>1, <4>2 DEF RecordOther
    <3>3. QED
      BY <3>1, <3>2
  <2>4. TypeOK'
    BY <1>1, <2>1, <2>3 DEF TypeOK, readVars
  <2>5. EveryPacketIsAccountedFor' /\ StopBound'
    <3>1. /\ Appending' = Appending /\ InCallback' = InCallback
          /\ queue' = queue /\ batch' = batch /\ stats' = stats /\ fate' = fate
          /\ phase' = phase /\ subscribed' = subscribed
      BY <2>1 DEF Appending, InCallback, readVars
    <3>2. QED
      BY <1>1, <3>1 DEF EveryPacketIsAccountedFor, StopBound
  <2>6. QED
    BY <2>4, <2>5 DEF IInv
<1>9. CASE Commit
  <2> DEFINE recorded == stats.recorded + AdvIn(batch)
             flushed == fate.flushed + Len(batch)
  <2>1. /\ disk' = work /\ batch' = <<>> /\ written' = 0
        /\ stats' = [stats EXCEPT !.recorded = recorded]
        /\ fate' = [fate EXCEPT !.flushed = flushed]
        /\ UNCHANGED <<phase, subscribed, readVars, work, cached, lastClean, heard, now>>
    BY <1>9 DEF Commit
  <2>2. recorded \in Nat /\ flushed \in Nat
    <3>1. AdvIn(batch) \in Nat
      BY <1>0, AdvInIs
    <3>2. QED
      BY <1>2, <3>1
  <2>3. /\ stats'.received = stats.received /\ stats'.rejected = stats.rejected
        /\ stats'.decoded = stats.decoded /\ stats'.dropped = stats.dropped
        /\ stats' \in Stats
    <3> HIDE DEF recorded
    <3> QED BY <1>0, <2>1, <2>2 DEF Stats
  <2>4. /\ fate'.own = fate.own /\ fate'.flushed = flushed
        /\ fate'.lost = fate.lost /\ fate' \in Fate
    <3> HIDE DEF flushed
    <3> QED BY <1>0, <2>1, <2>2 DEF Fate
  <2>7. batch' \in Seq(Packet) /\ Len(batch') = 0 /\ queue' = queue /\ reader' = reader
    BY <2>1 DEF readVars
  <2>8. TypeOK'
    BY IngestAssumption, <1>1, <2>1, <2>3, <2>4, <2>7 DEF TypeOK, readVars
  <2>9. EveryPacketIsAccountedFor'
    <3>1. Appending' = Appending
      BY <2>7 DEF Appending
    <3> HIDE DEF recorded
    <3>2. QED
      BY <1>1, <1>2, <2>3, <2>4, <2>7, <3>1, SetsAreFinite DEF EveryPacketIsAccountedFor
  <2>10. StopBound'
    BY <1>1, <2>1 DEF StopBound, InCallback, readVars
  <2>11. QED
    BY <2>8, <2>9, <2>10 DEF IInv
<1>10. CASE Rollback
  <2> DEFINE lost == fate.lost + Len(batch)
  <2>1. /\ work' = disk /\ batch' = <<>> /\ written' = 0
        /\ fate' = [fate EXCEPT !.lost = lost]
        /\ phase' = IF phase = "closing" THEN "aborted" ELSE phase
        /\ UNCHANGED <<subscribed, readVars, disk, cached, lastClean, heard, stats, now>>
    BY <1>10 DEF Rollback
  <2>2. /\ fate'.own = fate.own /\ fate'.flushed = fate.flushed
        /\ fate'.lost = lost /\ fate' \in Fate
    <3>1. lost \in Nat
      BY <1>2
    <3> HIDE DEF lost
    <3>2. QED
      BY <1>0, <2>1, <3>1 DEF Fate
  <2>3. batch' \in Seq(Packet) /\ Len(batch') = 0 /\ queue' = queue /\ reader' = reader
    BY <2>1 DEF readVars
  <2>4. phase' \in Phases
    BY <1>1, <2>1 DEF TypeOK, Phases
  <2>5. TypeOK'
    BY IngestAssumption, <1>1, <2>1, <2>2, <2>3, <2>4 DEF TypeOK, readVars
  <2>6. EveryPacketIsAccountedFor'
    <3>1. Appending' = Appending /\ stats' = stats
      BY <2>1, <2>3 DEF Appending
    <3>2. /\ Len(queue') = Len(queue) /\ Len(batch') = 0 /\ fate'.own = fate.own
          /\ fate'.flushed = fate.flushed /\ fate'.lost = fate.lost + Len(batch)
      BY <2>2, <2>3
    <3> HIDE DEF lost
    <3>3. stats'.decoded = Cardinality(Appending)' + Len(queue') + stats'.dropped
                           + Len(batch') + fate'.flushed + fate'.lost
      BY <1>1, <1>2, <3>1, <3>2, SetsAreFinite DEF EveryPacketIsAccountedFor
    <3>4. QED
      BY <1>1, <3>1, <3>2, <3>3 DEF EveryPacketIsAccountedFor
  <2>7. StopBound'
    BY <1>1, <2>1 DEF StopBound, InCallback, readVars
  <2>8. QED
    BY <2>5, <2>6, <2>7 DEF IInv
<1>11. QED
  BY <1>3, <1>4, <1>5, <1>6, <1>7, <1>8, <1>9, <1>10 DEF Next

(* IInv holds in every reachable state.                                    *)
THEOREM IngestInvariant == Spec => []IInv
BY InitIInv, NextIInv, PTL DEF Spec

(* Every variable keeps its type; in particular the queue never exceeds    *)
(* its capacity.                                                           *)
THEOREM IngestTypes == Spec => []TypeOK
<1>1. IInv => TypeOK
  BY DEF IInv
<1>2. QED
  BY <1>1, IngestInvariant, PTL

(* However reader threads and flushes interleave, and whichever flush      *)
(* fails, each packet received is accounted for exactly once.              *)
THEOREM IngestConservesPackets == Spec => []EveryPacketIsAccountedFor
<1>1. IInv => EveryPacketIsAccountedFor
  BY DEF IInv
<1>2. QED
  BY <1>1, IngestInvariant, PTL

(* A stopped session leaves at most one packet per reader unwritten.       *)
THEOREM IngestStopLosesLittle == Spec => []StopLosesAtMostOnePerReader
<1>1. IInv => StopLosesAtMostOnePerReader
  BY DEF IInv, StopBound, StopLosesAtMostOnePerReader
<1>2. QED
  BY <1>1, IngestInvariant, PTL
-----------------------------------------------------------------------------
(* What flushes remember of rows is true of the tables until one fails: an *)
(* id is handed out once, the cache holds the clue of a row that exists,   *)
(* and the row a CRC failure would be credited to is that of the device    *)
(* last heard.  The committed tables never run ahead of the others.        *)
UniqueIds(t) == \A d, e \in Devs : t.id[d] = t.id[e] /\ t.id[d] # 0 => d = e

CachedRowsExist ==
  \A i \in Ids : cached[i] # NotCached => \E d \in Devs : work.id[d] = i

LastCleanIsHeard ==
  \A r \in Readers : lastClean[r].id # 0 =>
    /\ heard[r].dev \in Devs /\ work.id[heard[r].dev] = lastClean[r].id
    /\ lastClean[r].ts = heard[r].ts

MemoryInv ==
  /\ UniqueIds(work) /\ UniqueIds(disk)
  /\ \A d \in Devs : disk.bad[d] <= work.bad[d]
  /\ fate.lost = 0 => CacheIsCurrentUntilRollback /\ CachedRowsExist /\ LastCleanIsHeard

(* A rollback loses at least one packet, so nothing is claimed after it.   *)
LEMMA InitMemoryInv == Init => MemoryInv
<1> SUFFICES ASSUME Init PROVE MemoryInv
  OBVIOUS
<1>1. disk \in InitialTables /\ work = disk
  BY DEF Init
<1>2. UniqueIds(work) /\ UniqueIds(disk)
  BY <1>1 DEF InitialTables, UniqueIds
<1>3. \A d \in Devs : disk.bad[d] <= work.bad[d]
  BY <1>1 DEF InitialTables
<1>4. \A i \in Ids : cached[i] = NotCached
  BY DEF Init
<1>5. \A r \in Readers : lastClean[r].id = 0
  BY DEF Init, NoEntry
<1>6. \A d \in Devs : work.id[d] # 0 => work.id[d] \in Ids
  BY <1>1, FS_CardinalityType, IngestAssumption DEF InitialTables, Ids
<1>7. CacheIsCurrentUntilRollback
  BY <1>4, <1>6 DEF CacheIsCurrentUntilRollback
<1>8. QED
  BY <1>2, <1>3, <1>4, <1>5, <1>7 DEF MemoryInv, CachedRowsExist, LastCleanIsHeard

(* The row of a device, its own or the next one.                           *)
LEMMA RowIsNew ==
  ASSUME work \in Tables, UniqueIds(work), NEW d \in Devs, NEW i \in Ids, IsRowOf(d, i)
  PROVE  /\ \A e \in Devs : work.id[e] = i => e = d
         /\ work.id[d] = i \/ (work.id[d] = 0 /\ \A e \in Devs : work.id[e] # i)
         /\ i # 0
<1>1. work.id \in [Devs -> 0..Cardinality(Devs)] /\ Cardinality(Devs) \in Nat /\ i \in Nat /\ i # 0
  BY IngestAssumption, FS_CardinalityType DEF Tables, Ids
<1>2. CASE work.id[d] # 0
  BY <1>1, <1>2 DEF IsRowOf, UniqueIds
<1>3. CASE work.id[d] = 0
  <2>1. \A e \in Devs : work.id[e] < i /\ work.id[e] \in Nat
    BY <1>1, <1>3 DEF IsRowOf
  <2>2. QED
    BY <1>1, <1>3, <2>1
<1>4. QED
  BY <1>2, <1>3

(* A clean advertising packet: its row's clue and the cache agree again,   *)
(* and its device is the one last heard.                                   *)
LEMMA RecordAdvKeepsMemory ==
  ASSUME TypeOK, MemoryInv, NEW p \in Packet, p.kind = "adv", NEW i \in Ids,
         RecordAdv(p, i), UNCHANGED <<disk, fate>>
  PROVE  MemoryInv'
<1> DEFINE d == p.dev
           known == IF cached[i] = NotCached THEN <<work.name[p.dev]>> ELSE cached[i]
           learnt == p.name # NoName /\ p.name # known[1]
<1>1. d \in Devs /\ p.src \in Readers
  BY DEF Packet
<1>2. /\ IsRowOf(d, i)
      /\ work' = [work EXCEPT !.id[p.dev] = i,
                              !.name[p.dev] = IF learnt THEN p.name ELSE @,
                              !.good[p.dev] = @ + 1]
      /\ cached' = [cached EXCEPT ![i] = IF learnt THEN <<p.name>> ELSE known]
      /\ lastClean' = [lastClean EXCEPT ![p.src] = [ts |-> p.ts, id |-> i]]
      /\ heard' = [heard EXCEPT ![p.src] = [dev |-> p.dev, ts |-> p.ts]]
  BY DEF RecordAdv
<1>3. /\ work \in Tables /\ cached \in [Ids -> CachedClue] /\ UniqueIds(work)
      /\ lastClean \in [Readers -> CleanEntry] /\ heard \in [Readers -> Heard]
  BY DEF TypeOK, MemoryInv
<1>4. /\ work.id \in [Devs -> 0..Cardinality(Devs)]
      /\ work.name \in [Devs -> Names \cup {NoName}]
      /\ work.good \in [Devs -> Nat] /\ work.bad \in [Devs -> Nat]
  BY <1>3 DEF Tables
<1> DEFINE name == IF learnt THEN p.name ELSE work.name[d]
           clue == IF learnt THEN <<p.name>> ELSE known
<1>5. /\ work'.id = [work.id EXCEPT ![d] = i]
      /\ work'.name = [work.name EXCEPT ![d] = name]
      /\ work'.bad = work.bad
      /\ cached' = [cached EXCEPT ![i] = clue]
  <2> HIDE DEF learnt
  <2> QED BY <1>2, <1>3, <1>4 DEF Tables
<1>6. /\ \A e \in Devs : work.id[e] = i => e = d
      /\ work.id[d] = i \/ (work.id[d] = 0 /\ \A e \in Devs : work.id[e] # i)
      /\ i # 0
  BY <1>1, <1>2, <1>3, RowIsNew
<1> HIDE DEF name, clue, d
<1>7. UniqueIds(work)' /\ UniqueIds(disk)'
  <2>1. UniqueIds(disk)'
    BY DEF MemoryInv, UniqueIds
  <2>2. \A e, f \in Devs : work'.id[e] = work'.id[f] /\ work'.id[e] # 0 => e = f
    BY <1>1, <1>3, <1>4, <1>5, <1>6 DEF UniqueIds
  <2>3. QED
    BY <2>1, <2>2 DEF UniqueIds
<1>8. \A e \in Devs : disk'.bad[e] <= work'.bad[e]
  BY <1>5 DEF MemoryInv
<1>9. ASSUME fate'.lost = 0
      PROVE  CacheIsCurrentUntilRollback' /\ CachedRowsExist' /\ LastCleanIsHeard'
  <2>1. fate.lost = 0 /\ CacheIsCurrentUntilRollback /\ CachedRowsExist /\ LastCleanIsHeard
    BY <1>9 DEF MemoryInv
  <2>2. cached[i] = NotCached \/ cached[i] = <<work.name[d]>>
    BY <1>1, <1>6, <2>1 DEF CacheIsCurrentUntilRollback, CachedRowsExist
  <2>3. clue = <<name>>
    <3>1. known = <<work.name[d]>>
      BY <2>2 DEF d
    <3>2. QED
      BY <3>1 DEF clue, name, d
  <2>4. \A e \in Devs : work'.id[e] # 0 /\ cached'[work'.id[e]] # NotCached =>
          cached'[work'.id[e]] = <<work'.name[e]>>
    <3> SUFFICES ASSUME NEW e \in Devs, work'.id[e] # 0, cached'[work'.id[e]] # NotCached
                 PROVE  cached'[work'.id[e]] = <<work'.name[e]>>
      OBVIOUS
    <3>1. CASE e = d
      BY <1>1, <1>3, <1>4, <1>5, <2>3, <3>1
    <3>2. CASE e # d
      <4>1. work'.id[e] = work.id[e] /\ work'.name[e] = work.name[e] /\ work.id[e] # i
        BY <1>1, <1>4, <1>5, <1>6, <3>2
      <4>2. work.id[e] \in Ids
        BY <1>4, <4>1, IngestAssumption, FS_CardinalityType DEF Ids
      <4>3. cached'[work'.id[e]] = cached[work.id[e]]
        BY <1>3, <1>5, <4>1, <4>2
      <4>4. QED
        BY <2>1, <4>1, <4>3 DEF CacheIsCurrentUntilRollback
    <3>3. QED
      BY <3>1, <3>2
  <2>5. \A j \in Ids : cached'[j] # NotCached => \E e \in Devs : work'.id[e] = j
    <3> SUFFICES ASSUME NEW j \in Ids, cached'[j] # NotCached
                 PROVE  \E e \in Devs : work'.id[e] = j
      OBVIOUS
    <3>1. CASE j = i
      BY <1>1, <1>4, <1>5, <3>1
    <3>2. CASE j # i
      <4>1. PICK e \in Devs : work.id[e] = j
        BY <1>3, <1>5, <2>1, <3>2 DEF CachedRowsExist
      <4>2. work'.id[e] = j
        <5>1. e # d
          BY <1>6, <3>2, <4>1 DEF Ids
        <5>2. QED
          BY <1>4, <1>5, <4>1, <5>1
      <4>3. QED
        BY <4>2
    <3>3. QED
      BY <3>1, <3>2
  <2>6. LastCleanIsHeard'
    <3> SUFFICES ASSUME NEW r \in Readers, lastClean'[r].id # 0
                 PROVE  /\ heard'[r].dev \in Devs /\ work'.id[heard'[r].dev] = lastClean'[r].id
                        /\ lastClean'[r].ts = heard'[r].ts
      BY DEF LastCleanIsHeard
    <3>1. CASE r = p.src
      BY <1>1, <1>2, <1>3, <1>4, <1>5, <3>1 DEF d
    <3>2. CASE r # p.src
      <4>1. lastClean'[r] = lastClean[r] /\ heard'[r] = heard[r]
        BY <1>2, <1>3, <3>2
      <4>2. /\ heard[r].dev \in Devs /\ work.id[heard[r].dev] = lastClean[r].id
            /\ lastClean[r].ts = heard[r].ts
        BY <2>1, <4>1 DEF LastCleanIsHeard
      <4>3. work'.id[heard[r].dev] = work.id[heard[r].dev]
        <5>1. lastClean[r].id # 0
          BY <4>1
        <5>2. CASE heard[r].dev = d
          BY <1>1, <1>4, <1>5, <1>6, <4>2, <5>1, <5>2
        <5>3. CASE heard[r].dev # d
          BY <1>1, <1>4, <1>5, <4>2, <5>3
        <5>4. QED
          BY <5>2, <5>3
      <4>4. QED
        BY <4>1, <4>2, <4>3
    <3>3. QED
      BY <3>1, <3>2
  <2>7. QED
    BY <2>4, <2>5, <2>6 DEF CacheIsCurrentUntilRollback, CachedRowsExist
<1>10. QED
  BY <1>7, <1>8, <1>9 DEF MemoryInv

LEMMA NextMemoryInv == IInv /\ MemoryInv /\ [Next]_vars => MemoryInv'
<1> SUFFICES ASSUME IInv, MemoryInv, [Next]_vars PROVE MemoryInv'
  OBVIOUS
<1>1. TypeOK /\ fate.lost \in Nat /\ work \in Tables /\ disk \in Tables
  BY DEF IInv, TypeOK, Fate
<1>2. CASE UNCHANGED <<disk, work, cached, lastClean, heard>> /\ fate'.lost = fate.lost
  BY <1>2 DEF MemoryInv, UniqueIds, CacheIsCurrentUntilRollback, CachedRowsExist, LastCleanIsHeard
<1>3. CASE Start \/ StartTimer \/ BeginStop \/ Unsubscribe \/ EndSession \/ Tick \/ UNCHANGED vars
  BY <1>2, <1>3 DEF Start, StartTimer, BeginStop, Unsubscribe, EndSession, Tick, vars, flushVars
<1>4. CASE Flush
  BY <1>2, <1>4 DEF Flush
<1>5. ASSUME NEW r \in Readers, (\E p \in OnAir(r, now) : Publish(r, p)) \/ OnPacket(r) \/ Enqueue(r)
      PROVE  MemoryInv'
  <2>1. UNCHANGED <<disk, work, cached, lastClean, heard>>
    BY <1>5 DEF Publish, OnPacket, Enqueue, flushVars
  <2>2. fate'.lost = fate.lost
    <3>1. CASE OnPacket(r)
      <4>1. fate \in Fate
        BY <1>1 DEF TypeOK
      <4>2. QED
        BY <3>1, <4>1 DEF OnPacket, Fate
    <3>2. CASE (\E p \in OnAir(r, now) : Publish(r, p)) \/ Enqueue(r)
      BY <3>2 DEF Publish, Enqueue
    <3>3. QED
      BY <1>5, <3>1, <3>2
  <2>3. QED
    BY <1>2, <2>1, <2>2
<1>6. CASE Record
  <2> DEFINE p == batch[written + 1]
  <2>1. /\ written < Len(batch) /\ UNCHANGED <<disk, fate>>
        /\ IF p.kind = "adv" THEN \E i \in Ids : RecordAdv(p, i) ELSE RecordOther(p)
    BY <1>6 DEF Record
  <2>2. p \in Packet
    BY <1>1, <2>1 DEF TypeOK
  <2> HIDE DEF p
  <2>3. CASE p.kind = "adv"
    BY <1>1, <2>1, <2>2, <2>3, RecordAdvKeepsMemory
  <2>4. CASE p.kind # "adv"
    <3> DEFINE bad == [d \in Devs |-> IF p.kind = "crc" /\ d \in Credited(p)
                                     THEN work.bad[d] + 1 ELSE work.bad[d]]
    <3>1. work' = [work EXCEPT !.bad = bad] /\ UNCHANGED <<cached, lastClean, heard>>
      BY <2>1, <2>4 DEF RecordOther
    <3>2. \A d \in Devs : bad[d] >= work.bad[d] /\ work.bad[d] \in Nat /\ disk.bad[d] \in Nat
                           /\ bad[d] \in Nat
      BY <1>1 DEF Tables
    <3> HIDE DEF bad
    <3>3. work'.id = work.id /\ work'.name = work.name /\ work'.bad = bad
      BY <1>1, <3>1 DEF Tables
    <3>4. \A d \in Devs : disk'.bad[d] <= work'.bad[d]
      <4>1. \A d \in Devs : disk.bad[d] <= work.bad[d]
        BY DEF MemoryInv
      <4>2. QED
        BY <2>1, <3>2, <3>3, <4>1
    <3>5. UniqueIds(work)' /\ UniqueIds(disk)'
      BY <2>1, <3>3 DEF MemoryInv, UniqueIds
    <3>6. fate'.lost = 0 => CacheIsCurrentUntilRollback' /\ CachedRowsExist' /\ LastCleanIsHeard'
      BY <2>1, <3>1, <3>3
         DEF MemoryInv, CacheIsCurrentUntilRollback, CachedRowsExist, LastCleanIsHeard
    <3>7. QED
      BY <3>4, <3>5, <3>6 DEF MemoryInv
  <2>5. QED
    BY <2>3, <2>4
<1>7. CASE Commit
  <2>1. disk' = work /\ UNCHANGED <<work, cached, lastClean, heard>> /\ fate'.lost = fate.lost
    <3>1. fate \in Fate
      BY <1>1 DEF TypeOK
    <3>2. QED
      BY <1>7, <3>1 DEF Commit, Fate
  <2>2. \A d \in Devs : disk'.bad[d] <= work'.bad[d]
    BY <1>1, <2>1 DEF Tables
  <2>3. QED
    BY <2>1, <2>2
       DEF MemoryInv, UniqueIds, CacheIsCurrentUntilRollback, CachedRowsExist, LastCleanIsHeard
<1>8. CASE Rollback
  <2>1. work' = disk /\ disk' = disk /\ fate' = [fate EXCEPT !.lost = @ + Len(batch)] /\ batch # <<>>
    BY <1>8 DEF Rollback
  <2>2. fate'.lost # 0
    <3>1. batch \in Seq(Packet) /\ fate \in Fate
      BY <1>1 DEF TypeOK
    <3>2. Len(batch) \in Nat /\ Len(batch) # 0
      BY <2>1, <3>1
    <3>3. fate'.lost = fate.lost + Len(batch)
      BY <2>1, <3>1 DEF Fate
    <3>4. QED
      BY <1>1, <3>2, <3>3
  <2>3. \A d \in Devs : disk'.bad[d] <= work'.bad[d]
    BY <1>1, <2>1 DEF Tables
  <2>4. QED
    BY <2>1, <2>2, <2>3 DEF MemoryInv, UniqueIds
<1>9. QED
  BY <1>3, <1>4, <1>5, <1>6, <1>7, <1>8 DEF Next

THEOREM IngestMemory == Spec => []MemoryInv
BY IngestInvariant, InitMemoryInv, NextMemoryInv, PTL DEF Spec

(* Until a flush fails the cache agrees with the table, so that an update  *)
(* it leaves out would have changed nothing.                               *)
THEOREM IngestCacheIsCurrent == Spec => []CacheIsCurrentUntilRollback
<1>1. MemoryInv => CacheIsCurrentUntilRollback
  BY DEF MemoryInv, CacheIsCurrentUntilRollback
<1>2. QED
  BY <1>1, IngestMemory, PTL
-----------------------------------------------------------------------------
(* Packets of one source and channel keep the order of their time stamps   *)
(* on their way from the reader thread through the queue to the tables: a  *)
(* thread has one packet in hand, the queue is first in first out, and an  *)
(* eviction takes the oldest.  So a CRC failure is never older than the    *)
(* clean packet it is measured against.                                    *)
Before(p, q) == p.src = q.src => p.ts <= q.ts

InOrder ==
  /\ \A j, k \in DOMAIN queue : j < k => Before(queue[j], queue[k])
  /\ \A j, k \in DOMAIN batch : j < k => Before(batch[j], batch[k])
  /\ \A j \in DOMAIN batch, k \in DOMAIN queue : Before(batch[j], queue[k])

InHandIsLatest ==
  \A r \in InCallback :
    /\ reader[r].pkt.src = r /\ heard[r].ts <= reader[r].pkt.ts
    /\ \A k \in DOMAIN queue : Before(queue[k], reader[r].pkt)
    /\ \A k \in DOMAIN batch : Before(batch[k], reader[r].pkt)

HeardIsEarliest ==
  /\ \A k \in DOMAIN queue : heard[queue[k].src].ts <= queue[k].ts
  /\ \A k \in DOMAIN batch : k > written => heard[batch[k].src].ts <= batch[k].ts

NothingIsFromTheFuture ==
  /\ \A r \in Readers : heard[r].ts <= now
  /\ \A r \in InCallback : reader[r].pkt.ts <= now
  /\ \A k \in DOMAIN queue : queue[k].ts <= now
  /\ \A k \in DOMAIN batch : batch[k].ts <= now

TimeInv == InOrder /\ InHandIsLatest /\ HeardIsEarliest /\ NothingIsFromTheFuture

LEMMA InitTimeInv == Init => TimeInv
<1> SUFFICES ASSUME Init PROVE TimeInv
  OBVIOUS
<1>1. DOMAIN queue = {} /\ DOMAIN batch = {}
  BY DEF Init
<1>2. InCallback = {}
  BY DEF Init, InCallback, Reading
<1>3. \A r \in Readers : heard[r].ts <= now
  BY DEF Init
<1>4. QED
  BY <1>1, <1>2, <1>3 DEF TimeInv, InOrder, InHandIsLatest, HeardIsEarliest, NothingIsFromTheFuture

(* What the deque holds after an append: the packet last, and before it    *)
(* what it held, from the second on if it was full.                        *)
LEMMA Append1Holds ==
  ASSUME NEW q \in Seq(Packet), NEW p \in Packet
  PROVE  \E s \in {0, 1} :
           /\ Len(Append1(q, p)) = Len(q) - s + 1
           /\ \A k \in 1..(Len(q) - s) : Append1(q, p)[k] = q[k + s]
           /\ Append1(q, p)[Len(q) - s + 1] = p
<1>1. CASE Len(q) = Cap
  <2>1. q # <<>>
    BY <1>1, IngestAssumption
  <2>2. /\ Tail(q) \in Seq(Packet) /\ Len(Tail(q)) = Len(q) - 1
        /\ \A k \in 1..(Len(q) - 1) : Tail(q)[k] = q[k + 1]
    BY <2>1
  <2>3. Append1(q, p) = Append(Tail(q), p)
    BY <1>1 DEF Append1
  <2>4. /\ Len(Append1(q, p)) = Len(q) - 1 + 1
        /\ \A k \in 1..(Len(q) - 1) : Append1(q, p)[k] = q[k + 1]
        /\ Append1(q, p)[Len(q) - 1 + 1] = p
    BY <2>2, <2>3
  <2>5. QED
    BY <2>4
<1>2. CASE Len(q) # Cap
  <2>1. Append1(q, p) = Append(q, p)
    BY <1>2 DEF Append1
  <2>2. /\ Len(Append1(q, p)) = Len(q) - 0 + 1
        /\ \A k \in 1..(Len(q) - 0) : Append1(q, p)[k] = q[k + 0]
        /\ Append1(q, p)[Len(q) - 0 + 1] = p
    BY <2>1
  <2>3. QED
    BY <2>2
<1>3. QED
  BY <1>1, <1>2

(* An append to the queue of a packet no earlier than what is under way.   *)
LEMMA EnqueueKeepsOrder ==
  ASSUME TypeOK, TimeInv, NEW r \in Readers, Enqueue(r) PROVE TimeInv'
<1> DEFINE p == reader[r].pkt
<1>1. /\ reader[r].pc = "append" /\ queue' = Append1(queue, p)
      /\ reader' = [reader EXCEPT ![r] = Reading]
      /\ UNCHANGED <<batch, written, heard, now>>
  BY DEF Enqueue, flushVars
<1>2. reader \in [Readers -> Thread] /\ queue \in Seq(Packet) /\ batch \in Seq(Packet)
  BY DEF TypeOK
<1>3. p \in Packet /\ r \in InCallback
  BY <1>1, <1>2 DEF Thread, Reading, InCallback
<1>4. /\ p.src = r /\ heard[r].ts <= p.ts /\ p.ts <= now
      /\ \A k \in DOMAIN queue : Before(queue[k], p)
      /\ \A k \in DOMAIN batch : Before(batch[k], p)
  BY <1>3 DEF TimeInv, InHandIsLatest, NothingIsFromTheFuture
<1> HIDE DEF p
<1>5. /\ InCallback' \subseteq InCallback /\ r \notin InCallback'
      /\ \A x \in InCallback' : reader'[x] = reader[x]
  BY <1>1, <1>2 DEF InCallback, Reading
<1>6. PICK s \in {0, 1} :
        /\ Len(queue') = Len(queue) - s + 1
        /\ \A k \in 1..(Len(queue) - s) : queue'[k] = queue[k + s]
        /\ queue'[Len(queue) - s + 1] = p
  BY <1>1, <1>2, <1>3, Append1Holds
<1>7. queue' \in Seq(Packet)
  BY <1>1, <1>2, <1>3, IngestAssumption DEF Append1
<1>8. ASSUME NEW k \in DOMAIN queue'
      PROVE  \/ k \in 1..(Len(queue) - s) /\ k + s \in DOMAIN queue /\ queue'[k] = queue[k + s]
             \/ k = Len(queue) - s + 1 /\ queue'[k] = p
  <2>1. k \in 1..(Len(queue) - s + 1) /\ Len(queue) \in Nat
    BY <1>2, <1>6, <1>7
  <2>2. CASE k = Len(queue) - s + 1
    BY <1>6, <2>2
  <2>3. CASE k # Len(queue) - s + 1
    BY <1>2, <1>6, <2>1, <2>3
  <2>4. QED
    BY <2>2, <2>3
<1>9. \A j, k \in DOMAIN queue' : j < k => Before(queue'[j], queue'[k])
  <2> SUFFICES ASSUME NEW j \in DOMAIN queue', NEW k \in DOMAIN queue', j < k
               PROVE  Before(queue'[j], queue'[k])
    OBVIOUS
  <2>1. j \in 1..(Len(queue) - s) /\ j + s \in DOMAIN queue /\ queue'[j] = queue[j + s]
    <3>1. k <= Len(queue) - s + 1 /\ j \in Nat /\ k \in Nat /\ Len(queue) \in Nat
      BY <1>2, <1>6, <1>7
    <3>2. QED
      BY <1>8, <3>1
  <2>2. CASE k = Len(queue) - s + 1 /\ queue'[k] = p
    BY <1>4, <2>1, <2>2
  <2>3. CASE k \in 1..(Len(queue) - s) /\ k + s \in DOMAIN queue /\ queue'[k] = queue[k + s]
    <3>1. j + s < k + s
      BY <2>1, <2>3
    <3>2. QED
      BY <2>1, <2>3, <3>1 DEF TimeInv, InOrder
  <2>4. QED
    BY <1>8, <2>2, <2>3
<1>10. ASSUME NEW k \in DOMAIN queue'
       PROVE  /\ \A j \in DOMAIN batch : Before(batch[j], queue'[k])
              /\ heard[queue'[k].src].ts <= queue'[k].ts /\ queue'[k].ts <= now
              /\ \A x \in InCallback' : Before(queue'[k], reader[x].pkt)
  <2>1. CASE queue'[k] = p
    <3>1. \A x \in InCallback' : reader[x].pkt.src # r
      BY <1>5 DEF TimeInv, InHandIsLatest
    <3>2. QED
      BY <1>4, <2>1, <3>1 DEF Before
  <2>2. CASE k + s \in DOMAIN queue /\ queue'[k] = queue[k + s]
    BY <1>5, <2>2 DEF TimeInv, InOrder, InHandIsLatest, HeardIsEarliest, NothingIsFromTheFuture
  <2>3. QED
    BY <1>8, <2>1, <2>2
<1>11. QED
  BY <1>1, <1>5, <1>9, <1>10
     DEF TimeInv, InOrder, InHandIsLatest, HeardIsEarliest, NothingIsFromTheFuture

LEMMA NextTimeInv == IInv /\ TimeInv /\ [Next]_vars => TimeInv'
<1> SUFFICES ASSUME IInv, TimeInv, [Next]_vars PROVE TimeInv'
  OBVIOUS
<1> USE DEF TimeInv
<1>1. TypeOK
  BY DEF IInv
<1>2. /\ queue \in Seq(Packet) /\ batch \in Seq(Packet) /\ written \in 0..Len(batch)
      /\ reader \in [Readers -> Thread] /\ heard \in [Readers -> Heard] /\ now \in 0..MaxTime
  BY <1>1 DEF TypeOK
<1>3. CASE UNCHANGED <<reader, queue, batch, written, heard, now>>
  BY <1>3 DEF InOrder, InHandIsLatest, HeardIsEarliest, NothingIsFromTheFuture, InCallback
<1>4. CASE Start \/ StartTimer \/ BeginStop \/ Unsubscribe \/ EndSession \/ UNCHANGED vars
  BY <1>3, <1>4 DEF Start, StartTimer, BeginStop, Unsubscribe, EndSession, vars, readVars, flushVars
<1>5. CASE Tick
  <2>1. now' = now + 1 /\ UNCHANGED <<reader, queue, batch, written, heard>>
    BY <1>5 DEF Tick, readVars, flushVars
  <2>2. InCallback' = InCallback
    BY <2>1 DEF InCallback
  <2>3. \A t \in 0..MaxTime : t <= now => t <= now'
    BY <1>2, <2>1, IngestAssumption
  <2>4. /\ \A r \in Readers : heard[r].ts \in 0..MaxTime
        /\ \A r \in InCallback : reader[r].pkt.ts \in 0..MaxTime
        /\ \A k \in DOMAIN queue : queue[k].ts \in 0..MaxTime
        /\ \A k \in DOMAIN batch : batch[k].ts \in 0..MaxTime
    <3>1. \A p \in Packet : p.ts \in 0..MaxTime
      BY DEF Packet
    <3>2. \A r \in InCallback : reader[r].pkt \in Packet
      BY <1>2 DEF InCallback, Thread, Reading
    <3>3. /\ \A k \in DOMAIN queue : queue[k] \in Packet
          /\ \A k \in DOMAIN batch : batch[k] \in Packet
      BY <1>2
    <3>4. QED
      BY <1>2, <3>1, <3>2, <3>3 DEF Heard
  <2>5. NothingIsFromTheFuture'
    BY <2>1, <2>2, <2>3, <2>4 DEF NothingIsFromTheFuture
  <2>6. QED
    BY <2>1, <2>2, <2>5 DEF InOrder, InHandIsLatest, HeardIsEarliest
<1>6. ASSUME NEW r \in Readers, NEW p \in OnAir(r, now), Publish(r, p)
      PROVE  TimeInv'
  <2>1. /\ reader' = [reader EXCEPT ![r] = [pc |-> "called", pkt |-> p]]
        /\ UNCHANGED <<queue, batch, written, heard, now>>
    BY <1>6 DEF Publish, flushVars
  <2>2. p \in Packet /\ p.src = r /\ p.ts = now
    BY DEF OnAir
  <2>3. /\ InCallback' = InCallback \cup {r}
        /\ reader'[r].pkt = p
        /\ \A x \in InCallback \ {r} : reader'[x] = reader[x]
    BY <1>2, <2>1 DEF InCallback
  <2>4. /\ heard[r].ts <= p.ts
        /\ \A k \in DOMAIN queue : Before(queue[k], p)
        /\ \A k \in DOMAIN batch : Before(batch[k], p)
    BY <2>2 DEF NothingIsFromTheFuture, Before
  <2>5. InHandIsLatest'
    BY <2>1, <2>2, <2>3, <2>4 DEF InHandIsLatest
  <2>6. NothingIsFromTheFuture'
    BY <1>2, <2>1, <2>2, <2>3 DEF NothingIsFromTheFuture
  <2>7. QED
    BY <2>1, <2>5, <2>6 DEF InOrder, HeardIsEarliest
<1>7. ASSUME NEW r \in Readers, OnPacket(r)
      PROVE  TimeInv'
  <2> DEFINE accepted == reader[r].pkt.kind \notin {"undecodable", "own"}
  <2>1. /\ reader[r].pc = "called"
        /\ reader' = [reader EXCEPT ![r] = IF accepted THEN [@ EXCEPT !.pc = "append"] ELSE Reading]
        /\ UNCHANGED <<queue, batch, written, heard, now>>
    BY <1>7 DEF OnPacket, flushVars
  <2>2. \A x \in InCallback' : x \in InCallback /\ reader'[x].pkt = reader[x].pkt
    <3> SUFFICES ASSUME NEW x \in InCallback'
                 PROVE  x \in InCallback /\ reader'[x].pkt = reader[x].pkt
      OBVIOUS
    <3>1. CASE x = r
      <4>1. accepted
        BY <1>2, <2>1, <3>1 DEF InCallback, Reading
      <4>2. reader[r] \in [pc : {"called", "append"}, pkt : Packet]
        BY <1>2, <2>1 DEF Thread, Reading
      <4>3. QED
        BY <1>2, <2>1, <3>1, <4>1, <4>2 DEF InCallback
    <3>2. CASE x # r
      BY <1>2, <2>1, <3>2 DEF InCallback
    <3>3. QED
      BY <3>1, <3>2
  <2>3. QED
    BY <2>1, <2>2 DEF InOrder, InHandIsLatest, HeardIsEarliest, NothingIsFromTheFuture
<1>8. ASSUME NEW r \in Readers, Enqueue(r)
      PROVE  TimeInv'
  BY <1>1, <1>8, EnqueueKeepsOrder
<1>9. CASE Flush
  <2>1. /\ batch' = queue /\ queue' = <<>> /\ written' = 0 /\ UNCHANGED <<reader, heard, now>>
    BY <1>9 DEF Flush
  <2>2. DOMAIN queue' = {} /\ InCallback' = InCallback
    BY <2>1 DEF InCallback
  <2>3. QED
    BY <2>1, <2>2 DEF InOrder, InHandIsLatest, HeardIsEarliest, NothingIsFromTheFuture
<1>10. CASE Record
  <2> DEFINE p == batch[written + 1]
  <2>1. /\ written < Len(batch) /\ written' = written + 1
        /\ IF p.kind = "adv" THEN \E i \in Ids : RecordAdv(p, i) ELSE RecordOther(p)
        /\ UNCHANGED <<reader, queue, batch, now>>
    BY <1>10 DEF Record, readVars
  <2>2. written + 1 \in DOMAIN batch /\ p \in Packet /\ p.src \in Readers
    BY <1>2, <2>1 DEF Packet
  <2>3. /\ \A r \in Readers \ {p.src} : heard'[r].ts = heard[r].ts
        /\ heard'[p.src].ts = heard[p.src].ts \/ heard'[p.src].ts = p.ts
    <3> HIDE DEF p
    <3>1. CASE p.kind = "adv"
      <4>1. PICK i \in Ids : RecordAdv(p, i)
        BY <2>1, <3>1
      <4>2. heard' = [heard EXCEPT ![p.src] = [dev |-> p.dev, ts |-> p.ts]]
        BY <4>1 DEF RecordAdv
      <4>3. QED
        BY <1>2, <2>2, <4>2
    <3>2. CASE p.kind # "adv"
      BY <2>1, <3>2 DEF RecordOther
    <3>3. QED
      BY <3>1, <3>2
  <2>4. /\ p.ts <= now
        /\ \A k \in DOMAIN queue : Before(p, queue[k])
        /\ \A x \in InCallback : Before(p, reader[x].pkt)
        /\ \A k \in DOMAIN batch : k > written + 1 => Before(p, batch[k])
    <3>1. \A k \in DOMAIN batch : k > written + 1 => Before(p, batch[k])
      <4>1. \A k \in DOMAIN batch : k > written + 1 => written + 1 < k
        BY <1>2
      <4>2. QED
        BY <2>2, <4>1 DEF InOrder
    <3>2. QED
      BY <2>2, <3>1 DEF InOrder, InHandIsLatest, NothingIsFromTheFuture
  <2> HIDE DEF p
  <2>5. InCallback' = InCallback
    BY <2>1 DEF InCallback
  <2>6. InHandIsLatest'
    <3>1. ASSUME NEW x \in InCallback
          PROVE  heard'[x].ts <= reader[x].pkt.ts
      BY <2>3, <2>4 DEF InHandIsLatest, Before, InCallback
    <3>2. QED
      BY <2>1, <2>5, <3>1 DEF InHandIsLatest
  <2>7. HeardIsEarliest'
    <3>1. \A k \in DOMAIN queue : queue[k].src \in Readers
      BY <1>2 DEF Packet
    <3>2. \A k \in DOMAIN queue : heard'[queue[k].src].ts <= queue[k].ts
      BY <2>3, <2>4, <3>1 DEF HeardIsEarliest, Before
    <3>3. ASSUME NEW k \in DOMAIN batch, k > written + 1
          PROVE  heard'[batch[k].src].ts <= batch[k].ts
      <4>1. k > written /\ batch[k].src \in Readers
        BY <1>2, <3>3 DEF Packet
      <4>2. QED
        BY <2>3, <2>4, <3>3, <4>1 DEF HeardIsEarliest, Before
    <3>4. QED
      BY <2>1, <3>2, <3>3 DEF HeardIsEarliest
  <2>8. NothingIsFromTheFuture'
    BY <2>1, <2>3, <2>4, <2>5 DEF NothingIsFromTheFuture
  <2>9. QED
    BY <2>1, <2>6, <2>7, <2>8 DEF InOrder
<1>11. CASE Commit \/ Rollback
  <2>1. batch' = <<>> /\ UNCHANGED <<reader, queue, heard, now>>
    BY <1>11 DEF Commit, Rollback, readVars
  <2>2. DOMAIN batch' = {} /\ InCallback' = InCallback
    BY <2>1 DEF InCallback
  <2>3. QED
    BY <2>1, <2>2 DEF InOrder, InHandIsLatest, HeardIsEarliest, NothingIsFromTheFuture
<1>12. QED
  BY <1>4, <1>5, <1>6, <1>7, <1>8, <1>9, <1>10, <1>11 DEF Next

THEOREM IngestKeepsTheOrder == Spec => []TimeInv
BY IngestInvariant, InitTimeInv, NextTimeInv, PTL DEF Spec

(* Only record_packet adds to bad_packet_count: a rollback takes away.     *)
LEMMA OnlyRecordCredits ==
  ASSUME TypeOK, MemoryInv, Next, NEW d \in Devs, work'.bad[d] > work.bad[d]
  PROVE  /\ Record
         /\ batch[written + 1].kind = "crc" /\ d \in Credited(batch[written + 1])
<1>1. work \in Tables /\ disk \in Tables /\ batch \in Seq(Packet) /\ written \in 0..Len(batch)
  BY DEF TypeOK
<1>2. work.bad[d] \in Nat /\ disk.bad[d] \in Nat /\ disk.bad[d] <= work.bad[d]
  BY <1>1 DEF Tables, MemoryInv
<1>3. CASE work' = work \/ work' = disk
  BY <1>2, <1>3
<1>4. CASE Record
  <2> DEFINE p == batch[written + 1]
  <2>1. IF p.kind = "adv" THEN \E i \in Ids : RecordAdv(p, i) ELSE RecordOther(p)
    BY <1>4 DEF Record
  <2> HIDE DEF p
  <2>2. CASE p.kind = "adv"
    <3>1. work'.bad = work.bad
      BY <1>1, <2>1, <2>2 DEF RecordAdv, Tables
    <3>2. QED
      BY <1>2, <3>1
  <2>3. CASE p.kind # "adv"
    <3> DEFINE bad == [x \in Devs |-> IF p.kind = "crc" /\ x \in Credited(p)
                                     THEN work.bad[x] + 1 ELSE work.bad[x]]
    <3>1. work' = [work EXCEPT !.bad = bad]
      BY <2>1, <2>3 DEF RecordOther
    <3> HIDE DEF bad
    <3>2. work'.bad = bad
      BY <1>1, <3>1 DEF Tables
    <3>3. p.kind = "crc" /\ d \in Credited(p)
      BY <1>2, <3>2 DEF bad
    <3>4. QED
      BY <1>4, <3>3 DEF p
  <2>4. QED
    BY <2>2, <2>3
<1>5. CASE Start \/ StartTimer \/ BeginStop \/ Unsubscribe \/ EndSession \/ Tick
  BY <1>3, <1>5 DEF Start, StartTimer, BeginStop, Unsubscribe, EndSession, Tick, flushVars
<1>6. CASE \E r \in Readers : (\E p \in OnAir(r, now) : Publish(r, p)) \/ OnPacket(r) \/ Enqueue(r)
  BY <1>3, <1>6 DEF Publish, OnPacket, Enqueue, flushVars
<1>7. CASE Flush \/ Commit \/ Rollback
  BY <1>3, <1>7 DEF Flush, Commit, Rollback
<1>8. QED
  BY <1>3, <1>4, <1>5, <1>6, <1>7 DEF Next

(* Until a flush fails a CRC failure is credited to the device last heard  *)
(* on its source and channel, not later than Window before it, and to no   *)
(* other: the row cached for the pair is still that device's, its time is  *)
(* that of the clean packet, and packets are recorded in time order.       *)
THEOREM IngestCreditsTheLastTransmitter == Spec => CreditsUntilRollback
<1>1. IInv /\ MemoryInv /\ TimeInv /\ [Next]_vars => [fate.lost = 0 => CreditIsDue]_vars
  <2> SUFFICES ASSUME IInv, MemoryInv, TimeInv, Next, fate.lost = 0, NEW d \in Devs,
                      work'.bad[d] > work.bad[d]
               PROVE  LET p == batch[written + 1]
                      IN  heard[p.src].dev = d /\ p.ts - heard[p.src].ts \in 0..Window
    BY DEF CreditIsDue
  <2> DEFINE p == batch[written + 1]
  <2>1. TypeOK
    BY DEF IInv
  <2>2. Record /\ p.kind = "crc" /\ d \in Credited(p)
    BY <2>1, OnlyRecordCredits
  <2>3. batch \in Seq(Packet) /\ written \in 0..Len(batch) /\ written < Len(batch)
    BY <2>1, <2>2 DEF TypeOK, Record
  <2>4. written + 1 \in DOMAIN batch /\ written + 1 > written /\ p \in Packet
    BY <2>3
  <2>5. heard[p.src].ts <= p.ts
    BY <2>4 DEF TimeInv, HeardIsEarliest
  <2> HIDE DEF p
  <2>6. p.src \in Readers /\ p.ts \in 0..MaxTime
    BY <2>4 DEF Packet
  <2>7. /\ lastClean[p.src].id # 0 /\ p.ts - lastClean[p.src].ts <= Window
        /\ work.id[d] = lastClean[p.src].id
    BY <2>2 DEF Credited
  <2>8. /\ heard[p.src].dev \in Devs /\ work.id[heard[p.src].dev] = lastClean[p.src].id
        /\ lastClean[p.src].ts = heard[p.src].ts
    BY <2>6, <2>7 DEF MemoryInv, LastCleanIsHeard
  <2>9. heard[p.src].dev = d
    BY <2>7, <2>8 DEF MemoryInv, UniqueIds
  <2>10. heard[p.src].ts \in 0..MaxTime
    BY <2>1, <2>6 DEF TypeOK, Heard
  <2>11. p.ts - heard[p.src].ts \in 0..Window
    BY <2>5, <2>6, <2>7, <2>8, <2>10, IngestAssumption
  <2>12. QED
    BY <2>9, <2>11 DEF p
<1>2. QED
  BY <1>1, IngestInvariant, IngestMemory, IngestKeepsTheOrder, PTL DEF Spec, CreditsUntilRollback
-----------------------------------------------------------------------------
(* Sums over the devices.  The library's induction theorems take an        *)
(* operator; a set of the values for which the claim holds serves instead: *)
(* a value outside it would have a least one.                              *)
LEMMA NatInductionOnSet ==
  ASSUME NEW X, 0 \in X, \A n \in Nat : n \in X => n + 1 \in X
  PROVE  Nat \subseteq X
<1> DEFINE R == OpToRel(<, Nat)
<1>1. IsWellFoundedOn(R, Nat)
  BY NatLessThanWellFounded
<1>2. R = {p \in Nat \X Nat : p[1] < p[2]}
  BY DEF OpToRel
<1> HIDE DEF R
<1> SUFFICES ASSUME Nat \ X # {} PROVE FALSE
  OBVIOUS
<1>3. PICK n \in Nat \ X : \A m \in Nat \ X : <<m, n>> \notin R
  BY <1>1, WFMin
<1>4. n # 0 /\ n - 1 \in Nat /\ n - 1 < n /\ n - 1 \notin X
  BY <1>3
<1>5. QED
  BY <1>2, <1>3, <1>4

LEMMA SubsetInduction ==
  ASSUME NEW X, \A S \in SUBSET Devs : (\A x \in S : S \ {x} \in X) => S \in X
  PROVE  SUBSET Devs \subseteq X
<1> DEFINE R == StrictSubsetOrdering(Devs)
<1>1. IsWellFoundedOn(R, SUBSET Devs)
  BY IngestAssumption, FS_StrictSubsetOrderingWellFounded, FS_FiniteSubsetsOfFinite
<1>2. \A S, U \in SUBSET Devs : <<S, U>> \in R <=> S \subseteq U /\ S # U
  BY DEF StrictSubsetOrdering
<1> HIDE DEF R
<1> SUFFICES ASSUME (SUBSET Devs) \ X # {} PROVE FALSE
  OBVIOUS
<1>3. PICK S \in (SUBSET Devs) \ X : \A U \in (SUBSET Devs) \ X : <<U, S>> \notin R
  BY <1>1, WFMin
<1>4. PICK x \in S : S \ {x} \notin X
  BY <1>3
<1>5. S \ {x} \in (SUBSET Devs) \ X /\ S \ {x} # S
  BY <1>3, <1>4
<1>6. QED
  BY <1>2, <1>3, <1>5

(* The sum RecordedCountsCommittedRows takes of disk.good.                 *)
Total(f) ==
  LET total[S \in SUBSET Devs] ==
        IF S = {} THEN 0 ELSE LET d == CHOOSE x \in S : TRUE
                              IN  f[d] + total[S \ {d}]
  IN  total

One(S) == CHOOSE x \in S : TRUE
Add(f, h, S) == IF S = {} THEN 0 ELSE f[One(S)] + h[S \ {One(S)}]

LEMMA RecordedCountsIsTotal ==
  RecordedCountsCommittedRows <=> stats.recorded = Total(disk.good)[Devs]
BY DEF RecordedCountsCommittedRows, Total

(* A function of sets up to a size that satisfies the recursion extends to *)
(* the next size, so one of all the sets does.                             *)
LEMMA TotalExists ==
  ASSUME NEW f PROVE \E h : h = [S \in SUBSET Devs |-> Add(f, h, S)]
<1> DEFINE UpTo(n) == {S \in SUBSET Devs : Cardinality(S) <= n}
           X == {n \in Nat : \E h : h = [S \in UpTo(n) |-> Add(f, h, S)]}
<1>1. \A S \in SUBSET Devs : IsFiniteSet(S) /\ Cardinality(S) \in Nat
  BY IngestAssumption, FS_Subset, FS_CardinalityType
<1>2. \A S \in SUBSET Devs : S # {} =>
        /\ One(S) \in S /\ S \ {One(S)} \in SUBSET Devs
        /\ Cardinality(S \ {One(S)}) = Cardinality(S) - 1
  BY <1>1, FS_RemoveElement DEF One
<1>3. 0 \in X
  <2>1. \A S \in UpTo(0) : S = {}
    BY <1>1, FS_EmptySet
  <2>2. [S \in UpTo(0) |-> 0] = [S \in UpTo(0) |-> Add(f, [U \in UpTo(0) |-> 0], S)]
    BY <2>1 DEF Add
  <2>3. QED
    BY <2>2
<1>4. ASSUME NEW n \in Nat, n \in X PROVE n + 1 \in X
  <2>1. PICK g : g = [S \in UpTo(n) |-> Add(f, g, S)]
    BY <1>4
  <2> DEFINE h == [S \in UpTo(n + 1) |-> Add(f, g, S)]
  <2>2. \A S \in UpTo(n) : S \in UpTo(n + 1) /\ h[S] = g[S]
    <3>1. \A S \in UpTo(n) : S \in UpTo(n + 1)
      BY <1>1
    <3>2. \A S \in UpTo(n) : g[S] = Add(f, g, S)
      BY <2>1
    <3> HIDE DEF UpTo
    <3>3. QED
      BY <3>1, <3>2
  <2>3. \A S \in UpTo(n + 1) : S # {} => S \ {One(S)} \in UpTo(n)
    BY <1>1, <1>2
  <2> HIDE DEF UpTo, h
  <2>4. \A S \in UpTo(n + 1) : Add(f, g, S) = Add(f, h, S)
    BY <2>2, <2>3 DEF Add
  <2>5. h = [S \in UpTo(n + 1) |-> Add(f, h, S)]
    BY <2>4 DEF h
  <2>6. QED
    BY <2>5
<1>5. Nat \subseteq X
  <2> HIDE DEF X
  <2> QED BY <1>3, <1>4, NatInductionOnSet
<1>6. Cardinality(Devs) \in X
  BY <1>1, <1>5
<1>7. UpTo(Cardinality(Devs)) = SUBSET Devs
  BY <1>1, IngestAssumption, FS_Subset
<1>8. QED
  BY <1>6, <1>7

LEMMA TotalIs ==
  ASSUME NEW f
  PROVE  Total(f) = [S \in SUBSET Devs |-> Add(f, Total(f), S)]
<1>1. PICK h : h = [S \in SUBSET Devs |-> Add(f, h, S)]
  BY TotalExists
<1>2. QED
  BY <1>1 DEF Total, Add, One

LEMMA TotalType ==
  ASSUME NEW f \in [Devs -> Nat], NEW S \in SUBSET Devs PROVE Total(f)[S] \in Nat
<1> DEFINE X == {U \in SUBSET Devs : Total(f)[U] \in Nat}
<1>1. ASSUME NEW U \in SUBSET Devs, \A x \in U : U \ {x} \in X
      PROVE  U \in X
  <2>1. Total(f)[U] = Add(f, Total(f), U)
    BY TotalIs
  <2>2. U # {} => One(U) \in U
    BY DEF One
  <2>3. QED
    BY <1>1, <2>1, <2>2 DEF Add
<1> HIDE DEF X
<1>2. S \in X
  BY <1>1, SubsetInduction
<1>3. QED
  BY <1>2 DEF X

LEMMA TotalOfZeros ==
  ASSUME NEW f \in [Devs -> {0}] PROVE Total(f)[Devs] = 0
<1> DEFINE X == {U \in SUBSET Devs : Total(f)[U] = 0}
<1>1. ASSUME NEW U \in SUBSET Devs, \A x \in U : U \ {x} \in X
      PROVE  U \in X
  <2>1. Total(f)[U] = Add(f, Total(f), U)
    BY TotalIs
  <2>2. U # {} => One(U) \in U
    BY DEF One
  <2>3. QED
    BY <1>1, <2>1, <2>2 DEF Add
<1> HIDE DEF X
<1>2. Devs \in X
  BY <1>1, SubsetInduction
<1>3. QED
  BY <1>2 DEF X

(* One more for one device is one more in all.                             *)
LEMMA TotalGrows ==
  ASSUME NEW f \in [Devs -> Nat], NEW d \in Devs
  PROVE  Total([f EXCEPT ![d] = @ + 1])[Devs] = Total(f)[Devs] + 1
<1> DEFINE g == [f EXCEPT ![d] = @ + 1]
           In(S) == IF d \in S THEN 1 ELSE 0
           X == {U \in SUBSET Devs : Total(g)[U] = Total(f)[U] + In(U)}
<1>1. \A e \in Devs : g[e] = f[e] + In({e}) /\ f[e] \in Nat
  BY DEF In
<1>2. \A U \in SUBSET Devs : Total(f)[U] \in Nat
  BY TotalType
<1> HIDE DEF g
<1>3. ASSUME NEW U \in SUBSET Devs, \A x \in U : U \ {x} \in X
      PROVE  U \in X
  <2>1. Total(f)[U] = Add(f, Total(f), U) /\ Total(g)[U] = Add(g, Total(g), U)
    BY TotalIs
  <2>2. CASE U = {}
    BY <2>1, <2>2 DEF Add
  <2>3. CASE U # {}
    <3> DEFINE e == One(U)
               V == U \ {One(U)}
    <3>1. e \in U /\ e \in Devs /\ V \in SUBSET Devs /\ V \in X
      BY <1>3, <2>3 DEF One
    <3>2. /\ Total(f)[U] = f[e] + Total(f)[V] /\ Total(g)[U] = g[e] + Total(g)[V]
      BY <2>1, <2>3 DEF Add
    <3>3. In(U) = In({e}) + In(V)
      <4>1. d \in U <=> d = e \/ d \in V
        BY <3>1
      <4>2. ~(d = e /\ d \in V)
        OBVIOUS
      <4>3. QED
        BY <4>1, <4>2
    <3>4. Total(g)[V] = Total(f)[V] + In(V)
      BY <3>1
    <3>5. In(V) \in Nat /\ In({e}) \in Nat
      OBVIOUS
    <3> HIDE DEF e, V, In
    <3>6. QED
      BY <1>1, <1>2, <3>1, <3>2, <3>3, <3>4, <3>5
  <2>4. QED
    BY <2>2, <2>3
<1>4. Devs \in X
  <2> HIDE DEF X
  <2> QED BY <1>3, SubsetInduction
<1>5. QED
  BY <1>4 DEF g

(* packets_recorded is the sum over the committed tables, and the tables   *)
(* of the main thread are ahead of them by the clean packets of the batch  *)
(* that have been through record_packet.                                   *)
AdvUpTo(n) == Cardinality({k \in 1..n : batch[k].kind = "adv"})

RecordedInv ==
  /\ stats.recorded = Total(disk.good)[Devs]
  /\ Total(work.good)[Devs] = Total(disk.good)[Devs] + AdvUpTo(written)

LEMMA AdvUpToZero == AdvUpTo(0) = 0
<1>1. {k \in 1..0 : batch[k].kind = "adv"} = {}
  OBVIOUS
<1>2. QED
  BY <1>1, FS_EmptySet DEF AdvUpTo

LEMMA AdvUpToGrows ==
  ASSUME NEW n \in Nat
  PROVE  AdvUpTo(n + 1) = AdvUpTo(n) + IF batch[n + 1].kind = "adv" THEN 1 ELSE 0
<1> DEFINE S(m) == {k \in 1..m : batch[k].kind = "adv"}
<1>1. IsFiniteSet(S(n)) /\ Cardinality(S(n)) \in Nat
  <2>1. IsFiniteSet(1..n)
    BY FS_Interval
  <2>2. S(n) \subseteq 1..n
    OBVIOUS
  <2>3. QED
    BY <2>1, <2>2, FS_Subset, FS_CardinalityType
<1>2. CASE batch[n + 1].kind = "adv"
  <2>1. S(n + 1) = S(n) \cup {n + 1} /\ n + 1 \notin S(n)
    BY <1>2
  <2> HIDE DEF S
  <2>2. Cardinality(S(n + 1)) = Cardinality(S(n)) + 1
    BY <1>1, <2>1, FS_AddElement
  <2>3. QED
    BY <1>2, <2>2 DEF AdvUpTo, S
<1>3. CASE batch[n + 1].kind # "adv"
  <2>1. S(n + 1) = S(n)
    BY <1>3
  <2> HIDE DEF S
  <2>2. Cardinality(S(n + 1)) = Cardinality(S(n)) + 0
    BY <1>1, <2>1
  <2>3. QED
    BY <1>3, <2>2 DEF AdvUpTo, S
<1>4. QED
  BY <1>2, <1>3

LEMMA InitRecordedInv == Init => RecordedInv
<1> SUFFICES ASSUME Init PROVE RecordedInv
  OBVIOUS
<1>1. disk \in InitialTables /\ work = disk /\ stats.recorded = 0 /\ written = 0
  BY DEF Init
<1>2. disk.good \in [Devs -> {0}]
  BY <1>1 DEF InitialTables
<1>3. Total(disk.good)[Devs] = 0
  BY <1>2, TotalOfZeros
<1>4. QED
  BY <1>1, <1>3, AdvUpToZero DEF RecordedInv

LEMMA NextRecordedInv == IInv /\ RecordedInv /\ [Next]_vars => RecordedInv'
<1> SUFFICES ASSUME IInv, RecordedInv, [Next]_vars PROVE RecordedInv'
  OBVIOUS
<1>1. TypeOK
  BY DEF IInv
<1>2. /\ queue \in Seq(Packet) /\ batch \in Seq(Packet) /\ written \in 0..Len(batch)
      /\ stats \in Stats /\ disk \in Tables /\ work \in Tables
      /\ disk.good \in [Devs -> Nat] /\ work.good \in [Devs -> Nat]
  BY <1>1 DEF TypeOK, Tables
<1>3. Total(disk.good)[Devs] \in Nat /\ Total(work.good)[Devs] \in Nat
  BY <1>2, TotalType
<1>4. CASE UNCHANGED <<disk, work, batch, written>> /\ stats'.recorded = stats.recorded
  BY <1>4 DEF RecordedInv, AdvUpTo
<1>5. CASE Start \/ StartTimer \/ BeginStop \/ Unsubscribe \/ EndSession \/ Tick \/ UNCHANGED vars
  BY <1>4, <1>5 DEF Start, StartTimer, BeginStop, Unsubscribe, EndSession, Tick, vars, flushVars
<1>6. ASSUME NEW r \in Readers, (\E p \in OnAir(r, now) : Publish(r, p)) \/ OnPacket(r) \/ Enqueue(r)
      PROVE  RecordedInv'
  <2>1. UNCHANGED <<disk, work, batch, written>>
    BY <1>6 DEF Publish, OnPacket, Enqueue, flushVars
  <2>2. stats'.recorded = stats.recorded
    BY <1>2, <1>6 DEF Publish, OnPacket, Enqueue, Stats
  <2>3. QED
    BY <1>4, <2>1, <2>2
<1>7. CASE Flush
  <2>1. batch = <<>> /\ written' = 0 /\ UNCHANGED <<disk, work, stats>>
    BY <1>7 DEF Flush
  <2>2. AdvUpTo(written) = 0
    <3>1. written = 0
      BY <1>2, <2>1
    <3>2. QED
      BY <3>1, AdvUpToZero
  <2>3. AdvUpTo(written)' = 0
    <3>1. {k \in 1..0 : batch'[k].kind = "adv"} = {}
      OBVIOUS
    <3>2. QED
      BY <2>1, <3>1, FS_EmptySet DEF AdvUpTo
  <2>4. QED
    BY <2>1, <2>2, <2>3 DEF RecordedInv
<1>8. CASE Record
  <2> DEFINE p == batch[written + 1]
  <2>1. /\ written < Len(batch) /\ written' = written + 1
        /\ IF p.kind = "adv" THEN \E i \in Ids : RecordAdv(p, i) ELSE RecordOther(p)
        /\ UNCHANGED <<batch, disk, stats>>
    BY <1>8 DEF Record
  <2>2. p \in Packet /\ written \in Nat
    BY <1>2, <2>1
  <2>3. AdvUpTo(written)' = AdvUpTo(written) + IF p.kind = "adv" THEN 1 ELSE 0
    <3>1. AdvUpTo(written)' = AdvUpTo(written + 1)
      BY <2>1 DEF AdvUpTo
    <3>2. QED
      BY <2>2, <3>1, AdvUpToGrows
  <2>4. AdvUpTo(written) \in Nat
    <3>1. IsFiniteSet(1..written)
      BY <2>2, FS_Interval
    <3>2. QED
      BY <3>1, FS_Subset, FS_CardinalityType DEF AdvUpTo
  <2> HIDE DEF p
  <2>5. Total(work'.good)[Devs] = Total(work.good)[Devs] + IF p.kind = "adv" THEN 1 ELSE 0
    <3>1. CASE p.kind = "adv"
      <4>1. PICK i \in Ids : RecordAdv(p, i)
        BY <2>1, <3>1
      <4>2. p.dev \in Devs
        BY <2>2, <3>1 DEF Packet
      <4>3. work'.good = [work.good EXCEPT ![p.dev] = @ + 1]
        BY <1>2, <4>1 DEF RecordAdv, Tables
      <4>4. QED
        BY <1>2, <3>1, <4>2, <4>3, TotalGrows
    <3>2. CASE p.kind # "adv"
      <4>1. work'.good = work.good
        BY <1>2, <2>1, <3>2 DEF RecordOther, Tables
      <4>2. QED
        BY <1>3, <3>2, <4>1
    <3>3. QED
      BY <3>1, <3>2
  <2>6. QED
    BY <1>3, <2>1, <2>3, <2>4, <2>5 DEF RecordedInv
<1>9. CASE Commit
  <2>1. /\ disk' = work /\ work' = work /\ written' = 0 /\ written = Len(batch)
        /\ stats'.recorded = stats.recorded + AdvIn(batch)
    BY <1>2, <1>9 DEF Commit, Stats
  <2>2. AdvIn(batch) = AdvUpTo(written)
    <3>1. DOMAIN batch = 1..written
      BY <1>2, <2>1
    <3>2. QED
      BY <3>1 DEF AdvIn, AdvUpTo
  <2>3. AdvUpTo(written)' = 0
    <3>1. {k \in 1..0 : batch'[k].kind = "adv"} = {}
      OBVIOUS
    <3>2. QED
      BY <2>1, <3>1, FS_EmptySet DEF AdvUpTo
  <2>4. QED
    BY <1>3, <2>1, <2>2, <2>3 DEF RecordedInv
<1>10. CASE Rollback
  <2>1. work' = disk /\ disk' = disk /\ written' = 0 /\ stats' = stats
    BY <1>10 DEF Rollback
  <2>2. AdvUpTo(written)' = 0
    <3>1. {k \in 1..0 : batch'[k].kind = "adv"} = {}
      OBVIOUS
    <3>2. QED
      BY <2>1, <3>1, FS_EmptySet DEF AdvUpTo
  <2>3. QED
    BY <1>3, <2>1, <2>2 DEF RecordedInv
<1>11. QED
  BY <1>5, <1>6, <1>7, <1>8, <1>9, <1>10 DEF Next

(* packets_recorded counts exactly the clean packets of the committed      *)
(* observations, however many flushes fail and wherever in a batch.        *)
THEOREM IngestRecordedCountsRows == Spec => []RecordedCountsCommittedRows
<1>1. RecordedInv => RecordedCountsCommittedRows
  BY RecordedCountsIsTotal DEF RecordedInv
<1>2. Spec => []RecordedInv
  BY IngestInvariant, InitRecordedInv, NextRecordedInv, PTL DEF Spec
<1>3. QED
  BY <1>1, <1>2, PTL
=============================================================================
