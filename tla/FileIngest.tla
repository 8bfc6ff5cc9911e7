----------------------------- MODULE FileIngest -----------------------------
(***************************************************************************)
(* `btviz ingest`: ingest_file (ingest/pipeline.py) in one transaction     *)
(* (db/store.py), fed by a tshark subprocess (ingest/tshark.py), while the *)
(* canvas, another process, may record live packets in the same tables.    *)
(*                                                                         *)
(* A capture file is a sequence of records; what tshark makes of a record, *)
(* and normalize of that, is a packet as record_packet takes it.  Writers  *)
(* exclude each other: while the file's transaction is open, a live flush  *)
(* waits, times out and is dropped.  A live flush is one step; LiveIngest  *)
(* has its detail.                                                         *)
(***************************************************************************)
EXTENDS RecordPacket

CONSTANTS
  Records,      \* what a file may consist of: packets, or Other
  Other,        \* a record that is not of the link layer
  Frames,       \* what the live session's sniffers may capture
  OnAir,        \* the addresses of the transmitters of Records and Frames
  MaxRecords,   \* bound: records of a file
  MaxFrames,    \* bound: frames of a live session
  MaxSessions,  \* bound: sessions in the tables
  OutCap,       \* records the pipe from tshark's stdout holds
  ErrCap,       \* warnings the pipe from its stderr holds
  MaxWarnings,  \* bound: warnings tshark writes
  MayFail       \* "tshark" fails, a statement raises ("db"), the user "quits"

ASSUME FileIngestAssumption ==
  /\ MaxRecords \in Nat /\ MaxFrames \in Nat /\ MaxSessions \in Nat /\ MaxWarnings \in Nat
  /\ OutCap \in Nat \ {0} /\ ErrCap \in Nat
  /\ MayFail \subseteq {"tshark", "db", "quit"}

VARIABLES
  tables,  \* what is committed
  tx,      \* what ingest_file's connection sees: tables unless a transaction is open
  pc,      \* ingest_file: "idle", "reading" tshark's output, "failing"
  ctx,     \* its IngestContext
  counts,  \* packets_seen, packets_recorded, packets_no_addr, and rows before
  report,  \* the IngestReport it ended with, or None
  tshark,  \* the subprocess: what it has yet to write, its pipes, its end
  live,    \* the live session: its context and how many frames it has had, or None
  stale    \* history: a file was committed while the live session was on

ingestVars == <<tx, pc, ctx, counts, tshark>>
vars == <<tables, tx, pc, ctx, counts, report, tshark, live, stale>>

-----------------------------------------------------------------------------
(* The subprocess: it writes its records in order, and warnings at any     *)
(* time; a full pipe blocks it.                                            *)
NoProcess == [left |-> <<>>, out |-> <<>>, warned |-> 0, err |-> 0, state |-> "gone", rc |-> 0]
Spawned(file) == [NoProcess EXCEPT !.left = file, !.state = "runs"]

TsharkWrites ==
  /\ tshark.state = "runs" /\ tshark.left # <<>> /\ Len(tshark.out) < OutCap
  /\ tshark' = [tshark EXCEPT !.left = Tail(@), !.out = Append(@, Head(tshark.left))]
  /\ UNCHANGED <<tables, tx, pc, ctx, counts, report, live, stale>>

TsharkWarns ==
  /\ tshark.state = "runs" /\ tshark.warned < MaxWarnings
  /\ tshark' = [tshark EXCEPT !.warned = @ + 1,
                              !.state = IF tshark.err = ErrCap THEN "blocked" ELSE @,
                              !.err = IF @ = ErrCap THEN @ ELSE @ + 1]
  /\ UNCHANGED <<tables, tx, pc, ctx, counts, report, live, stale>>

TsharkExits ==
  /\ tshark.state = "runs" /\ tshark.left = <<>>
  /\ tshark' = [tshark EXCEPT !.state = "gone"]
  /\ UNCHANGED <<tables, tx, pc, ctx, counts, report, live, stale>>

TsharkFails ==
  /\ "tshark" \in MayFail /\ tshark.state # "gone"
  /\ tshark' = [tshark EXCEPT !.state = "gone", !.rc = 1, !.left = <<>>]
  /\ UNCHANGED <<tables, tx, pc, ctx, counts, report, live, stale>>

-----------------------------------------------------------------------------
(* ingest_file                                                             *)
NoCounts == [seen |-> 0, recorded |-> 0, noAddr |-> 0, devices |-> 0, addresses |-> 0]
Size(f) == Cardinality(DOMAIN f)

(* BEGIN; the project, made if need be, and a new session.                 *)
Opened(file) ==
  [tables EXCEPT !.projects = @ \cup {"project"},
                 !.sessions = Append(@, [live |-> FALSE, source |-> file, ended |-> FALSE])]

IngestFile(file) ==
  /\ pc = "idle" /\ Len(tables.sessions) < MaxSessions
  /\ pc' = "reading"
  /\ tx' = Opened(file)
  /\ ctx' = NewContext(Len(tables.sessions) + 1)
  /\ counts' = [NoCounts EXCEPT !.devices = Size(tables.devices), !.addresses = Size(tables.addresses)]
  /\ tshark' = Spawned(file)
  /\ report' = None
  /\ UNCHANGED <<tables, live, stale>>

\* A packet record_packet gets to see.
Kept(rec) == rec # Other /\ rec.addr # <<>>

(* One turn of the loop: the next record is normalized and recorded.       *)
ReadRecord ==
  /\ pc = "reading" /\ tshark.out # <<>>
  /\ LET rec == Head(tshark.out)
         kept == Kept(rec)
     IN \E done \in {IF kept THEN Recorded(tx, ctx, rec, FALSE) ELSE [tables |-> tx, ctx |-> ctx, by |-> None]} :
          /\ tx' = done.tables
          /\ ctx' = done.ctx
          /\ counts' = [counts EXCEPT !.seen = @ + 1,
                                      !.noAddr = IF rec # Other /\ ~kept THEN @ + 1 ELSE @,
                                      !.recorded = IF done.by # None THEN @ + 1 ELSE @]
  /\ tshark' = [tshark EXCEPT !.out = Tail(@)]
  /\ UNCHANGED <<tables, pc, report, live, stale>>

(* A statement of record_packet raises; a packet without an address, or    *)
(* with a bad CRC, executes none.  The generator is closed first, and its  *)
(* finally clause reads stderr to its end and waits for tshark.            *)
StatementRaises ==
  /\ "db" \in MayFail
  /\ pc = "reading" /\ tshark.out # <<>>
  /\ Head(tshark.out) # Other /\ ~Skipped(Head(tshark.out))
  /\ pc' = "failing"
  /\ tshark' = [tshark EXCEPT !.out = Tail(@)]
  /\ UNCHANGED <<tables, tx, ctx, counts, report, live, stale>>

DrainErrors ==
  /\ pc = "failing" \/ (pc = "reading" /\ tshark.out = <<>> /\ tshark.state = "gone")
  /\ tshark.err > 0 \/ tshark.state = "blocked"
  /\ tshark' = [tshark EXCEPT !.err = 0, !.state = IF @ = "blocked" THEN "runs" ELSE @]
  /\ UNCHANGED <<tables, tx, pc, ctx, counts, report, live, stale>>

(* How it ends: nothing of the transaction remains, and no process.        *)
Over(t) ==
  /\ tables' = t /\ tx' = t
  /\ pc' = "idle" /\ ctx' = NewContext(0) /\ counts' = NoCounts /\ tshark' = NoProcess

RolledBack == Over(tables) /\ report' = None /\ UNCHANGED stale

GiveUp ==
  /\ pc = "failing" /\ tshark.state = "gone" /\ tshark.err = 0
  /\ RolledBack
  /\ UNCHANGED live

\* Mutant: the session is ended whatever tshark's exit status.
ExitStatusIgnored(rc) == TRUE

(* The output has ended: the exit status decides between ROLLBACK, and     *)
(* ending the session and COMMIT.                                          *)
ExitStatusOk(rc) == rc = 0

Closed(t, s) == [t EXCEPT !.sessions[s].ended = TRUE]
IngestReport ==
  [seen |-> counts.seen, recorded |-> counts.recorded, noAddr |-> counts.noAddr,
   devicesNew |-> Size(tx.devices) - counts.devices, devicesTouched |-> Cardinality(ctx.seen),
   addressesNew |-> Size(tx.addresses) - counts.addresses, broadcasts |-> Cardinality(ctx.broadcasts)]

EndOfOutput ==
  /\ pc = "reading" /\ tshark.out = <<>> /\ tshark.state = "gone" /\ tshark.err = 0
  /\ IF ExitStatusOk(tshark.rc)
     THEN /\ Over(Closed(tx, ctx.session))
          /\ report' = IngestReport
          /\ stale' = (stale \/ live # None)
     ELSE RolledBack
  /\ UNCHANGED live

(* Ctrl-C ends both processes, and the transaction; so does a crash.       *)
Quit ==
  /\ "quit" \in MayFail /\ pc # "idle"
  /\ RolledBack
  /\ UNCHANGED live

-----------------------------------------------------------------------------
(* The other process: a live session, whose context lives as long as it.   *)
StartLive ==
  /\ live = None /\ pc = "idle" /\ Len(tables.sessions) < MaxSessions
  /\ tables' = [tables EXCEPT !.sessions = Append(@, [live |-> TRUE, source |-> <<>>, ended |-> FALSE])]
  /\ live' = [ctx |-> NewContext(Len(tables.sessions) + 1), frames |-> 0]
  /\ stale' = FALSE
  /\ tx' = tables'
  /\ UNCHANGED <<pc, ctx, counts, report, tshark>>

\* What the decoder makes of the frames.
Captured == {DecodeLive(f) : f \in Frames}

(* A frame is captured, decoded and recorded; or its flush fails, because  *)
(* the file's transaction holds the lock.                                  *)
LivePacket(pkt) ==
  LET done == Recorded(tables, live.ctx, pkt, TRUE)
  IN /\ live # None /\ live.frames < MaxFrames
     /\ pc = "idle"
     /\ tables' = done.tables /\ tx' = tables'
     /\ live' = [ctx |-> done.ctx, frames |-> live.frames + 1]
     /\ UNCHANGED <<pc, ctx, counts, report, tshark, stale>>

StopLive ==
  /\ live # None /\ pc = "idle"
  /\ tables' = [tables EXCEPT !.sessions[live.ctx.session].ended = TRUE] /\ tx' = tables'
  /\ live' = None
  /\ stale' = FALSE
  /\ UNCHANGED <<pc, ctx, counts, report, tshark>>

-----------------------------------------------------------------------------
Init ==
  /\ tables = NoTables /\ tx = NoTables
  /\ pc = "idle" /\ ctx = NewContext(0) /\ counts = NoCounts
  /\ report = None /\ tshark = NoProcess
  /\ live = None /\ stale = FALSE

Files == UNION {[1..n -> Records] : n \in 0..MaxRecords}

Next ==
  \/ TsharkWrites \/ TsharkWarns \/ TsharkExits \/ TsharkFails
  \/ \E file \in Files : IngestFile(file)
  \/ ReadRecord \/ StatementRaises \/ DrainErrors \/ GiveUp \/ EndOfOutput \/ Quit
  \/ StartLive \/ StopLive
  \/ \E pkt \in Captured : LivePacket(pkt)

Spec == Init /\ [][Next]_vars

(* Both processes run; tshark comes to the end of its file.                *)
Fairness ==
  /\ WF_vars(TsharkWrites) /\ WF_vars(TsharkExits)
  /\ WF_vars(ReadRecord) /\ WF_vars(DrainErrors) /\ WF_vars(GiveUp) /\ WF_vars(EndOfOutput)
FairSpec == Spec /\ Fairness

-----------------------------------------------------------------------------
(* A file that is in the tables is there as a whole: per device as many    *)
(* packets as it has records of it, and the broadcasts its records         *)
(* announce, encrypted if one of them says so.  tshark may fail half-way,  *)
(* a statement may raise and the user may quit; the session is committed   *)
(* in one piece or not at all.  A record's "says" is what the transmitter  *)
(* announced, not what the decoder made of it.                             *)
RecordsBy(file, key) == {k \in DOMAIN file : Kept(file[k]) /\ IngestKey(file[k]) = key}
Announcing(file, id) == {k \in DOMAIN file : Kept(file[k]) /\ file[k].says.id = id}
FileSessionsAreComplete ==
  \A s \in DOMAIN tables.sessions : ~tables.sessions[s].live =>
    LET file == tables.sessions[s].source
        kept == {file[k] : k \in {j \in DOMAIN file : Kept(file[j])}}
        packets(key) == At(tables.observations, <<s, key>>, NewObservation).packets
        ids == {rec.says.id : rec \in kept} \ {None}
    IN /\ tables.sessions[s].ended
       /\ \A key \in DOMAIN tables.devices \cup {IngestKey(rec) : rec \in kept} :
            packets(key) = Cardinality(RecordsBy(file, key))
       /\ {b[2] : b \in {x \in DOMAIN tables.broadcasts : x[1] = s}} = ids
       /\ \A id \in ids :
            tables.broadcasts[<<s, id>>].encrypted = (\E k \in Announcing(file, id) : file[k].says.encrypted)

(* The decoder makes of a record what its transmitter said: data, which    *)
(* the runs check on theirs.                                               *)
RecordsSayWhatTheyAre ==
  \A rec \in Records : Kept(rec) =>
    /\ rec.kind = "adv"
    /\ Announced(rec).id = rec.says.id
    /\ rec.says.id # None => Announced(rec).encrypted = rec.says.encrypted

(* What may be captured.  A frame that is whole, or whole as far as it     *)
(* goes, has its sender's address where the link layer puts it, except an  *)
(* extended one whose flags say that it has none; of one with wrong bits,  *)
(* the pseudo-header says that its CRC failed.                             *)
PseudoHeader(f) == IF f.dlt = NordicBle THEN 17 ELSE 10
CrcTells(f) ==
  IF f.dlt = NordicBle THEN Len(f.bytes) > 8 => ~Bit(Byte(f.bytes, 8), 0)
  ELSE Len(f.bytes) > 9 => Bit(LE16(f.bytes, 8), 10) /\ ~Bit(LE16(f.bytes, 8), 11)
CarriesItsSender(f) ==
  Len(f.bytes) >= PseudoHeader(f) + 14 =>
    LET pdu == PseudoHeader(f) + 4
        extended == Byte(f.bytes, pdu) % 16 = 7
        at == IF extended THEN pdu + 4 ELSE pdu + 2
    IN \/ extended /\ ~Bit(Byte(f.bytes, pdu + 3), ADVA)
       \/ \A k \in 0..5 : Byte(f.bytes, at + k) = f.addr[6 - k]
FrameSent(f) ==
  /\ f.bytes \in Seq(Bytes)
  /\ IF f.intact THEN f.addr \in OnAir /\ f.addr \in [1..6 -> Bytes] /\ CarriesItsSender(f) ELSE CrcTells(f)
RecordsAndFramesAreSent ==
  /\ \A rec \in Records : rec = Other \/ rec.addr \in OnAir \cup {<<>>}
  /\ \A f \in Frames : FrameSent(f)

(* No device in the tables that is not on the air.  Frames arrive cut off  *)
(* anywhere, or with wrong bits in the address and a CRC that tells.       *)
NoGhostDevices == \A key \in DOMAIN tables.devices : key[2] \in OnAir

(* What a device is known to be does not get less specific, whatever       *)
(* order its packets come in and over however many sessions - unless a     *)
(* live session goes on recording while a file is ingested: its context    *)
(* does not know what the file's packets told.                             *)
ClassOnlySharpens ==
  [][~stale => \A key \in DOMAIN tables.devices :
       Precedence(tables'.devices[key].class) >= Precedence(tables.devices[key].class)]_vars

(* "ROLLBACK on exception" (db/store.py).                                  *)
FailureRollsBack == pc = "failing" ~> pc = "idle"
=============================================================================
