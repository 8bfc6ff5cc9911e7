-------------------------- MODULE FileIngestProofs --------------------------
(***************************************************************************)
(* Files in the tables, for any files, frames and tables.  That the        *)
(* address decoded is the sender's is proved here; what an announcement    *)
(* decodes to is taken as given, and TLC checks it on the records of       *)
(* MCFileIngest.                                                           *)
(***************************************************************************)
EXTENDS FileIngest, FiniteSetTheorems, SequenceTheorems, TLAPS

TablesTyped(t) ==
  t \in [projects : {t.projects}, sessions : {t.sessions}, devices : {t.devices},
         addresses : {t.addresses}, observations : {t.observations}, broadcasts : {t.broadcasts},
         history : {t.history}, packets : {t.packets}]
CtxTyped(c) == c \in [session : {c.session}, seen : {c.seen}, broadcasts : {c.broadcasts}, state : {c.state}]

-----------------------------------------------------------------------------
(* What record_packet does to the tables and the context.                  *)
UpdatesOf(t, c, pkt) == Updates(IngestKey(pkt), c, ExtractClues(pkt.layer), StateOf(t, c, IngestKey(pkt)))

ObservationKey(c, pkt) == <<c.session, IngestKey(pkt)>>
BroadcastKey(c, pkt) == <<c.session, Announced(pkt).id>>

LEMMA NoTablesTyped == TablesTyped(NoTables)
BY DEF TablesTyped, NoTables

LEMMA NewContextIs == ASSUME NEW s PROVE CtxTyped(NewContext(s)) /\ NewContext(s).session = s /\ NewContext(s).state = <<>>
BY DEF CtxTyped, NewContext

LEMMA RecordedIs ==
  ASSUME NEW t, TablesTyped(t), NEW c, CtxTyped(c), NEW pkt, NEW keep, ~Skipped(pkt)
  PROVE  /\ TablesTyped(Recorded(t, c, pkt, keep).tables) /\ CtxTyped(Recorded(t, c, pkt, keep).ctx)
         /\ Recorded(t, c, pkt, keep).tables.sessions = t.sessions
         /\ Recorded(t, c, pkt, keep).tables.devices =
              Put(t.devices, IngestKey(pkt), Merged(At(t.devices, IngestKey(pkt), NewDevice), UpdatesOf(t, c, pkt)))
         /\ Recorded(t, c, pkt, keep).tables.observations =
              Put(t.observations, ObservationKey(c, pkt),
                  Observe(At(t.observations, ObservationKey(c, pkt), NewObservation), pkt.pdu))
         /\ Announced(pkt).id = None => Recorded(t, c, pkt, keep).tables.broadcasts = t.broadcasts
         /\ Announced(pkt).id # None =>
              Recorded(t, c, pkt, keep).tables.broadcasts =
                Put(t.broadcasts, BroadcastKey(c, pkt),
                    UpsertBroadcast(At(t.broadcasts, BroadcastKey(c, pkt), NewBroadcast),
                                    IngestKey(pkt), Announced(pkt)))
         /\ Recorded(t, c, pkt, keep).ctx.session = c.session
         /\ Recorded(t, c, pkt, keep).ctx.state =
              Put(c.state, IngestKey(pkt), Merged(StateOf(t, c, IngestKey(pkt)), UpdatesOf(t, c, pkt)))
<1> DEFINE key == IngestKey(pkt)
           o == <<c.session, key>>
           b == <<c.session, Announced(pkt).id>>
           devices == Put(t.devices, key, Merged(At(t.devices, key, NewDevice), UpdatesOf(t, c, pkt)))
           addresses == UpsertAddress(t.addresses, pkt, key)
           broadcasts == IF Announced(pkt).id = None THEN t.broadcasts
                         ELSE Put(t.broadcasts, b, UpsertBroadcast(At(t.broadcasts, b, NewBroadcast), key, Announced(pkt)))
           observations == Put(t.observations, o, Observe(At(t.observations, o, NewObservation), pkt.pdu))
           history == UpsertHistory(t.history, key, ExtractEntries(pkt.layer))
           packets == InsertPacket(t.packets, o, keep)
           seen == c.seen \cup {key}
           heard == c.broadcasts \cup ({Announced(pkt).id} \ {None})
           state == Put(c.state, key, Merged(StateOf(t, c, key), UpdatesOf(t, c, pkt)))
           tables2 == [t EXCEPT !.devices = devices, !.addresses = addresses, !.broadcasts = broadcasts,
                                !.observations = observations, !.history = history, !.packets = packets]
           ctx2 == [c EXCEPT !.seen = seen, !.broadcasts = heard, !.state = state]
<1>1. Recorded(t, c, pkt, keep) = [by |-> key, ctx |-> ctx2, tables |-> tables2]
  BY DEF Recorded, UpdatesOf, ObservationKey, BroadcastKey
<1> HIDE DEF devices, addresses, broadcasts, observations, history, packets, seen, heard, state
<1>2. /\ tables2.sessions = t.sessions /\ tables2.devices = devices
      /\ tables2.observations = observations /\ tables2.broadcasts = broadcasts
      /\ TablesTyped(tables2)
  BY DEF TablesTyped
<1>3. ctx2.session = c.session /\ ctx2.state = state /\ CtxTyped(ctx2)
  BY DEF CtxTyped
<1> HIDE DEF tables2, ctx2
<1>4. Recorded(t, c, pkt, keep).tables = tables2 /\ Recorded(t, c, pkt, keep).ctx = ctx2
  BY <1>1
<1>5. QED
  BY <1>2, <1>3, <1>4 DEF devices, observations, broadcasts, state, ObservationKey, BroadcastKey

LEMMA AtPut ==
  ASSUME NEW f, NEW x, NEW v, NEW y, NEW d
  PROVE  At(Put(f, x, v), y, d) = IF y = x THEN v ELSE At(f, y, d)
BY DEF Put, At

-----------------------------------------------------------------------------
(* What is known of a device's class.                                      *)
LEMMA PrecedenceIs == ASSUME NEW c PROVE Precedence(c) \in Nat
BY DEF Precedence

HasClass(d) == "class" \in DOMAIN d
ClassesTyped(t) == \A key \in DOMAIN t.devices : HasClass(t.devices[key])
ClassesAgree(c, t) ==
  \A key \in DOMAIN c.state :
    /\ HasClass(c.state[key]) /\ key \in DOMAIN t.devices
    /\ c.state[key].class = t.devices[key].class
Sharper(old, new) ==
  \A key \in DOMAIN old.devices :
    /\ key \in DOMAIN new.devices
    /\ Precedence(new.devices[key].class) >= Precedence(old.devices[key].class)

LEMMA SharperIs ==
  ASSUME NEW a, NEW b, NEW c
  PROVE  Sharper(a, a) /\ (Sharper(a, b) /\ Sharper(b, c) => Sharper(a, c))
BY PrecedenceIs DEF Sharper

(* An update of the class is a more specific one than what the context     *)
(* takes the device for.                                                   *)
LEMMA UpdatesSharpen ==
  ASSUME NEW key, NEW c, NEW clues, NEW state
  PROVE  LET u == Updates(key, c, clues, state)
         IN "class" \in DOMAIN u => Precedence(u["class"]) > Precedence(state.class)
<1> DEFINE oui == IF key \notin DOMAIN c.state /\ key[1] = "public" /\ state.oui = None
                  THEN OuiVendor(key[2]) ELSE None
           vendor == IF clues.vendorId # None /\ clues.vendorId # state.vendorId /\ state.vendor = None
                     THEN <<"vendor of", clues.vendorId>> ELSE None
           class == ClassClue(clues, state)
           all == [name |-> clues.name, vendorId |-> clues.vendorId, vendor |-> vendor, oui |-> oui,
                   appearance |-> clues.appearance, class |-> class, model |-> clues.model]
<1>1. Updates(key, c, clues, state) = [x \in {y \in DOMAIN all : all[y] # None /\ all[y] # state[y]} |-> all[x]]
  BY DEF Updates
<1>2. class = None \/ Precedence(class) > Precedence(state.class)
  BY DEF ClassClue
<1> HIDE DEF oui, vendor, class
<1>3. "class" \in DOMAIN all /\ all["class"] = class
  OBVIOUS
<1> HIDE DEF all
<1>4. QED
  BY <1>1, <1>2, <1>3

LEMMA MergedClass ==
  ASSUME NEW d, HasClass(d), NEW u
  PROVE  /\ HasClass(Merged(d, u))
         /\ Merged(d, u).class = IF "class" \in DOMAIN u THEN u["class"] ELSE d.class
BY DEF HasClass, Merged, At

LEMMA PutSharpens ==
  ASSUME NEW old, NEW new, NEW cached, NEW caches, NEW key, NEW d, NEW s,
         new = Put(old, key, d), caches = Put(cached, key, s),
         HasClass(d), HasClass(s), d.class = s.class,
         \A y \in DOMAIN old : HasClass(old[y]),
         \A y \in DOMAIN cached : HasClass(cached[y]) /\ y \in DOMAIN old /\ cached[y].class = old[y].class,
         key \in DOMAIN old => Precedence(d.class) >= Precedence(old[key].class)
  PROVE  /\ \A y \in DOMAIN new : HasClass(new[y])
         /\ \A y \in DOMAIN caches : HasClass(caches[y]) /\ y \in DOMAIN new /\ caches[y].class = new[y].class
         /\ \A y \in DOMAIN old : y \in DOMAIN new /\ Precedence(new[y].class) >= Precedence(old[y].class)
<1>1. /\ DOMAIN new = DOMAIN old \cup {key} /\ new[key] = d
      /\ \A y \in DOMAIN old : y # key => new[y] = old[y]
  BY DEF Put
<1>2. /\ DOMAIN caches = DOMAIN cached \cup {key} /\ caches[key] = s
      /\ \A y \in DOMAIN cached : y # key => caches[y] = cached[y]
  BY DEF Put
<1>3. QED
  BY <1>1, <1>2, PrecedenceIs

LEMMA RecordedSharpens ==
  ASSUME NEW t, TablesTyped(t), NEW c, CtxTyped(c), NEW pkt, NEW keep,
         ClassesTyped(t), ClassesAgree(c, t)
  PROVE  LET r == Recorded(t, c, pkt, keep)
         IN ClassesTyped(r.tables) /\ ClassesAgree(r.ctx, r.tables) /\ Sharper(t, r.tables)
<1> DEFINE r == Recorded(t, c, pkt, keep)
           key == IngestKey(pkt)
           device == At(t.devices, key, NewDevice)
           state == StateOf(t, c, key)
           u == UpdatesOf(t, c, pkt)
<1>1. CASE Skipped(pkt)
  <2>1. r.tables = t /\ r.ctx = c
    BY <1>1 DEF Recorded
  <2>2. QED
    BY <2>1, SharperIs
<1>2. CASE ~Skipped(pkt)
  <2>1. /\ Recorded(t, c, pkt, keep).tables.devices = Put(t.devices, key, Merged(device, u))
        /\ Recorded(t, c, pkt, keep).ctx.state = Put(c.state, key, Merged(state, u))
    BY <1>2, RecordedIs
  <2>2. HasClass(NewDevice)
    BY DEF HasClass, NewDevice
  <2>3. HasClass(device) /\ HasClass(state) /\ state.class = device.class
    BY <2>2 DEF StateOf, At, ClassesTyped, ClassesAgree
  <2>4. "class" \in DOMAIN u => Precedence(u["class"]) > Precedence(state.class)
    BY UpdatesSharpen DEF UpdatesOf
  <2> HIDE DEF r, key, device, state, u
  <2>5. /\ HasClass(Merged(device, u)) /\ HasClass(Merged(state, u))
        /\ Merged(device, u).class = Merged(state, u).class
        /\ Merged(device, u).class = IF "class" \in DOMAIN u THEN u["class"] ELSE state.class
    BY <2>3, MergedClass
  <2>6. Precedence(Merged(device, u).class) >= Precedence(device.class)
    BY <2>3, <2>4, <2>5, PrecedenceIs
  <2>7. key \in DOMAIN t.devices => device = t.devices[key]
    BY DEF device, At
  <2>8. /\ \A y \in DOMAIN t.devices : HasClass(t.devices[y])
        /\ \A y \in DOMAIN c.state : HasClass(c.state[y]) /\ y \in DOMAIN t.devices
                                      /\ c.state[y].class = t.devices[y].class
    BY DEF ClassesTyped, ClassesAgree
  <2>9. r.tables.devices = Put(t.devices, key, Merged(device, u)) /\ r.ctx.state = Put(c.state, key, Merged(state, u))
    BY <2>1 DEF r
  <2>10. PICK old, new, cached, caches, d, s :
            /\ old = t.devices /\ new = r.tables.devices /\ cached = c.state /\ caches = r.ctx.state
            /\ d = Merged(device, u) /\ s = Merged(state, u)
    OBVIOUS
  <2> HIDE DEF r, key, device, state, u
  <2>k. PICK k : k = key
    OBVIOUS
  <2>h. /\ new = Put(old, k, d) /\ caches = Put(cached, k, s)
        /\ HasClass(d) /\ HasClass(s) /\ d.class = s.class
        /\ \A y \in DOMAIN old : HasClass(old[y])
        /\ \A y \in DOMAIN cached : HasClass(cached[y]) /\ y \in DOMAIN old /\ cached[y].class = old[y].class
        /\ k \in DOMAIN old => Precedence(d.class) >= Precedence(old[k].class)
    BY <2>5, <2>6, <2>7, <2>8, <2>9, <2>10, <2>k
  <2>11. /\ \A y \in DOMAIN new : HasClass(new[y])
         /\ \A y \in DOMAIN caches : HasClass(caches[y]) /\ y \in DOMAIN new /\ caches[y].class = new[y].class
         /\ \A y \in DOMAIN old : y \in DOMAIN new /\ Precedence(new[y].class) >= Precedence(old[y].class)
    BY <2>h, PutSharpens
  <2>12. QED
    BY <2>10, <2>11 DEF r, ClassesTyped, ClassesAgree, Sharper
<1>3. QED
  BY <1>1, <1>2

-----------------------------------------------------------------------------
(* What the tables hold of the first n records of a file.                  *)
RecordsOf(file, n, key) == {k \in 1..n : Kept(file[k]) /\ IngestKey(file[k]) = key}
Said(file, n) == {file[k].says.id : k \in {j \in 1..n : Kept(file[j])}} \ {None}
SaidEncrypted(file, n, id) == \E k \in 1..n : Kept(file[k]) /\ file[k].says.id = id /\ file[k].says.encrypted

HasCounts(observations, s, file, n) ==
  \A key : At(observations, <<s, key>>, NewObservation).packets = Cardinality(RecordsOf(file, n, key))
HasBroadcasts(broadcasts, s, file, n) ==
  /\ \A id : <<s, id>> \in DOMAIN broadcasts <=> id \in Said(file, n)
  /\ \A id \in Said(file, n) :
       /\ broadcasts[<<s, id>>].encrypted \in BOOLEAN
       /\ broadcasts[<<s, id>>].encrypted <=> SaidEncrypted(file, n, id)

LEMMA RecordsOfNext ==
  ASSUME NEW file, NEW n \in Nat, NEW key
  PROVE  Cardinality(RecordsOf(file, n + 1, key)) =
           Cardinality(RecordsOf(file, n, key))
             + (IF Kept(file[n + 1]) /\ IngestKey(file[n + 1]) = key THEN 1 ELSE 0)
<1> DEFINE P(k) == Kept(file[k]) /\ IngestKey(file[k]) = key
<1>1. RecordsOf(file, n, key) \subseteq 1..n /\ IsFiniteSet(1..n)
  BY FS_Interval DEF RecordsOf
<1>2. IsFiniteSet(RecordsOf(file, n, key))
  BY <1>1, FS_Subset
<1>3. Cardinality(RecordsOf(file, n, key)) \in Nat
  BY <1>2, FS_CardinalityType
<1>4. RecordsOf(file, n, key) = {k \in 1..n : P(k)} /\ RecordsOf(file, n + 1, key) = {k \in 1..(n + 1) : P(k)}
  BY DEF RecordsOf
<1>5. 1..(n + 1) = 1..n \cup {n + 1} /\ n + 1 \notin 1..n
  OBVIOUS
<1> HIDE DEF P
<1>6. CASE P(n + 1)
  <2>1. RecordsOf(file, n + 1, key) = RecordsOf(file, n, key) \cup {n + 1} /\ n + 1 \notin RecordsOf(file, n, key)
    BY <1>4, <1>5, <1>6
  <2>2. Cardinality(RecordsOf(file, n, key) \cup {n + 1}) = Cardinality(RecordsOf(file, n, key)) + 1
    BY <1>2, <2>1, FS_AddElement
  <2>3. QED
    BY <1>6, <2>1, <2>2 DEF P
<1>7. CASE ~P(n + 1)
  <2>1. RecordsOf(file, n + 1, key) = RecordsOf(file, n, key)
    BY <1>4, <1>5, <1>7
  <2>2. QED
    BY <1>3, <1>7, <2>1 DEF P
<1>8. QED
  BY <1>6, <1>7

LEMMA NoRecords ==
  ASSUME NEW file, NEW key
  PROVE  Cardinality(RecordsOf(file, 0, key)) = 0 /\ Said(file, 0) = {}
<1>1. RecordsOf(file, 0, key) = {} /\ Said(file, 0) = {}
  BY DEF RecordsOf, Said
<1>2. QED
  BY <1>1, FS_EmptySet

LEMMA SaidIs ==
  ASSUME NEW file, NEW n, NEW id
  PROVE  id \in Said(file, n) <=> id # None /\ \E k \in 1..n : Kept(file[k]) /\ file[k].says.id = id
BY DEF Said

LEMMA SaidNext ==
  ASSUME NEW file, NEW n \in Nat, NEW id
  PROVE  /\ id \in Said(file, n + 1) <=>
              id \in Said(file, n) \/ (id # None /\ Kept(file[n + 1]) /\ file[n + 1].says.id = id)
         /\ SaidEncrypted(file, n + 1, id) <=>
              SaidEncrypted(file, n, id)
                \/ (Kept(file[n + 1]) /\ file[n + 1].says.id = id /\ file[n + 1].says.encrypted)
<1>1. \A k : k \in 1..(n + 1) <=> k \in 1..n \/ k = n + 1
  OBVIOUS
<1> DEFINE I == 1..n
           J == 1..(n + 1)
           m == n + 1
<1> HIDE DEF I, J, m
<1>2. \A k : k \in J <=> k \in I \/ k = m
  BY <1>1 DEF I, J, m
<1>3. id \in Said(file, n + 1) <=> id # None /\ \E k \in J : Kept(file[k]) /\ file[k].says.id = id
  BY SaidIs DEF J
<1>4. id \in Said(file, n) <=> id # None /\ \E k \in I : Kept(file[k]) /\ file[k].says.id = id
  BY SaidIs DEF I
<1>5. SaidEncrypted(file, n + 1, id)
        <=> \E k \in J : Kept(file[k]) /\ file[k].says.id = id /\ file[k].says.encrypted
  BY DEF SaidEncrypted, J
<1>6. SaidEncrypted(file, n, id)
        <=> \E k \in I : Kept(file[k]) /\ file[k].says.id = id /\ file[k].says.encrypted
  BY DEF SaidEncrypted, I
<1>7. id \in Said(file, n + 1) <=> id \in Said(file, n) \/ (id # None /\ Kept(file[m]) /\ file[m].says.id = id)
  BY <1>2, <1>3, <1>4
<1>8. SaidEncrypted(file, n + 1, id) <=>
        SaidEncrypted(file, n, id) \/ (Kept(file[m]) /\ file[m].says.id = id /\ file[m].says.encrypted)
  BY <1>2, <1>5, <1>6
<1>9. QED
  BY <1>7, <1>8 DEF m

(* A record that is not kept changes nothing; one that is kept is counted. *)
LEMMA CountsSkip ==
  ASSUME NEW obs, NEW s, NEW file, NEW n \in Nat, HasCounts(obs, s, file, n), ~Kept(file[n + 1])
  PROVE  HasCounts(obs, s, file, n + 1)
<1>1. \A key : Cardinality(RecordsOf(file, n + 1, key)) = Cardinality(RecordsOf(file, n, key)) + 0
  BY RecordsOfNext
<1>2. \A key : Cardinality(RecordsOf(file, n, key)) \in Nat
  <2> TAKE key
  <2>1. RecordsOf(file, n, key) \subseteq 1..n /\ IsFiniteSet(1..n)
    BY FS_Interval DEF RecordsOf
  <2>2. QED
    BY <2>1, FS_Subset, FS_CardinalityType
<1>3. QED
  BY <1>1, <1>2 DEF HasCounts

LEMMA CountsNext ==
  ASSUME NEW obs, NEW s, NEW file, NEW n \in Nat, HasCounts(obs, s, file, n), Kept(file[n + 1]),
         NEW obs2, NEW pdu,
         NEW o, o = <<s, IngestKey(file[n + 1])>>, obs2 = Put(obs, o, Observe(At(obs, o, NewObservation), pdu))
  PROVE  HasCounts(obs2, s, file, n + 1)
<1> SUFFICES ASSUME NEW key
             PROVE  At(obs2, <<s, key>>, NewObservation).packets = Cardinality(RecordsOf(file, n + 1, key))
  BY DEF HasCounts
<1>1. At(obs, <<s, key>>, NewObservation).packets = Cardinality(RecordsOf(file, n, key))
  BY DEF HasCounts
<1>2. Cardinality(RecordsOf(file, n, key)) \in Nat
  <2>1. RecordsOf(file, n, key) \subseteq 1..n /\ IsFiniteSet(1..n)
    BY FS_Interval DEF RecordsOf
  <2>2. QED
    BY <2>1, FS_Subset, FS_CardinalityType
<1>3. CASE key = IngestKey(file[n + 1])
  <2>1. <<s, key>> = o
    BY <1>3
  <2>2. At(obs2, o, NewObservation) = Observe(At(obs, o, NewObservation), pdu)
    BY AtPut
  <2>3. Observe(At(obs, o, NewObservation), pdu).packets = At(obs, o, NewObservation).packets + 1
    BY DEF Observe
  <2>4. QED
    BY <1>1, <1>3, <2>1, <2>2, <2>3, RecordsOfNext
<1>4. CASE key # IngestKey(file[n + 1])
  <2>1. <<s, key>> # o
    BY <1>4
  <2>2. At(obs2, <<s, key>>, NewObservation) = At(obs, <<s, key>>, NewObservation)
    BY <2>1, AtPut
  <2>3. QED
    BY <1>1, <1>2, <1>4, <2>2, RecordsOfNext
<1>5. QED
  BY <1>3, <1>4

LEMMA BroadcastsSkip ==
  ASSUME NEW bs, NEW s, NEW file, NEW n \in Nat, HasBroadcasts(bs, s, file, n),
         ~Kept(file[n + 1]) \/ file[n + 1].says.id = None
  PROVE  HasBroadcasts(bs, s, file, n + 1)
<1>1. ASSUME NEW id PROVE id \in Said(file, n + 1) <=> id \in Said(file, n)
  BY SaidNext
<1>2. ASSUME NEW id \in Said(file, n)
      PROVE  SaidEncrypted(file, n + 1, id) <=> SaidEncrypted(file, n, id)
  <2>1. id # None
    BY SaidIs
  <2>2. QED
    BY <2>1, SaidNext
<1>3. QED
  BY <1>1, <1>2 DEF HasBroadcasts

(* Evidence of encryption adds up, in whatever order the records come.     *)
LEMMA BroadcastsNext ==
  ASSUME NEW bs, NEW s, NEW file, NEW n \in Nat, HasBroadcasts(bs, s, file, n), Kept(file[n + 1]),
         NEW bs2, NEW b, NEW said, NEW info, NEW device,
         said = file[n + 1].says.id, said # None, b = <<s, said>>,
         info.encrypted <=> file[n + 1].says.encrypted,
         bs2 = Put(bs, b, UpsertBroadcast(At(bs, b, NewBroadcast), device, info))
  PROVE  HasBroadcasts(bs2, s, file, n + 1)
<1> DEFINE new == UpsertBroadcast(At(bs, b, NewBroadcast), device, info)
<1>1. \A id : id # said => <<s, id>> # b
  OBVIOUS
<1>2. /\ new.encrypted <=> info.encrypted \/ At(bs, b, NewBroadcast).encrypted
      /\ new.encrypted \in BOOLEAN
  BY DEF UpsertBroadcast
<1> HIDE DEF new
<1>3. /\ DOMAIN bs2 = DOMAIN bs \cup {b} /\ bs2[b] = new
      /\ \A x \in DOMAIN bs : x # b => bs2[x] = bs[x]
  <2>1. bs2 = Put(bs, b, new)
    BY DEF new
  <2>2. QED
    BY <2>1 DEF Put
<1>4. \A id : id \in Said(file, n + 1) <=> id \in Said(file, n) \/ id = said
  BY SaidNext
<1>5. ASSUME NEW id PROVE <<s, id>> \in DOMAIN bs2 <=> id \in Said(file, n + 1)
  BY <1>1, <1>3, <1>4 DEF HasBroadcasts
<1>6. At(bs, b, NewBroadcast).encrypted <=> SaidEncrypted(file, n, said)
  <2>1. CASE said \in Said(file, n)
    BY <2>1 DEF HasBroadcasts, At
  <2>2. CASE said \notin Said(file, n)
    <3>1. b \notin DOMAIN bs
      BY <2>2 DEF HasBroadcasts
    <3>2. At(bs, b, NewBroadcast).encrypted = FALSE
      BY <3>1 DEF At, NewBroadcast
    <3>3. ~SaidEncrypted(file, n, said)
      BY <2>2, SaidIs DEF SaidEncrypted
    <3>4. QED
      BY <3>2, <3>3
  <2>3. QED
    BY <2>1, <2>2
<1>7. ASSUME NEW id \in Said(file, n + 1)
      PROVE  /\ bs2[<<s, id>>].encrypted \in BOOLEAN
             /\ bs2[<<s, id>>].encrypted <=> SaidEncrypted(file, n + 1, id)
  <2>1. CASE id = said
    <3>1. bs2[<<s, id>>] = new
      BY <1>3, <2>1
    <3>2. SaidEncrypted(file, n + 1, id) <=> SaidEncrypted(file, n, said) \/ file[n + 1].says.encrypted
      BY <2>1, SaidNext
    <3>3. QED
      BY <1>2, <1>6, <3>1, <3>2
  <2>2. CASE id # said
    <3>1. id \in Said(file, n)
      BY <1>4, <2>2
    <3>2. bs2[<<s, id>>] = bs[<<s, id>>]
      BY <1>1, <1>3, <2>2, <3>1 DEF HasBroadcasts
    <3>3. SaidEncrypted(file, n + 1, id) <=> SaidEncrypted(file, n, id)
      BY <2>2, SaidNext
    <3>4. QED
      BY <3>1, <3>2, <3>3 DEF HasBroadcasts
  <2>3. QED
    BY <2>1, <2>2
<1>8. QED
  BY <1>5, <1>7 DEF HasBroadcasts

-----------------------------------------------------------------------------
(* The tables as a whole: what belongs to a session has its number.        *)
SessionRows == [live : BOOLEAN, source : Seq(Records), ended : BOOLEAN]
TablesOk(t) ==
  /\ TablesTyped(t) /\ ClassesTyped(t)
  /\ t.sessions \in Seq(SessionRows)
  /\ \A s, key : <<s, key>> \in DOMAIN t.observations => s \in DOMAIN t.sessions
  /\ \A x \in DOMAIN t.broadcasts : x = <<x[1], x[2]>> /\ x[1] \in DOMAIN t.sessions

HasFile(t, s, file, n) == HasCounts(t.observations, s, file, n) /\ HasBroadcasts(t.broadcasts, s, file, n)
FilesIn(t, except) ==
  \A s \in DOMAIN t.sessions : s # except /\ ~t.sessions[s].live =>
    t.sessions[s].ended /\ HasFile(t, s, t.sessions[s].source, Len(t.sessions[s].source))

(* What is stored for session s is the same in both.                       *)
SameCounts(s, obs, obs2) ==
  \A key : At(obs2, <<s, key>>, NewObservation) = At(obs, <<s, key>>, NewObservation)
SameBroadcasts(s, bs, bs2) ==
  \A id : /\ <<s, id>> \in DOMAIN bs2 <=> <<s, id>> \in DOMAIN bs
          /\ <<s, id>> \in DOMAIN bs => bs2[<<s, id>>] = bs[<<s, id>>]

LEMMA SameHasFile ==
  ASSUME NEW s, NEW t, NEW t2, SameCounts(s, t.observations, t2.observations),
         SameBroadcasts(s, t.broadcasts, t2.broadcasts), NEW file, NEW n, HasFile(t, s, file, n)
  PROVE  HasFile(t2, s, file, n)
<1>1. PICK obs, obs2, bs, bs2 : obs = t.observations /\ obs2 = t2.observations
                                /\ bs = t.broadcasts /\ bs2 = t2.broadcasts
  OBVIOUS
<1>2. HasCounts(obs, s, file, n) /\ SameCounts(s, obs, obs2)
  BY <1>1 DEF HasFile
<1>3. HasBroadcasts(bs, s, file, n) /\ SameBroadcasts(s, bs, bs2)
  BY <1>1 DEF HasFile
<1>4. HasCounts(obs2, s, file, n)
  BY <1>2 DEF HasCounts, SameCounts
<1>5. HasBroadcasts(bs2, s, file, n)
  BY <1>3 DEF HasBroadcasts, SameBroadcasts
<1>6. QED
  BY <1>1, <1>4, <1>5 DEF HasFile

LEMMA PutSame ==
  ASSUME NEW s, NEW session, s # session, NEW k, NEW f, NEW f2, NEW x, x = <<session, k>>, NEW v, f2 = Put(f, x, v)
  PROVE  SameCounts(s, f, f2) /\ SameBroadcasts(s, f, f2)
<1>1. \A y : <<s, y>> # x
  OBVIOUS
<1>2. SameCounts(s, f, f2)
  BY <1>1, AtPut DEF SameCounts
<1>3. DOMAIN f2 = DOMAIN f \cup {x} /\ \A y \in DOMAIN f : y # x => f2[y] = f[y]
  BY DEF Put
<1>4. SameBroadcasts(s, f, f2)
  BY <1>1, <1>3 DEF SameBroadcasts
<1>5. QED
  BY <1>2, <1>4

LEMMA SameItself == ASSUME NEW s, NEW f PROVE SameCounts(s, f, f) /\ SameBroadcasts(s, f, f)
BY DEF SameCounts, SameBroadcasts

(* record_packet writes for its own session only.                          *)
LEMMA RecordedElsewhere ==
  ASSUME NEW t, TablesTyped(t), NEW c, CtxTyped(c), NEW pkt, NEW keep, NEW s, s # c.session
  PROVE  /\ SameCounts(s, t.observations, Recorded(t, c, pkt, keep).tables.observations)
         /\ SameBroadcasts(s, t.broadcasts, Recorded(t, c, pkt, keep).tables.broadcasts)
<1>1. CASE Skipped(pkt)
  <2>1. Recorded(t, c, pkt, keep).tables = t
    BY <1>1 DEF Recorded
  <2>2. QED
    BY <2>1, SameItself
<1>2. CASE ~Skipped(pkt)
  <2>1. PICK session, o, b, ok, bk, obs, obs2, bs, bs2 :
          /\ session = c.session /\ o = ObservationKey(c, pkt) /\ b = BroadcastKey(c, pkt)
          /\ ok = IngestKey(pkt) /\ bk = Announced(pkt).id
          /\ obs = t.observations /\ obs2 = Recorded(t, c, pkt, keep).tables.observations
          /\ bs = t.broadcasts /\ bs2 = Recorded(t, c, pkt, keep).tables.broadcasts
    OBVIOUS
  <2>2. o = <<session, ok>> /\ b = <<session, bk>>
    BY <2>1 DEF ObservationKey, BroadcastKey
  <2>3. (\E v : obs2 = Put(obs, o, v)) /\ (bs2 = bs \/ \E v : bs2 = Put(bs, b, v))
    BY <1>2, <2>1, RecordedIs
  <2>4. SameCounts(s, obs, obs2)
    BY <2>1, <2>2, <2>3, PutSame
  <2>5. SameBroadcasts(s, bs, bs2)
    BY <2>1, <2>2, <2>3, PutSame, SameItself
  <2>6. QED
    BY <2>1, <2>4, <2>5
<1>3. QED
  BY <1>1, <1>2

LEMMA RecordedOk ==
  ASSUME NEW t, TablesOk(t), NEW c, CtxTyped(c), c.session \in DOMAIN t.sessions, NEW pkt, NEW keep
  PROVE  /\ TablesOk(Recorded(t, c, pkt, keep).tables) /\ CtxTyped(Recorded(t, c, pkt, keep).ctx)
         /\ Recorded(t, c, pkt, keep).tables.sessions = t.sessions
         /\ Recorded(t, c, pkt, keep).ctx.session = c.session
<1>1. TablesTyped(t) /\ ClassesTyped(t) /\ t.sessions \in Seq(SessionRows)
  BY DEF TablesOk
<1>2. CASE Skipped(pkt)
  <2>1. Recorded(t, c, pkt, keep).tables = t /\ Recorded(t, c, pkt, keep).ctx = c
    BY <1>2 DEF Recorded
  <2>2. QED
    BY <2>1
<1>3. CASE ~Skipped(pkt)
  <2>1. PICK t2, c2 : t2 = Recorded(t, c, pkt, keep).tables /\ c2 = Recorded(t, c, pkt, keep).ctx
    OBVIOUS
  <2>2. TablesTyped(t2) /\ CtxTyped(c2) /\ t2.sessions = t.sessions /\ c2.session = c.session
    BY <1>1, <1>3, <2>1, RecordedIs
  <2>3. ClassesTyped(t2)
    <3>1. PICK old, new, key, u, d :
            /\ old = t.devices /\ new = t2.devices /\ key = IngestKey(pkt) /\ u = UpdatesOf(t, c, pkt)
            /\ d = At(t.devices, IngestKey(pkt), NewDevice)
      OBVIOUS
    <3>2. new = Put(old, key, Merged(d, u))
      BY <1>1, <1>3, <2>1, <3>1, RecordedIs
    <3>3. HasClass(NewDevice)
      BY DEF HasClass, NewDevice
    <3>4. (\A y \in DOMAIN old : HasClass(old[y])) /\ HasClass(d)
      BY <1>1, <3>1, <3>3 DEF ClassesTyped, At
    <3>5. HasClass(Merged(d, u))
      BY <3>4, MergedClass
    <3>6. PICK m : m = Merged(d, u)
      OBVIOUS
    <3>7. \A y \in DOMAIN new : HasClass(new[y])
      BY <3>2, <3>4, <3>5, <3>6 DEF Put
    <3>8. QED
      BY <3>1, <3>7 DEF ClassesTyped
  <2>4. PICK session, o, b, ok, bk, obs, obs2, bs, bs2, dom :
          /\ session = c.session /\ o = ObservationKey(c, pkt) /\ b = BroadcastKey(c, pkt)
          /\ ok = IngestKey(pkt) /\ bk = Announced(pkt).id
          /\ obs = t.observations /\ obs2 = t2.observations
          /\ bs = t.broadcasts /\ bs2 = t2.broadcasts /\ dom = DOMAIN t.sessions
    OBVIOUS
  <2>5. o = <<session, ok>> /\ b = <<session, bk>> /\ session \in dom
    BY <2>4 DEF ObservationKey, BroadcastKey
  <2>6. (\E v : obs2 = Put(obs, o, v)) /\ (bs2 = bs \/ \E v : bs2 = Put(bs, b, v))
    BY <1>1, <1>3, <2>1, <2>4, RecordedIs
  <2>7. DOMAIN obs2 = DOMAIN obs \cup {o} /\ DOMAIN bs2 \subseteq DOMAIN bs \cup {b}
    BY <2>6 DEF Put
  <2>8. /\ \A s, key : <<s, key>> \in DOMAIN obs => s \in dom
        /\ \A x \in DOMAIN bs : x = <<x[1], x[2]>> /\ x[1] \in dom
    BY <2>4 DEF TablesOk
  <2>9. \A s, key : <<s, key>> \in DOMAIN obs2 => s \in dom
    BY <2>5, <2>7, <2>8
  <2>10. \A x \in DOMAIN bs2 : x = <<x[1], x[2]>> /\ x[1] \in dom
    BY <2>5, <2>7, <2>8
  <2>11. TablesOk(t2)
    BY <1>1, <2>2, <2>3, <2>4, <2>9, <2>10 DEF TablesOk
  <2>12. QED
    BY <2>1, <2>2, <2>11
<1>4. QED
  BY <1>2, <1>3

-----------------------------------------------------------------------------
(* What both writers rely on.  A context may not say of a device's class   *)
(* what the tables do not: the open transaction's own agrees with what it  *)
(* sees, the live session's with what is committed as long as no file is.  *)
Session(file) == [live |-> FALSE, source |-> file, ended |-> FALSE]
TransactionOk ==
  /\ TablesOk(tx) /\ CtxTyped(ctx) /\ ClassesAgree(ctx, tx) /\ Sharper(tables, tx)
  /\ ctx.session = Len(tables.sessions) + 1
  /\ \E file \in Seq(Records) : tx.sessions = Append(tables.sessions, Session(file))
LiveOk ==
  /\ live \in [ctx : {live.ctx}, frames : {live.frames}] /\ CtxTyped(live.ctx)
  /\ live.ctx.session \in DOMAIN tables.sessions /\ tables.sessions[live.ctx.session].live
  /\ stale \/ ClassesAgree(live.ctx, tables)
WritersInv ==
  /\ TablesOk(tables) /\ stale \in BOOLEAN
  /\ pc = "reading" => TransactionOk
  /\ live = None \/ LiveOk

-----------------------------------------------------------------------------
(* Sessions are added at the end, and marked as ended.                     *)
AddSession(t, row) == [t EXCEPT !.sessions = Append(@, row)]

LEMMA AddSessionIs ==
  ASSUME NEW t, TablesTyped(t), NEW row
  PROVE  LET t2 == AddSession(t, row)
         IN /\ TablesTyped(t2) /\ t2.sessions = Append(t.sessions, row)
            /\ t2.devices = t.devices /\ t2.observations = t.observations /\ t2.broadcasts = t.broadcasts
BY DEF TablesTyped, AddSession

LEMMA ClosedIs ==
  ASSUME NEW t, TablesTyped(t), t.sessions \in Seq(SessionRows), NEW s \in DOMAIN t.sessions
  PROVE  LET t2 == Closed(t, s)
         IN /\ TablesTyped(t2)
            /\ t2.sessions \in Seq(SessionRows) /\ DOMAIN t2.sessions = DOMAIN t.sessions
            /\ Len(t2.sessions) = Len(t.sessions)
            /\ \A r \in DOMAIN t.sessions :
                 /\ t2.sessions[r].live = t.sessions[r].live /\ t2.sessions[r].source = t.sessions[r].source
                 /\ t2.sessions[r].ended = (r = s \/ t.sessions[r].ended)
            /\ t2.devices = t.devices /\ t2.observations = t.observations /\ t2.broadcasts = t.broadcasts
<1> DEFINE row == [t.sessions[s] EXCEPT !.ended = TRUE]
           rows == [t.sessions EXCEPT ![s] = row]
<1>0. /\ row \in SessionRows /\ row.live = t.sessions[s].live
      /\ row.source = t.sessions[s].source /\ row.ended = TRUE
  <2>1. t.sessions[s] \in SessionRows
    OBVIOUS
  <2>2. QED
    BY <2>1 DEF SessionRows
<1>1. rows \in Seq(SessionRows) /\ DOMAIN rows = DOMAIN t.sessions /\ Len(rows) = Len(t.sessions)
  <2> HIDE DEF row
  <2>1. QED
    BY <1>0
<1>2. \A r \in DOMAIN t.sessions :
        /\ rows[r].live = t.sessions[r].live /\ rows[r].source = t.sessions[r].source
        /\ rows[r].ended = (r = s \/ t.sessions[r].ended)
  <2> HIDE DEF row
  <2>1. TAKE r \in DOMAIN t.sessions
  <2>2. CASE r = s
    BY <1>0, <2>2
  <2>3. CASE r # s
    <3>1. rows[r] = t.sessions[r] /\ t.sessions[r] \in SessionRows
      BY <2>3
    <3>2. t.sessions[r].ended \in BOOLEAN
      BY <3>1 DEF SessionRows
    <3>3. QED
      BY <2>3, <3>1, <3>2
  <2>4. QED
    BY <2>2, <2>3
<1>3. Closed(t, s) = [t EXCEPT !.sessions = rows]
  BY DEF Closed
<1> HIDE DEF rows
<1>4. QED
  BY <1>1, <1>2, <1>3 DEF TablesTyped

LEMMA SameRowsOk ==
  ASSUME NEW t, TablesOk(t), NEW t2, TablesTyped(t2), t2.sessions \in Seq(SessionRows),
         DOMAIN t.sessions \subseteq DOMAIN t2.sessions,
         t2.devices = t.devices, t2.observations = t.observations, t2.broadcasts = t.broadcasts
  PROVE  /\ TablesOk(t2) /\ Sharper(t, t2)
         /\ \A c : ClassesAgree(c, t) => ClassesAgree(c, t2)
<1>1. TablesOk(t2)
  BY DEF TablesOk, ClassesTyped
<1>2. Sharper(t, t2)
  BY PrecedenceIs DEF Sharper
<1>3. \A c : ClassesAgree(c, t) => ClassesAgree(c, t2)
  BY DEF ClassesAgree
<1>4. QED
  BY <1>1, <1>2, <1>3

LEMMA AddSessionOk ==
  ASSUME NEW t, TablesOk(t), NEW row \in SessionRows, NEW t2, TablesTyped(t2),
         t2.sessions = Append(t.sessions, row),
         t2.devices = t.devices, t2.observations = t.observations, t2.broadcasts = t.broadcasts
  PROVE  /\ TablesOk(t2) /\ Sharper(t, t2)
         /\ \A c : ClassesAgree(c, t) => ClassesAgree(c, t2)
         /\ DOMAIN t2.sessions = DOMAIN t.sessions \cup {Len(t.sessions) + 1}
         /\ t2.sessions[Len(t.sessions) + 1] = row
         /\ \A s \in DOMAIN t.sessions : t2.sessions[s] = t.sessions[s]
<1>1. t.sessions \in Seq(SessionRows)
  BY DEF TablesOk
<1>2. /\ t2.sessions \in Seq(SessionRows)
      /\ DOMAIN t2.sessions = DOMAIN t.sessions \cup {Len(t.sessions) + 1}
      /\ t2.sessions[Len(t.sessions) + 1] = row
      /\ \A s \in DOMAIN t.sessions : t2.sessions[s] = t.sessions[s]
  BY <1>1
<1>3. QED
  BY <1>2, SameRowsOk

(* A context that knows nothing agrees with any tables.                    *)
LEMMA NewContextAgrees == ASSUME NEW s, NEW t PROVE ClassesAgree(NewContext(s), t)
<1>1. DOMAIN NewContext(s).state = {}
  BY DEF NewContext
<1>2. QED
  BY <1>1 DEF ClassesAgree

-----------------------------------------------------------------------------
(* Every step keeps to it, and the classes in the tables only sharpen      *)
(* unless a live session's context has become stale.                       *)
writersVars == <<tables, tx, pc, ctx, live, stale>>

LEMMA FilesAreSequences == ASSUME NEW file \in Files PROVE file \in Seq(Records)
BY FileIngestAssumption DEF Files

LEMMA WritersInit == Init => WritersInv
<1> SUFFICES ASSUME Init PROVE WritersInv
  OBVIOUS
<1>1. tables = NoTables /\ pc = "idle" /\ live = None /\ stale = FALSE
  BY DEF Init
<1>2. TablesOk(NoTables)
  <2>1. /\ NoTables.sessions = <<>> /\ NoTables.devices = <<>>
        /\ NoTables.observations = <<>> /\ NoTables.broadcasts = <<>>
    BY DEF NoTables
  <2>2. QED
    BY <2>1, NoTablesTyped DEF TablesOk, ClassesTyped
<1>3. QED
  BY <1>1, <1>2 DEF WritersInv

LEMMA IngestFileOk ==
  ASSUME WritersInv, NEW file \in Files, IngestFile(file)
  PROVE  WritersInv' /\ tables' = tables
<1>1. /\ tx' = Opened(file) /\ ctx' = NewContext(Len(tables.sessions) + 1)
      /\ tables' = tables /\ live' = live /\ stale' = stale
  BY DEF IngestFile
<1>2. file \in Seq(Records) /\ TablesOk(tables) /\ TablesTyped(tables)
  BY FilesAreSequences DEF WritersInv, TablesOk
<1>3. PICK t2 : t2 = Opened(file)
  OBVIOUS
<1>4. /\ TablesTyped(t2) /\ t2.sessions = Append(tables.sessions, Session(file)) /\ t2.devices = tables.devices
      /\ t2.observations = tables.observations /\ t2.broadcasts = tables.broadcasts
  BY <1>2, <1>3 DEF Opened, Session, TablesTyped
<1>5. Session(file) \in SessionRows
  BY <1>2 DEF Session, SessionRows
<1>6. TablesOk(t2) /\ Sharper(tables, t2)
  BY <1>2, <1>4, <1>5, AddSessionOk
<1>7. /\ CtxTyped(ctx') /\ ctx'.session = Len(tables.sessions) + 1 /\ ClassesAgree(ctx', t2)
  BY <1>1, NewContextIs, NewContextAgrees
<1>8. TransactionOk'
  BY <1>1, <1>2, <1>3, <1>4, <1>6, <1>7 DEF TransactionOk
<1>9. (live = None \/ LiveOk)'
  BY <1>1 DEF WritersInv, LiveOk
<1>10. QED
  BY <1>1, <1>8, <1>9 DEF WritersInv

LEMMA ReadRecordOk ==
  ASSUME WritersInv, ReadRecord
  PROVE  WritersInv' /\ tables' = tables
<1>1. tables' = tables /\ live' = live /\ stale' = stale /\ TransactionOk
  BY DEF WritersInv, ReadRecord
<1>2. PICK rec : \/ tx' = tx /\ ctx' = ctx
                 \/ tx' = Recorded(tx, ctx, rec, FALSE).tables /\ ctx' = Recorded(tx, ctx, rec, FALSE).ctx
  <2> DEFINE head == Head(tshark.out)
             done == IF Kept(head) THEN Recorded(tx, ctx, head, FALSE) ELSE [tables |-> tx, ctx |-> ctx, by |-> None]
  <2>1. tx' = done.tables /\ ctx' = done.ctx
    BY DEF ReadRecord
  <2>2. CASE Kept(head)
    BY <2>1, <2>2
  <2>3. CASE ~Kept(head)
    BY <2>1, <2>3
  <2>4. QED
    BY <2>2, <2>3
<1>3. (live = None \/ LiveOk)'
  BY <1>1 DEF WritersInv, LiveOk
<1>4. CASE tx' = tx /\ ctx' = ctx
  <2>1. TransactionOk'
    BY <1>1, <1>4 DEF TransactionOk
  <2>2. QED
    BY <1>1, <1>3, <2>1 DEF WritersInv
<1>5. CASE tx' = Recorded(tx, ctx, rec, FALSE).tables /\ ctx' = Recorded(tx, ctx, rec, FALSE).ctx
  <2>1. /\ TablesOk(tx) /\ CtxTyped(ctx) /\ ClassesAgree(ctx, tx) /\ Sharper(tables, tx)
        /\ ctx.session = Len(tables.sessions) + 1 /\ TablesTyped(tx) /\ ClassesTyped(tx)
    BY <1>1 DEF TransactionOk, TablesOk
  <2>2. PICK file \in Seq(Records) : tx.sessions = Append(tables.sessions, Session(file))
    BY <1>1 DEF TransactionOk
  <2>3. tables.sessions \in Seq(SessionRows)
    BY DEF WritersInv, TablesOk
  <2>4. ctx.session \in DOMAIN tx.sessions
    <3>1. PICK rows, row : rows \in Seq(SessionRows) /\ rows = tables.sessions /\ row = Session(file)
      BY <2>3
    <3>2. Len(rows) + 1 \in DOMAIN Append(rows, row)
      OBVIOUS
    <3>3. QED
      BY <2>1, <2>2, <3>1, <3>2
  <2>5. /\ TablesOk(tx') /\ CtxTyped(ctx') /\ tx'.sessions = tx.sessions /\ ctx'.session = ctx.session
    <3>1. /\ TablesOk(Recorded(tx, ctx, rec, FALSE).tables) /\ CtxTyped(Recorded(tx, ctx, rec, FALSE).ctx)
          /\ Recorded(tx, ctx, rec, FALSE).tables.sessions = tx.sessions
          /\ Recorded(tx, ctx, rec, FALSE).ctx.session = ctx.session
      <4>1. PICK t, c, keep : t = tx /\ c = ctx /\ keep = FALSE
        OBVIOUS
      <4>2. TablesOk(t) /\ CtxTyped(c) /\ c.session \in DOMAIN t.sessions
        BY <2>1, <2>4, <4>1
      <4>3. /\ TablesOk(Recorded(t, c, rec, keep).tables) /\ CtxTyped(Recorded(t, c, rec, keep).ctx)
            /\ Recorded(t, c, rec, keep).tables.sessions = t.sessions
            /\ Recorded(t, c, rec, keep).ctx.session = c.session
        BY <4>2, RecordedOk
      <4>4. QED
        BY <4>1, <4>3
    <3>2. QED
      BY <1>5, <3>1
  <2>6. ClassesAgree(ctx', tx') /\ Sharper(tx, tx')
    BY <1>5, <2>1, RecordedSharpens
  <2>7. TransactionOk'
    BY <1>1, <2>1, <2>2, <2>5, <2>6, SharperIs DEF TransactionOk
  <2>8. QED
    BY <1>1, <1>3, <2>7 DEF WritersInv
<1>6. QED
  BY <1>2, <1>4, <1>5

LEMMA EndOfOutputOk ==
  ASSUME WritersInv, EndOfOutput
  PROVE  WritersInv' /\ Sharper(tables, tables')
<1>1. pc' = "idle" /\ live' = live /\ TablesOk(tables) /\ stale \in BOOLEAN /\ TransactionOk
  BY DEF EndOfOutput, Over, RolledBack, WritersInv
<1>2. CASE tables' = tables /\ stale' = stale
  <2>1. (live = None \/ LiveOk)'
    BY <1>1, <1>2 DEF WritersInv, LiveOk
  <2>2. QED
    BY <1>1, <1>2, <2>1, SharperIs DEF WritersInv
<1>3. CASE tables' = Closed(tx, ctx.session) /\ stale' = (stale \/ live # None)
  <2>1. /\ TablesOk(tx) /\ Sharper(tables, tx) /\ TablesTyped(tx) /\ tx.sessions \in Seq(SessionRows)
        /\ ctx.session = Len(tables.sessions) + 1
        /\ tables.sessions \in Seq(SessionRows)
    BY <1>1 DEF TransactionOk, TablesOk
  <2>2. PICK file \in Seq(Records) : tx.sessions = Append(tables.sessions, Session(file))
    BY <1>1 DEF TransactionOk
  <2>3. /\ ctx.session \in DOMAIN tx.sessions
        /\ \A s \in DOMAIN tables.sessions : s \in DOMAIN tx.sessions /\ tx.sessions[s] = tables.sessions[s]
    <3>1. PICK rows, row, rows2 :
            rows \in Seq(SessionRows) /\ rows = tables.sessions /\ row = Session(file) /\ rows2 = Append(rows, row)
      BY <2>1
    <3>2. /\ Len(rows) + 1 \in DOMAIN rows2
          /\ \A s \in DOMAIN rows : s \in DOMAIN rows2 /\ rows2[s] = rows[s]
      BY <3>1
    <3>3. QED
      BY <2>1, <2>2, <3>1, <3>2
  <2>4. PICK t2 : t2 = tables'
    OBVIOUS
  <2>5. /\ TablesTyped(t2) /\ t2.sessions \in Seq(SessionRows) /\ DOMAIN t2.sessions = DOMAIN tx.sessions
        /\ \A r \in DOMAIN tx.sessions : t2.sessions[r].live = tx.sessions[r].live
        /\ t2.devices = tx.devices /\ t2.observations = tx.observations /\ t2.broadcasts = tx.broadcasts
    BY <1>3, <2>1, <2>3, <2>4, ClosedIs
  <2>6. TablesOk(t2) /\ Sharper(tx, t2)
    BY <2>1, <2>5, SameRowsOk
  <2>7. Sharper(tables, t2)
    BY <2>1, <2>6, SharperIs
  <2>8. (live = None \/ LiveOk)'
    <3>1. CASE live = None
      BY <1>1, <3>1
    <3>2. CASE live # None
      <4>1. stale' /\ LiveOk
        BY <1>3, <3>2 DEF WritersInv
      <4>2. live.ctx.session \in DOMAIN t2.sessions /\ t2.sessions[live.ctx.session].live
        BY <2>3, <2>5, <4>1 DEF LiveOk
      <4>3. QED
        BY <1>1, <2>4, <4>1, <4>2 DEF LiveOk
    <3>3. QED
      BY <3>1, <3>2
  <2>9. stale' \in BOOLEAN
    BY <1>1, <1>3
  <2>10. QED
    BY <1>1, <2>4, <2>6, <2>7, <2>8, <2>9 DEF WritersInv
<1>4. QED
  BY <1>2, <1>3 DEF EndOfOutput, Over, RolledBack

LEMMA StartLiveOk ==
  ASSUME WritersInv, StartLive
  PROVE  WritersInv' /\ Sharper(tables, tables')
<1> DEFINE row == [live |-> TRUE, source |-> <<>>, ended |-> FALSE]
<1>1. /\ pc = "idle" /\ pc' = pc /\ stale' = FALSE
      /\ tables' = AddSession(tables, row)
      /\ live' = [ctx |-> NewContext(Len(tables.sessions) + 1), frames |-> 0]
  BY DEF StartLive, AddSession
<1>2. TablesOk(tables) /\ TablesTyped(tables)
  BY DEF WritersInv, TablesOk
<1>3. row \in SessionRows /\ row.live = TRUE
  BY DEF SessionRows
<1> HIDE DEF row
<1>4. PICK t2 : t2 = AddSession(tables, row)
  OBVIOUS
<1>5. /\ TablesTyped(t2) /\ t2.sessions = Append(tables.sessions, row) /\ t2.devices = tables.devices
      /\ t2.observations = tables.observations /\ t2.broadcasts = tables.broadcasts
  BY <1>2, <1>4, AddSessionIs
<1>6. /\ TablesOk(t2) /\ Sharper(tables, t2)
      /\ DOMAIN t2.sessions = DOMAIN tables.sessions \cup {Len(tables.sessions) + 1}
      /\ t2.sessions[Len(tables.sessions) + 1] = row
  BY <1>2, <1>3, <1>5, AddSessionOk
<1>7. LiveOk'
  <2>1. PICK c : c = NewContext(Len(tables.sessions) + 1)
    OBVIOUS
  <2>2. CtxTyped(c) /\ c.session = Len(tables.sessions) + 1 /\ ClassesAgree(c, t2)
    BY <2>1, NewContextIs, NewContextAgrees
  <2>3. live' = [ctx |-> c, frames |-> 0]
    BY <1>1, <2>1
  <2>4. live' \in [ctx : {live'.ctx}, frames : {live'.frames}] /\ live'.ctx = c
    BY <2>3
  <2>5. c.session \in DOMAIN t2.sessions /\ t2.sessions[c.session].live
    BY <1>3, <1>6, <2>2
  <2>6. QED
    BY <1>1, <1>4, <2>2, <2>4, <2>5 DEF LiveOk
<1>8. QED
  BY <1>1, <1>4, <1>6, <1>7 DEF WritersInv

LEMMA LivePacketOk ==
  ASSUME WritersInv, NEW pkt, LivePacket(pkt)
  PROVE  WritersInv' /\ (~stale => Sharper(tables, tables'))
<1>1. PICK t, c, keep, t2, c2 :
        /\ t = tables /\ c = live.ctx /\ keep = TRUE
        /\ t2 = Recorded(t, c, pkt, keep).tables /\ c2 = Recorded(t, c, pkt, keep).ctx
  OBVIOUS
<1>2. /\ live # None /\ pc = "idle" /\ pc' = pc /\ stale' = stale /\ tables' = t2
      /\ live' = [ctx |-> c2, frames |-> live.frames + 1]
  BY <1>1 DEF LivePacket
<1>3. TablesOk(t) /\ LiveOk /\ TablesTyped(t) /\ ClassesTyped(t) /\ stale \in BOOLEAN
  BY <1>1, <1>2 DEF WritersInv, TablesOk
<1>4. CtxTyped(c) /\ c.session \in DOMAIN t.sessions /\ t.sessions[c.session].live /\ (stale \/ ClassesAgree(c, t))
  BY <1>1, <1>3 DEF LiveOk
<1>5. TablesOk(t2) /\ CtxTyped(c2) /\ t2.sessions = t.sessions /\ c2.session = c.session
  <2>1. /\ TablesOk(Recorded(t, c, pkt, keep).tables) /\ CtxTyped(Recorded(t, c, pkt, keep).ctx)
        /\ Recorded(t, c, pkt, keep).tables.sessions = t.sessions
        /\ Recorded(t, c, pkt, keep).ctx.session = c.session
    BY <1>3, <1>4, RecordedOk
  <2>2. QED
    BY <1>1, <2>1
<1>6. stale \/ (ClassesAgree(c2, t2) /\ Sharper(t, t2))
  BY <1>1, <1>3, <1>4, RecordedSharpens
<1>7. live' \in [ctx : {live'.ctx}, frames : {live'.frames}] /\ live'.ctx = c2
  BY <1>2
<1>8. LiveOk'
  BY <1>2, <1>4, <1>5, <1>6, <1>7 DEF LiveOk
<1>9. QED
  BY <1>1, <1>2, <1>3, <1>5, <1>6, <1>8 DEF WritersInv

LEMMA StopLiveOk ==
  ASSUME WritersInv, StopLive
  PROVE  WritersInv' /\ Sharper(tables, tables')
<1>1. /\ live # None /\ pc = "idle" /\ pc' = pc /\ stale' = FALSE /\ live' = None
      /\ tables' = Closed(tables, live.ctx.session)
  BY DEF StopLive, Closed
<1>2. TablesOk(tables) /\ TablesTyped(tables) /\ tables.sessions \in Seq(SessionRows)
      /\ live.ctx.session \in DOMAIN tables.sessions
  BY <1>1 DEF WritersInv, TablesOk, LiveOk
<1>3. PICK t2, s : t2 = tables' /\ s = live.ctx.session
  OBVIOUS
<1>4. /\ TablesTyped(t2) /\ t2.sessions \in Seq(SessionRows) /\ DOMAIN t2.sessions = DOMAIN tables.sessions
      /\ t2.devices = tables.devices /\ t2.observations = tables.observations /\ t2.broadcasts = tables.broadcasts
  BY <1>1, <1>2, <1>3, ClosedIs
<1>5. TablesOk(t2) /\ Sharper(tables, t2)
  BY <1>2, <1>4, SameRowsOk
<1>6. QED
  BY <1>1, <1>3, <1>5 DEF WritersInv

LEMMA WritersSame ==
  ASSUME WritersInv, UNCHANGED <<tables, live, stale>>, pc' # "reading" \/ UNCHANGED <<pc, tx, ctx>>
  PROVE  WritersInv' /\ Sharper(tables, tables')
<1>1. (live = None \/ LiveOk)'
  BY DEF WritersInv, LiveOk
<1>2. (pc = "reading" => TransactionOk)'
  BY DEF WritersInv, TransactionOk
<1>3. QED
  BY <1>1, <1>2, SharperIs DEF WritersInv

LEMMA WritersNext ==
  ASSUME WritersInv, [Next]_vars
  PROVE  WritersInv' /\ (~stale => Sharper(tables, tables'))
<1>1. CASE TsharkWrites \/ TsharkWarns \/ TsharkExits \/ TsharkFails \/ DrainErrors
  BY <1>1, WritersSame DEF TsharkWrites, TsharkWarns, TsharkExits, TsharkFails, DrainErrors
<1>2. CASE StatementRaises \/ GiveUp \/ Quit
  BY <1>2, WritersSame DEF StatementRaises, GiveUp, Quit, RolledBack, Over
<1>3. CASE UNCHANGED vars
  BY <1>3, WritersSame DEF vars
<1>4. CASE \E file \in Files : IngestFile(file)
  BY <1>4, IngestFileOk, SharperIs
<1>5. CASE ReadRecord
  BY <1>5, ReadRecordOk, SharperIs
<1>6. CASE EndOfOutput
  BY <1>6, EndOfOutputOk
<1>7. CASE StartLive
  BY <1>7, StartLiveOk
<1>8. CASE StopLive
  BY <1>8, StopLiveOk
<1>9. CASE \E pkt \in Captured : LivePacket(pkt)
  BY <1>9, LivePacketOk
<1>10. QED
  BY <1>1, <1>2, <1>3, <1>4, <1>5, <1>6, <1>7, <1>8, <1>9 DEF Next

THEOREM FileIngestInvariant == Spec => []WritersInv
<1>1. WritersInv /\ [Next]_vars => WritersInv'
  BY WritersNext
<1>2. QED
  BY <1>1, WritersInit, PTL DEF Spec

(* A device's class in the tables never gets less specific, whatever is    *)
(* captured and whatever files are read, unless a live session goes on     *)
(* while a file is committed.                                              *)
THEOREM FileClassOnlySharpens == Spec => ClassOnlySharpens
<1> DEFINE Step == ~stale => \A key \in DOMAIN tables.devices :
                     Precedence(tables'.devices[key].class) >= Precedence(tables.devices[key].class)
<1>1. ASSUME WritersInv, [Next]_vars PROVE [Step]_vars
  <2>1. ~stale => Sharper(tables, tables')
    BY <1>1, WritersNext
  <2>2. QED
    BY <2>1 DEF Sharper
<1>2. [][Step]_vars => ClassOnlySharpens
  BY DEF ClassOnlySharpens
<1> HIDE DEF Step
<1>3. QED
  BY <1>1, <1>2, FileIngestInvariant, PTL DEF Spec

-----------------------------------------------------------------------------
(* The file on its way: n records of it have been read, some are in the    *)
(* pipe and the others tshark has yet to write.                            *)
Rest(out, left, file, n) ==
  /\ out \in Seq(Records) /\ left \in Seq(Records) /\ n \in Nat
  /\ n + Len(out) + Len(left) = Len(file)
  /\ \A k \in 1..Len(out) : out[k] = file[n + k]
  /\ \A k \in 1..Len(left) : left[k] = file[n + Len(out) + k]

LEMMA RestSpawned == ASSUME NEW file \in Seq(Records) PROVE Rest(<<>>, file, file, 0)
BY DEF Rest

LEMMA RestWrites ==
  ASSUME NEW file \in Seq(Records), NEW n, NEW out, NEW left, Rest(out, left, file, n), left # <<>>
  PROVE  Rest(Append(out, Head(left)), Tail(left), file, n)
<1>1. out \in Seq(Records) /\ left \in Seq(Records) /\ n \in Nat /\ Len(left) > 0
  BY DEF Rest
<1>2. PICK out2, left2 : out2 = Append(out, Head(left)) /\ left2 = Tail(left)
  OBVIOUS
<1>3. /\ out2 \in Seq(Records) /\ Len(out2) = Len(out) + 1 /\ out2[Len(out) + 1] = left[1]
      /\ \A k \in 1..Len(out) : out2[k] = out[k]
  BY <1>1, <1>2
<1>4. /\ left2 \in Seq(Records) /\ Len(left2) = Len(left) - 1
      /\ \A k \in 1..Len(left2) : left2[k] = left[k + 1]
  BY <1>1, <1>2
<1>5. n + Len(out2) + Len(left2) = Len(file)
  <2>1. n + Len(out) + Len(left) = Len(file)
    BY DEF Rest
  <2>2. Len(out2) = Len(out) + 1 /\ Len(left2) = Len(left) - 1
    BY <1>3, <1>4
  <2>3. Len(out) \in Nat /\ Len(left) \in Nat /\ n \in Nat
    BY <1>1
  <2>4. QED
    BY <2>1, <2>2, <2>3
<1>6. ASSUME NEW k \in 1..Len(out2) PROVE out2[k] = file[n + k]
  <2>1. CASE k \in 1..Len(out)
    BY <1>3, <2>1 DEF Rest
  <2>2. CASE k = Len(out) + 1
    <3>1. left[1] = file[n + Len(out) + 1]
      BY <1>1 DEF Rest
    <3>2. n + k = n + Len(out) + 1
      BY <1>1, <2>2
    <3>3. QED
      BY <1>3, <2>2, <3>1, <3>2
  <2>3. QED
    BY <1>1, <1>3, <2>1, <2>2
<1>7. ASSUME NEW k \in 1..Len(left2) PROVE left2[k] = file[n + Len(out2) + k]
  <2>1. k + 1 \in 1..Len(left) /\ left2[k] = left[k + 1]
    BY <1>1, <1>4
  <2>2. left[k + 1] = file[n + Len(out) + (k + 1)]
    BY <2>1 DEF Rest
  <2>3. n + Len(out) + (k + 1) = n + Len(out2) + k
    BY <1>1, <1>3
  <2>4. QED
    BY <2>1, <2>2, <2>3
<1>8. QED
  BY <1>1, <1>2, <1>3, <1>4, <1>5, <1>6, <1>7 DEF Rest

LEMMA RestReads ==
  ASSUME NEW file \in Seq(Records), NEW n, NEW out, NEW left, Rest(out, left, file, n), out # <<>>
  PROVE  Rest(Tail(out), left, file, n + 1) /\ Head(out) = file[n + 1] /\ Head(out) \in Records
<1>1. out \in Seq(Records) /\ left \in Seq(Records) /\ n \in Nat /\ Len(out) > 0
  BY DEF Rest
<1>2. PICK out2 : out2 = Tail(out)
  OBVIOUS
<1>3. /\ out2 \in Seq(Records) /\ Len(out2) = Len(out) - 1
      /\ \A k \in 1..Len(out2) : out2[k] = out[k + 1]
      /\ Head(out) = out[1] /\ Head(out) \in Records
  BY <1>1, <1>2
<1>4. Head(out) = file[n + 1]
  BY <1>1, <1>3 DEF Rest
<1>5. n + 1 \in Nat /\ (n + 1) + Len(out2) + Len(left) = Len(file)
  <2>1. n + Len(out) + Len(left) = Len(file)
    BY DEF Rest
  <2>2. Len(out2) = Len(out) - 1
    BY <1>3
  <2>3. Len(out) \in Nat /\ Len(left) \in Nat /\ n \in Nat
    BY <1>1
  <2>4. QED
    BY <2>1, <2>2, <2>3
<1>6. ASSUME NEW k \in 1..Len(out2) PROVE out2[k] = file[(n + 1) + k]
  <2>1. k + 1 \in 1..Len(out) /\ out2[k] = out[k + 1]
    BY <1>1, <1>3
  <2>2. out[k + 1] = file[n + (k + 1)]
    BY <2>1 DEF Rest
  <2>3. n + (k + 1) = (n + 1) + k
    BY <1>1
  <2>4. QED
    BY <2>1, <2>2, <2>3
<1>7. ASSUME NEW k \in 1..Len(left) PROVE left[k] = file[(n + 1) + Len(out2) + k]
  <2>1. (n + 1) + Len(out2) + k = n + Len(out) + k
    BY <1>1, <1>3
  <2>2. QED
    BY <2>1 DEF Rest
<1>8. QED
  BY <1>1, <1>2, <1>3, <1>4, <1>5, <1>6, <1>7 DEF Rest

-----------------------------------------------------------------------------
(* What recording a record of the file makes of what the tables hold.      *)
LEMMA RecordedHolds ==
  ASSUME RecordsSayWhatTheyAre, NEW t, TablesTyped(t), NEW c, CtxTyped(c), NEW keep,
         NEW file, NEW n \in Nat, NEW rec \in Records, rec = file[n + 1], Kept(rec),
         NEW s, s = c.session, HasFile(t, s, file, n)
  PROVE  HasFile(Recorded(t, c, rec, keep).tables, s, file, n + 1)
<1>1. ~Skipped(rec)
  BY DEF RecordsSayWhatTheyAre, Skipped, Kept
<1>2. Announced(rec).id = rec.says.id
  BY DEF RecordsSayWhatTheyAre
<1>3. rec.says.id # None => Announced(rec).encrypted = rec.says.encrypted
  BY DEF RecordsSayWhatTheyAre
<1>4. PICK o, b, key, said, info, obs, obs2, bs, bs2, pdu :
        /\ o = ObservationKey(c, rec) /\ b = BroadcastKey(c, rec)
        /\ key = IngestKey(rec) /\ said = rec.says.id /\ info = Announced(rec) /\ pdu = rec.pdu
        /\ obs = t.observations /\ obs2 = Recorded(t, c, rec, keep).tables.observations
        /\ bs = t.broadcasts /\ bs2 = Recorded(t, c, rec, keep).tables.broadcasts
  OBVIOUS
<1>5. o = <<s, IngestKey(file[n + 1])>> /\ b = <<s, said>> /\ said = file[n + 1].says.id
  BY <1>2, <1>4 DEF ObservationKey, BroadcastKey
<1>6. obs2 = Put(obs, o, Observe(At(obs, o, NewObservation), pdu))
  BY <1>1, <1>4, RecordedIs
<1>7. /\ said = None => bs2 = bs
      /\ said # None => bs2 = Put(bs, b, UpsertBroadcast(At(bs, b, NewBroadcast), key, info))
  BY <1>1, <1>2, <1>4, RecordedIs
<1>8. HasCounts(obs, s, file, n) /\ HasBroadcasts(bs, s, file, n)
  BY <1>4 DEF HasFile
<1>9. HasCounts(obs2, s, file, n + 1)
  BY <1>5, <1>6, <1>8, CountsNext
<1>10. HasBroadcasts(bs2, s, file, n + 1)
  <2>1. CASE said = None
    BY <1>5, <1>7, <1>8, <2>1, BroadcastsSkip
  <2>2. CASE said # None
    <3>1. info.encrypted <=> file[n + 1].says.encrypted
      BY <1>3, <1>4, <2>2
    <3>2. QED
      BY <1>5, <1>7, <1>8, <2>2, <3>1, BroadcastsNext
  <2>3. QED
    BY <2>1, <2>2
<1>11. QED
  BY <1>4, <1>9, <1>10 DEF HasFile

LEMMA SameFilesIn ==
  ASSUME NEW t, NEW t2, NEW e, NEW e2, FilesIn(t, e),
         t2.observations = t.observations, t2.broadcasts = t.broadcasts,
         \A s \in DOMAIN t2.sessions : s # e2 /\ ~t2.sessions[s].live =>
           /\ s \in DOMAIN t.sessions /\ s # e /\ ~t.sessions[s].live
           /\ t2.sessions[s].source = t.sessions[s].source
           /\ t.sessions[s].ended => t2.sessions[s].ended
  PROVE  FilesIn(t2, e2)
<1>1. \A s, file, n : HasFile(t, s, file, n) => HasFile(t2, s, file, n)
  BY DEF HasFile
<1>2. QED
  BY <1>1 DEF FilesIn

LEMMA RecordedFilesIn ==
  ASSUME NEW t, TablesTyped(t), NEW c, CtxTyped(c), NEW pkt, NEW keep, NEW t2,
         t2 = Recorded(t, c, pkt, keep).tables, t2.sessions = t.sessions,
         NEW e, FilesIn(t, e), e = c.session \/ t.sessions[c.session].live
  PROVE  FilesIn(t2, e)
<1> SUFFICES ASSUME NEW s \in DOMAIN t2.sessions, s # e, ~t2.sessions[s].live
             PROVE  t2.sessions[s].ended /\ HasFile(t2, s, t2.sessions[s].source, Len(t2.sessions[s].source))
  BY DEF FilesIn
<1>1. s # c.session /\ t.sessions[s].ended /\ HasFile(t, s, t.sessions[s].source, Len(t.sessions[s].source))
  BY DEF FilesIn
<1>2. SameCounts(s, t.observations, t2.observations) /\ SameBroadcasts(s, t.broadcasts, t2.broadcasts)
  BY <1>1, RecordedElsewhere
<1>3. QED
  BY <1>1, <1>2, SameHasFile

(* Of a session that is new, the tables hold nothing.                      *)
LEMMA NothingOfNew ==
  ASSUME NEW t, TablesOk(t), NEW s, s \notin DOMAIN t.sessions, NEW t2,
         t2.observations = t.observations, t2.broadcasts = t.broadcasts, NEW file
  PROVE  HasFile(t2, s, file, 0)
<1>1. \A key : <<s, key>> \notin DOMAIN t.observations
  BY DEF TablesOk
<1>2. \A id : <<s, id>> \notin DOMAIN t.broadcasts
  <2>1. TAKE id
  <2>2. <<s, id>>[1] = s
    OBVIOUS
  <2>3. QED
    BY <2>2 DEF TablesOk
<1>3. PICK obs, bs : obs = t.observations /\ bs = t.broadcasts
  OBVIOUS
<1>4. NewObservation.packets = 0
  BY DEF NewObservation
<1>5. HasCounts(obs, s, file, 0)
  BY <1>1, <1>3, <1>4, NoRecords DEF HasCounts, At
<1>6. HasBroadcasts(bs, s, file, 0)
  BY <1>2, <1>3, NoRecords DEF HasBroadcasts
<1>7. QED
  BY <1>3, <1>5, <1>6 DEF HasFile

-----------------------------------------------------------------------------
(* While tshark has not failed, the open transaction holds what has been   *)
(* read of the file, and the rest of it is still to come.                  *)
TsharkTyped(p) ==
  p \in [left : Seq(Records), out : Seq(Records), warned : Nat, err : Nat,
         state : {"runs", "blocked", "gone"}, rc : {0, 1}]
CountsTyped(n) ==
  n \in [seen : Nat, recorded : {n.recorded}, noAddr : {n.noAddr}, devices : {n.devices}, addresses : {n.addresses}]
Reading == tx.sessions[ctx.session].source
ReadingOk ==
  /\ FilesIn(tx, ctx.session)
  /\ HasFile(tx, ctx.session, Reading, counts.seen)
  /\ Rest(tshark.out, tshark.left, Reading, counts.seen)
  /\ tshark.state = "gone" => tshark.left = <<>>
FilesInv ==
  /\ FilesIn(tables, 0)
  /\ TsharkTyped(tshark) /\ CountsTyped(counts)
  /\ pc = "reading" /\ tshark.rc = 0 => ReadingOk

LEMMA TransactionSession ==
  ASSUME TablesOk(tables), TransactionOk
  PROVE  /\ ctx.session \in DOMAIN tx.sessions /\ ctx.session \notin DOMAIN tables.sessions
         /\ Reading \in Seq(Records) /\ ~tx.sessions[ctx.session].live
<1>1. PICK file \in Seq(Records) : tx.sessions = Append(tables.sessions, Session(file))
  BY DEF TransactionOk
<1>2. PICK rows, row, rows2 :
        rows \in Seq(SessionRows) /\ rows = tables.sessions /\ row = Session(file) /\ rows2 = tx.sessions
  BY DEF TablesOk
<1>3. rows2 = Append(rows, row) /\ ctx.session = Len(rows) + 1
  BY <1>1, <1>2 DEF TransactionOk
<1>4. Len(rows) + 1 \in DOMAIN rows2 /\ Len(rows) + 1 \notin DOMAIN rows /\ rows2[Len(rows) + 1] = row
  BY <1>3
<1>5. row.source = file /\ row.live = FALSE
  BY <1>2 DEF Session
<1>6. QED
  BY <1>2, <1>3, <1>4, <1>5 DEF Reading

LEMMA FilesInit == Init => FilesInv
<1> SUFFICES ASSUME Init PROVE FilesInv
  OBVIOUS
<1>1. tables = NoTables /\ pc = "idle" /\ counts = NoCounts /\ tshark = NoProcess
  BY DEF Init
<1>2. FilesIn(NoTables, 0)
  BY DEF NoTables, FilesIn
<1>3. TsharkTyped(NoProcess) /\ CountsTyped(NoCounts)
  BY DEF TsharkTyped, CountsTyped, NoProcess, NoCounts
<1>4. QED
  BY <1>1, <1>2, <1>3 DEF FilesInv

(* A transaction that is over, or failing, is none that is read into.      *)
LEMMA FilesOver ==
  ASSUME FilesInv, FilesIn(tables', 0), pc' # "reading", TsharkTyped(tshark'),
         CountsTyped(counts')
  PROVE  FilesInv'
BY DEF FilesInv

LEMMA NothingRuns == TsharkTyped(NoProcess) /\ CountsTyped(NoCounts)
BY DEF TsharkTyped, CountsTyped, NoProcess, NoCounts

LEMMA TsharkSteps ==
  ASSUME FilesInv, UNCHANGED <<tables, tx, pc, ctx, counts>>, TsharkTyped(tshark'),
         pc = "reading" /\ tshark'.rc = 0 =>
           /\ tshark.rc = 0
           /\ ReadingOk => Rest(tshark'.out, tshark'.left, Reading, counts.seen)
           /\ ReadingOk /\ tshark'.state = "gone" => tshark'.left = <<>>
  PROVE  FilesInv'
<1>1. ASSUME pc' = "reading", tshark'.rc = 0 PROVE ReadingOk'
  BY <1>1 DEF FilesInv, ReadingOk, Reading
<1>2. QED
  BY <1>1 DEF FilesInv, CountsTyped

LEMMA TsharkWritesIs ==
  ASSUME TsharkTyped(tshark), TsharkWrites
  PROVE  /\ tshark'.left = Tail(tshark.left) /\ tshark'.out = Append(tshark.out, Head(tshark.left))
         /\ tshark'.rc = tshark.rc /\ tshark'.state = tshark.state /\ TsharkTyped(tshark')
<1>1. /\ tshark' = [tshark EXCEPT !.left = Tail(tshark.left), !.out = Append(tshark.out, Head(tshark.left))]
      /\ tshark.left # <<>>
  BY DEF TsharkWrites
<1>2. PICK left2, out2 : left2 = Tail(tshark.left) /\ out2 = Append(tshark.out, Head(tshark.left))
  OBVIOUS
<1>3. left2 \in Seq(Records) /\ out2 \in Seq(Records)
  <2>1. PICK left \in Seq(Records), out \in Seq(Records) : left = tshark.left /\ out = tshark.out
    BY DEF TsharkTyped
  <2>2. left # <<>>
    BY <1>1, <2>1
  <2>3. Tail(left) \in Seq(Records) /\ Append(out, Head(left)) \in Seq(Records)
    BY <2>2
  <2>4. QED
    BY <1>2, <2>1, <2>3
<1>4. tshark' = [tshark EXCEPT !.left = left2, !.out = out2]
  BY <1>1, <1>2
<1>5. /\ tshark'.left = left2 /\ tshark'.out = out2
      /\ tshark'.rc = tshark.rc /\ tshark'.state = tshark.state /\ TsharkTyped(tshark')
  BY <1>3, <1>4 DEF TsharkTyped
<1>6. QED
  BY <1>2, <1>5

LEMMA TsharkWritesOk == ASSUME WritersInv, FilesInv, TsharkWrites PROVE FilesInv'
<1>1. TsharkTyped(tshark)
  BY DEF FilesInv
<1>2. tshark.left # <<>> /\ tshark.state = "runs"
  BY DEF TsharkWrites
<1>3. /\ tshark'.left = Tail(tshark.left) /\ tshark'.out = Append(tshark.out, Head(tshark.left))
      /\ tshark'.rc = tshark.rc /\ tshark'.state = tshark.state /\ TsharkTyped(tshark')
  BY <1>1, TsharkWritesIs
<1>4. ASSUME pc = "reading", ReadingOk
      PROVE  Rest(tshark'.out, tshark'.left, Reading, counts.seen)
  <2>1. Reading \in Seq(Records)
    BY <1>4, TransactionSession DEF WritersInv
  <2>2. PICK file, n, out, left :
          file \in Seq(Records) /\ file = Reading /\ n = counts.seen /\ out = tshark.out /\ left = tshark.left
    BY <2>1
  <2>3. file \in Seq(Records) /\ Rest(out, left, file, n) /\ left # <<>>
    BY <1>2, <1>4, <2>2 DEF ReadingOk
  <2>4. Rest(Append(out, Head(left)), Tail(left), file, n)
    BY <2>3, RestWrites
  <2>5. QED
    BY <1>3, <2>2, <2>4
<1>5. UNCHANGED <<tables, tx, pc, ctx, counts>>
  BY DEF TsharkWrites
<1>6. pc = "reading" /\ tshark'.rc = 0 =>
        /\ tshark.rc = 0
        /\ ReadingOk => Rest(tshark'.out, tshark'.left, Reading, counts.seen)
        /\ ReadingOk /\ tshark'.state = "gone" => tshark'.left = <<>>
  BY <1>2, <1>3, <1>4
<1>7. QED
  BY <1>3, <1>5, <1>6, TsharkSteps

LEMMA TsharkOthersAre ==
  ASSUME TsharkTyped(tshark), TsharkWarns \/ TsharkExits \/ TsharkFails \/ DrainErrors
  PROVE  /\ TsharkTyped(tshark')
         /\ tshark'.rc = 0 => /\ tshark.rc = 0 /\ tshark'.out = tshark.out /\ tshark'.left = tshark.left
                              /\ tshark'.state = "gone" => tshark.state = "gone" \/ tshark.left = <<>>
<1>1. CASE TsharkWarns
  <2>1. PICK state2, err2, warned2 :
          /\ warned2 = tshark.warned + 1
          /\ state2 = IF tshark.err = ErrCap THEN "blocked" ELSE tshark.state
          /\ err2 = IF tshark.err = ErrCap THEN tshark.err ELSE tshark.err + 1
    OBVIOUS
  <2>2. tshark' = [tshark EXCEPT !.warned = warned2, !.state = state2, !.err = err2] /\ tshark.state = "runs"
    BY <1>1, <2>1 DEF TsharkWarns
  <2>3. state2 \in {"runs", "blocked"} /\ err2 \in Nat /\ warned2 \in Nat
    <3>1. tshark.err \in Nat /\ tshark.warned \in Nat
      BY DEF TsharkTyped
    <3>2. QED
      BY <2>1, <2>2, <3>1
  <2>4. /\ TsharkTyped(tshark') /\ tshark'.rc = tshark.rc /\ tshark'.state # "gone"
        /\ tshark'.out = tshark.out /\ tshark'.left = tshark.left
    BY <2>2, <2>3 DEF TsharkTyped
  <2>5. QED
    BY <2>4
<1>2. CASE TsharkExits
  BY <1>2 DEF TsharkExits, TsharkTyped
<1>3. CASE TsharkFails
  <2>1. PICK nothing : nothing = <<>>
    OBVIOUS
  <2>2. nothing \in Seq(Records)
    BY <2>1
  <2>3. tshark' = [tshark EXCEPT !.state = "gone", !.rc = 1, !.left = nothing]
    BY <1>3, <2>1 DEF TsharkFails
  <2>4. TsharkTyped(tshark') /\ tshark'.rc = 1
    BY <2>2, <2>3 DEF TsharkTyped
  <2>5. QED
    BY <2>4
<1>4. CASE DrainErrors
  <2>1. PICK state2 : state2 = IF tshark.state = "blocked" THEN "runs" ELSE tshark.state
    OBVIOUS
  <2>2. tshark' = [tshark EXCEPT !.err = 0, !.state = state2]
    BY <1>4, <2>1 DEF DrainErrors
  <2>3. state2 \in {"runs", "blocked", "gone"} /\ (state2 = "gone" => tshark.state = "gone")
    BY <2>1 DEF TsharkTyped
  <2>4. /\ TsharkTyped(tshark') /\ tshark'.rc = tshark.rc /\ tshark'.state = state2
        /\ tshark'.out = tshark.out /\ tshark'.left = tshark.left
    BY <2>2, <2>3 DEF TsharkTyped
  <2>5. QED
    BY <2>3, <2>4
<1>5. QED
  BY <1>1, <1>2, <1>3, <1>4

LEMMA TsharkOthersOk ==
  ASSUME FilesInv, TsharkWarns \/ TsharkExits \/ TsharkFails \/ DrainErrors
  PROVE  FilesInv'
<1>1. TsharkTyped(tshark) /\ UNCHANGED <<tables, tx, pc, ctx, counts>>
  BY DEF FilesInv, TsharkWarns, TsharkExits, TsharkFails, DrainErrors
<1>2. ReadingOk => Rest(tshark.out, tshark.left, Reading, counts.seen) /\ (tshark.state = "gone" => tshark.left = <<>>)
  BY DEF ReadingOk
<1>3. QED
  BY <1>1, <1>2, TsharkOthersAre, TsharkSteps

(* The subprocess of a new ingest.                                         *)
LEMMA SpawnedIs ==
  ASSUME NEW file \in Seq(Records)
  PROVE  /\ TsharkTyped(Spawned(file)) /\ Spawned(file).left = file /\ Spawned(file).out = <<>>
         /\ Spawned(file).state = "runs"
<1>1. PICK nothing : nothing = <<>>
  OBVIOUS
<1>2. nothing \in Seq(Records)
  BY <1>1
<1>3. PICK p : p = Spawned(file)
  OBVIOUS
<1>4. p = [left |-> file, out |-> nothing, warned |-> 0, err |-> 0, state |-> "runs", rc |-> 0]
  BY <1>1, <1>3 DEF Spawned, NoProcess
<1>5. TsharkTyped(p) /\ p.left = file /\ p.out = nothing /\ p.state = "runs"
  BY <1>2, <1>4 DEF TsharkTyped
<1>6. QED
  BY <1>1, <1>3, <1>5

LEMMA IngestFileFilesOk ==
  ASSUME WritersInv, FilesInv, NEW file \in Files, IngestFile(file), TransactionOk'
  PROVE  FilesInv'
<1>1. /\ tables' = tables /\ tx' = Opened(file) /\ ctx' = NewContext(Len(tables.sessions) + 1)
      /\ tshark' = Spawned(file)
      /\ counts' = [NoCounts EXCEPT !.devices = Size(tables.devices), !.addresses = Size(tables.addresses)]
  BY DEF IngestFile
<1>2. file \in Seq(Records) /\ TablesOk(tables) /\ TablesTyped(tables) /\ FilesIn(tables, 0)
      /\ tables.sessions \in Seq(SessionRows)
  BY FilesAreSequences DEF WritersInv, FilesInv, TablesOk
<1>3. PICK t2, e : t2 = Opened(file) /\ e = Len(tables.sessions) + 1
  OBVIOUS
<1>4. /\ TablesTyped(t2) /\ t2.sessions = Append(tables.sessions, Session(file)) /\ t2.devices = tables.devices
      /\ t2.observations = tables.observations /\ t2.broadcasts = tables.broadcasts
  BY <1>2, <1>3 DEF Opened, Session, TablesTyped
<1>5. Session(file) \in SessionRows /\ Session(file).source = file
  BY <1>2 DEF Session, SessionRows
<1>6. /\ DOMAIN t2.sessions = DOMAIN tables.sessions \cup {e} /\ t2.sessions[e] = Session(file)
      /\ \A s \in DOMAIN tables.sessions : t2.sessions[s] = tables.sessions[s]
  BY <1>2, <1>3, <1>4, <1>5, AddSessionOk
<1>7. 0 \notin DOMAIN tables.sessions /\ e \notin DOMAIN tables.sessions
  BY <1>2, <1>3
<1>8. FilesIn(t2, e)
  <2>1. \A s \in DOMAIN t2.sessions : s # e /\ ~t2.sessions[s].live =>
          /\ s \in DOMAIN tables.sessions /\ s # 0 /\ ~tables.sessions[s].live
          /\ t2.sessions[s].source = tables.sessions[s].source
          /\ tables.sessions[s].ended => t2.sessions[s].ended
    BY <1>6, <1>7
  <2>2. QED
    BY <1>2, <1>4, <2>1, SameFilesIn
<1>9. HasFile(t2, e, file, 0)
  BY <1>2, <1>4, <1>7, NothingOfNew
<1>10. ctx'.session = e /\ Reading' = file
  BY <1>1, <1>3, <1>5, <1>6, NewContextIs DEF Reading
<1>11. /\ TsharkTyped(tshark') /\ tshark'.left = file /\ tshark'.out = <<>> /\ tshark'.state = "runs"
  BY <1>1, <1>2, SpawnedIs
<1>12. CountsTyped(counts') /\ counts'.seen = 0
  BY <1>1 DEF NoCounts, CountsTyped
<1>13. ReadingOk'
  BY <1>1, <1>2, <1>3, <1>8, <1>9, <1>10, <1>11, <1>12, RestSpawned DEF ReadingOk
<1>14. QED
  BY <1>1, <1>2, <1>11, <1>12, <1>13 DEF FilesInv

(* tshark's pipe loses a record: to the loop, or to a statement that       *)
(* raises.                                                                 *)
LEMMA TsharkTail ==
  ASSUME TsharkTyped(tshark), tshark.out # <<>>, tshark' = [tshark EXCEPT !.out = Tail(tshark.out)]
  PROVE  /\ TsharkTyped(tshark') /\ tshark'.out = Tail(tshark.out) /\ tshark'.left = tshark.left
         /\ tshark'.rc = tshark.rc /\ tshark'.state = tshark.state
<1>1. PICK out2 : out2 = Tail(tshark.out)
  OBVIOUS
<1>2. out2 \in Seq(Records)
  <2>1. PICK out \in Seq(Records) : out = tshark.out
    BY DEF TsharkTyped
  <2>2. Tail(out) \in Seq(Records)
    BY <2>1
  <2>3. QED
    BY <1>1, <2>1, <2>2
<1>3. tshark' = [tshark EXCEPT !.out = out2]
  BY <1>1
<1>4. QED
  BY <1>1, <1>2, <1>3 DEF TsharkTyped

LEMMA ReadRecordFilesOk ==
  ASSUME RecordsSayWhatTheyAre, WritersInv, FilesInv, ReadRecord
  PROVE  FilesInv'
<1> DEFINE rec == Head(tshark.out)
           done == IF Kept(rec) THEN Recorded(tx, ctx, rec, FALSE) ELSE [tables |-> tx, ctx |-> ctx, by |-> None]
<1>1. /\ pc = "reading" /\ tshark.out # <<>> /\ tables' = tables /\ TsharkTyped(tshark) /\ CountsTyped(counts)
      /\ FilesIn(tables, 0)
  BY DEF ReadRecord, FilesInv
<1>2. /\ TsharkTyped(tshark') /\ tshark'.out = Tail(tshark.out) /\ tshark'.left = tshark.left
      /\ tshark'.rc = tshark.rc /\ tshark'.state = tshark.state
  <2>1. tshark' = [tshark EXCEPT !.out = Tail(tshark.out)]
    BY DEF ReadRecord
  <2>2. QED
    BY <1>1, <2>1, TsharkTail
<1>3. CountsTyped(counts') /\ counts'.seen = counts.seen + 1
  <2>1. \E noAddr, recorded :
          counts' = [counts EXCEPT !.seen = counts.seen + 1, !.noAddr = noAddr, !.recorded = recorded]
    BY DEF ReadRecord
  <2>2. PICK seen2 : seen2 = counts.seen + 1
    OBVIOUS
  <2>3. seen2 \in Nat
    <3>1. counts.seen \in Nat
      BY <1>1 DEF CountsTyped
    <3>2. QED
      BY <2>2, <3>1
  <2>4. QED
    BY <1>1, <2>1, <2>2, <2>3 DEF CountsTyped
<1>4. tx' = done.tables /\ ctx' = done.ctx
  BY DEF ReadRecord
<1>5. ASSUME tshark.rc = 0 PROVE ReadingOk'
  <2>1. ReadingOk /\ TransactionOk /\ TablesOk(tables)
    BY <1>1, <1>5 DEF FilesInv, WritersInv
  <2>2. PICK t, c, keep, s, file, n, out, left :
          /\ t = tx /\ c = ctx /\ keep = FALSE /\ s = ctx.session /\ file = Reading /\ n = counts.seen
          /\ out = tshark.out /\ left = tshark.left
    OBVIOUS
  <2>3. /\ TablesOk(t) /\ TablesTyped(t) /\ CtxTyped(c) /\ s = c.session /\ s \in DOMAIN t.sessions
        /\ file = t.sessions[s].source /\ file \in Seq(Records) /\ n \in Nat
    BY <2>1, <2>2, TransactionSession DEF TransactionOk, TablesOk, Reading, ReadingOk, Rest
  <2>4. FilesIn(t, s) /\ HasFile(t, s, file, n) /\ Rest(out, left, file, n) /\ out # <<>>
    BY <1>1, <2>1, <2>2 DEF ReadingOk
  <2>5. Rest(Tail(out), left, file, n + 1) /\ rec = file[n + 1] /\ rec \in Records
    BY <2>2, <2>3, <2>4, RestReads
  <2>6. PICK r, t2, c2 : r = rec /\ t2 = tx' /\ c2 = ctx'
    OBVIOUS
  <2>7. /\ Kept(r) => t2 = Recorded(t, c, r, keep).tables /\ c2 = Recorded(t, c, r, keep).ctx
        /\ ~Kept(r) => t2 = t /\ c2 = c
    BY <1>4, <2>2, <2>6
  <2> HIDE DEF rec, done
  <2>8. c2.session = s /\ t2.sessions = t.sessions /\ FilesIn(t2, s) /\ HasFile(t2, s, file, n + 1)
    <3>1. CASE Kept(r)
      <4>1. /\ Recorded(t, c, r, keep).tables.sessions = t.sessions
            /\ Recorded(t, c, r, keep).ctx.session = c.session
        BY <2>3, RecordedOk
      <4>2. FilesIn(t2, s)
        BY <2>3, <2>4, <2>7, <3>1, <4>1, RecordedFilesIn
      <4>3. HasFile(Recorded(t, c, r, keep).tables, s, file, n + 1)
        BY <2>3, <2>4, <2>5, <2>6, <3>1, RecordedHolds
      <4>4. QED
        BY <2>3, <2>7, <3>1, <4>1, <4>2, <4>3
    <3>2. CASE ~Kept(r)
      <4>1. PICK obs, bs : obs = t.observations /\ bs = t.broadcasts
        OBVIOUS
      <4>2. ~Kept(file[n + 1]) /\ HasCounts(obs, s, file, n) /\ HasBroadcasts(bs, s, file, n)
        BY <2>4, <2>5, <2>6, <3>2, <4>1 DEF HasFile
      <4>3. HasCounts(obs, s, file, n + 1) /\ HasBroadcasts(bs, s, file, n + 1)
        BY <2>3, <4>2, CountsSkip, BroadcastsSkip
      <4>4. HasFile(t, s, file, n + 1)
        BY <4>1, <4>3 DEF HasFile
      <4>5. QED
        BY <2>3, <2>4, <2>7, <3>2, <4>4
    <3>3. QED
      BY <3>1, <3>2
  <2>9. Reading' = file
    BY <2>3, <2>6, <2>8 DEF Reading
  <2>10. tshark'.state = "gone" => tshark'.left = <<>>
    BY <1>2, <2>1 DEF ReadingOk
  <2>11. QED
    BY <1>2, <1>3, <2>2, <2>5, <2>6, <2>8, <2>9, <2>10 DEF ReadingOk
<1> HIDE DEF rec, done
<1>6. QED
  BY <1>1, <1>2, <1>3, <1>5 DEF FilesInv

LEMMA EndOfOutputFilesOk ==
  ASSUME WritersInv, FilesInv, EndOfOutput
  PROVE  FilesInv'
<1>1. /\ pc = "reading" /\ pc' = "idle" /\ tshark.out = <<>> /\ tshark.state = "gone"
      /\ counts' = NoCounts /\ tshark' = NoProcess
  BY DEF EndOfOutput, RolledBack, Over
<1>2. CASE tables' = tables
  <2>1. FilesIn(tables', 0)
    BY <1>2 DEF FilesInv
  <2>2. QED
    BY <1>1, <2>1, NothingRuns, FilesOver
<1>3. CASE ExitStatusOk(tshark.rc) /\ tables' = Closed(tx, ctx.session)
  <2>1. TransactionOk /\ ReadingOk /\ TablesOk(tables)
    BY <1>1, <1>3 DEF WritersInv, FilesInv, ExitStatusOk
  <2>2. PICK t, s, file, t2 : t = tx /\ s = ctx.session /\ file = Reading /\ t2 = tables'
    OBVIOUS
  <2>3. /\ TablesTyped(t) /\ t.sessions \in Seq(SessionRows) /\ s \in DOMAIN t.sessions
        /\ file = t.sessions[s].source /\ file \in Seq(Records)
    BY <2>1, <2>2, TransactionSession DEF TransactionOk, TablesOk, Reading
  <2>4. FilesIn(t, s) /\ HasFile(t, s, file, Len(file))
    <3>1. PICK n, out, left : n = counts.seen /\ out = tshark.out /\ left = tshark.left
      OBVIOUS
    <3>2. FilesIn(t, s) /\ HasFile(t, s, file, n) /\ Rest(out, left, file, n) /\ out = <<>> /\ left = <<>>
      BY <1>1, <2>1, <2>2, <3>1 DEF ReadingOk
    <3>3. n \in Nat /\ Len(out) = 0 /\ Len(left) = 0 /\ n + Len(out) + Len(left) = Len(file)
      BY <3>2 DEF Rest
    <3>4. n = Len(file)
      BY <3>3
    <3>5. QED
      BY <3>2, <3>4
  <2>5. /\ DOMAIN t2.sessions = DOMAIN t.sessions
        /\ \A r \in DOMAIN t.sessions :
             /\ t2.sessions[r].live = t.sessions[r].live /\ t2.sessions[r].source = t.sessions[r].source
             /\ t2.sessions[r].ended = (r = s \/ t.sessions[r].ended)
        /\ t2.observations = t.observations /\ t2.broadcasts = t.broadcasts
    BY <1>3, <2>2, <2>3, ClosedIs
  <2>6. ASSUME NEW r \in DOMAIN t2.sessions, ~t2.sessions[r].live
        PROVE  t2.sessions[r].ended /\ HasFile(t2, r, t2.sessions[r].source, Len(t2.sessions[r].source))
    <3>1. \A f, n : HasFile(t, r, f, n) => HasFile(t2, r, f, n)
      BY <2>5 DEF HasFile
    <3>2. CASE r = s
      BY <2>3, <2>4, <2>5, <3>1, <3>2
    <3>3. CASE r # s
      <4>1. t.sessions[r].ended /\ HasFile(t, r, t.sessions[r].source, Len(t.sessions[r].source))
        BY <2>4, <2>5, <2>6, <3>3 DEF FilesIn
      <4>2. QED
        BY <2>5, <2>6, <3>1, <4>1
    <3>4. QED
      BY <3>2, <3>3
  <2>7. FilesIn(tables', 0)
    BY <2>2, <2>6 DEF FilesIn
  <2>8. QED
    BY <1>1, <2>7, NothingRuns, FilesOver
<1>4. QED
  BY <1>2, <1>3 DEF EndOfOutput, RolledBack, Over

(* The other process writes only while no file is being read.              *)
LEMMA LiveSteps ==
  ASSUME FilesInv, FilesIn(tables', 0), pc = "idle", UNCHANGED <<pc, counts, tshark>>
  PROVE  FilesInv'
BY DEF FilesInv, CountsTyped

LEMMA StartLiveFilesOk == ASSUME WritersInv, FilesInv, StartLive PROVE FilesInv'
<1> DEFINE row == [live |-> TRUE, source |-> <<>>, ended |-> FALSE]
<1>1. /\ pc = "idle" /\ tables' = AddSession(tables, row) /\ UNCHANGED <<pc, counts, tshark>>
  BY DEF StartLive, AddSession
<1>2. TablesOk(tables) /\ TablesTyped(tables) /\ FilesIn(tables, 0) /\ tables.sessions \in Seq(SessionRows)
  BY DEF WritersInv, TablesOk, FilesInv
<1>3. row \in SessionRows /\ row.live = TRUE
  BY DEF SessionRows
<1> HIDE DEF row
<1>4. PICK t2, e : t2 = tables' /\ e = Len(tables.sessions) + 1
  OBVIOUS
<1>5. /\ TablesTyped(t2) /\ t2.sessions = Append(tables.sessions, row) /\ t2.devices = tables.devices
      /\ t2.observations = tables.observations /\ t2.broadcasts = tables.broadcasts
  BY <1>1, <1>2, <1>4, AddSessionIs
<1>6. /\ DOMAIN t2.sessions = DOMAIN tables.sessions \cup {e} /\ t2.sessions[e] = row
      /\ \A s \in DOMAIN tables.sessions : t2.sessions[s] = tables.sessions[s]
  BY <1>2, <1>3, <1>4, <1>5, AddSessionOk
<1>7. \A s \in DOMAIN t2.sessions : s # 0 /\ ~t2.sessions[s].live =>
        /\ s \in DOMAIN tables.sessions /\ s # 0 /\ ~tables.sessions[s].live
        /\ t2.sessions[s].source = tables.sessions[s].source
        /\ tables.sessions[s].ended => t2.sessions[s].ended
  BY <1>3, <1>6
<1>8. FilesIn(t2, 0)
  BY <1>2, <1>5, <1>7, SameFilesIn
<1>9. QED
  BY <1>1, <1>4, <1>8, LiveSteps

LEMMA LivePacketFilesOk == ASSUME WritersInv, FilesInv, NEW pkt, LivePacket(pkt) PROVE FilesInv'
<1>1. PICK t, c, keep, t2 : t = tables /\ c = live.ctx /\ keep = TRUE /\ t2 = Recorded(t, c, pkt, keep).tables
  OBVIOUS
<1>2. live # None /\ pc = "idle" /\ tables' = t2 /\ UNCHANGED <<pc, counts, tshark>>
  BY <1>1 DEF LivePacket
<1>3. TablesOk(t) /\ TablesTyped(t) /\ LiveOk /\ FilesIn(t, 0)
  BY <1>1, <1>2 DEF WritersInv, TablesOk, FilesInv
<1>4. CtxTyped(c) /\ c.session \in DOMAIN t.sessions /\ t.sessions[c.session].live
  BY <1>1, <1>3 DEF LiveOk
<1>5. Recorded(t, c, pkt, keep).tables.sessions = t.sessions
  BY <1>3, <1>4, RecordedOk
<1>6. FilesIn(t2, 0)
  <2>1. t2 = Recorded(t, c, pkt, keep).tables
    BY <1>1
  <2>2. t2.sessions = t.sessions
    BY <1>5, <2>1
  <2>3. QED
    BY <1>3, <1>4, <2>1, <2>2, RecordedFilesIn
<1>7. QED
  BY <1>2, <1>6, LiveSteps

LEMMA StopLiveFilesOk == ASSUME WritersInv, FilesInv, StopLive PROVE FilesInv'
<1>1. /\ live # None /\ pc = "idle" /\ tables' = Closed(tables, live.ctx.session) /\ UNCHANGED <<pc, counts, tshark>>
  BY DEF StopLive, Closed
<1>2. /\ TablesTyped(tables) /\ tables.sessions \in Seq(SessionRows) /\ FilesIn(tables, 0)
      /\ live.ctx.session \in DOMAIN tables.sessions
  BY <1>1 DEF WritersInv, TablesOk, LiveOk, FilesInv
<1>3. PICK t2, s : t2 = tables' /\ s = live.ctx.session
  OBVIOUS
<1>4. /\ DOMAIN t2.sessions = DOMAIN tables.sessions
      /\ \A r \in DOMAIN tables.sessions :
           /\ t2.sessions[r].live = tables.sessions[r].live /\ t2.sessions[r].source = tables.sessions[r].source
           /\ t2.sessions[r].ended = (r = s \/ tables.sessions[r].ended)
      /\ t2.observations = tables.observations /\ t2.broadcasts = tables.broadcasts
  BY <1>1, <1>2, <1>3, ClosedIs
<1>5. \A r \in DOMAIN t2.sessions : r # 0 /\ ~t2.sessions[r].live =>
        /\ r \in DOMAIN tables.sessions /\ r # 0 /\ ~tables.sessions[r].live
        /\ t2.sessions[r].source = tables.sessions[r].source
        /\ tables.sessions[r].ended => t2.sessions[r].ended
  BY <1>4
<1>6. FilesIn(t2, 0)
  BY <1>2, <1>4, <1>5, SameFilesIn
<1>7. QED
  BY <1>1, <1>3, <1>6, LiveSteps

LEMMA StatementRaisesFilesOk == ASSUME FilesInv, StatementRaises PROVE FilesInv'
<1>1. /\ pc' = "failing" /\ tables' = tables /\ counts' = counts /\ tshark.out # <<>>
      /\ tshark' = [tshark EXCEPT !.out = Tail(tshark.out)]
  BY DEF StatementRaises
<1>2. TsharkTyped(tshark) /\ CountsTyped(counts) /\ FilesIn(tables, 0)
  BY DEF FilesInv
<1>3. TsharkTyped(tshark')
  BY <1>1, <1>2, TsharkTail
<1>4. CountsTyped(counts') /\ FilesIn(tables', 0)
  BY <1>1, <1>2 DEF CountsTyped
<1>5. QED
  BY <1>1, <1>3, <1>4, FilesOver

LEMMA RolledBackFilesOk == ASSUME FilesInv, RolledBack PROVE FilesInv'
<1>1. pc' = "idle" /\ tables' = tables /\ counts' = NoCounts /\ tshark' = NoProcess
  BY DEF RolledBack, Over
<1>2. FilesIn(tables', 0)
  BY <1>1 DEF FilesInv
<1>3. QED
  BY <1>1, <1>2, NothingRuns, FilesOver

LEMMA FilesNext ==
  ASSUME RecordsSayWhatTheyAre, WritersInv, WritersInv', FilesInv, [Next]_vars
  PROVE  FilesInv'
<1>1. CASE TsharkWrites
  BY <1>1, TsharkWritesOk
<1>2. CASE TsharkWarns \/ TsharkExits \/ TsharkFails \/ DrainErrors
  BY <1>2, TsharkOthersOk
<1>3. CASE \E file \in Files : IngestFile(file)
  <2>1. PICK file \in Files : IngestFile(file)
    BY <1>3
  <2>2. TransactionOk'
    BY <2>1 DEF WritersInv, IngestFile
  <2>3. QED
    BY <2>1, <2>2, IngestFileFilesOk
<1>4. CASE ReadRecord
  BY <1>4, ReadRecordFilesOk
<1>5. CASE StatementRaises
  BY <1>5, StatementRaisesFilesOk
<1>6. CASE GiveUp \/ Quit
  BY <1>6, RolledBackFilesOk DEF GiveUp, Quit
<1>7. CASE EndOfOutput
  BY <1>7, EndOfOutputFilesOk
<1>8. CASE StartLive
  BY <1>8, StartLiveFilesOk
<1>9. CASE StopLive
  BY <1>9, StopLiveFilesOk
<1>10. CASE \E pkt \in Captured : LivePacket(pkt)
  BY <1>10, LivePacketFilesOk
<1>11. CASE UNCHANGED vars
  BY <1>11 DEF vars, FilesInv, ReadingOk, Reading, CountsTyped
<1>12. QED
  BY <1>1, <1>2, <1>3, <1>4, <1>5, <1>6, <1>7, <1>8, <1>9, <1>10, <1>11 DEF Next

(* What a file's session holds of it, in the words of the property.        *)
LEMMA FilesAreComplete ==
  ASSUME WritersInv, FilesInv
  PROVE  FileSessionsAreComplete
<1>1. TablesOk(tables) /\ tables.sessions \in Seq(SessionRows) /\ FilesIn(tables, 0)
  BY DEF WritersInv, TablesOk, FilesInv
<1> SUFFICES ASSUME NEW s \in DOMAIN tables.sessions, ~tables.sessions[s].live
             PROVE  LET file == tables.sessions[s].source
                        kept == {file[k] : k \in {j \in DOMAIN file : Kept(file[j])}}
                        packets(key) == At(tables.observations, <<s, key>>, NewObservation).packets
                        ids == {rec.says.id : rec \in kept} \ {None}
                    IN /\ tables.sessions[s].ended
                       /\ \A key \in DOMAIN tables.devices \cup {IngestKey(rec) : rec \in kept} :
                            packets(key) = Cardinality(RecordsBy(file, key))
                       /\ {b[2] : b \in {x \in DOMAIN tables.broadcasts : x[1] = s}} = ids
                       /\ \A id \in ids :
                            tables.broadcasts[<<s, id>>].encrypted
                              = (\E k \in Announcing(file, id) : file[k].says.encrypted)
  BY DEF FileSessionsAreComplete
<1> DEFINE file == tables.sessions[s].source
           n == Len(file)
           obs == tables.observations
           bs == tables.broadcasts
<1>2. file = tables.sessions[s].source /\ n = Len(file) /\ obs = tables.observations /\ bs = tables.broadcasts
  OBVIOUS
<1> HIDE DEF file, n, obs, bs
<1>3. file \in Seq(Records) /\ s # 0
  <2>1. tables.sessions[s] \in SessionRows /\ s \in Nat \ {0}
    BY <1>1
  <2>2. QED
    BY <1>2, <2>1 DEF SessionRows
<1>4. n \in Nat /\ DOMAIN file = 1..n
  BY <1>2, <1>3
<1>5. tables.sessions[s].ended /\ HasCounts(obs, s, file, n) /\ HasBroadcasts(bs, s, file, n)
  BY <1>1, <1>2, <1>3 DEF FilesIn, HasFile
<1>6. \A key : At(obs, <<s, key>>, NewObservation).packets = Cardinality(RecordsBy(file, key))
  BY <1>4, <1>5 DEF HasCounts, RecordsOf, RecordsBy
<1> DEFINE kept == {file[k] : k \in {j \in DOMAIN file : Kept(file[j])}}
           ids == {rec.says.id : rec \in kept} \ {None}
<1>7. ids = Said(file, n)
  BY <1>4 DEF Said
<1>8. {b[2] : b \in {x \in DOMAIN bs : x[1] = s}} = Said(file, n)
  <2>1. \A x \in DOMAIN bs : x = <<x[1], x[2]>>
    BY <1>1, <1>2 DEF TablesOk
  <2>2. \A id : <<s, id>> \in DOMAIN bs <=> id \in Said(file, n)
    BY <1>5 DEF HasBroadcasts
  <2>3. ASSUME NEW id PROVE id \in {b[2] : b \in {x \in DOMAIN bs : x[1] = s}} <=> <<s, id>> \in DOMAIN bs
    <3>1. <<s, id>>[1] = s /\ <<s, id>>[2] = id
      OBVIOUS
    <3>2. ASSUME NEW b \in DOMAIN bs, b[1] = s, b[2] = id PROVE <<s, id>> \in DOMAIN bs
      BY <2>1, <3>2
    <3>3. QED
      BY <3>1, <3>2
  <2>4. QED
    BY <2>2, <2>3
<1>9. ASSUME NEW id \in Said(file, n)
      PROVE  bs[<<s, id>>].encrypted = (\E k \in Announcing(file, id) : file[k].says.encrypted)
  <2>1. (\E k \in Announcing(file, id) : file[k].says.encrypted) <=> SaidEncrypted(file, n, id)
    BY <1>4 DEF Announcing, SaidEncrypted
  <2>2. /\ bs[<<s, id>>].encrypted \in BOOLEAN
        /\ bs[<<s, id>>].encrypted <=> SaidEncrypted(file, n, id)
    BY <1>5 DEF HasBroadcasts
  <2>3. QED
    BY <2>1, <2>2
<1> HIDE DEF kept, ids
<1>10. /\ tables.sessions[s].ended
       /\ \A key \in DOMAIN tables.devices \cup {IngestKey(rec) : rec \in kept} :
            At(obs, <<s, key>>, NewObservation).packets = Cardinality(RecordsBy(file, key))
       /\ {b[2] : b \in {x \in DOMAIN bs : x[1] = s}} = ids
       /\ \A id \in ids : bs[<<s, id>>].encrypted = (\E k \in Announcing(file, id) : file[k].says.encrypted)
  BY <1>5, <1>6, <1>7, <1>8, <1>9
<1>11. QED
  BY <1>10 DEF kept, ids, file, n, obs, bs

(* A file that is in the tables is there as a whole: per device as many    *)
(* packets as it has records of it, and the broadcasts its records         *)
(* announce, whatever fails on the way and whatever is recorded live in    *)
(* between.  The decoder is taken to make of a record what its transmitter *)
(* said.                                                                   *)
THEOREM FileSessionsComplete ==
  ASSUME RecordsSayWhatTheyAre
  PROVE  Spec => []FileSessionsAreComplete
<1>1. WritersInv /\ WritersInv' /\ FilesInv /\ [Next]_vars => FilesInv'
  BY FilesNext
<1>2. WritersInv /\ FilesInv => FileSessionsAreComplete
  BY FilesAreComplete
<1>3. QED
  BY <1>1, <1>2, FilesInit, FileIngestInvariant, PTL DEF Spec

-----------------------------------------------------------------------------
(* Who is on the air: the decoders make of a buffer its sender's address,  *)
(* or none, wherever it is cut off.                                        *)
LEMMA BytesOf ==
  ASSUME NEW b \in Seq(Bytes), NEW i \in 0..(Len(b) - 1)
  PROVE  Byte(b, i) \in Bytes /\ Byte(b, i) = b[i + 1]
BY DEF Byte

\* SubSeq(b, m, n) for the bytes that are there
LEMMA SubSeqIs ==
  ASSUME NEW b \in Seq(Bytes), NEW m \in 1..(Len(b) + 1), NEW n \in (m - 1)..Len(b)
  PROVE  /\ SubSeq(b, m, n) \in Seq(Bytes) /\ Len(SubSeq(b, m, n)) = n - m + 1
         /\ \A k \in 1..(n - m + 1) : SubSeq(b, m, n)[k] = b[m + k - 1]
OBVIOUS

LEMMA FromIs ==
  ASSUME NEW b \in Seq(Bytes), NEW i \in 0..Len(b)
  PROVE  /\ From(b, i) \in Seq(Bytes) /\ Len(From(b, i)) = Len(b) - i
         /\ \A k \in 0..(Len(b) - i - 1) : Byte(From(b, i), k) = Byte(b, i + k)
<1>1. /\ SubSeq(b, i + 1, Len(b)) \in Seq(Bytes) /\ Len(SubSeq(b, i + 1, Len(b))) = Len(b) - i
      /\ \A k \in 1..(Len(b) - i) : SubSeq(b, i + 1, Len(b))[k] = b[i + 1 + k - 1]
  OBVIOUS
<1>2. QED
  BY <1>1 DEF From, Byte

LEMMA SliceIs ==
  ASSUME NEW b \in Seq(Bytes), NEW i \in 0..Len(b), NEW j \in Nat, j >= i
  PROVE  /\ Slice(b, i, j) \in Seq(Bytes)
         /\ Len(Slice(b, i, j)) = (IF j < Len(b) THEN j ELSE Len(b)) - i
         /\ \A k \in 0..(Len(Slice(b, i, j)) - 1) : Byte(Slice(b, i, j), k) = Byte(b, i + k)
<1> DEFINE n == IF j < Len(b) THEN j ELSE Len(b)
<1>1. n \in i..Len(b)
  OBVIOUS
<1> HIDE DEF n
<1>2. /\ SubSeq(b, i + 1, n) \in Seq(Bytes) /\ Len(SubSeq(b, i + 1, n)) = n - i
      /\ \A k \in 1..(n - i) : SubSeq(b, i + 1, n)[k] = b[i + 1 + k - 1]
  BY <1>1
<1>3. Slice(b, i, j) = SubSeq(b, i + 1, n)
  BY DEF Slice, n
<1>4. QED
  BY <1>1, <1>2, <1>3 DEF Byte, n

LEMMA SixAre ==
  ASSUME NEW b \in Seq(Bytes), NEW i \in Nat, NEW j \in Nat, j = i + 6, Len(b) >= j
  PROVE  /\ Slice(b, i, j) \in Seq(Bytes) /\ Len(Slice(b, i, j)) = 6
         /\ \A k \in 0..5 : Byte(Slice(b, i, j), k) = Byte(b, i + k)
<1>1. Len(b) \in Nat /\ i \in 0..Len(b) /\ j >= i
  OBVIOUS
<1>2. /\ Slice(b, i, j) \in Seq(Bytes) /\ Len(Slice(b, i, j)) = (IF j < Len(b) THEN j ELSE Len(b)) - i
      /\ \A k \in 0..(Len(Slice(b, i, j)) - 1) : Byte(Slice(b, i, j), k) = Byte(b, i + k)
  BY <1>1, SliceIs
<1>3. (IF j < Len(b) THEN j ELSE Len(b)) - i = 6
  BY <1>1
<1>4. Len(Slice(b, i, j)) = 6
  BY <1>2, <1>3
<1>5. QED
  BY <1>2, <1>4

\* What is decoded of six bytes in their order on the air.
LEMMA ReversedIs ==
  ASSUME NEW s \in Seq(Bytes), Len(s) = 6, NEW addr \in [1..6 -> Bytes],
         \A k \in 0..5 : Byte(s, k) = addr[6 - k]
  PROVE  Reverse(s) = addr
<1>1. Reverse(s) = [i \in 1..6 |-> s[(6 - i) + 1]]
  BY DEF Reverse
<1>2. \A i \in 1..6 : s[(6 - i) + 1] = addr[i]
  <2> TAKE i \in 1..6
  <2>1. 6 - i \in 0..5 /\ Byte(s, 6 - i) = addr[6 - (6 - i)]
    OBVIOUS
  <2>2. QED
    BY <2>1 DEF Byte
<1>3. QED
  BY <1>1, <1>2

(* The address in an extended header, if its flags say there is one and    *)
(* the header is long enough for it.                                       *)
LEMMA FieldsLength ==
  ASSUME NEW flags
  PROVE  ExtFieldsLength(flags) \in Nat /\ (Bit(flags, ADVA) => ExtFieldsLength(flags) >= 6)
<1> DEFINE field(k) == IF Bit(flags, k - 1) THEN ExtField[k] ELSE 0
<1>1. \A k \in 1..7 : field(k) \in Nat
  BY DEF ExtField
<1>2. Bit(flags, ADVA) => field(1) = 6
  BY DEF ExtField, ADVA
<1>3. ExtFieldsLength(flags) = field(1) + field(2) + field(3) + field(4) + field(5) + field(6) + field(7)
  BY DEF ExtFieldsLength
<1> HIDE DEF field
<1>4. QED
  BY <1>1, <1>2, <1>3

LEMMA SplitIs ==
  ASSUME NEW p \in Seq(Bytes), NEW addr \in [1..6 -> Bytes],
         Len(p) >= 8 => ~Bit(Byte(p, 1), ADVA) \/ \A k \in 0..5 : Byte(p, 2 + k) = addr[6 - k]
  PROVE  SplitExtended(p).addr \in {<<>>, addr}
<1> DEFINE hdr == Byte(p, 0) % 64
           flags == Byte(p, 1)
           end == 1 + hdr
           nowhere == p = <<>> \/ hdr = 0 \/ end > Len(p) \/ 2 + ExtFieldsLength(flags) > end
<1>1. CASE nowhere
  BY <1>1 DEF SplitExtended, NoPayload
<1>2. CASE ~nowhere
  <2>1. SplitExtended(p).addr = IF Bit(flags, ADVA) THEN Reverse(Slice(p, 2, 8)) ELSE <<>>
    BY <1>2 DEF SplitExtended
  <2>2. CASE ~Bit(flags, ADVA)
    BY <2>1, <2>2
  <2>3. CASE Bit(flags, ADVA)
    <3>1. ExtFieldsLength(flags) \in Nat /\ ExtFieldsLength(flags) >= 6
      BY <2>3, FieldsLength
    <3>2. hdr \in Nat
      <4>1. Len(p) >= 1
        BY <1>2
      <4>2. Byte(p, 0) \in Bytes
        BY <4>1, BytesOf
      <4>3. \A x \in Bytes : x % 64 \in Nat
        BY DEF Bytes
      <4>4. QED
        BY <4>2, <4>3
    <3>3. Len(p) >= 8
      <4> HIDE DEF hdr, flags
      <4>1. QED
        BY <1>2, <3>1, <3>2
    <3>4. \A k \in 0..5 : Byte(p, 2 + k) = addr[6 - k]
      BY <2>3, <3>3
    <3>5. /\ Slice(p, 2, 8) \in Seq(Bytes) /\ Len(Slice(p, 2, 8)) = 6
          /\ \A k \in 0..5 : Byte(Slice(p, 2, 8), k) = Byte(p, 2 + k)
      BY <3>3, SliceIs
    <3>6. Reverse(Slice(p, 2, 8)) = addr
      BY <3>4, <3>5, ReversedIs
    <3>7. QED
      BY <2>1, <2>3, <3>6
  <2>4. QED
    BY <2>2, <2>3
<1>3. QED
  BY <1>1, <1>2

(* The link layer's frame.                                                 *)
Carries(ll, addr) ==
  LET at == IF Byte(ll, 4) % 16 = 7 THEN 8 ELSE 6
  IN \/ Byte(ll, 4) % 16 = 7 /\ ~Bit(Byte(ll, 7), ADVA)
     \/ \A k \in 0..5 : Byte(ll, at + k) = addr[6 - k]

LEMMA DecodeLLIs ==
  ASSUME NEW ll \in Seq(Bytes), NEW addr \in [1..6 -> Bytes], Len(ll) >= 15 => Carries(ll, addr),
         DecodeLL(ll).kind = "adv"
  PROVE  DecodeLL(ll).addr \in {<<>>, addr}
<1> DEFINE hdr == LE16(ll, 4)
           pdu == hdr % 16
           payload == Slice(ll, 6, 6 + hdr \div 256)
           split == IF pdu = 7 THEN SplitExtended(payload)
                    ELSE [addr |-> Reverse(Slice(payload, 0, 6)), data |-> From(payload, 6)]
           refused == Len(ll) < 4 + 2 + 6 + 3 \/ Slice(ll, 0, 4) # AccessAddress \/ (pdu # 7 /\ Len(payload) < 6)
<1>1. ~refused /\ DecodeLL(ll).addr = split.addr
  <2>1. CASE refused
    BY <2>1 DEF DecodeLL, NoPacket
  <2>2. CASE ~refused
    BY <2>2 DEF DecodeLL
  <2>3. QED
    BY <2>1, <2>2
<1>2. Len(ll) >= 15 /\ Carries(ll, addr)
  BY <1>1
<1>3. hdr \in Nat /\ hdr \div 256 \in Nat /\ pdu = Byte(ll, 4) % 16
  <2>1. \A x, y \in Bytes : /\ x + 256 * y \in Nat /\ (x + 256 * y) \div 256 \in Nat
                             /\ (x + 256 * y) % 16 = x % 16
    BY DEF Bytes
  <2>2. Byte(ll, 4) \in Bytes /\ Byte(ll, 5) \in Bytes
    BY <1>2, BytesOf
  <2>3. hdr = Byte(ll, 4) + 256 * Byte(ll, 5)
    BY DEF LE16
  <2> HIDE DEF hdr
  <2>4. QED
    BY <2>1, <2>2, <2>3
<1>4. /\ payload \in Seq(Bytes) /\ Len(payload) \in Nat
      /\ \A k \in 0..(Len(payload) - 1) : Byte(payload, k) = Byte(ll, 6 + k)
  <2> HIDE DEF hdr
  <2>1. 6 \in 0..Len(ll) /\ 6 + hdr \div 256 \in Nat /\ 6 + hdr \div 256 >= 6
    BY <1>2, <1>3
  <2>2. QED
    BY <2>1, SliceIs
<1> HIDE DEF payload, hdr
<1>5. CASE pdu = 7
  <2>1. split.addr = SplitExtended(payload).addr
    BY <1>5
  <2>2. Len(payload) >= 8 => ~Bit(Byte(payload, 1), ADVA) \/ \A k \in 0..5 : Byte(payload, 2 + k) = addr[6 - k]
    <3> SUFFICES ASSUME Len(payload) >= 8, Bit(Byte(payload, 1), ADVA)
                 PROVE  \A k \in 0..5 : Byte(payload, 2 + k) = addr[6 - k]
      OBVIOUS
    <3>1. Byte(payload, 1) = Byte(ll, 7)
      BY <1>4
    <3>2. \A k \in 0..5 : Byte(payload, 2 + k) = Byte(ll, 8 + k)
      BY <1>4
    <3>3. \A k \in 0..5 : Byte(ll, 8 + k) = addr[6 - k]
      BY <1>2, <1>3, <1>5, <3>1 DEF Carries
    <3>4. QED
      BY <3>2, <3>3
  <2>3. QED
    BY <1>1, <1>4, <2>1, <2>2, SplitIs
<1>6. CASE pdu # 7
  <2>1. split.addr = Reverse(Slice(payload, 0, 6)) /\ Len(payload) >= 6
    BY <1>1, <1>4, <1>6
  <2>2. /\ Slice(payload, 0, 6) \in Seq(Bytes) /\ Len(Slice(payload, 0, 6)) = 6
        /\ \A k \in 0..5 : Byte(Slice(payload, 0, 6), k) = Byte(payload, k)
    <3>1. PICK q : q = payload
      OBVIOUS
    <3>2. \A k \in 0..5 : 0 + k = k
      OBVIOUS
    <3>3. q \in Seq(Bytes) /\ Len(q) >= 6
      BY <1>4, <2>1, <3>1
    <3>4. /\ Slice(q, 0, 6) \in Seq(Bytes) /\ Len(Slice(q, 0, 6)) = 6
          /\ \A k \in 0..5 : Byte(Slice(q, 0, 6), k) = Byte(q, 0 + k)
      BY <3>3, SixAre
    <3>5. QED
      BY <3>1, <3>2, <3>4
  <2>3. \A k \in 0..5 : Byte(payload, k) = addr[6 - k]
    <3>1. \A k \in 0..5 : Byte(payload, k) = Byte(ll, 6 + k)
      BY <1>4, <2>1
    <3>2. \A k \in 0..5 : Byte(ll, 6 + k) = addr[6 - k]
      BY <1>2, <1>3, <1>6 DEF Carries
    <3>3. QED
      BY <3>1, <3>2
  <2>4. Reverse(Slice(payload, 0, 6)) = addr
    BY <2>2, <2>3, ReversedIs
  <2>5. QED
    BY <1>1, <2>1, <2>4
<1>7. QED
  BY <1>5, <1>6

(* The frame behind its pseudo-header.                                     *)
LEMMA BehindPseudoHeader ==
  ASSUME NEW f, FrameSent(f), f.intact, DecodeLL(From(f.bytes, PseudoHeader(f))).kind = "adv",
         Len(f.bytes) >= PseudoHeader(f) + 15
  PROVE  DecodeLL(From(f.bytes, PseudoHeader(f))).addr \in {<<>>, f.addr}
<1> DEFINE b == f.bytes
           h == PseudoHeader(f)
           ll == From(b, h)
<1>1. b \in Seq(Bytes) /\ h \in Nat /\ f.addr \in [1..6 -> Bytes] /\ Len(b) >= h + 15 /\ CarriesItsSender(f)
  BY DEF FrameSent, PseudoHeader
<1>2. ll \in Seq(Bytes) /\ Len(ll) = Len(b) - h /\ \A k \in 0..(Len(b) - h - 1) : Byte(ll, k) = Byte(b, h + k)
  <2>1. h \in 0..Len(b)
    BY <1>1
  <2> HIDE DEF h
  <2>2. QED
    BY <1>1, <2>1, FromIs
<1>3. Carries(ll, f.addr)
  <2> HIDE DEF ll
  <2>1. Byte(ll, 4) = Byte(b, h + 4) /\ Byte(ll, 7) = Byte(b, h + 7)
        /\ (\A k \in 0..5 : Byte(ll, 6 + k) = Byte(b, h + 6 + k)) /\ (\A k \in 0..5 : Byte(ll, 8 + k) = Byte(b, h + 8 + k))
    <3> HIDE DEF h
    <3>1. \A k \in 0..14 : Byte(ll, k) = Byte(b, h + k)
      <4>1. Len(b) \in Nat
        BY <1>1
      <4>2. \A k \in 0..14 : k \in 0..(Len(b) - h - 1)
        BY <1>1, <4>1
      <4>3. QED
        BY <1>2, <4>2
    <3>2. \A k \in 0..5 : /\ 6 + k \in 0..14 /\ 8 + k \in 0..14
                          /\ h + (6 + k) = h + 6 + k /\ h + (8 + k) = h + 8 + k
      BY <1>1
    <3>3. \A k \in 0..5 : Byte(ll, 6 + k) = Byte(b, h + 6 + k) /\ Byte(ll, 8 + k) = Byte(b, h + 8 + k)
      BY <3>1, <3>2
    <3>4. QED
      BY <3>1, <3>3
  <2>2. Len(b) >= h + 14
    BY <1>1
  <2> DEFINE extended == Byte(b, h + 4) % 16 = 7
             at == IF extended THEN h + 4 + 4 ELSE h + 4 + 2
  <2>3. (extended /\ ~Bit(Byte(b, h + 4 + 3), ADVA)) \/ \A k \in 0..5 : Byte(b, at + k) = f.addr[6 - k]
    BY <1>1, <2>2 DEF CarriesItsSender
  <2>4. CASE extended
    <3>1. at = h + 8 /\ h + 4 + 3 = h + 7
      BY <1>1, <2>4
    <3>2. ~Bit(Byte(ll, 7), ADVA) \/ \A k \in 0..5 : Byte(ll, 8 + k) = f.addr[6 - k]
      BY <2>1, <2>3, <3>1
    <3>3. QED
      BY <2>1, <2>4, <3>2 DEF Carries
  <2>5. CASE ~extended
    <3>1. at = h + 6
      BY <1>1, <2>5
    <3>2. \A k \in 0..5 : Byte(ll, 6 + k) = f.addr[6 - k]
      BY <2>1, <2>3, <2>5, <3>1
    <3>3. QED
      BY <2>1, <2>5, <3>2 DEF Carries
  <2>6. QED
    BY <2>4, <2>5
<1>4. QED
  BY <1>1, <1>2, <1>3, DecodeLLIs

(* Whatever is captured: a packet that names an address names its sender's.*)
LEMMA DecodesTheSender ==
  ASSUME NEW f, FrameSent(f), ~Skipped(DecodeLive(f))
  PROVE  DecodeLive(f).addr \in OnAir
<1> DEFINE p == DecodeBuffer(f.bytes, f.dlt)
           h == PseudoHeader(f)
<1>1. p.kind = "adv" /\ DecodeLive(f).addr = p.addr /\ p.addr # <<>>
  <2>1. CASE p.kind # "adv"
    BY <2>1 DEF DecodeLive, Skipped
  <2>2. CASE p.kind = "adv"
    BY <2>2 DEF DecodeLive, Skipped
  <2>3. QED
    BY <2>1, <2>2
<1>2. NoPacket.kind # "adv" /\ CrcFail.kind # "adv"
  BY DEF NoPacket, CrcFail
<1>3. f.intact /\ Len(f.bytes) >= h + 15 /\ p = DecodeLL(From(f.bytes, h))
  <2>1. CASE f.dlt = NordicBle
    <3>1. p = DecodeNbe(f.bytes) /\ h = 17
      BY <2>1 DEF DecodeBuffer, PseudoHeader
    <3>2. /\ ~(Len(f.bytes) < 17) /\ Bit(Byte(f.bytes, 8), 0) /\ ~(Len(f.bytes) < 17 + 4 + 2 + 6 + 3)
          /\ DecodeNbe(f.bytes) = DecodeLL(From(f.bytes, 17))
      BY <1>1, <1>2, <3>1 DEF DecodeNbe
    <3>3. Len(f.bytes) >= 32
      BY <3>2 DEF FrameSent
    <3>4. f.intact
      BY <2>1, <3>2, <3>3 DEF FrameSent, CrcTells
    <3>5. QED
      BY <3>1, <3>2, <3>3, <3>4
  <2>2. CASE f.dlt # NordicBle
    <3>1. p = DecodePhdr(f.bytes) /\ h = 10
      BY <2>2 DEF DecodeBuffer, PseudoHeader
    <3>2. /\ ~(Len(f.bytes) < 10 + 4 + 2 + 6 + 3)
          /\ ~(Bit(LE16(f.bytes, 8), 10) /\ ~Bit(LE16(f.bytes, 8), 11))
          /\ DecodePhdr(f.bytes) = DecodeLL(From(f.bytes, 10))
      BY <1>1, <1>2, <3>1 DEF DecodePhdr
    <3>3. Len(f.bytes) >= 25
      BY <3>2 DEF FrameSent
    <3>4. f.intact
      BY <2>2, <3>2, <3>3 DEF FrameSent, CrcTells
    <3>5. QED
      BY <3>1, <3>2, <3>3, <3>4
  <2>3. QED
    BY <2>1, <2>2
<1>4. p.addr \in {<<>>, f.addr}
  BY <1>1, <1>3, BehindPseudoHeader
<1>5. QED
  BY <1>1, <1>3, <1>4 DEF FrameSent

-----------------------------------------------------------------------------
(* Nobody else gets into the tables.                                       *)
AllSent(t) == \A key \in DOMAIN t.devices : key[2] \in OnAir
SentInv == AllSent(tables) /\ (pc = "reading" => AllSent(tx)) /\ TsharkTyped(tshark)

LEMMA SentSame == ASSUME NEW t, AllSent(t), NEW t2, t2.devices = t.devices PROVE AllSent(t2)
BY DEF AllSent

LEMMA RecordedSent ==
  ASSUME NEW t, TablesTyped(t), AllSent(t), NEW c, CtxTyped(c), NEW pkt, NEW keep,
         ~Skipped(pkt) => pkt.addr \in OnAir
  PROVE  AllSent(Recorded(t, c, pkt, keep).tables)
<1>1. CASE Skipped(pkt)
  BY <1>1 DEF Recorded
<1>2. CASE ~Skipped(pkt)
  <2>1. PICK key, d : key = IngestKey(pkt) /\ Recorded(t, c, pkt, keep).tables.devices = Put(t.devices, key, d)
    BY <1>2, RecordedIs
  <2>2. key[2] \in OnAir
    BY <1>2, <2>1 DEF IngestKey
  <2>3. DOMAIN Put(t.devices, key, d) = DOMAIN t.devices \cup {key}
    BY DEF Put
  <2>4. QED
    BY <2>1, <2>2, <2>3 DEF AllSent
<1>3. QED
  BY <1>1, <1>2

LEMMA SentInit == Init => SentInv
<1> SUFFICES ASSUME Init PROVE SentInv
  OBVIOUS
<1>1. tables = NoTables /\ pc = "idle" /\ tshark = NoProcess
  BY DEF Init
<1>2. AllSent(NoTables)
  BY DEF AllSent, NoTables
<1>3. QED
  BY <1>1, <1>2, NothingRuns DEF SentInv

LEMMA ReadRecordSent ==
  ASSUME RecordsAndFramesAreSent, WritersInv, SentInv, ReadRecord
  PROVE  SentInv'
<1> DEFINE rec == Head(tshark.out)
           done == IF Kept(rec) THEN Recorded(tx, ctx, rec, FALSE) ELSE [tables |-> tx, ctx |-> ctx, by |-> None]
<1>1. /\ pc = "reading" /\ tshark.out # <<>> /\ tables' = tables /\ tx' = done.tables
      /\ tshark' = [tshark EXCEPT !.out = Tail(tshark.out)]
  BY DEF ReadRecord
<1>2. /\ TablesTyped(tx) /\ CtxTyped(ctx) /\ AllSent(tx) /\ TsharkTyped(tshark)
  BY <1>1 DEF WritersInv, TransactionOk, TablesOk, SentInv
<1>3. rec \in Records
  <2>1. PICK out \in Seq(Records) : out = tshark.out
    BY <1>2 DEF TsharkTyped
  <2>2. Head(out) \in Records
    BY <1>1, <2>1
  <2>3. QED
    BY <2>1, <2>2
<1>4. AllSent(tx')
  <2> HIDE DEF rec
  <2>1. CASE Kept(rec)
    <3>1. rec.addr \in OnAir
      BY <1>3, <2>1 DEF Kept, RecordsAndFramesAreSent
    <3>2. PICK keep : keep = FALSE
      OBVIOUS
    <3>3. AllSent(Recorded(tx, ctx, rec, keep).tables)
      BY <1>2, <3>1, RecordedSent
    <3>4. QED
      BY <1>1, <2>1, <3>2, <3>3
  <2>2. CASE ~Kept(rec)
    BY <1>1, <1>2, <2>2
  <2>3. QED
    BY <2>1, <2>2
<1>5. TsharkTyped(tshark')
  BY <1>1, <1>2, TsharkTail
<1>6. QED
  BY <1>1, <1>4, <1>5 DEF SentInv

LEMMA LivePacketSent ==
  ASSUME RecordsAndFramesAreSent, WritersInv, SentInv, NEW pkt \in Captured, LivePacket(pkt)
  PROVE  SentInv'
<1>1. PICK t, c, keep, t2 : t = tables /\ c = live.ctx /\ keep = TRUE /\ t2 = Recorded(t, c, pkt, keep).tables
  OBVIOUS
<1>2. live # None /\ pc = "idle" /\ tables' = t2 /\ UNCHANGED <<pc, tshark>>
  BY <1>1 DEF LivePacket
<1>3. TablesTyped(t) /\ CtxTyped(c) /\ AllSent(t)
  BY <1>1, <1>2 DEF WritersInv, TablesOk, LiveOk, SentInv
<1>4. ~Skipped(pkt) => pkt.addr \in OnAir
  <2>1. PICK f \in Frames : pkt = DecodeLive(f)
    BY DEF Captured
  <2>2. QED
    BY <2>1, DecodesTheSender DEF RecordsAndFramesAreSent
<1>5. AllSent(t2)
  BY <1>1, <1>3, <1>4, RecordedSent
<1>6. QED
  BY <1>2, <1>5 DEF SentInv

LEMMA SentNext ==
  ASSUME RecordsAndFramesAreSent, WritersInv, SentInv, [Next]_vars
  PROVE  SentInv'
<1>1. CASE TsharkWrites
  BY <1>1, TsharkWritesIs DEF SentInv, TsharkWrites
<1>2. CASE TsharkWarns \/ TsharkExits \/ TsharkFails \/ DrainErrors
  <2>1. UNCHANGED <<tables, tx, pc>>
    BY <1>2 DEF TsharkWarns, TsharkExits, TsharkFails, DrainErrors
  <2>2. QED
    BY <1>2, <2>1, TsharkOthersAre DEF SentInv
<1>3. CASE \E file \in Files : IngestFile(file)
  <2>1. PICK file \in Files : IngestFile(file)
    BY <1>3
  <2>2. tables' = tables /\ tx' = Opened(file) /\ tshark' = Spawned(file)
    BY <2>1 DEF IngestFile
  <2>3. Opened(file).devices = tables.devices
    BY DEF WritersInv, TablesOk, TablesTyped, Opened
  <2>4. QED
    BY <2>2, <2>3, FilesAreSequences, SpawnedIs, SentSame DEF SentInv
<1>4. CASE ReadRecord
  BY <1>4, ReadRecordSent
<1>5. CASE StatementRaises
  BY <1>5, TsharkTail DEF StatementRaises, SentInv
<1>6. CASE EndOfOutput /\ tables' # tables
  <2>1. /\ pc = "reading" /\ pc' = "idle" /\ tables' = Closed(tx, ctx.session) /\ tshark' = NoProcess
    BY <1>6 DEF EndOfOutput, RolledBack, Over
  <2>2. PICK t, s, t2 : t = tx /\ s = ctx.session /\ t2 = tables'
    OBVIOUS
  <2>3. TablesTyped(t) /\ t.sessions \in Seq(SessionRows) /\ s \in DOMAIN t.sessions /\ AllSent(t)
    BY <2>1, <2>2, TransactionSession DEF WritersInv, TransactionOk, TablesOk, SentInv
  <2>4. t2.devices = t.devices
    BY <2>1, <2>2, <2>3, ClosedIs
  <2>5. QED
    BY <2>1, <2>2, <2>3, <2>4, SentSame, NothingRuns DEF SentInv
<1>7. CASE GiveUp \/ Quit \/ (EndOfOutput /\ tables' = tables)
  BY <1>7, NothingRuns DEF GiveUp, Quit, EndOfOutput, RolledBack, Over, SentInv
<1>8. CASE StartLive
  <2>1. tables'.devices = tables.devices /\ pc = "idle" /\ UNCHANGED <<pc, tshark>>
    BY <1>8 DEF StartLive, WritersInv, TablesOk, TablesTyped
  <2>2. QED
    BY <2>1, SentSame DEF SentInv
<1>9. CASE StopLive
  <2>1. live # None /\ pc = "idle" /\ tables' = Closed(tables, live.ctx.session) /\ UNCHANGED <<pc, tshark>>
    BY <1>9 DEF StopLive, Closed
  <2>2. /\ TablesTyped(tables) /\ tables.sessions \in Seq(SessionRows)
        /\ live.ctx.session \in DOMAIN tables.sessions
    BY <2>1 DEF WritersInv, TablesOk, LiveOk
  <2>3. tables'.devices = tables.devices
    BY <2>1, <2>2, ClosedIs
  <2>4. QED
    BY <2>1, <2>3, SentSame DEF SentInv
<1>10. CASE \E pkt \in Captured : LivePacket(pkt)
  BY <1>10, LivePacketSent
<1>11. CASE UNCHANGED vars
  BY <1>11 DEF vars, SentInv
<1>12. QED
  BY <1>1, <1>2, <1>3, <1>4, <1>5, <1>6, <1>7, <1>8, <1>9, <1>10, <1>11 DEF Next

(* No device in the tables that is not on the air: frames may be cut off   *)
(* anywhere, and those with wrong bits have a CRC that tells.              *)
THEOREM FileNoGhostDevices ==
  ASSUME RecordsAndFramesAreSent
  PROVE  Spec => []NoGhostDevices
<1>1. WritersInv /\ SentInv /\ [Next]_vars => SentInv'
  BY SentNext
<1>2. SentInv => NoGhostDevices
  BY DEF SentInv, AllSent, NoGhostDevices
<1>3. QED
  BY <1>1, <1>2, SentInit, FileIngestInvariant, PTL DEF Spec
=============================================================================
