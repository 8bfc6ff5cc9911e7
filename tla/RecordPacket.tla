---------------------------- MODULE RecordPacket ----------------------------
(***************************************************************************)
(* record_packet (ingest/pipeline.py): what one packet does to the tables  *)
(* of an ingest (db/repos.py) and to the context of the session that       *)
(* records it.  Tables are functions from their keys; a device is known by *)
(* its stable key, the kind of its address and the address.  Times, RSSI,  *)
(* channels and PHYs are left out.                                         *)
(***************************************************************************)
EXTENDS AdClues, Functions

CONSTANT OuiKnown  \* prefixes of addresses in the vendor table

(* oui_vendor; that a longer prefix takes precedence is left out.          *)
OuiVendor(addr) == IF SubSeq(addr, 1, 3) \in OuiKnown THEN <<"vendor of", SubSeq(addr, 1, 3)>> ELSE None

NoTables ==
  [projects |-> {}, sessions |-> <<>>, devices |-> <<>>, addresses |-> <<>>,
   observations |-> <<>>, broadcasts |-> <<>>, history |-> <<>>, packets |-> <<>>]

NewContext(session) == [session |-> session, seen |-> {}, broadcasts |-> {}, state |-> <<>>]

NewDevice ==
  [name |-> None, vendorId |-> None, vendor |-> None, oui |-> None,
   appearance |-> None, class |-> None, model |-> None]

\* f with x mapped to v
Put(f, x, v) == [y \in DOMAIN f \cup {x} |-> IF y = x THEN v ELSE f[y]]
At(f, x, default) == IF x \in DOMAIN f THEN f[x] ELSE default

-----------------------------------------------------------------------------
(* _ingest_key: the stable key, whose prefix is the kind.                  *)
IngestKey(pkt) == <<IF pkt.type \in {"public", "random_static", "rpa", "nrpa"} THEN pkt.type ELSE "anon", pkt.addr>>

\* Mutant: what is cached for a device starts out empty.
StateOfUnread(tables, ctx, key) == At(ctx.state, key, NewDevice)

(* What the context takes the device for: what it cached, or the row.      *)
StateOf(tables, ctx, key) == At(ctx.state, key, At(tables.devices, key, NewDevice))

(* Class by appearance where nothing better is known, and never a class    *)
(* that is less specific than the known one.                               *)
ClassClue(clues, state) ==
  LET class == IF clues.class = None /\ clues.appearance # None /\ state.class = None
               THEN AppearanceToClass(clues.appearance) ELSE clues.class
  IN IF Precedence(class) > Precedence(state.class) THEN class ELSE None

(* The columns merge_identity sets: what is known from this packet and is  *)
(* not what the context has cached.                                        *)
Updates(key, ctx, clues, state) ==
  LET oui == IF key \notin DOMAIN ctx.state /\ key[1] = "public" /\ state.oui = None
             THEN OuiVendor(key[2]) ELSE None
      vendor == IF clues.vendorId # None /\ clues.vendorId # state.vendorId /\ state.vendor = None
                THEN <<"vendor of", clues.vendorId>> ELSE None
      all == [name |-> clues.name, vendorId |-> clues.vendorId, vendor |-> vendor, oui |-> oui,
              appearance |-> clues.appearance, class |-> ClassClue(clues, state), model |-> clues.model]
  IN [c \in {x \in DOMAIN all : all[x] # None /\ all[x] # state[x]} |-> all[c]]
Merged(device, updates) == [c \in DOMAIN device |-> At(updates, c, device[c])]

(* Broadcasts.upsert: evidence adds up.                                    *)
UpsertBroadcast(row, key, info) ==
  [device |-> key,
   name |-> IF info.name # None THEN info.name ELSE row.name,
   encrypted |-> info.encrypted \/ row.encrypted]
NewBroadcast == [device |-> None, name |-> None, encrypted |-> FALSE]

AdvPdus == ToSet(PduNames)
NewObservation == [packets |-> 0, adv |-> 0, data |-> 0]
Observe(row, pdu) ==
  [packets |-> row.packets + 1,
   adv |-> row.adv + (IF pdu \in AdvPdus THEN 1 ELSE 0),
   data |-> row.data + (IF pdu \in AdvPdus THEN 0 ELSE 1)]

(* Addresses.upsert keeps the device an address was first seen with;       *)
(* AdHistory.upsert_many counts an entry each time; Packets.insert is used *)
(* by live sessions only.                                                  *)
UpsertAddress(addresses, pkt, key) ==
  Put(addresses, <<pkt.addr, pkt.type>>, At(addresses, <<pkt.addr, pkt.type>>, key))
UpsertHistory(history, key, entries) ==
  LET times(e) == Cardinality({k \in DOMAIN entries : <<key, entries[k]>> = e})
  IN [e \in DOMAIN history \cup {<<key, entries[k]>> : k \in DOMAIN entries} |-> At(history, e, 0) + times(e)]
InsertPacket(packets, o, keepPackets) == IF keepPackets THEN Append(packets, o) ELSE packets

-----------------------------------------------------------------------------
(* What a packet announces: extended advertising only.                     *)
Announced(pkt) == IF pkt.pdu = "ADV_EXT_IND" THEN ParseAuracast(pkt.layer) ELSE NoBroadcast

Skipped(pkt) == pkt.kind # "adv" \/ pkt.addr = <<>>

(* The tables and the context after a packet.  Where OuiVendor answers,    *)
(* it is asked once per device and context.                                *)
Recorded(tables, ctx, pkt, keepPackets) ==
  LET key == IngestKey(pkt)
      state == StateOf(tables, ctx, key)
      updates == Updates(key, ctx, ExtractClues(pkt.layer), state)
      auracast == Announced(pkt)
      b == <<ctx.session, auracast.id>>
      o == <<ctx.session, key>>
  IN IF Skipped(pkt) THEN [tables |-> tables, ctx |-> ctx, by |-> None]
     ELSE [by |-> key,
           ctx |-> [ctx EXCEPT !.seen = @ \cup {key},
                               !.broadcasts = @ \cup ({auracast.id} \ {None}),
                               !.state = Put(@, key, Merged(state, updates))],
           tables |-> [tables EXCEPT
             !.devices = Put(@, key, Merged(At(@, key, NewDevice), updates)),
             !.addresses = UpsertAddress(@, pkt, key),
             !.broadcasts = IF auracast.id = None THEN @
                            ELSE Put(@, b, UpsertBroadcast(At(@, b, NewBroadcast), key, auracast)),
             !.observations = Put(@, o, Observe(At(@, o, NewObservation), pkt.pdu)),
             !.history = UpsertHistory(@, key, ExtractEntries(pkt.layer)),
             !.packets = InsertPacket(@, o, keepPackets)]]
=============================================================================
