----------------------------- MODULE LinkLayer ------------------------------
(***************************************************************************)
(* What a reader makes of the bytes a sniffer captured: decode/adv.py and  *)
(* capture/live_decode.py.  A buffer is a sequence of bytes, b[i] in the   *)
(* code is Byte(b, i) here.  Channel and RSSI, which the decoders copy     *)
(* from the header whatever the rest holds, are left out.                  *)
(***************************************************************************)
EXTENDS Integers, Sequences, SequencesExt

Bytes == 0..255
Byte(b, i) == b[i + 1]
\* b[from:to], which Python cuts off at the end of b
Slice(b, from, to) == SubSeq(b, from + 1, IF to < Len(b) THEN to ELSE Len(b))
From(b, i) == SubSeq(b, i + 1, Len(b))
LE16(b, i) == Byte(b, i) + 256 * Byte(b, i + 1)
Bit(n, k) == (n \div 2^k) % 2 = 1

NoPacket == [kind |-> "none"]
CrcFail == [kind |-> "bad", addr |-> <<>>]

-----------------------------------------------------------------------------
(* The payload of an extended advertisement: which fields its header has,  *)
(* in their order, and how long they are.                                  *)
ADVA == 0
ExtField == <<6, 6, 1, 2, 3, 18, 1>>  \* AdvA, TargetA, CTEInfo, ADI, AuxPtr, SyncInfo, TxPower
ExtFieldsLength(flags) ==
  LET field(k) == IF Bit(flags, k - 1) THEN ExtField[k] ELSE 0
  IN field(1) + field(2) + field(3) + field(4) + field(5) + field(6) + field(7)

NoPayload == [addr |-> <<>>, data |-> <<>>]
SplitExtended(p) ==
  LET hdr == Byte(p, 0) % 64
      flags == Byte(p, 1)
      end == 1 + hdr
  IN CASE p = <<>> -> NoPayload
       [] hdr = 0 -> [addr |-> <<>>, data |-> From(p, 1)]
       [] end > Len(p) -> NoPayload
       [] 2 + ExtFieldsLength(flags) > end -> NoPayload
       [] OTHER -> [addr |-> IF Bit(flags, ADVA) THEN Reverse(Slice(p, 2, 8)) ELSE <<>>,
                    data |-> From(p, end)]

AccessAddress == <<214, 190, 137, 142>>  \* 0x8E89BED6, least significant byte first
PduNames == <<"ADV_IND", "ADV_DIRECT_IND", "ADV_NONCONN_IND", "SCAN_REQ",
              "SCAN_RSP", "CONNECT_IND", "ADV_SCAN_IND", "ADV_EXT_IND">>
PduName(n) == IF n < 8 THEN PduNames[n + 1] ELSE "other"

(* The kind of an address, most significant byte first.                    *)
ClassifyAddress(addr, random) ==
  IF ~random THEN "public"
  ELSE <<"nrpa", "rpa", "unknown", "random_static">>[1 + Byte(addr, 0) \div 64]

(* The link-layer frame behind either pseudo-header.                       *)
DecodeLL(ll) ==
  LET hdr == LE16(ll, 4)
      pdu == hdr % 16
      payload == Slice(ll, 6, 6 + hdr \div 256)
      split == IF pdu = 7 THEN SplitExtended(payload)
               ELSE [addr |-> Reverse(Slice(payload, 0, 6)), data |-> From(payload, 6)]
  IN IF \/ Len(ll) < 4 + 2 + 6 + 3
        \/ Slice(ll, 0, 4) # AccessAddress
        \/ pdu # 7 /\ Len(payload) < 6
     THEN NoPacket
     ELSE [kind |-> "adv", pdu |-> PduName(pdu), data |-> split.data, addr |-> split.addr,
           type |-> IF split.addr = <<>> THEN "none" ELSE ClassifyAddress(split.addr, Bit(hdr, 6))]

-----------------------------------------------------------------------------
(* The pseudo-headers: DLT 256, where the CRC may not have been checked,   *)
(* and DLT 272.                                                            *)
DecodePhdr(b) ==
  CASE Len(b) < 10 + 4 + 2 + 6 + 3 -> NoPacket
    [] Bit(LE16(b, 8), 10) /\ ~Bit(LE16(b, 8), 11) -> CrcFail
    [] OTHER -> DecodeLL(From(b, 10))

\* Mutant: the CRC flag is not read.
DecodeNbeUnchecked(b) ==
  IF Len(b) < 17 + 4 + 2 + 6 + 3 THEN NoPacket ELSE DecodeLL(From(b, 17))

DecodeNbe(b) ==
  CASE Len(b) < 17 -> NoPacket
    [] ~Bit(Byte(b, 8), 0) -> CrcFail
    [] Len(b) < 17 + 4 + 2 + 6 + 3 -> NoPacket
    [] OTHER -> DecodeLL(From(b, 17))

NordicBle == 272
DecodeBuffer(b, dlt) == IF dlt = NordicBle THEN DecodeNbe(b) ELSE DecodePhdr(b)

(* The AD structures of the advertising data, up to the first that is      *)
(* empty or runs over the end.                                             *)
ParseAdStructures(data) ==
  LET at[i \in 1..(Len(data) + 1)] ==
        IF i > Len(data) \/ data[i] = 0 \/ i + data[i] > Len(data) THEN <<>>
        ELSE <<[type |-> data[i + 1], value |-> SubSeq(data, i + 2, i + data[i])]>>
               \o at[i + 1 + data[i]]
  IN at[1]

-----------------------------------------------------------------------------
(* The layer dict synthesized from AD structures, in the shape tshark      *)
(* gives: scalars of which the last wins, None where there is none, and    *)
(* arrays that the structures of several types contribute to.              *)
CONSTANT None

\* the values of the structures of these types that have at least so many bytes
ValuesOf(ads, types, least) ==
  LET those == SelectSeq(ads, LAMBDA a : a.type \in types /\ Len(a.value) >= least)
  IN [k \in 1..Len(those) |-> those[k].value]
LastOf(values) == IF values = <<>> THEN None ELSE Last(values)

AdUuids(ad) ==
  CASE ad.type \in {2, 3} -> [k \in 1..(Len(ad.value) \div 2) |-> LE16(ad.value, 2 * (k - 1))]
    [] ad.type = 22 /\ Len(ad.value) >= 2 -> <<LE16(ad.value, 0)>>
    [] OTHER -> <<>>
AdServiceData(ad) ==
  IF ad.type = 22 /\ Len(ad.value) >= 2 THEN <<From(ad.value, 2)>> ELSE <<>>

SynthLayer(ads) ==
  LET company == ValuesOf(ads, {255}, 2)
      appearance == ValuesOf(ads, {25}, 2)
  IN
  [name |-> LastOf(ValuesOf(ads, {8, 9}, 1)),
   cid |-> LastOf([k \in 1..Len(company) |-> LE16(company[k], 0)]),
   mfg |-> LastOf([k \in 1..Len(company) |-> From(company[k], 2)]),
   appearance |-> LastOf([k \in 1..Len(appearance) |-> LE16(appearance[k], 0)]),
   bname |-> LastOf(ValuesOf(ads, {48}, 1)),
   types |-> [k \in 1..Len(ads) |-> ads[k].type],
   uuids |-> FlattenSeq([k \in 1..Len(ads) |-> AdUuids(ads[k])]),
   sds |-> FlattenSeq([k \in 1..Len(ads) |-> AdServiceData(ads[k])])]
NoLayer == SynthLayer(<<>>)

(* decode_live_packet: NoPacket, a placeholder, or a packet with its layer.*)
DecodeLive(frame) ==
  LET p == DecodeBuffer(frame.bytes, frame.dlt)
  IN IF p.kind # "adv" THEN p
     ELSE [kind |-> "adv", addr |-> p.addr, type |-> p.type, pdu |-> p.pdu,
           layer |-> SynthLayer(ParseAdStructures(p.data))]
=============================================================================
