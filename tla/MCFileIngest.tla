---------------------------- MODULE MCFileIngest ----------------------------
(* FileIngest on a few transmitters, byte by byte: see the .cfg files and  *)
(* the README.                                                             *)
EXTENDS FileIngest, TLC

CONSTANTS WithUuidLists  \* do announcements come after a list of UUIDs?

AddrA == <<193, 1, 1, 1, 1, 1>>  \* random static
AddrB == <<2, 2, 2, 2, 2, 2>>    \* public
Silent == [id |-> None, encrypted |-> FALSE]
Id == <<7, 8, 9>>

Ad(type, value) == <<Len(value) + 1, type>> \o value
AppleAd(entries) == Ad(255, <<76, 0>> \o entries)
NearbyOf(action) == AppleAd(<<16, 2, action, 0>>)
Announcement(features) ==
  (IF WithUuidLists THEN Ad(3, <<1, 24, 2, 24>>) ELSE <<>>)
    \o Ad(22, <<82, 24>> \o Id) \o Ad(22, <<86, 24, features, 3, 1, 2, 3>>)

\* Advertising data and what it says.
Generic == [data |-> NearbyOf(5), pdu |-> 0, says |-> Silent]
Mac == [data |-> NearbyOf(15), pdu |-> 0, says |-> Silent]
Phone == [data |-> Ad(25, <<64, 0>>) \o Ad(9, <<80>>), pdu |-> 2, says |-> Silent]
Open == [data |-> Announcement(0), pdu |-> 7, says |-> [id |-> Id, encrypted |-> FALSE]]
Locked == [data |-> Announcement(1) \o Ad(48, <<81>>), pdu |-> 7, says |-> [id |-> Id, encrypted |-> TRUE]]

Crc == <<0, 0, 0>>
LinkFrame(addr, ad) ==
  LET body == IF ad.pdu = 7 THEN <<9, 9>> \o Reverse(addr) \o <<0, 0>> \o ad.data
              ELSE Reverse(addr) \o ad.data
      txAdd == IF addr = AddrA THEN 64 ELSE 0
  IN AccessAddress \o <<ad.pdu + txAdd, Len(body)>> \o body \o Crc
Nbe(crcOk, ll) == <<1, 0, 0, 2, 0, 0, 6, 10, IF crcOk THEN 1 ELSE 0, 37, 60>> \o <<0, 0, 0, 0, 0, 0>> \o ll
Phdr(crcOk, ll) == <<37, 200, 0, 0, 214, 190, 137, 142, 0, IF crcOk THEN 12 ELSE 4>> \o ll
Buffer(dlt, crcOk, ll) == IF dlt = NordicBle THEN Nbe(crcOk, ll) ELSE Phdr(crcOk, ll)

\* Every frame whole, cut off anywhere, and with a wrong bit in its address.
Sent == {<<NordicBle, AddrA, Generic>>, <<NordicBle, AddrA, Mac>>, <<256, AddrA, Phone>>, <<256, AddrB, Locked>>}
Cut(b) == {SubSeq(b, 1, n) : n \in 0..Len(b)}
Flip(addr) == [addr EXCEPT ![6] = @ + 1]
MCFrames ==
  UNION {{[bytes |-> b, dlt |-> s[1], addr |-> s[2], intact |-> TRUE] :
            b \in Cut(Buffer(s[1], TRUE, LinkFrame(s[2], s[3])))} : s \in Sent}
    \cup UNION {{[bytes |-> b, dlt |-> s[1], addr |-> Flip(s[2]), intact |-> FALSE] :
            b \in Cut(Buffer(s[1], FALSE, LinkFrame(Flip(s[2]), s[3])))} : s \in Sent}

RecordOf(addr, ad) ==
  DecodeLive([bytes |-> Buffer(NordicBle, TRUE, LinkFrame(addr, ad)), dlt |-> NordicBle]) @@ [says |-> ad.says]
NoAddress == [kind |-> "adv", addr |-> <<>>, type |-> "none", pdu |-> "ADV_EXT_IND", layer |-> NoLayer, says |-> Silent]
MCOnAir == {AddrA, AddrB}
MCOui == {<<2, 2, 2>>}
MCRecords ==
  {Other, NoAddress, RecordOf(AddrA, Generic), RecordOf(AddrA, Mac), RecordOf(AddrA, Phone),
   RecordOf(AddrB, Open), RecordOf(AddrB, Locked)}

\* One packet that is recorded, where only its being recorded matters.
HangRecords == {RecordOf(AddrA, Generic)}

\* What the proofs about FileIngest take as given.
ASSUME RecordsAssumption == WithUuidLists \/ RecordsSayWhatTheyAre
ASSUME SentAssumption == RecordsAndFramesAreSent
=============================================================================
