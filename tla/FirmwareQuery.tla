--------------------------- MODULE FirmwareQuery ----------------------------
(***************************************************************************)
(* extcap/firmware_query.py: asking attached dongles for their firmware's  *)
(* version, to tell whether Coded PHY can be offered.  A port that opens   *)
(* gives, for each baud rate in the order they are tried, the bytes that   *)
(* arrive before the deadline.                                             *)
(***************************************************************************)
EXTENDS Integers, Sequences, SequencesExt

START == 171
END == 188
ESC == 205

(* SLIP: the three special bytes are escaped by ESC and their successor.   *)
SlipEncode(payload) ==
  LET escaped(b) == IF b \in {START, END, ESC} THEN <<ESC, b + 1>> ELSE <<b>>
      upTo[i \in 0..Len(payload)] == IF i = 0 THEN <<>> ELSE upTo[i - 1] \o escaped(payload[i])
  IN <<START>> \o upTo[Len(payload)] \o <<END>>

Unframed(frame) ==
  LET body == IF frame # <<>> /\ Head(frame) = START THEN Tail(frame) ELSE frame
  IN IF body # <<>> /\ Last(body) = END THEN Front(body) ELSE body

SlipDecode(frame) ==
  LET body == Unframed(frame)
      unescaped(b) == IF b \in {START + 1, END + 1, ESC + 1} THEN b - 1 ELSE b
      from[i \in 1..(Len(body) + 2)] ==
        IF i > Len(body) THEN <<>>
        ELSE IF body[i] = ESC /\ i < Len(body) THEN <<unescaped(body[i + 1])>> \o from[i + 2]
        ELSE <<body[i]>> \o from[i + 1]
  IN from[1]

(* _read_one_frame: from the first START to the first END no ESC precedes; *)
(* <<>> if the time is up before.                                          *)
ReadOneFrame(bytes) ==
  LET starts == {i \in DOMAIN bytes : bytes[i] = START}
      first == CHOOSE i \in starts : \A j \in starts : i <= j
      \* is the byte at i taken as it is, because an ESC precedes it?
      escaped[i \in first..Len(bytes)] == i > first + 1 /\ bytes[i - 1] = ESC /\ ~escaped[i - 1]
      ends == {i \in (first + 1)..Len(bytes) : bytes[i] = END /\ ~escaped[i]}
  IN IF starts = {} \/ ends = {} THEN <<>>
     ELSE SubSeq(bytes, first, CHOOSE i \in ends : \A j \in ends : i <= j)

-----------------------------------------------------------------------------
RESP_VERSION == 28
Unknown == <<>>

Space == {9, 10, 11, 12, 13, 32}
Strip(text) ==
  LET ink == {i \in DOMAIN text : text[i] \notin Space}
  IN IF ink = {} THEN <<>>
     ELSE SubSeq(text, CHOOSE i \in ink : \A j \in ink : i <= j, CHOOSE i \in ink : \A j \in ink : i >= j)

(* parse_version_response: the characters after the header, up to a NUL.   *)
ParseVersionResponse(payload) ==
  IF Len(payload) <= 6 \/ payload[6] # RESP_VERSION THEN Unknown
  ELSE LET raw == SubSeq(payload, 7, Len(payload))
           nul == SelectInSeq(raw, LAMBDA b : b = 0)
       IN Strip(IF nul = 0 THEN raw ELSE SubSeq(raw, 1, nul - 1))

(* parse_version: numbers between dots, or Unknown.                        *)
ParseVersion(text) ==
  LET n == Len(text)
      digits == 48..57
      \* what the characters up to i give: the numbers before the last dot, and the one after it
      upTo[i \in 0..n] ==
        IF i = 0 THEN [done |-> <<>>, last |-> -1]
        ELSE IF text[i] = 46 THEN [done |-> Append(upTo[i - 1].done, upTo[i - 1].last), last |-> -1]
        ELSE [upTo[i - 1] EXCEPT !.last = (IF @ < 0 THEN 0 ELSE 10 * @) + text[i] - 48]
      numbers == Append(upTo[n].done, upTo[n].last)
  IN IF n = 0 \/ (\E i \in 1..n : text[i] \notin digits \cup {46}) \/ (\E i \in DOMAIN numbers : numbers[i] < 0)
     THEN Unknown ELSE numbers

\* What one try at a baud rate makes of what arrives.
VersionIn(bytes) == ParseVersionResponse(SlipDecode(ReadOneFrame(bytes)))

\* Mutant: only the first baud rate is tried.
QueryAtTheFirstRate(port) == IF port = <<>> THEN Unknown ELSE VersionIn(port[1])

(* query_firmware_version: the first baud rate whose first frame is a      *)
(* version; a busy port gives no bytes at any.                             *)
QueryFirmwareVersion(port) ==
  LET answers == {k \in DOMAIN port : VersionIn(port[k]) # Unknown}
  IN IF answers = {} THEN Unknown ELSE VersionIn(port[CHOOSE k \in answers : \A j \in answers : k <= j])

KnownBroken == <<4, 1, 1>>
\* v > w, compared as Python compares tuples
Newer(v, w) ==
  \E k \in DOMAIN v :
    /\ \A j \in 1..(k - 1) : j \in DOMAIN w /\ v[j] = w[j]
    /\ k \notin DOMAIN w \/ v[k] > w[k]

(* detect_coded_phy_incompatibility                                        *)
CodedPhyStatus(ports) ==
  LET versions == {ParseVersion(QueryFirmwareVersion(p)) : p \in ports}
  IN IF KnownBroken \in versions THEN "blocked"
     ELSE IF \E v \in versions : Newer(v, KnownBroken) THEN "warning" ELSE "none"
=============================================================================
