------------------------------ MODULE AdClues -------------------------------
(***************************************************************************)
(* What ingest learns from the layer dict of a packet: identity clues and  *)
(* AD history (ingest/pipeline.py), Apple Continuity and Appearance        *)
(* (decode/apple_continuity.py, decode/appearance.py) and Auracast         *)
(* announcements (decode/auracast.py).                                     *)
(***************************************************************************)
EXTENDS LinkLayer, FiniteSets, FiniteSetsExt

-----------------------------------------------------------------------------
(* Apple Continuity: type-length-value entries; a truncated one is the     *)
(* last and has no decoded fields.                                         *)
ParseContinuity(data) ==
  LET n == Len(data)
      at[i \in 1..(n + 2)] ==
        IF i + 1 > n THEN <<>>
        ELSE IF i + 1 + data[i + 1] > n
             THEN <<[type |-> data[i], payload |-> SubSeq(data, i + 2, n), whole |-> FALSE]>>
             ELSE <<[type |-> data[i], payload |-> SubSeq(data, i + 2, i + 1 + data[i + 1]), whole |-> TRUE]>>
                    \o (IF i + 2 + data[i + 1] > n THEN <<>> ELSE at[i + 2 + data[i + 1]])
  IN at[1]

Airpods == 7
Airtag == 22
LegacyWatch == 17
Nearby == 16
FindMy == 18
Unclassified == [class |-> None, model |-> None]
OfClass(c) == [class |-> c, model |-> None]

(* classify: the entries by type, of which the last counts.  A model code  *)
(* stands for the product name it is looked up as.                         *)
Classify(entries) ==
  LET types == {entries[k].type : k \in DOMAIN entries}
      last(t) == entries[Max({k \in DOMAIN entries : entries[k].type = t})]
      parsed(t, least) == t \in types /\ last(t).whole /\ Len(last(t).payload) >= least
      action == IF parsed(Nearby, 1) THEN Byte(last(Nearby).payload, 0) % 16 ELSE 0
  IN CASE Airpods \in types ->
            [class |-> "airpods",
             model |-> IF parsed(Airpods, 3) THEN <<"AirPods", SubSeq(last(Airpods).payload, 2, 3)>> ELSE None]
       [] Airpods \notin types /\ Airtag \in types -> [class |-> "airtag", model |-> "AirTag"]
       [] /\ types \cap {Airpods, Airtag} = {}
          /\ LegacyWatch \in types \/ action = 13 -> [class |-> "apple_watch", model |-> "Apple Watch"]
       [] types \cap {Airpods, Airtag, LegacyWatch} = {} /\ action = 15 -> OfClass("mac")
       [] OTHER -> IF types \cap {FindMy, Nearby} # {} THEN OfClass("apple_device")
                   ELSE IF types \cap {9, 10} # {} THEN OfClass("apple_airplay")
                   ELSE IF 6 \in types THEN OfClass("homekit")
                   ELSE IF 2 \in types THEN OfClass("ibeacon")
                   ELSE Unclassified

(* appearance_to_class: the category, and for HID the subcategory.         *)
Categories ==
  <<"phone", "computer", "watch", "clock", "display", "remote_control", "eyewear", "tag",
    "keyring", "media_player", "barcode_scanner", "thermometer", "heart_rate_sensor",
    "blood_pressure_monitor", "hid", "glucose_meter", "running_walking_sensor",
    "cycling_sensor", None, "pulse_oximeter", "weight_scale", "personal_mobility_device",
    "continuous_glucose_monitor", "insulin_pump", "medication_delivery">>
HidClasses == <<"hid_keyboard", "hid_mouse", "hid_joystick", "hid_gamepad">>
AppearanceToClass(a) ==
  LET category == (a \div 64) % 1024
      sub == a % 64
  IN IF category = 15 /\ sub \in DOMAIN HidClasses THEN HidClasses[sub]
     ELSE IF category \in DOMAIN Categories THEN Categories[category]
     ELSE IF category = 41 THEN "hearing_aid"
     ELSE IF category = 49 THEN "fitness_tracker" ELSE None

(* _class_precedence: how specific a class is.                             *)
Precedence(class) ==
  CASE class \in {None, "unknown"} -> 0
    [] class = "apple_device" -> 1
    [] class \in {"apple_airplay", "homekit", "ibeacon"} -> 2
    [] class \in {"airpods", "airtag", "apple_watch", "iphone", "ipad", "mac", "hearing_aid"} -> 5
    [] OTHER -> 3

(* _extract_ad_clues.                                                      *)
Apple == 76  \* 0x004C
ExtractClues(layer) ==
  LET c == IF layer.cid = Apple /\ layer.mfg # <<>>
           THEN Classify(ParseContinuity(layer.mfg)) ELSE Unclassified
  IN [name |-> layer.name, vendorId |-> layer.cid, appearance |-> layer.appearance,
      class |-> c.class, model |-> c.model]

(* _extract_ad_entries: what the AD history keeps.  The TX power, which    *)
(* live layers never have, is left out.                                    *)
ExtractEntries(layer) ==
  (IF layer.name # None THEN <<<<9, layer.name>>>> ELSE <<>>)
    \o [k \in 1..Len(layer.uuids) |-> <<3, layer.uuids[k]>>]
    \o (IF layer.cid # None THEN <<<<255, <<layer.cid, layer.mfg>>>>>> ELSE <<>>)
    \o (IF layer.appearance # None THEN <<<<25, layer.appearance>>>> ELSE <<>>)

-----------------------------------------------------------------------------
(* parse_auracast.  The arrays of UUIDs and of service data are walked     *)
(* along the AD types, by how many of the types before contribute to each. *)
BAA == 6226  \* 0x1852
PBA == 6230  \* 0x1856
TypesWithUuid16 == {2, 3, 20, 22}
TypesWithServiceData == {22, 32, 33}
Before(layer, k, S) == Cardinality({j \in 1..(k - 1) : layer.types[j] \in S})

(* The first service data paired with uuid that is long enough.            *)
FirstServiceData(layer, uuid, least) ==
  LET u(k) == Before(layer, k, TypesWithUuid16) + 1
      d(k) == Before(layer, k, TypesWithServiceData) + 1
      those == {k \in DOMAIN layer.types :
                  /\ layer.types[k] = 22
                  /\ u(k) \in DOMAIN layer.uuids /\ layer.uuids[u(k)] = uuid
                  /\ d(k) \in DOMAIN layer.sds /\ Len(layer.sds[d(k)]) >= least}
  IN IF those = {} THEN None ELSE layer.sds[d(Min(those))]

NoBroadcast == [id |-> None]
ParseAuracast(layer) ==
  LET baa == FirstServiceData(layer, BAA, 3)
      pba == FirstServiceData(layer, PBA, 1)
      triples == {k \in DOMAIN layer.sds : Len(layer.sds[k]) = 3}
  IN IF BAA \notin ToSet(layer.uuids) \/ (baa = None /\ triples = {}) THEN NoBroadcast
     ELSE [id |-> IF baa # None THEN Slice(baa, 0, 3) ELSE layer.sds[Min(triples)],
           name |-> layer.bname,
           encrypted |-> pba # None /\ Byte(pba, 0) % 2 = 1]
=============================================================================
