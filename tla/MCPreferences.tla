--------------------------- MODULE MCPreferences ----------------------------
(* Preferences on some of the fields of the schema, of every type; three   *)
(* files.                                                                  *)
EXTENDS Preferences

\* Texts that int() takes, only float() takes, or that give no finite number.
MCSpelt == "10" :> Whole(10) @@ "2.5" :> Decimal(500) @@ "nan" :> Nan @@ "inf" :> [type |-> "infinity"]

\* By hand: texts for numbers, one out of bounds, NaN, no level.
NoEdits == [file \in {"general", "capture", "cluster"} |-> {}]
Threshold(value) == Toml("cluster.collapse_threshold" :> value)
MCEdits ==
  [NoEdits EXCEPT
     !.capture = {Toml("watchdog.max_attempts" :> Text("10") @@ "capture.coded_phy" :> Truth(TRUE)
                         @@ "capture.log_level" :> Text("loud"))},
     !.cluster = {Threshold(Text("2.5")), Threshold(Nan)}]
NanEdits == [NoEdits EXCEPT !.cluster = {Threshold(Nan)}]
MCEntries == [key \in Keys |-> IF key = "capture.coded_phy" THEN {Truth(TRUE)} ELSE {}]
NoEntries == [key \in Keys |-> {}]

MCEnvs == {NoEnv, "general.db_path" :> Text("elsewhere")}
NoEnvs == {NoEnv}

\* Dongles: their answer behind some noise, its counter a special byte.
Answer(counter, version) ==
  <<END, 0>> \o SlipEncode(<<6, Len(version), 1, counter, 0, RESP_VERSION>> \o version \o <<0>>)
Four11 == <<52, 46, 49, 46, 49>>
Four20 == <<52, 46, 50, 46, 48, 10>>
Dongle(version, port) == [runs |-> version, port |-> port]
MCRacks ==
  {{Dongle(KnownBroken, <<<<0, END>>, Answer(ESC, Four11)>>), Dongle(<<4, 2, 0>>, <<Answer(START, Four20), <<>>>>)}}
NoRacks == {{}}

\* The codec gives back what it is given, whatever is in it.
ASSUME SlipRoundTrip ==
  \A n \in 0..4 : \A payload \in [1..n -> {0, START, END, ESC, START + 1}] :
    SlipDecode(ReadOneFrame(<<END, ESC>> \o SlipEncode(payload) \o <<END>>)) = payload

\* Every default of the whole schema is valid by it.
ASSUME DefaultsAreValid ==
  \A entry \in ToSet(GeneralFields \o CaptureFields \o ClusterFields \o SignalFields \o CanvasFields) :
    Validate(entry[2], entry[2].default) = entry[2].default

\* What the proofs about Preferences take as given.
ASSUME SchemaAssumption == SchemaIsSound /\ InputsAreTyped /\ BrokenDonglesAnswer
=============================================================================
