---------------------------- MODULE Preferences -----------------------------
(***************************************************************************)
(* The user's preferences: the schema (preferences/schema.py), TOML files  *)
(* read and written (loader.py), the values a process holds (__init__.py)  *)
(* and the dialog that edits them (ui.py), which asks the attached dongles *)
(* for their firmware.  The files may be edited by hand, a write may fail  *)
(* or be cut off by a crash.                                               *)
(*                                                                         *)
(* A value carries its type.  Numbers are counted in half hundredths, so   *)
(* that 200 is one; texts are without control characters.                  *)
(***************************************************************************)
EXTENDS FirmwareQuery, FiniteSets, TLC

CONSTANTS
  None,
  Keys,      \* the preferences modelled, some of those of the schema
  Edits,     \* by file, the contents a user may leave in it by hand
  Entries,   \* by key, the values a user may enter in its widget
  Envs,      \* the environments a process may start in: by key, a text
  Racks,     \* sets of attached dongles; what they run, and what their ports give
  Spelt,     \* by text, the number it spells, for int() or only for float()
  CutsOff    \* what of a file cut off may be left: "values", "broken", "undecodable"

VARIABLES
  disk,     \* by file, its contents
  env,      \* the environment of the process, or None: there is no process
  prefs,    \* the values it holds by key, or None: none could be read yet
  levels,   \* by logger, the level in effect
  dialog,   \* its widgets, its disabled checkboxes, the dongles heard of that are broken; or None
  writing,  \* a save under way: the files it has yet to write
  saver,    \* what it belongs to: "save", "open" or None
  saved     \* history: by file, the values last saved in it, unless it was written since

prefsVars == <<disk, env, prefs, levels, dialog, writing, saver, saved>>

-----------------------------------------------------------------------------
(* Values and the schema                                                   *)
Truth(b) == [type |-> "bool", v |-> b]
Whole(n) == [type |-> "int", v |-> 200 * n]
Decimal(x) == [type |-> "float", v |-> x]
Text(s) == [type |-> "text", v |-> s]
Nan == [type |-> "nan"]

Switch(file, default) == [file |-> file, default |-> Truth(default), enum |-> {}, env |-> FALSE]
Path(default, isEnv) == [file |-> "general", default |-> Text(default), enum |-> {}, env |-> isEnv]
Number(file, default, low, high) ==
  [file |-> file, default |-> default, min |-> 200 * low, max |-> 200 * high, enum |-> {}, env |-> FALSE]
Levels == {"error", "warning", "info", "verbose", "debug"}
Level(file) == [file |-> file, default |-> Text("info"), enum |-> Levels, env |-> FALSE]

GeneralFields ==
  <<<<"general.db_path", Path("<platform default>", TRUE)>>,
    <<"general.log_dir", Path("~/.btviz", FALSE)>>,
    <<"general.nrf_extcap_path", Path("", TRUE)>>>>

CaptureFields ==
  <<<<"capture.only_advertising", Switch("capture", TRUE)>>,
    <<"capture.only_legacy_advertising", Switch("capture", FALSE)>>,
    <<"capture.scan_follow_rsp", Switch("capture", TRUE)>>,
    <<"capture.scan_follow_aux", Switch("capture", TRUE)>>,
    <<"capture.coded_phy", Switch("capture", FALSE)>>,
    <<"watchdog.stall_threshold_s", Number("capture", Decimal(12000), 10, 600)>>,
    <<"watchdog.period_s", Number("capture", Decimal(2000), 1, 120)>>,
    <<"watchdog.max_attempts", Number("capture", Whole(3), 1, 10)>>,
    <<"watchdog.min_gap_s", Number("capture", Decimal(6000), 5, 300)>>,
    <<"capture.log_level", Level("capture")>>>>

ClusterFields ==
  <<<<"cluster.max_per_class", Number("cluster", Whole(1500), 100, 20000)>>,
    <<"cluster.collapse_threshold", [Number("cluster", Decimal(180), 0, 1) EXCEPT !.min = 100]>>,
    <<"cluster.log_level", Level("cluster")>>>>

Signals ==
  <<"apple_continuity", "co_lifespan_match", "mfg_data_prefix", "rotation_cohort",
    "service_uuid_match", "continuity_seq_carryover", "rssi_signature">>
SignalFields == [k \in 1..Len(Signals) |-> <<"cluster.signals." \o Signals[k], Switch("cluster", TRUE)>>]

CanvasFields ==
  <<<<"canvas.stale_window_default_s", Number("canvas", Decimal(12000), 10, 86400)>>,
    <<"canvas.recency_fresh_s", Number("canvas", Decimal(12000), 1, 3600)>>,
    <<"canvas.recency_dormant_s", Number("canvas", Decimal(17280000), 60, 2592000)>>,
    <<"canvas.recency_min_opacity", Number("canvas", Decimal(20), 0, 1)>>,
    <<"canvas.stable_class_min_packets", Number("canvas", Whole(500), 1, 100000)>>>>

\* The modelled fields in the order of the schema, and by key.
Schema == SelectSeq(GeneralFields \o CaptureFields \o ClusterFields \o SignalFields \o CanvasFields,
                    LAMBDA entry : entry[1] \in Keys)
Field == [key \in Keys |-> (CHOOSE entry \in ToSet(Schema) : entry[1] = key)[2]]
FilesWritten == SelectSeq(<<"general", "capture", "cluster", "canvas">>,
                          LAMBDA file : \E key \in Keys : Field[key].file = file)
KeysOf(file) ==
  LET those == SelectSeq(Schema, LAMBDA entry : entry[2].file = file)
  IN [k \in 1..Len(those) |-> those[k][1]]

Numeric(field) == field.default.type \in {"int", "float"}

ASSUME PreferencesAssumption ==
  /\ CutsOff \subseteq {"values", "broken", "undecodable"}
  /\ \A key \in {"capture.coded_phy", "capture.log_level", "cluster.log_level"} : key \in Keys
  /\ \A t \in DOMAIN Spelt :
       \/ Spelt[t].type \in {"int", "float"} /\ Spelt[t] = [type |-> Spelt[t].type, v |-> Spelt[t].v] /\ Spelt[t].v \in Int
       \/ Spelt[t] = Nan \/ Spelt[t].type = "infinity"

-----------------------------------------------------------------------------
(* load_all                                                                *)
ResolvedDefault(field) ==
  CASE field.default = Text("<platform default>") -> Text("platform default")
    [] field.default = Text("~/.btviz") -> Text("home/.btviz")
    [] OTHER -> field.default

Invalid == [type |-> "invalid"]
Raises == [type |-> "raises"]

(* float() of a number: an infinity is out of any bounds, and an integer   *)
(* too large for a float raises what _validate does not catch.             *)
AsFloat(raw) ==
  CASE raw.type \in {"int", "float"} -> Decimal(raw.v)
    [] raw.type = "bool" -> Decimal(IF raw.v THEN 200 ELSE 0)
    [] raw.type = "nan" -> Nan
    [] raw.type = "huge" -> Raises
    [] OTHER -> Invalid

(* int() of a number cuts off the fraction, refuses NaN, and raises what   *)
(* is not caught on an infinity.                                           *)
AsInt(raw) ==
  CASE raw.type = "int" -> raw
    [] raw.type = "float" -> [type |-> "int", v |-> 200 * (raw.v \div 200)]
    [] raw.type = "infinity" -> Raises
    [] OTHER -> Invalid

Spells(raw, types) == raw.type = "text" /\ raw.v \in DOMAIN Spelt /\ Spelt[raw.v].type \in types

(* What becomes of a raw value by the type of the field.  A text that      *)
(* spells a number is taken for it; int() takes no more than digits.       *)
Coerced(field, raw) ==
  CASE field.default.type = "bool" -> IF raw.type = "bool" THEN raw ELSE Invalid
    [] field.default.type = "int" -> IF Spells(raw, {"int"}) THEN Spelt[raw.v] ELSE AsInt(raw)
    [] field.default.type = "float" ->
         IF Spells(raw, {"int", "float", "nan"}) THEN AsFloat(Spelt[raw.v]) ELSE AsFloat(raw)
    [] OTHER -> IF raw.type = "text" THEN raw ELSE Text("of another type")

\* Mutant: a coerced value is not compared with the bounds.
ValidateUnbounded(field, raw) == Coerced(field, raw)

(* _validate.  Neither comparison holds of NaN.                            *)
Validate(field, raw) ==
  LET value == Coerced(field, raw)
  IN IF value.type \in {"invalid", "raises"} THEN value
     ELSE IF \/ field.enum # {} /\ value.v \notin field.enum
             \/ Numeric(field) /\ value # Nan /\ (value.v < field.min \/ value.v > field.max)
          THEN Invalid ELSE value

Absent == [kind |-> "absent"]
Broken == [kind |-> "broken"]
Undecodable == [kind |-> "undecodable"]
Toml(table) == [kind |-> "toml", table |-> table]
Table(contents) == IF contents.kind = "toml" THEN contents.table ELSE <<>>

NoEnv == <<>>
Loaded(files, e, key) ==
  LET field == Field[key]
      table == Table(files[field.file])
      given(from) == IF key \in DOMAIN from THEN Validate(field, from[key]) ELSE Invalid
  IN IF given(e) # Invalid THEN given(e)
     ELSE IF given(table) # Invalid THEN given(table) ELSE ResolvedDefault(field)

(* Reading the values may raise: tomllib.load does, what _read_toml does   *)
(* not catch, on a file that is not UTF-8.                                 *)
Readable(files, e) ==
  (\A file \in DOMAIN files : files[file] # Undecodable) /\ (\A key \in Keys : Loaded(files, e, key) # Raises)
LoadAll(files, e) == IF Readable(files, e) THEN [key \in Keys |-> Loaded(files, e, key)] ELSE None

-----------------------------------------------------------------------------
(* save_all                                                                *)
SavedIn(values, file) == [key \in Range(KeysOf(file)) |-> values[key]]

\* Mutant: a boolean as Python spells it, which TOML does not read.
EmittedAsPython(values, file) ==
  IF \E key \in Range(KeysOf(file)) : Field[key].default.type = "bool" THEN Broken
  ELSE Toml(SavedIn(values, file))

(* What a file is to hold.                                                 *)
Emitted(values, file) == Toml(SavedIn(values, file))

(* What a write that is cut off leaves: the first lines, the last of them  *)
(* perhaps with fewer digits; what is no TOML; or the first bytes of one   *)
(* of the dashes in the comments.                                          *)
FewerDigits(value) ==
  IF value = Nan THEN {} ELSE
  {[type |-> "int", v |-> 200 * ((value.v \div 200) \div m)] : m \in {1, 10, 100, 1000}} \ {Whole(0)}
CutOff(values, file) ==
  LET keys == KeysOf(file)
      firsts(k) == [key \in {keys[j] : j \in 1..k} |-> values[key]]
  IN (IF "values" \in CutsOff
      THEN {Toml(firsts(k)) : k \in 0..Len(keys)}
             \cup UNION {{Toml([firsts(k) EXCEPT ![keys[k]] = n]) : n \in FewerDigits(values[keys[k]])} :
                          k \in {j \in DOMAIN keys : Numeric(Field[keys[j]])}}
      ELSE {})
     \cup (IF "broken" \in CutsOff THEN {Broken} ELSE {})
     \cup (IF "undecodable" \in CutsOff THEN {Undecodable} ELSE {})

(* The next file is written; after the last one, the dialog goes on.       *)
LevelsOf(values) == [capture |-> values["capture.log_level"].v, cluster |-> values["cluster.log_level"].v]
WriteFile ==
  /\ writing # <<>>
  /\ disk' = [disk EXCEPT ![Head(writing)] = Emitted(prefs, Head(writing))]
  /\ writing' = Tail(writing)
  /\ saved' = [file \in DOMAIN saved \cup {Head(writing)} |->
                 IF file = Head(writing) THEN SavedIn(prefs, file) ELSE saved[file]]
  /\ IF Tail(writing) # <<>> THEN UNCHANGED <<levels, dialog, saver>>
     ELSE /\ saver' = None
          /\ IF saver = "save"
             THEN dialog' = None /\ levels' = LevelsOf(prefs)
             ELSE UNCHANGED <<dialog, levels>>
  /\ UNCHANGED <<env, prefs>>

NoLongerSaved(file) == saved' = [other \in DOMAIN saved \ {file} |-> saved[other]]

(* An OSError: the dialog says so and stays open.                          *)
WriteFails(contents) ==
  /\ writing # <<>>
  /\ disk' = [disk EXCEPT ![Head(writing)] = contents]
  /\ writing' = <<>> /\ saver' = None
  /\ NoLongerSaved(Head(writing))
  /\ UNCHANGED <<env, prefs, levels, dialog>>

-----------------------------------------------------------------------------
(* A process: main, and whoever reads a preference.                        *)
Start(e) ==
  /\ env = None
  /\ env' = e
  /\ prefs' = LoadAll(disk, e)
  /\ levels' = IF prefs' = None THEN [capture |-> "info", cluster |-> "info"] ELSE LevelsOf(prefs')
  /\ UNCHANGED <<disk, dialog, writing, saver, saved>>

HeldOrLoaded == IF prefs = None THEN LoadAll(disk, env) ELSE prefs

GetPrefs ==
  /\ env # None /\ dialog = None
  /\ prefs' = HeldOrLoaded
  /\ UNCHANGED <<disk, env, levels, dialog, writing, saver, saved>>

Gone(files) ==
  /\ disk' = files
  /\ env' = None /\ prefs' = None /\ dialog' = None /\ writing' = <<>> /\ saver' = None
  /\ UNCHANGED levels

(* It ends, or crashes; perhaps in a write.                                *)
End == env # None /\ writing = <<>> /\ Gone(disk) /\ UNCHANGED saved
CrashWriting(contents) ==
  /\ writing # <<>> /\ NoLongerSaved(Head(writing))
  /\ Gone([disk EXCEPT ![Head(writing)] = contents])

HandEdit(file, contents) ==
  /\ writing = <<>> /\ disk[file] # contents
  /\ disk' = [disk EXCEPT ![file] = contents]
  /\ NoLongerSaved(file)
  /\ UNCHANGED <<env, prefs, levels, dialog, writing, saver>>

-----------------------------------------------------------------------------
(* The dialog: widgets show the values, two decimals of them; which way a  *)
(* third one is rounded is left open, and which bound a spin box shows for *)
(* NaN, which it cannot hold.                                              *)
Shown(field, value, round) ==
  IF value = Nan THEN Decimal(IF round < 0 THEN field.min ELSE field.max)
  ELSE IF field.default.type = "float" /\ value.v % 2 = 1 THEN Decimal(value.v + round) ELSE value

(* Of the dongles, only some are heard in time: a port may be busy, an     *)
(* answer may come after its future has timed out, and no dongle counts if *)
(* listing or asking them raises.                                          *)
HeardOf(rack) == SUBSET rack

OpenDialog(rack) ==
  /\ env # None /\ dialog = None
  /\ HeldOrLoaded # None
  /\ prefs' = HeldOrLoaded
  /\ \E round \in {-1, 1}, heard \in HeardOf(rack) :
       LET blocked == CodedPhyStatus({d.port : d \in heard}) = "blocked"
           shown == [key \in Keys |-> Shown(Field[key], prefs'[key], round)]
       IN dialog' = [widgets |-> IF blocked THEN [shown EXCEPT !["capture.coded_phy"] = Truth(FALSE)] ELSE shown,
                     forced |-> IF blocked THEN {"capture.coded_phy"} ELSE {},
                     broken |-> {d \in heard : d.runs = KnownBroken}]
  /\ UNCHANGED <<disk, env, levels, writing, saver, saved>>

Edit(key, value) ==
  /\ dialog # None /\ writing = <<>> /\ key \notin dialog.forced
  /\ dialog' = [dialog EXCEPT !.widgets[key] = value]
  /\ UNCHANGED <<disk, env, prefs, levels, writing, saver, saved>>

ResetSection(file) ==
  /\ dialog # None /\ writing = <<>>
  /\ dialog' = [dialog EXCEPT !.widgets =
       [key \in Keys |-> IF Field[key].file = file THEN ResolvedDefault(Field[key]) ELSE @[key]]]
  /\ UNCHANGED <<disk, env, prefs, levels, writing, saver, saved>>

BeginWriting(who) == writing' = FilesWritten /\ saver' = who

Save ==
  /\ dialog # None /\ writing = <<>>
  /\ prefs' = [key \in Keys |-> IF key \in dialog.forced THEN Truth(FALSE) ELSE dialog.widgets[key]]
  /\ BeginWriting("save")
  /\ UNCHANGED <<disk, env, levels, dialog, saved>>

(* Open TOML saves the values held, if there is no file to open.           *)
OpenToml(file) ==
  /\ dialog # None /\ writing = <<>> /\ disk[file] = Absent
  /\ BeginWriting("open")
  /\ UNCHANGED <<disk, env, prefs, levels, dialog, saved>>

Cancel ==
  /\ dialog # None /\ writing = <<>>
  /\ dialog' = None
  /\ UNCHANGED <<disk, env, prefs, levels, writing, saver, saved>>

-----------------------------------------------------------------------------
PrefsInit ==
  /\ disk = [file \in Range(FilesWritten) |-> Absent]
  /\ env = None /\ prefs = None /\ dialog = None /\ writing = <<>> /\ saver = None
  /\ levels = [capture |-> "info", cluster |-> "info"]
  /\ saved = <<>>

PrefsNext ==
  \/ \E e \in Envs : Start(e)
  \/ GetPrefs \/ End
  \/ \E rack \in Racks : OpenDialog(rack)
  \/ \E key \in Keys : \E value \in Entries[key] : Edit(key, value)
  \/ \E file \in Range(FilesWritten) : ResetSection(file) \/ OpenToml(file)
  \/ Save \/ Cancel \/ WriteFile
  \/ /\ writing # <<>>
     /\ \E contents \in CutOff(prefs, Head(writing)) \cup {disk[Head(writing)]} :
          WriteFails(contents) \/ CrashWriting(contents)
  \/ \E file \in Range(FilesWritten) : \E contents \in Edits[file] : HandEdit(file, contents)

PrefsSpec == PrefsInit /\ [][PrefsNext]_prefsVars

-----------------------------------------------------------------------------
\* A value the schema allows.
Allows(field, value) ==
  /\ value # Nan
  /\ value = [type |-> field.default.type, v |-> value.v]
  /\ field.enum # {} => value.v \in field.enum
  /\ Numeric(field) => value.v \in field.min..field.max

(* The schema is in order: bounds have two decimals, defaults are allowed, *)
(* a key is in its file and no other, the environment overrides paths.     *)
SchemaIsSound ==
  /\ FilesWritten \in Seq({"general", "capture", "cluster", "canvas"})
  /\ \A file \in Range(FilesWritten) :
       KeysOf(file) \in Seq(Keys) /\ \A key \in Range(KeysOf(file)) : Field[key].file = file
  /\ \A key \in Keys :
       LET field == Field[key] IN
       /\ field.default.type \in {"bool", "int", "float", "text"}
       /\ field.env => field.default.type = "text"
       /\ Numeric(field) => /\ field.enum = {}
                            /\ field.min \in Int /\ field.min % 2 = 0 /\ field.max \in Int /\ field.max % 2 = 0
       /\ Allows(field, ResolvedDefault(field))
       /\ field.file \in Range(FilesWritten) /\ key \in Range(KeysOf(field.file))
  /\ Allows(Field["capture.coded_phy"], Truth(FALSE))

\* ... or NaN, where the comparisons let it through.
Tolerates(field, value) == Allows(field, value) \/ (value = Nan /\ field.default.type = "float")

(* What is read from a file or the environment has a type, and what is     *)
(* entered is within the bounds of its widget.                             *)
IsRaw(raw) ==
  raw.type \in {"bool", "int", "float", "text"} =>
    /\ raw = [type |-> raw.type, v |-> raw.v]
    /\ raw.type \in {"int", "float"} => raw.v \in Int
AllRaw(table) == \A key \in DOMAIN table : IsRaw(table[key])
InputsAreTyped ==
  /\ \A key \in Keys : \A value \in Entries[key] : Allows(Field[key], value)
  /\ \A e \in Envs : AllRaw(e) /\ \A key \in DOMAIN e : key \in Keys /\ Field[key].env /\ e[key].type = "text"
  /\ \A file \in Range(FilesWritten) : \A contents \in Edits[file] : AllRaw(Table(contents))

(* A dongle that runs the firmware known to be broken says so at one of    *)
(* the baud rates, and at those tried before it gives no version.          *)
BrokenDonglesAnswer ==
  \A rack \in Racks : \A d \in rack :
    d.runs = KnownBroken =>
      \E k \in DOMAIN d.port :
        /\ DOMAIN d.port \subseteq Nat
        /\ VersionIn(d.port[k]) # Unknown /\ ParseVersion(VersionIn(d.port[k])) = KnownBroken
        /\ \A j \in DOMAIN d.port : j < k => VersionIn(d.port[j]) = Unknown

(* Whatever was left in the files - by hand, by a failed save, by a crash  *)
(* in the middle of a number - a process only ever works with values the   *)
(* schema allows, save for one it cannot compare with the bounds.          *)
ValidButForNan == prefs # None => \A key \in Keys : Tolerates(Field[key], prefs[key])

(* What schema.py and loader.py promise: "out-of-range or wrong-type       *)
(* values fall back to the default" (loader.py:9-12), whoever wrote them.  *)
(* It fails: NaN is neither below nor above a bound.                       *)
PrefsAreValid == prefs # None => \A key \in Keys : Allows(Field[key], prefs[key])

(* What a save has written in a file is not lost, also when the save was   *)
(* cut off at a later file: until that file is written again, any process  *)
(* that starts works with exactly the values saved in it, but for those    *)
(* its environment overrides; and if that goes for all, it has values.     *)
SavedIsReloaded ==
  \A e \in Envs :
    /\ Readable(disk, e) => \A file \in DOMAIN saved : \A key \in DOMAIN saved[file] \ DOMAIN e :
                              LoadAll(disk, e)[key] = saved[file][key]
    /\ DOMAIN saved = Range(FilesWritten) => Readable(disk, e)

(* Coded PHY capture is not switched on by the dialog while a dongle is    *)
(* attached that has said in time that it runs the firmware on which it    *)
(* "silently breaks capture" (firmware_query.py).                          *)
CodedStaysOff ==
  [][(dialog # None /\ dialog.broken # {} /\ prefs' # None /\ prefs'["capture.coded_phy"].v)
       => prefs["capture.coded_phy"].v]_prefsVars

(* A file that cannot be read is passed over and a value that is no good   *)
(* replaced by its default (loader.py), so a process has its preferences.  *)
PrefsAreAvailable == env # None => prefs # None
=============================================================================
