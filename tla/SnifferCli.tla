----------------------------- MODULE SnifferCli -----------------------------
(***************************************************************************)
(* `btviz sniffers` (cli/sniffers.py): an interactive loop that drives one *)
(* CaptureCoordinator.  Any role may be given to any discovered dongle,    *)
(* and `refresh` may find dongles come or gone while sniffers are running. *)
(* Adds to the coordinator only where the command loop stands.             *)
(***************************************************************************)
EXTENDS Coordinator

CONSTANT PinChoices    \* the channel sets a user pins

ASSUME PinChoicesAssumption == PinChoices \subseteq (SUBSET PrimaryAdvChannels \ {{}})

VARIABLE cli    \* where the command loop stands, one of CliStates

CliStates == {"boot", "planning", "repl", "refreshing", "failing", "exited", "crashed"}

cliVars == <<coordVars, cli>>

UserRoles == {Idle, ScanUnmonitored} \cup {Pinned(c) : c \in PinChoices}
                                     \cup {Follow(a) : a \in Addrs}

CliInit == CoordInit /\ cli = "boot"

(* run_sniffers_cli up to the first plan; with no dongle it just returns *)
Boot(found) ==
  /\ cli = "boot" /\ found # {}
  /\ Register(found)
  /\ cli' = "planning"

(* One set_role of a plan.  The first plan runs outside the try statement  *)
(* whose finally clause stops the sniffers; a plan started by `refresh`    *)
(* runs inside it.                                                         *)
Plan(d, outcome) ==
  /\ cli \in {"planning", "refreshing"}
  /\ ApplyPlanned(d, outcome)
  /\ IF SetRoleRaises(d, DefaultRole(dongles, d), outcome)
     THEN cli' = IF cli = "planning" THEN "crashed" ELSE "failing"
     ELSE cli' = IF todo = {d} THEN "repl" ELSE cli

(* pin, scan, follow and idle; _do_command catches whatever set_role raises *)
Command(d, r, outcome) ==
  /\ cli = "repl"
  /\ d \in dongles /\ roles[d].kind # "none"
  /\ SetRole(d, r, outcome)
  /\ UNCHANGED <<dongles, todo, cli>>

(* `refresh` *)
RefreshCommand(found) ==
  /\ cli = "repl"
  /\ Register(found)
  /\ cli' = IF found = {} THEN "repl" ELSE "refreshing"

(* the finally clause: quit, end of input, interrupt or an escaping error *)
Quit ==
  /\ cli \in {"repl", "failing"}
  /\ StopAll
  /\ cli' = "exited"
  /\ UNCHANGED <<dongles, todo>>

CliNext ==
  \/ \E found \in SUBSET Dongles : Boot(found) \/ RefreshCommand(found)
  \/ \E d \in Dongles, o \in Starts : Plan(d, o)
  \/ \E d \in Dongles, r \in UserRoles, o \in Starts : Command(d, r, o)
  \/ Quit

CliSpec == CliInit /\ [][CliNext]_cliVars

-----------------------------------------------------------------------------
CliTypeOK == CoordTypeOK /\ cli \in CliStates

(* A scanning sniffer that runs hops exactly the channels nobody pins.     *)
ScanCoversTheRest == ScannersHopTheGap

(* When every start succeeds, one sniffer with the ScanUnmonitored role is *)
(* enough for every primary channel to be hopped by some subprocess        *)
(* (coordinator.py:6-9).                                                   *)
GapsAreFilled ==
  (faults = {} /\ todo = {} /\ \E d \in Dongles : roles[d].kind = "scan") =>
    \A c \in PrimaryAdvChannels :
      \E d \in Dongles : sniffers[d].running /\ c \in sniffers[d].adv_hop

(* However many starts have raised half way through a set_role or a        *)
(* rescan, and in whatever order: as soon as every sniffer with work has   *)
(* its subprocess again, no primary is left out.  What a raising start     *)
(* skipped (_recompute_scan_unmonitored, or the rest of its loop) is made  *)
(* good by the set_role that brings the missing sniffer back.              *)
CoverageComesBack ==
  (AssignedRun({}) /\ \E d \in Dongles : roles[d].kind = "scan") =>
    \A c \in PrimaryAdvChannels :
      \E d \in Dongles : sniffers[d].running /\ c \in sniffers[d].adv_hop

(* What the class promises of the dongles that are there: once a plan is   *)
(* through, one scanning among them is enough for all of them together to  *)
(* hop every primary ("gaps in primary-channel coverage are filled         *)
(* automatically", coordinator.py:6-9).  It fails: a dongle that has been  *)
(* unplugged keeps its Pinned role, and the scanners leave its channel     *)
(* out.                                                                    *)
PresentDonglesFillGaps ==
  (faults = {} /\ todo = {} /\ \E d \in dongles : roles[d].kind = "scan") =>
    \A c \in PrimaryAdvChannels :
      \E d \in dongles : sniffers[d].running /\ c \in sniffers[d].adv_hop
=============================================================================
