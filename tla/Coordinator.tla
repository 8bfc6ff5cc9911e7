---------------------------- MODULE Coordinator ----------------------------
(***************************************************************************)
(* CaptureCoordinator (capture/coordinator.py) and the lifecycle half of   *)
(* the SnifferProcess objects it owns (extcap/sniffer.py: start, stop,     *)
(* set_adv_hop, follow_address).  All of this runs on one thread, the Qt   *)
(* main thread or the CLI's; start_discover is a sequence of set_role      *)
(* calls, one step each, because sniffer threads and the clock advance     *)
(* between them.  The modules that drive a coordinator, CaptureSession     *)
(* (the canvas) and SnifferCli, take their actions from here.              *)
(***************************************************************************)
EXTENDS Roles

CONSTANT MayFail    \* how SnifferProcess.start may fail: subset of {"raise", "quiet"}

ASSUME MayFailAssumption == MayFail \subseteq {"raise", "quiet"}

VARIABLES
  dongles,    \* coord.dongles: the last discovery result
  roles,      \* coord.roles, NoRole where there is no entry
  sniffers,   \* coord.sniffers[d].state
  todo,       \* dongles whose planned role start_discover has yet to apply
  faults      \* the ways of MayFail that occur in this behaviour; never changes

coordVars == <<dongles, roles, sniffers, todo, faults>>

SnifferState == [running       : BOOLEAN,
                 role          : {"idle", "scan", "follow"},
                 adv_hop       : SUBSET PrimaryAdvChannels,
                 follow_target : Addrs \cup {NoAddr}]

FreshSniffer == [running |-> FALSE, role |-> "idle",
                 adv_hop |-> PrimaryAdvChannels, follow_target |-> NoAddr]

(***************************************************************************)
(* SnifferProcess operations.  start() either spawns the subprocess ("ok"),*)
(* raises before it is running ("raise": extcap binary missing, mkfifo or  *)
(* Popen fails) or notes the error and stops itself ("quiet": a control    *)
(* FIFO cannot be opened).                                                 *)
(***************************************************************************)
Outcomes == {"ok"} \cup faults

Starts == {o \in [Dongles -> Outcomes] : \A d \in Dongles : roles[d].kind = "none" => o[d] = "ok"}

Stopped(s) == [s EXCEPT !.running = FALSE, !.role = "idle", !.follow_target = NoAddr]

Started(s, hop, target, outcome) ==
  CASE outcome = "ok"    -> [running |-> TRUE,
                             role |-> IF target = NoAddr THEN "scan" ELSE "follow",
                             adv_hop |-> hop, follow_target |-> target]
    [] outcome = "quiet" -> Stopped(s)
    [] outcome = "raise" -> s

SetAdvHop(s, hop) == [s EXCEPT !.adv_hop = hop]

FollowAddress(s, addr) == [s EXCEPT !.role = "follow", !.follow_target = addr]

(***************************************************************************)
(* _apply_role and _recompute_scan_unmonitored, for one sniffer each.      *)
(***************************************************************************)
ApplyRole(s, r, outcome) ==
  CASE r.kind = "idle"   -> IF s.running THEN Stopped(s) ELSE s
    [] r.kind = "pinned" -> IF s.running THEN SetAdvHop(s, r.channels)
                            ELSE Started(s, r.channels, NoAddr, outcome)
    [] r.kind = "follow" -> IF s.running THEN FollowAddress(s, r.target)
                            ELSE Started(s, PrimaryAdvChannels, r.target, outcome)
    [] OTHER             -> s

Uncovered(rs) ==
  PrimaryAdvChannels \ UNION {rs[d].channels : d \in {e \in Dongles : rs[e].kind = "pinned"}}

Rescan(s, gap, outcome) ==
  IF gap = {} THEN (IF s.running THEN Stopped(s) ELSE s)
  ELSE IF s.running THEN SetAdvHop(s, gap)
  ELSE Started(s, gap, NoAddr, outcome)

(***************************************************************************)
(* set_role.  An exception out of start() leaves the role table changed    *)
(* and skips whatever would have come after it: the whole rescan when the  *)
(* sniffer itself raised, the sniffers further down when a scanner did.    *)
(***************************************************************************)
ApplyRaises(d, r, outcome) ==
  r.kind \in {"pinned", "follow"} /\ ~sniffers[d].running /\ outcome[d] = "raise"

RaisingScanners(rs, outcome) ==
  {e \in Dongles : /\ rs[e].kind = "scan"
                   /\ Uncovered(rs) # {}
                   /\ ~sniffers[e].running
                   /\ outcome[e] = "raise"}

SetRoleRaises(d, r, outcome) ==
  \/ ApplyRaises(d, r, outcome)
  \/ RaisingScanners([roles EXCEPT ![d] = r], outcome) # {}

\* Mutant: the rescan reads the role table as it was before the change.
SetRoleRescansStaleTable(d, r, outcome) ==
  LET rs == [roles EXCEPT ![d] = r]
  IN  /\ roles' = rs
      /\ sniffers' = [e \in Dongles |->
           IF rs[e].kind = "scan" THEN Rescan(sniffers[e], Uncovered(roles), outcome[e])
           ELSE IF e = d          THEN ApplyRole(sniffers[e], r, outcome[e])
           ELSE sniffers[e]]
      /\ UNCHANGED faults

\* Mutant: only a Pinned role triggers the rescan.
SetRoleRescansOnPinOnly(d, r, outcome) ==
  LET rs == [roles EXCEPT ![d] = r]
  IN  /\ roles' = rs
      /\ sniffers' = [e \in Dongles |->
           IF rs[e].kind = "scan" /\ r.kind = "pinned"
           THEN Rescan(sniffers[e], Uncovered(rs), outcome[e])
           ELSE IF e = d THEN ApplyRole(sniffers[e], r, outcome[e])
           ELSE sniffers[e]]
      /\ UNCHANGED faults

\* Mutant: the rescan starts scanners, and retunes none that runs.
SetRoleRetunesNothing(d, r, outcome) ==
  LET rs == [roles EXCEPT ![d] = r]
  IN  /\ roles' = rs
      /\ sniffers' = [e \in Dongles |->
           IF rs[e].kind = "scan" /\ ~sniffers[e].running
           THEN Rescan(sniffers[e], Uncovered(rs), outcome[e])
           ELSE IF e = d THEN ApplyRole(sniffers[e], r, outcome[e])
           ELSE sniffers[e]]
      /\ UNCHANGED faults

SetRole(d, r, outcome) ==
  LET rs == [roles EXCEPT ![d] = r]
      rescanned(e) == /\ rs[e].kind = "scan"
                      /\ ~ApplyRaises(d, r, outcome)
                      /\ \A x \in RaisingScanners(rs, outcome) : e <= x
  IN  /\ roles' = rs
      /\ sniffers' = [e \in Dongles |->
           IF rescanned(e) THEN Rescan(sniffers[e], Uncovered(rs), outcome[e])
           ELSE IF e = d   THEN ApplyRole(sniffers[e], r, outcome[e])
           ELSE sniffers[e]]
      /\ UNCHANGED faults

(***************************************************************************)
(* refresh_dongles and the head of start_discover: every dongle of the     *)
(* discovery result that has no entry is registered as Idle; entries of    *)
(* dongles that are gone stay.  Then the plan is worked through.  Scan     *)
(* roles come last in every plan, so one pass in plan order is the code's  *)
(* two passes.                                                             *)
(***************************************************************************)
\* Mutant: refresh_dongles rebuilds the role table and forgets who is running.
RegisterResetsRoles(found) ==
  /\ todo = {}
  /\ dongles' = found
  /\ todo' = found
  /\ roles' = [d \in Dongles |-> IF d \in found THEN Idle ELSE roles[d]]
  /\ UNCHANGED <<sniffers, faults>>

Register(found) ==
  LET new == {d \in found : roles[d].kind = "none"}
  IN  /\ todo = {}
      /\ dongles' = found
      /\ todo' = found
      /\ roles' = [d \in Dongles |-> IF d \in new THEN Idle ELSE roles[d]]
      /\ sniffers' = [d \in Dongles |-> IF d \in new THEN FreshSniffer ELSE sniffers[d]]
      /\ UNCHANGED faults

PlannedNext(d) == d \in todo /\ \A e \in todo \ {d} : Before(dongles, d, e)

ApplyPlanned(d, outcome) ==
  /\ PlannedNext(d)
  /\ SetRole(d, DefaultRole(dongles, d), outcome)
  /\ todo' = IF SetRoleRaises(d, DefaultRole(dongles, d), outcome) THEN {} ELSE todo \ {d}
  /\ UNCHANGED dongles

(* stop_all: every sniffer is stopped and both dictionaries are cleared *)
StopAll ==
  /\ roles' = [d \in Dongles |-> NoRole]
  /\ sniffers' = [d \in Dongles |-> FreshSniffer]
  /\ UNCHANGED faults

(***************************************************************************)
(* follow: an Idle dongle, else a scanning one, else any that is not       *)
(* already following.                                                      *)
(***************************************************************************)
\* Mutant: a pinned sniffer is as good as an idle one.
FollowCandidatesUnordered == {d \in Dongles : roles[d].kind \in {"idle", "pinned"}}

FollowCandidates ==
  LET of(kinds) == {d \in Dongles : roles[d].kind \in kinds}
  IN  IF of({"idle"}) # {} THEN of({"idle"})
      ELSE IF of({"scan"}) # {} THEN of({"scan"})
      ELSE of({"pinned"})

PickedForFollow(d) == d \in FollowCandidates /\ \A e \in FollowCandidates : d <= e

FollowOne(addr, d, outcome) ==
  /\ todo = {}
  /\ PickedForFollow(d)
  /\ SetRole(d, Follow(addr), outcome)
  /\ UNCHANGED <<dongles, todo>>

\* Mutants: a restart that forgets the role; one that never starts again.
RestartedWithDefaults(d, outcome) ==
  IF roles[d].kind \in {"pinned", "follow"}
  THEN Started(Stopped(sniffers[d]), PrimaryAdvChannels, NoAddr, outcome)
  ELSE Stopped(sniffers[d])

RestartedStopsOnly(d, outcome) == Stopped(sniffers[d])

(* restart_one, for a registered sniffer: its state afterwards *)
Restarted(d, outcome) == ApplyRole(Stopped(sniffers[d]), roles[d], outcome)

CoordInit ==
  /\ dongles = {}
  /\ roles = [d \in Dongles |-> NoRole]
  /\ sniffers = [d \in Dongles |-> FreshSniffer]
  /\ todo = {}
  /\ faults \in SUBSET MayFail

-----------------------------------------------------------------------------
CoordTypeOK ==
  /\ dongles \subseteq Dongles
  /\ roles \in [Dongles -> Role]
  /\ sniffers \in [Dongles -> SnifferState]
  /\ todo \subseteq Dongles
  /\ faults \subseteq MayFail

(* A sniffer without work has no subprocess, and a sniffer whose           *)
(* subprocess runs is doing what its role asks: hopping the pinned         *)
(* channels, or following the target.  It must survive every order of      *)
(* set_role, follow, restart_one and failing starts.                       *)
RoleDrivesSniffer ==
  \A d \in Dongles :
    LET r == roles[d]  s == sniffers[d]
    IN  /\ r.kind \in {"none", "idle"} => ~s.running
        /\ r.kind = "pinned" /\ s.running => s.adv_hop = r.channels
        /\ r.kind = "follow" /\ s.running =>
             s.role = "follow" /\ s.follow_target = r.target

(* Unless a start raised half way through a set_role, a running            *)
(* ScanUnmonitored sniffer hops exactly the primaries no role pins, and    *)
(* one is running only if there are such channels                          *)
(* (_recompute_scan_unmonitored after any change).                         *)
ScannersHopTheGap ==
  "raise" \notin faults =>
    \A d \in Dongles :
      roles[d].kind = "scan" /\ sniffers[d].running =>
        sniffers[d].adv_hop = Uncovered(roles) /\ Uncovered(roles) # {}

(* A pinned or following sniffer has a subprocess, and so has a scanning   *)
(* one while there is a channel left for it; `excused` are scanning        *)
(* sniffers that lost theirs to something else than a set_role.            *)
AssignedRun(excused) ==
  \A d \in Dongles :
    /\ roles[d].kind \in {"pinned", "follow"} => sniffers[d].running
    /\ roles[d].kind = "scan" /\ Uncovered(roles) # {} /\ d \notin excused =>
         sniffers[d].running

(* Where starts cannot fail, they all do.                                  *)
AssignedAreRunning(excused) == faults = {} => AssignedRun(excused)

(* What the invariants above rest on: every role in the table could    *)
(* have been constructed (Follow and Pinned validate their arguments).     *)
WellFormed(r) == r \in Role /\ (r.kind = "follow" => r.target \in Addrs)

CoordInv ==
  /\ CoordTypeOK
  /\ \A d \in Dongles : WellFormed(roles[d])
  /\ RoleDrivesSniffer
  /\ ScannersHopTheGap
=============================================================================
