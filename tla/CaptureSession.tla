--------------------------- MODULE CaptureSession ---------------------------
(***************************************************************************)
(* A live capture session of the canvas: _start_live, _follow_device,      *)
(* _live_tick and _stop_live (ui/canvas.py) drive one CaptureCoordinator   *)
(* and one StallWatchdog (capture/watchdog.py), while subprocesses deliver *)
(* packets or wedge and time passes.                                       *)
(*                                                                         *)
(* Clock readings only matter through two differences, so they are kept as *)
(* ages in watchdog periods, capped just above the threshold they are      *)
(* compared with.                                                          *)
(***************************************************************************)
EXTENDS Coordinator

CONSTANTS
  Threshold,      \* stall_threshold_s
  MinGap,         \* min_gap_s
  MaxAttempts     \* max_attempts

ASSUME SessionAssumption ==
  Threshold \in Nat /\ MinGap \in Nat /\ MaxAttempts \in Nat \ {0}

VARIABLES
  phase,        \* "stopped", "starting", "live", or "broken": _start_live raised
  wedged,       \* running subprocesses that deliver nothing
  silent,       \* now - last_packet_ts, or - started_at before the first packet
  attempts,     \* _attempts[d].count
  sinceAttempt, \* now - _attempts[d].last_at; MinGap also stands for "never"
  stuck         \* _stuck

watchVars == <<attempts, sinceAttempt, stuck>>
vars == <<coordVars, phase, wedged, silent, watchVars>>

Least(a, b) == IF a <= b THEN a ELSE b

(* Sniffers whose subprocess the step spawns get a fresh started_at and no *)
(* last_packet_ts; the endpoint behind a new subprocess may be wedged.     *)
Spawned(S, wedgedNow) ==
  /\ wedgedNow \subseteq S
  /\ wedged' = {d \in wedged \ S : sniffers'[d].running} \cup wedgedNow
  /\ silent' = [d \in Dongles |-> IF d \in S THEN 0 ELSE silent[d]]

NewlyRunning == {d \in Dongles : ~sniffers[d].running /\ sniffers'[d].running}

Init ==
  /\ CoordInit
  /\ phase = "stopped"
  /\ wedged = {}
  /\ silent = [d \in Dongles |-> 0]
  /\ attempts = [d \in Dongles |-> 0]
  /\ sinceAttempt = [d \in Dongles |-> MinGap]
  /\ stuck = {}

(***************************************************************************)
(* _start_live: discovery that finds something, LiveIngest.start, then the *)
(* plan.  The timer and a new StallWatchdog come after the plan, so an     *)
(* exception from a start leaves a session that is never ticked; Stop      *)
(* still works, because LiveIngest is running.                             *)
(***************************************************************************)
StartLive(found) ==
  /\ phase = "stopped"
  /\ found # {}
  /\ Register(found)
  /\ phase' = "starting"
  /\ UNCHANGED <<wedged, silent, watchVars>>

StartPlanned(d, outcome, wedgedNow) ==
  /\ phase = "starting"
  /\ ApplyPlanned(d, outcome)
  /\ Spawned(NewlyRunning, wedgedNow)
  /\ phase' = IF SetRoleRaises(d, DefaultRole(dongles, d), outcome) THEN "broken"
              ELSE IF todo = {d} THEN "live"
              ELSE "starting"
  /\ UNCHANGED watchVars

(* _follow_device; an exception is reported by Qt and changes no phase *)
FollowDevice(addr, d, outcome, wedgedNow) ==
  /\ phase \in {"live", "broken"}
  /\ FollowOne(addr, d, outcome)
  /\ Spawned(NewlyRunning, wedgedNow)
  /\ UNCHANGED <<phase, watchVars>>

\* Mutant: the watchdog outlives the session.
StopLiveKeepsWatchdog ==
  /\ phase \in {"live", "broken"}
  /\ StopAll
  /\ phase' = "stopped"
  /\ wedged' = {}
  /\ silent' = [d \in Dongles |-> 0]
  /\ dongles' = {}
  /\ todo' = {}
  /\ UNCHANGED watchVars

(* _stop_live: stop_all, and the watchdog is dropped with its counters *)
StopLive ==
  /\ phase \in {"live", "broken"}
  /\ StopAll
  /\ phase' = "stopped"
  /\ wedged' = {}
  /\ silent' = [d \in Dongles |-> 0]
  /\ attempts' = [d \in Dongles |-> 0]
  /\ sinceAttempt' = [d \in Dongles |-> MinGap]
  /\ stuck' = {}
  /\ dongles' = {}
  /\ todo' = {}

(***************************************************************************)
(* StallWatchdog.tick.  What it does to one sniffer depends on no other,   *)
(* so the loop is one step.                                                *)
(***************************************************************************)
\* Mutant: a sniffer already given up on is looked at again.
EligibleWhenStuck(d) == sniffers[d].running /\ sniffers[d].role # "idle"

Eligible(d) == sniffers[d].running /\ sniffers[d].role # "idle" /\ d \notin stuck

Stalled(d) == silent[d] > Threshold

Attempted == {d \in Dongles : Eligible(d) /\ Stalled(d) /\ sinceAttempt[d] >= MinGap}

GivenUp == {d \in Attempted : attempts[d] + 1 > MaxAttempts}

WatchdogTick(outcome, wedgedNow) ==
  /\ phase = "live"
  /\ attempts' = [d \in Dongles |-> IF d \in Attempted THEN attempts[d] + 1 ELSE attempts[d]]
  /\ sinceAttempt' = [d \in Dongles |-> IF d \in Attempted THEN 0 ELSE sinceAttempt[d]]
  /\ stuck' = stuck \cup GivenUp
  /\ sniffers' = [d \in Dongles |->
       IF d \in Attempted \ GivenUp THEN Restarted(d, outcome[d]) ELSE sniffers[d]]
  /\ Spawned({d \in Attempted \ GivenUp : sniffers'[d].running}, wedgedNow)
  /\ UNCHANGED <<dongles, roles, todo, faults, phase>>

(***************************************************************************)
(* The environment: time, _capture_loop reading a record, and an endpoint  *)
(* that wedges or a subprocess that dies (a dead subprocess is no          *)
(* different: nothing clears state.running when the pipe ends).            *)
(***************************************************************************)
Clock ==
  /\ phase # "stopped"
  /\ silent' = [d \in Dongles |->
       IF sniffers[d].running THEN Least(silent[d] + 1, Threshold + 1) ELSE silent[d]]
  /\ sinceAttempt' = [d \in Dongles |-> Least(sinceAttempt[d] + 1, MinGap)]
  /\ UNCHANGED <<coordVars, phase, wedged, attempts, stuck>>

Packet(d) ==
  /\ sniffers[d].running /\ d \notin wedged
  /\ silent' = [silent EXCEPT ![d] = 0]
  /\ UNCHANGED <<coordVars, phase, wedged, watchVars>>

Wedge(d) ==
  /\ sniffers[d].running /\ d \notin wedged
  /\ wedged' = wedged \cup {d}
  /\ UNCHANGED <<coordVars, phase, silent, watchVars>>

Next ==
  \/ \E found \in SUBSET Dongles : StartLive(found)
  \/ \E d \in Dongles, o \in Starts, W \in SUBSET Dongles :
       \/ StartPlanned(d, o, W)
       \/ \E a \in Addrs : FollowDevice(a, d, o, W)
  \/ \E o \in Starts, W \in SUBSET Dongles : WatchdogTick(o, W)
  \/ StopLive
  \/ Clock
  \/ \E d \in Dongles : Packet(d) \/ Wedge(d)

Spec == Init /\ [][Next]_vars

(***************************************************************************)
(* Fairness: time passes, the Qt timer keeps calling _live_tick, and the   *)
(* main thread finishes a start_discover it has begun.  Nothing is assumed *)
(* of the user, of packets or of endpoints.                                *)
(***************************************************************************)
Fairness ==
  /\ WF_vars(Clock)
  /\ WF_vars(\E o \in Starts, W \in SUBSET Dongles : WatchdogTick(o, W))
  /\ WF_vars(\E d \in Dongles, o \in Starts, W \in SUBSET Dongles : StartPlanned(d, o, W))

FairSpec == Spec /\ Fairness

-----------------------------------------------------------------------------
TypeOK ==
  /\ CoordTypeOK
  /\ phase \in {"stopped", "starting", "live", "broken"}
  /\ wedged \subseteq Dongles
  /\ silent \in [Dongles -> 0..(Threshold + 1)]
  /\ attempts \in [Dongles -> Nat]
  /\ sinceAttempt \in [Dongles -> 0..MinGap]
  /\ stuck \subseteq Dongles

(* Restarts, follow requests and failed starts never separate the role     *)
(* table from what the subprocesses do.                                    *)
RolesAreHonoured == RoleDrivesSniffer

(* Per session and sniffer the watchdog makes at most max_attempts         *)
(* restarts; it is flagged stuck exactly when one attempt more was due,    *)
(* and never counted again (watchdog.py:10-12).                            *)
WatchdogGivesUpOnce ==
  \A d \in Dongles :
    attempts[d] <= MaxAttempts + 1 /\ (d \in stuck <=> attempts[d] = MaxAttempts + 1)

(* Between sessions no subprocess runs, no role is held and no attempt is  *)
(* remembered, however the session ended (_stop_live).                     *)
StoppedIsClean ==
  phase = "stopped" =>
    \A d \in Dongles : /\ ~sniffers[d].running /\ roles[d].kind = "none"
                       /\ attempts[d] = 0 /\ d \notin stuck

(* When starts succeed, a pinned or following sniffer keeps a subprocess   *)
(* through every restart, and a scanning one with channels to hop can only *)
(* have lost its own to a watchdog attempt (restart_one, _apply_role).     *)
AssignedSniffersRun == AssignedAreRunning({d \in Dongles : attempts[d] > 0})

(* From four dongles on the reserved ones absorb follow requests: as long  *)
(* as no more sniffers follow than were reserved, each primary channel     *)
(* still has a running pinned sniffer (roles.py:183-187).                  *)
ReserveProtectsCoverage ==
  LET followers == {d \in Dongles : roles[d].kind = "follow"}
  IN  (phase = "live" /\ faults = {} /\ Cardinality(followers) + 3 <= Cardinality(dongles)) =>
        \A c \in PrimaryAdvChannels :
          \E d \in Dongles : /\ roles[d].kind = "pinned" /\ c \in roles[d].channels
                             /\ sniffers[d].running

(* A wedged sniffer with a pinned or follow role is eventually delivering  *)
(* again or flagged stuck, unless the user stops the session.              *)
WedgedSniffersAreHandled ==
  \A d \in Dongles :
    (faults = {} /\ phase = "live" /\ d \in wedged /\ roles[d].kind \in {"pinned", "follow"}) ~>
      ((sniffers[d].running /\ d \notin wedged) \/ d \in stuck \/ phase = "stopped")

(* restart_one's docstring: the restarted subprocess resumes the same      *)
(* Pinned / Follow / ScanUnmonitored work.  For a scanning sniffer         *)
(* _apply_role does nothing, so it is stopped and not started.             *)
RestartResumesWork ==
  [][\A d \in Dongles :
       attempts'[d] = attempts[d] + 1 /\ d \notin stuck' => sniffers'[d].running]_vars

(* watchdog.py:300-304: a restart the coordinator declined is recoverable, *)
(* the watchdog will try again.  A sniffer left without a subprocess is    *)
(* not eligible any more, so it never does.                                *)
DeclinedRestartsAreRetried ==
  \A d \in Dongles :
    (phase = "live" /\ attempts[d] > 0 /\ ~sniffers[d].running /\ roles[d].kind = "pinned") ~>
      (sniffers[d].running \/ d \in stuck \/ phase = "stopped")
=============================================================================
