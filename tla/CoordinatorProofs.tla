------------------------- MODULE CoordinatorProofs -------------------------
(***************************************************************************)
(* The coordinator and its two users, for any number of dongles, any pin   *)
(* choices, any watchdog limits and any way of failing starts.  First,     *)
(* CoordInv is preserved by every operation of the coordinator: these      *)
(* lemmas are about the operations, not about one specification.  From     *)
(* them follow the inductive invariants of the interactive command, CliInv,*)
(* and of the canvas session, IInv, and their consequences.                *)
(***************************************************************************)
EXTENDS CaptureSession, SnifferCli, FiniteSetTheorems, TLAPS

USE DEF Dongles, PrimaryAdvChannels

Outcome == {"ok", "raise", "quiet"}

(* Every outcome of a start is one of the three the model knows.           *)
LEMMA OutcomesAre == CoordTypeOK => Outcomes \subseteq Outcome
BY MayFailAssumption DEF CoordTypeOK, Outcomes, Outcome

(* Starting a sniffer either leaves it without a subprocess or gives it    *)
(* one with the hop set and target asked for.                              *)
LEMMA StartedIs ==
  ASSUME NEW s \in SnifferState, NEW hop \in SUBSET PrimaryAdvChannels,
         NEW target \in Addrs \cup {NoAddr}, NEW o \in Outcome, ~s.running
  PROVE  /\ Started(s, hop, target, o) \in SnifferState
         /\ Started(s, hop, target, o).running =>
              /\ Started(s, hop, target, o).adv_hop = hop
              /\ Started(s, hop, target, o).follow_target = target
              /\ Started(s, hop, target, o).role = IF target = NoAddr THEN "scan" ELSE "follow"
<1>1. o \in {"ok", "raise", "quiet"}
  BY DEF Outcome
<1>2. CASE o = "ok"
  BY <1>2 DEF Started, SnifferState
<1>3. CASE o = "quiet"
  BY <1>3 DEF Started, Stopped, SnifferState
<1>4. CASE o = "raise"
  BY <1>4 DEF Started, SnifferState
<1>5. QED
  BY <1>1, <1>2, <1>3, <1>4

(* Stopping a sniffer leaves it without a subprocess.                      *)
LEMMA StoppedIs ==
  ASSUME NEW s \in SnifferState
  PROVE  Stopped(s) \in SnifferState /\ ~Stopped(s).running
BY DEF Stopped, SnifferState

(* What _apply_role establishes for the one sniffer it touches.            *)
LEMMA ApplyRoleIs ==
  ASSUME NEW s \in SnifferState, NEW r, WellFormed(r), NEW o \in Outcome
  PROVE  LET t == ApplyRole(s, r, o)
         IN  /\ t \in SnifferState
             /\ r.kind = "idle" => ~t.running
             /\ r.kind = "pinned" /\ t.running => t.adv_hop = r.channels
             /\ r.kind = "follow" /\ t.running =>
                  t.role = "follow" /\ t.follow_target = r.target
             /\ r.kind \in {"scan", "none"} => t = s
<1>1. r \in Role /\ r.channels \in SUBSET PrimaryAdvChannels /\ r.target \in Addrs \cup {NoAddr}
  BY DEF WellFormed, Role
<1>2. CASE r.kind = "idle"
  BY <1>2, StoppedIs DEF ApplyRole
<1>3. CASE r.kind = "pinned"
  <2>1. CASE s.running
    BY <1>1, <1>3, <2>1 DEF ApplyRole, SetAdvHop, SnifferState
  <2>2. CASE ~s.running
    BY <1>1, <1>3, <2>2, StartedIs DEF ApplyRole
  <2>3. QED
    BY <2>1, <2>2
<1>4. CASE r.kind = "follow"
  <2>1. r.target \in Addrs /\ r.target # NoAddr
    BY <1>4, RolesAssumption DEF WellFormed
  <2>2. CASE s.running
    BY <1>1, <1>4, <2>1, <2>2 DEF ApplyRole, FollowAddress, SnifferState
  <2>3. CASE ~s.running
    BY <1>1, <1>4, <2>1, <2>3, StartedIs DEF ApplyRole
  <2>4. QED
    BY <2>2, <2>3
<1>5. CASE r.kind \in {"scan", "none"}
  BY <1>5 DEF ApplyRole
<1>6. QED
  BY <1>1, <1>2, <1>3, <1>4, <1>5 DEF Role

(* What the rescan establishes for one scanning sniffer.                   *)
LEMMA RescanIs ==
  ASSUME NEW s \in SnifferState, NEW gap \in SUBSET PrimaryAdvChannels, NEW o \in Outcome
  PROVE  /\ Rescan(s, gap, o) \in SnifferState
         /\ Rescan(s, gap, o).running => Rescan(s, gap, o).adv_hop = gap /\ gap # {}
<1>1. CASE gap = {}
  BY <1>1, StoppedIs DEF Rescan
<1>2. CASE gap # {} /\ s.running
  BY <1>2 DEF Rescan, SetAdvHop, SnifferState
<1>3. CASE gap # {} /\ ~s.running
  BY <1>3, StartedIs DEF Rescan
<1>4. QED
  BY <1>1, <1>2, <1>3

LEMMA UncoveredIs ==
  ASSUME NEW rs PROVE Uncovered(rs) \in SUBSET PrimaryAdvChannels
BY DEF Uncovered

(* set_role preserves the invariant, failing starts included.              *)
LEMMA SetRolePreserves ==
  ASSUME CoordInv, NEW d \in Dongles, NEW r, WellFormed(r), r.kind # "none",
         NEW o \in [Dongles -> Outcomes], SetRole(d, r, o)
  PROVE  /\ roles' \in [Dongles -> Role]
         /\ sniffers' \in [Dongles -> SnifferState]
         /\ \A e \in Dongles : WellFormed(roles'[e])
         /\ RoleDrivesSniffer'
         /\ ScannersHopTheGap'
         /\ faults' = faults
<1> DEFINE rs == [roles EXCEPT ![d] = r]
           hit(e) == /\ rs[e].kind = "scan"
                     /\ ~ApplyRaises(d, r, o)
                     /\ \A x \in RaisingScanners(rs, o) : e <= x
<1>1. faults' = faults /\ roles' = rs /\ roles \in [Dongles -> Role] /\ sniffers \in [Dongles -> SnifferState]
  BY DEF SetRole, CoordInv, CoordTypeOK
<1>2. \A e \in Dongles : sniffers'[e] =
        IF hit(e) THEN Rescan(sniffers[e], Uncovered(rs), o[e])
        ELSE IF e = d THEN ApplyRole(sniffers[e], r, o[e]) ELSE sniffers[e]
  BY DEF SetRole
<1>3. \A e \in Dongles : WellFormed(rs[e])
  BY <1>1 DEF CoordInv
<1>4. ASSUME NEW e \in Dongles
      PROVE  /\ sniffers'[e] \in SnifferState
             /\ rs[e].kind \in {"none", "idle"} => ~sniffers'[e].running
             /\ rs[e].kind = "pinned" /\ sniffers'[e].running => sniffers'[e].adv_hop = rs[e].channels
             /\ rs[e].kind = "follow" /\ sniffers'[e].running =>
                  sniffers'[e].role = "follow" /\ sniffers'[e].follow_target = rs[e].target
  <2>1. sniffers[e] \in SnifferState /\ o[e] \in Outcome
    BY <1>1, OutcomesAre DEF CoordInv
  <2>2. CASE hit(e)
    <3>1. sniffers'[e] = Rescan(sniffers[e], Uncovered(rs), o[e]) /\ rs[e].kind = "scan"
      BY <1>2, <2>2
    <3>2. Uncovered(rs) \in SUBSET PrimaryAdvChannels
      BY UncoveredIs
    <3>3. /\ sniffers'[e] \in SnifferState
          /\ sniffers'[e].running => sniffers'[e].adv_hop = Uncovered(rs) /\ Uncovered(rs) # {}
      <4> HIDE DEF rs
      <4> QED BY <2>1, <3>1, <3>2, RescanIs
    <3>4. QED
      BY <3>1, <3>3
  <2>3. CASE ~hit(e) /\ e = d
    <3>1. sniffers'[e] = ApplyRole(sniffers[e], r, o[e]) /\ rs[e] = r
      BY <1>1, <1>2, <2>3
    <3>2. QED
      BY <2>1, <3>1, ApplyRoleIs
  <2>4. CASE ~hit(e) /\ e # d
    <3>1. sniffers'[e] = sniffers[e] /\ rs[e] = roles[e]
      BY <1>1, <1>2, <2>4
    <3>2. QED
      BY <2>1, <3>1 DEF CoordInv, RoleDrivesSniffer
  <2>5. QED
    BY <2>2, <2>3, <2>4
<1>5. sniffers' \in [Dongles -> SnifferState]
  BY <1>4 DEF SetRole
<1>6. RoleDrivesSniffer'
  BY <1>1, <1>4 DEF RoleDrivesSniffer
<1>7. ScannersHopTheGap'
  <2> SUFFICES ASSUME "raise" \notin faults, NEW e \in Dongles,
                      rs[e].kind = "scan", sniffers'[e].running
               PROVE  sniffers'[e].adv_hop = Uncovered(rs) /\ Uncovered(rs) # {}
    BY <1>1 DEF ScannersHopTheGap, Uncovered
  <2>1. \A x \in Dongles : o[x] # "raise"
    BY DEF Outcomes
  <2>2. hit(e)
    BY <2>1 DEF ApplyRaises, RaisingScanners
  <2>3. sniffers'[e] = Rescan(sniffers[e], Uncovered(rs), o[e])
    BY <1>2, <2>2
  <2>4. Uncovered(rs) \in SUBSET PrimaryAdvChannels
    BY UncoveredIs
  <2>5. sniffers[e] \in SnifferState /\ o[e] \in Outcome
    BY <1>1, OutcomesAre DEF CoordInv
  <2> HIDE DEF rs
  <2>6. QED
    BY <2>3, <2>4, <2>5, RescanIs
<1>8. rs \in [Dongles -> Role]
  BY <1>1 DEF WellFormed
<1>9. QED
  BY <1>1, <1>3, <1>5, <1>6, <1>7, <1>8

(* Every role default_roles hands out could have been constructed.         *)
LEMMA DefaultRoleIs ==
  ASSUME NEW D \in SUBSET Dongles, NEW d \in D
  PROVE  WellFormed(DefaultRole(D, d)) /\ DefaultRole(D, d).kind \in {"scan", "pinned", "idle"}
<1> DEFINE p == Position(D, d)
<1>1. IsFiniteSet({e \in D : Before(D, e, d)})
  <2>1. IsFiniteSet(Dongles)
    BY FS_Interval, RolesAssumption
  <2>2. QED
    BY <2>1, FS_Subset
<1>2. p \in Nat
  BY <1>1, FS_CardinalityType DEF Position
<1>3. p < 3 => {37 + p} \in SUBSET PrimaryAdvChannels
  <2> HIDE DEF p
  <2>1. p < 3 => p \in {0, 1, 2}
    BY <1>2
  <2>2. QED
    BY <2>1
<1>4. /\ WellFormed(ScanUnmonitored) /\ ScanUnmonitored.kind = "scan"
      /\ WellFormed(Idle) /\ Idle.kind = "idle"
  BY DEF WellFormed, Role, ScanUnmonitored, Idle, RoleOf
<1>5. p < 3 => WellFormed(Pinned({37 + p})) /\ Pinned({37 + p}).kind = "pinned"
  <2> HIDE DEF p
  <2>1. QED
    BY <1>3 DEF WellFormed, Role, Pinned
<1>6. DefaultRole(D, d) \in {ScanUnmonitored, Pinned({37 + p}), Idle}
      /\ (DefaultRole(D, d) = Pinned({37 + p}) => p < 3 \/ Pinned({37 + p}) \in {ScanUnmonitored, Idle})
  BY DEF DefaultRole
<1>7. QED
  <2> HIDE DEF p
  <2>1. QED
    BY <1>4, <1>5, <1>6

(* The empty coordinator.                                                  *)
LEMMA CoordInitIs == CoordInit => CoordInv
BY DEF CoordInit, CoordInv, CoordTypeOK, RoleDrivesSniffer, ScannersHopTheGap, WellFormed,
       Role, NoRole, RoleOf, FreshSniffer, SnifferState

(* Discovery registers dongles without disturbing those already there.     *)
LEMMA RegisterPreserves ==
  ASSUME CoordInv, NEW found \in SUBSET Dongles, Register(found)
  PROVE  CoordInv'
<1> DEFINE new == {d \in found : roles[d].kind = "none"}
<1>1. /\ todo' = found /\ dongles' = found /\ faults' = faults
      /\ roles' = [d \in Dongles |-> IF d \in new THEN Idle ELSE roles[d]]
      /\ sniffers' = [d \in Dongles |-> IF d \in new THEN FreshSniffer ELSE sniffers[d]]
  BY DEF Register
<1>2. /\ roles \in [Dongles -> Role] /\ sniffers \in [Dongles -> SnifferState]
      /\ \A d \in Dongles : WellFormed(roles[d])
  BY DEF CoordInv, CoordTypeOK
<1>3. Idle \in Role /\ WellFormed(Idle) /\ FreshSniffer \in SnifferState
      /\ Idle.kind = "idle" /\ ~FreshSniffer.running
  BY DEF Idle, RoleOf, Role, WellFormed, FreshSniffer, SnifferState
<1>4. CoordTypeOK' /\ \A d \in Dongles : WellFormed(roles'[d])
  BY <1>1, <1>2, <1>3 DEF CoordTypeOK, CoordInv
<1>5. RoleDrivesSniffer'
  BY <1>1, <1>3 DEF CoordInv, RoleDrivesSniffer
<1>6. \A d \in Dongles : roles'[d].kind \in {"pinned", "scan"} => roles'[d] = roles[d] /\ sniffers'[d] = sniffers[d]
  BY <1>1, <1>3
<1>7. \A d \in Dongles : roles[d].kind \in {"pinned", "scan"} => roles'[d] = roles[d]
  BY <1>1
<1>8. Uncovered(roles') = Uncovered(roles)
  BY <1>6, <1>7 DEF Uncovered
<1>9. ScannersHopTheGap'
  <2>1. Uncovered(roles)' = Uncovered(roles)
    BY <1>8 DEF Uncovered
  <2>2. QED
    BY <1>1, <1>6, <2>1 DEF CoordInv, ScannersHopTheGap
<1>10. QED
  BY <1>4, <1>5, <1>9 DEF CoordInv

(* stop_all leaves an empty role table and no subprocess.                  *)
LEMMA StopAllPreserves ==
  ASSUME faults \subseteq MayFail, StopAll, dongles' \subseteq Dongles, todo' \subseteq Dongles
  PROVE  CoordInv'
BY DEF StopAll, CoordInv, CoordTypeOK, RoleDrivesSniffer, ScannersHopTheGap, WellFormed,
       Role, NoRole, RoleOf, FreshSniffer, SnifferState

(* One set_role of a plan.                                                 *)
LEMMA ApplyPlannedPreserves ==
  ASSUME CoordInv, todo \subseteq dongles, NEW d \in Dongles,
         NEW o \in [Dongles -> Outcomes], ApplyPlanned(d, o)
  PROVE  CoordInv' /\ todo' \subseteq dongles'
<1>1. d \in dongles /\ dongles \in SUBSET Dongles /\ SetRole(d, DefaultRole(dongles, d), o)
  BY DEF ApplyPlanned, PlannedNext, CoordInv, CoordTypeOK
<1>2. WellFormed(DefaultRole(dongles, d)) /\ DefaultRole(dongles, d).kind # "none"
  BY <1>1, DefaultRoleIs
<1>3. dongles' = dongles /\ todo' \subseteq todo
  BY DEF ApplyPlanned
<1>4. QED
  BY <1>1, <1>2, <1>3, SetRolePreserves DEF CoordInv, CoordTypeOK

(* follow.                                                                 *)
LEMMA FollowOnePreserves ==
  ASSUME CoordInv, NEW addr \in Addrs, NEW d \in Dongles,
         NEW o \in [Dongles -> Outcomes], FollowOne(addr, d, o)
  PROVE  CoordInv'
<1>1. WellFormed(Follow(addr)) /\ Follow(addr).kind # "none"
  BY DEF Follow, WellFormed, Role
<1>2. QED
  BY <1>1, SetRolePreserves DEF FollowOne, CoordInv, CoordTypeOK

(* restart_one, applied to any set of sniffers with a role: the role table *)
(* is untouched and what is restarted serves its role, or nothing.         *)
LEMMA RestartPreserves ==
  ASSUME CoordInv, NEW S \in SUBSET Dongles, NEW o \in [Dongles -> Outcomes],
         UNCHANGED <<dongles, roles, todo, faults>>,
         sniffers' = [d \in Dongles |-> IF d \in S THEN Restarted(d, o[d]) ELSE sniffers[d]]
  PROVE  CoordInv'
<1>1. /\ roles \in [Dongles -> Role] /\ sniffers \in [Dongles -> SnifferState]
      /\ \A d \in Dongles : WellFormed(roles[d])
  BY DEF CoordInv, CoordTypeOK
<1>2. ASSUME NEW d \in S
      PROVE  LET s == Restarted(d, o[d])
             IN  /\ s \in SnifferState
                 /\ roles[d].kind \in {"none", "idle", "scan"} => ~s.running
                 /\ roles[d].kind = "pinned" /\ s.running => s.adv_hop = roles[d].channels
                 /\ roles[d].kind = "follow" /\ s.running =>
                      s.role = "follow" /\ s.follow_target = roles[d].target
  <2> DEFINE t == Stopped(sniffers[d])
  <2>1. t \in SnifferState /\ ~t.running /\ o[d] \in Outcome /\ WellFormed(roles[d])
    BY <1>1, StoppedIs, OutcomesAre DEF CoordInv
  <2>2. Restarted(d, o[d]) = ApplyRole(t, roles[d], o[d])
    BY DEF Restarted
  <2> HIDE DEF t
  <2>3. QED
    BY <2>1, <2>2, ApplyRoleIs
<1>3. sniffers' \in [Dongles -> SnifferState]
  BY <1>1, <1>2
<1>4. RoleDrivesSniffer'
  BY <1>2 DEF CoordInv, RoleDrivesSniffer
<1>5. ScannersHopTheGap'
  <2>1. \A d \in Dongles : roles[d].kind = "scan" /\ sniffers'[d].running =>
          sniffers'[d] = sniffers[d]
    BY <1>2
  <2>2. roles' = roles /\ Uncovered(roles)' = Uncovered(roles)
    BY DEF Uncovered
  <2>3. QED
    BY <2>1, <2>2 DEF CoordInv, ScannersHopTheGap
<1>6. QED
  BY <1>1, <1>3, <1>4, <1>5 DEF CoordInv, CoordTypeOK
(* A start that succeeds gives the sniffer a subprocess.                   *)
LEMMA OkRuns ==
  ASSUME NEW s \in SnifferState, NEW hop, NEW target
  PROVE  Started(s, hop, target, "ok").running
BY DEF Started

(* Where starts succeed, set_role leaves every role that needs a           *)
(* subprocess with one, whatever had been lost before.                     *)
LEMMA SetRoleAssigns ==
  ASSUME CoordInv, NEW X, AssignedAreRunning(X),
         NEW d \in Dongles, NEW r, WellFormed(r),
         NEW o \in [Dongles -> Outcomes], SetRole(d, r, o)
  PROVE  AssignedAreRunning({})'
<1> DEFINE rs == [roles EXCEPT ![d] = r]
           gap == Uncovered(rs)
           hit(e) == /\ rs[e].kind = "scan"
                     /\ ~ApplyRaises(d, r, o)
                     /\ \A x \in RaisingScanners(rs, o) : e <= x
<1>1. roles' = rs /\ roles \in [Dongles -> Role] /\ sniffers \in [Dongles -> SnifferState]
  BY DEF SetRole, CoordInv, CoordTypeOK
<1>2. \A e \in Dongles : sniffers'[e] =
        IF hit(e) THEN Rescan(sniffers[e], gap, o[e])
        ELSE IF e = d THEN ApplyRole(sniffers[e], r, o[e]) ELSE sniffers[e]
  BY DEF SetRole
<1>3. Uncovered(roles)' = gap
  BY <1>1 DEF Uncovered
<1>4. SUFFICES ASSUME faults = {}, NEW e \in Dongles
      PROVE  /\ rs[e].kind \in {"pinned", "follow"} => sniffers'[e].running
             /\ rs[e].kind = "scan" /\ gap # {} => sniffers'[e].running
  BY <1>1, <1>3 DEF AssignedAreRunning, AssignedRun, SetRole
<1>5. \A x \in Dongles : o[x] = "ok"
  BY <1>4 DEF Outcomes
<1>6. sniffers[e] \in SnifferState /\ o[e] = "ok" /\ sniffers[e].running \in BOOLEAN
  BY <1>1, <1>5 DEF SnifferState
<1>7. CASE rs[e].kind = "scan"
  <2>1. hit(e)
    BY <1>5, <1>7 DEF ApplyRaises, RaisingScanners
  <2>2. sniffers'[e] = Rescan(sniffers[e], gap, "ok")
    BY <1>2, <1>6, <2>1
  <2> HIDE DEF gap
  <2>3. gap # {} => sniffers'[e].running
    <3>1. CASE sniffers[e].running
      BY <1>6, <2>2, <3>1 DEF Rescan, SetAdvHop, SnifferState
    <3>2. CASE ~sniffers[e].running
      BY <1>6, <2>2, <3>2, OkRuns DEF Rescan
    <3>3. QED
      BY <3>1, <3>2
  <2>4. QED
    BY <1>7, <2>3
<1>8. CASE rs[e].kind # "scan" /\ e = d
  <2>1. sniffers'[e] = ApplyRole(sniffers[e], r, "ok") /\ rs[e] = r
    BY <1>1, <1>2, <1>6, <1>8
  <2>2. CASE sniffers[e].running
    BY <1>6, <1>8, <2>1, <2>2 DEF ApplyRole, SetAdvHop, FollowAddress, SnifferState
  <2>3. CASE ~sniffers[e].running
    BY <1>6, <1>8, <2>1, <2>3, OkRuns DEF ApplyRole
  <2>4. QED
    BY <2>2, <2>3
<1>9. CASE rs[e].kind # "scan" /\ e # d
  <2>1. sniffers'[e] = sniffers[e] /\ rs[e] = roles[e]
    BY <1>1, <1>2, <1>9
  <2>2. QED
    BY <1>4, <1>9, <2>1 DEF AssignedAreRunning, AssignedRun
<1>10. QED
  BY <1>7, <1>8, <1>9

(* What a raising start leaves undone: the scanners are out of date only   *)
(* while a sniffer with work to do has no subprocess.                      *)
ScannersRetuned ==
  AssignedRun({}) =>
    \A d \in Dongles :
      roles[d].kind = "scan" /\ sniffers[d].running =>
        sniffers[d].adv_hop = Uncovered(roles) /\ Uncovered(roles) # {}

(* A set_role retunes every scanner, or it raised and the sniffer whose    *)
(* start did is without its subprocess.                                    *)
LEMMA SetRoleRetunes ==
  ASSUME CoordInv, NEW d \in Dongles, NEW r, WellFormed(r),
         NEW o \in [Dongles -> Outcomes], SetRole(d, r, o)
  PROVE  ScannersRetuned'
<1> DEFINE rs == [roles EXCEPT ![d] = r]
           gap == Uncovered(rs)
           hit(e) == /\ rs[e].kind = "scan"
                     /\ ~ApplyRaises(d, r, o)
                     /\ \A x \in RaisingScanners(rs, o) : e <= x
<1>1. /\ roles' = rs /\ rs[d] = r /\ roles \in [Dongles -> Role]
      /\ sniffers \in [Dongles -> SnifferState]
  BY DEF SetRole, CoordInv, CoordTypeOK
<1>2. \A e \in Dongles : sniffers'[e] =
        IF hit(e) THEN Rescan(sniffers[e], gap, o[e])
        ELSE IF e = d THEN ApplyRole(sniffers[e], r, o[e]) ELSE sniffers[e]
  BY DEF SetRole
<1>3. Uncovered(roles)' = gap
  BY <1>1 DEF Uncovered
<1>4. SUFFICES ASSUME \A x \in Dongles :
                        /\ rs[x].kind \in {"pinned", "follow"} => sniffers'[x].running
                        /\ rs[x].kind = "scan" /\ gap # {} => sniffers'[x].running,
                      NEW e \in Dongles, rs[e].kind = "scan", sniffers'[e].running
               PROVE  sniffers'[e].adv_hop = gap /\ gap # {}
  BY <1>1, <1>3 DEF ScannersRetuned, AssignedRun
<1>5. ~ApplyRaises(d, r, o)
  <2> SUFFICES ASSUME ApplyRaises(d, r, o) PROVE FALSE
    OBVIOUS
  <2>1. r.kind \in {"pinned", "follow"} /\ ~sniffers[d].running /\ o[d] = "raise"
    BY DEF ApplyRaises
  <2>2. sniffers'[d] = ApplyRole(sniffers[d], r, "raise")
    BY <1>2, <2>1
  <2>3. sniffers'[d] = sniffers[d]
    BY <2>1, <2>2 DEF ApplyRole, Started
  <2> HIDE DEF rs
  <2>4. QED
    BY <1>1, <1>4, <2>1, <2>3
<1>6. ASSUME NEW x \in RaisingScanners(rs, o) PROVE FALSE
  <2>1. /\ x \in Dongles /\ rs[x].kind = "scan" /\ gap # {}
        /\ ~sniffers[x].running /\ o[x] = "raise"
    BY DEF RaisingScanners
  <2>2. Rescan(sniffers[x], gap, "raise") = sniffers[x]
    <3> HIDE DEF gap
    <3>1. QED
      BY <2>1 DEF Rescan, Started
  <2>3. x = d => ApplyRole(sniffers[x], r, o[x]) = sniffers[x]
    BY <1>1, <2>1 DEF ApplyRole
  <2> HIDE DEF gap, rs, hit
  <2>4. sniffers'[x] = sniffers[x]
    BY <1>2, <2>1, <2>2, <2>3
  <2>5. QED
    BY <1>4, <2>1, <2>4
<1>7. hit(e)
  BY <1>4, <1>5, <1>6
<1>8. sniffers'[e] = Rescan(sniffers[e], gap, o[e])
  BY <1>2, <1>7
<1>9. gap \in SUBSET PrimaryAdvChannels /\ sniffers[e] \in SnifferState /\ o[e] \in Outcome
  BY <1>1, UncoveredIs, OutcomesAre DEF CoordInv
<1>10. QED
  <2> HIDE DEF gap
  <2>1. QED
    BY <1>4, <1>8, <1>9, RescanIs

(* Discovery leaves every sniffer with work, and the gap, as they were.    *)
LEMMA RegisterRetunes ==
  ASSUME CoordInv, ScannersRetuned, NEW found \in SUBSET Dongles, Register(found)
  PROVE  ScannersRetuned'
<1> DEFINE new == {d \in found : roles[d].kind = "none"}
<1>1. /\ roles' = [d \in Dongles |-> IF d \in new THEN Idle ELSE roles[d]]
      /\ sniffers' = [d \in Dongles |-> IF d \in new THEN FreshSniffer ELSE sniffers[d]]
  BY DEF Register
<1>2. Idle.kind = "idle"
  BY DEF Idle, RoleOf
<1>3. \A d \in Dongles : roles'[d].kind \in {"pinned", "scan", "follow"} =>
        roles'[d] = roles[d] /\ sniffers'[d] = sniffers[d]
  BY <1>1, <1>2
<1>4. \A d \in Dongles : roles[d].kind \in {"pinned", "scan", "follow"} =>
        roles'[d] = roles[d] /\ sniffers'[d] = sniffers[d]
  BY <1>1
<1>5. Uncovered(roles)' = Uncovered(roles)
  BY <1>3, <1>4 DEF Uncovered
<1>6. AssignedRun({})' => AssignedRun({})
  BY <1>4, <1>5 DEF AssignedRun
<1>7. QED
  BY <1>3, <1>5, <1>6 DEF ScannersRetuned

(* stop_all leaves nothing to serve.                                       *)
LEMMA StopAllRetunes == ASSUME StopAll PROVE ScannersRetuned'
BY DEF StopAll, ScannersRetuned, NoRole, RoleOf

(* Discovery starts and stops nothing that has a role.                     *)
LEMMA RegisterAssigns ==
  ASSUME CoordInv, NEW X, AssignedAreRunning(X),
         NEW found \in SUBSET Dongles, Register(found)
  PROVE  \A Y : X \subseteq Y => AssignedAreRunning(Y)'
<1> DEFINE new == {d \in found : roles[d].kind = "none"}
<1>1. /\ faults' = faults
      /\ roles' = [d \in Dongles |-> IF d \in new THEN Idle ELSE roles[d]]
      /\ sniffers' = [d \in Dongles |-> IF d \in new THEN FreshSniffer ELSE sniffers[d]]
  BY DEF Register
<1>2. Idle.kind = "idle"
  BY DEF Idle, RoleOf
<1>3. \A d \in Dongles : roles'[d].kind \in {"pinned", "scan", "follow"} =>
        roles'[d] = roles[d] /\ sniffers'[d] = sniffers[d]
  BY <1>1, <1>2
<1>4. \A d \in Dongles : roles[d].kind \in {"pinned", "scan"} => roles'[d] = roles[d]
  BY <1>1
<1>5. Uncovered(roles)' = Uncovered(roles)
  BY <1>3, <1>4 DEF Uncovered
<1>6. QED
  BY <1>1, <1>3, <1>5 DEF AssignedAreRunning, AssignedRun

(* stop_all leaves no role to serve.                                       *)
LEMMA StopAllAssigns ==
  ASSUME StopAll, NEW X PROVE AssignedAreRunning(X)'
BY DEF StopAll, AssignedAreRunning, AssignedRun, NoRole, RoleOf

(* restart_one brings back a pinned or following sniffer; a scanning one   *)
(* is lost and has to be excused.                                          *)
LEMMA RestartAssigns ==
  ASSUME CoordInv, NEW X, AssignedAreRunning(X),
         NEW S \in SUBSET Dongles, NEW o \in [Dongles -> Outcomes],
         UNCHANGED <<dongles, roles, todo, faults>>,
         sniffers' = [d \in Dongles |-> IF d \in S THEN Restarted(d, o[d]) ELSE sniffers[d]]
  PROVE  \A Y : X \cup S \subseteq Y => AssignedAreRunning(Y)'
<1>1. roles' = roles /\ Uncovered(roles)' = Uncovered(roles)
  BY DEF Uncovered
<1>2. SUFFICES ASSUME faults = {}, NEW Y, X \cup S \subseteq Y, NEW d \in Dongles
      PROVE  /\ roles[d].kind \in {"pinned", "follow"} => sniffers'[d].running
             /\ roles[d].kind = "scan" /\ Uncovered(roles) # {} /\ d \notin Y =>
                  sniffers'[d].running
  BY <1>1 DEF AssignedAreRunning, AssignedRun
<1>3. CASE d \in S
  <2>1. o[d] = "ok" /\ sniffers[d] \in SnifferState
    BY <1>2 DEF Outcomes, CoordInv, CoordTypeOK
  <2>2. Stopped(sniffers[d]) \in SnifferState /\ ~Stopped(sniffers[d]).running
    BY <2>1, StoppedIs
  <2>3. sniffers'[d] = ApplyRole(Stopped(sniffers[d]), roles[d], "ok")
    BY <1>3, <2>1 DEF Restarted
  <2>4. roles[d].kind \in {"pinned", "follow"} => sniffers'[d].running
    BY <2>2, <2>3, OkRuns DEF ApplyRole
  <2>5. QED
    BY <1>2, <1>3, <2>4
<1>4. CASE d \notin S
  BY <1>2, <1>4 DEF AssignedAreRunning, AssignedRun
<1>5. QED
  BY <1>3, <1>4

-----------------------------------------------------------------------------
LEMMA DonglesAreFinite ==
  ASSUME NEW D \in SUBSET Dongles PROVE IsFiniteSet(D) /\ Cardinality(D) \in Nat
<1>1. IsFiniteSet(Dongles)
  BY FS_Interval, RolesAssumption
<1>2. IsFiniteSet(D)
  BY <1>1, FS_Subset
<1>3. QED
  BY <1>2, FS_CardinalityType

(* The plan lists the dongles in one order: each position up to their      *)
(* number is taken by one of them.                                         *)
LEMMA PositionIs ==
  ASSUME NEW D \in SUBSET Dongles, NEW d \in D
  PROVE  /\ IsFiniteSet(D) /\ Cardinality(D) \in Nat
         /\ Position(D, d) \in 0..(Cardinality(D) - 1)
<1>1. IsFiniteSet(D) /\ Cardinality(D) \in Nat
  BY DonglesAreFinite
<1> DEFINE before == {e \in D : Before(D, e, d)}
<1>2. ~Before(D, d, d)
  BY DEF Before
<1>3. before \in SUBSET (D \ {d})
  BY <1>2
<1>4. IsFiniteSet(D \ {d}) /\ Cardinality(D \ {d}) = Cardinality(D) - 1
  BY <1>1, FS_RemoveElement
<1>5. Cardinality(before) \in Nat /\ Cardinality(before) <= Cardinality(D) - 1
  <2> HIDE DEF before
  <2> QED BY <1>3, <1>4, FS_Subset, FS_CardinalityType
<1>6. QED
  BY <1>1, <1>5 DEF Position

LEMMA PositionsDiffer ==
  ASSUME NEW D \in SUBSET Dongles, NEW a \in D, NEW b \in D, a # b
  PROVE  Position(D, a) # Position(D, b)
<1> DEFINE before(x) == {e \in D : Before(D, e, x)}
<1>1. \A x, y \in D : x # y => Before(D, x, y) \/ Before(D, y, x)
  BY DEF Before
<1>2. \A x, y, z \in D : Before(D, x, y) /\ Before(D, y, z) => Before(D, x, z)
  BY DEF Before
<1>3. \A x \in D : ~Before(D, x, x)
  BY DEF Before
<1>4. ASSUME NEW x \in D, NEW y \in D, Before(D, x, y) PROVE Position(D, x) # Position(D, y)
  <2>1. before(x) \in SUBSET before(y) /\ x \in before(y) /\ x \notin before(x)
    BY <1>2, <1>3, <1>4
  <2>2. IsFiniteSet(before(y))
    BY PositionIs, FS_Subset
  <2> HIDE DEF before
  <2>3. Cardinality(before(x)) # Cardinality(before(y))
    BY <2>1, <2>2, FS_Subset
  <2>4. QED
    BY <2>3 DEF Position, before
<1>5. QED
  BY <1>1, <1>4

LEMMA PositionsAreTaken ==
  ASSUME NEW D \in SUBSET Dongles, NEW p \in 0..(Cardinality(D) - 1)
  PROVE  \E d \in D : Position(D, d) = p
<1>1. IsFiniteSet(D) /\ Cardinality(D) \in Nat
  BY DonglesAreFinite
<1> DEFINE n == Cardinality(D)
           f == [d \in D |-> Position(D, d)]
<1>2. f \in [D -> 0..(n - 1)]
  BY PositionIs
<1>3. \A a, b \in D : f[a] = f[b] => a = b
  BY PositionsDiffer
<1>4. IsFiniteSet(0..(n - 1)) /\ Cardinality(0..(n - 1)) = n
  BY <1>1, FS_Interval
<1> HIDE DEF n
<1>5. f \in Surjection(D, 0..(n - 1))
  <2> HIDE DEF f
  <2>1. f \in Injection(D, 0..(n - 1))
    BY <1>2, <1>3 DEF Injection, IsInjective
  <2>2. QED
    BY <1>4, <2>1, FS_Injection DEF n
<1>6. QED
  BY <1>5 DEF Surjection, n

(* Three dongles or more: the plan pins one to each primary channel ...    *)
LEMMA PlanPinsEachPrimary ==
  ASSUME NEW D \in SUBSET Dongles, Cardinality(D) >= 3, NEW c \in PrimaryAdvChannels
  PROVE  \E d \in D : DefaultRole(D, d) = Pinned({c}) /\ Position(D, d) < 3
<1>1. Cardinality(D) \in Nat
  BY DonglesAreFinite
<1>2. c - 37 \in 0..(Cardinality(D) - 1) /\ c - 37 < 3 /\ 37 + (c - 37) = c
  BY <1>1
<1>3. PICK d \in D : Position(D, d) = c - 37
  BY <1>2, PositionsAreTaken
<1>4. DefaultRole(D, d) = Pinned({37 + (c - 37)})
  BY <1>1, <1>2, <1>3 DEF DefaultRole
<1>5. QED
  BY <1>2, <1>3, <1>4

(* ... and no more than three in all; the others are left Idle.            *)
LEMMA PlanReservesTheRest ==
  ASSUME NEW D \in SUBSET Dongles, Cardinality(D) >= 3
  PROVE  /\ \A d \in D : Position(D, d) >= 3 => DefaultRole(D, d) = Idle
         /\ \A d \in D : Position(D, d) < 3 => DefaultRole(D, d).kind = "pinned"
         /\ IsFiniteSet({d \in D : Position(D, d) < 3})
         /\ Cardinality({d \in D : Position(D, d) < 3}) <= 3
<1> DEFINE first == {d \in D : Position(D, d) < 3}
           f == [d \in first |-> Position(D, d)]
<1>1. IsFiniteSet(D) /\ Cardinality(D) \in Nat
  BY DonglesAreFinite
<1>2. \A d \in D : Position(D, d) \in Nat
  BY <1>1, PositionIs
<1>3. \A d \in D : Position(D, d) >= 3 => DefaultRole(D, d) = Idle
  BY <1>1, <1>2 DEF DefaultRole
<1>4. \A d \in D : Position(D, d) < 3 => DefaultRole(D, d).kind = "pinned"
  BY <1>1, <1>2 DEF DefaultRole, Pinned
<1>5. \A d \in first : Position(D, d) \in 0..2
  BY <1>2
<1>6. \A a, b \in first : f[a] = f[b] => a = b
  BY PositionsDiffer
<1>7. IsFiniteSet(0..2) /\ Cardinality(0..2) = 3
  <2>1. 0 \in Int /\ 2 \in Int /\ ~(0 > 2) /\ 2 - 0 + 1 = 3
    OBVIOUS
  <2>2. Cardinality(0..2) = IF 0 > 2 THEN 0 ELSE 2 - 0 + 1
    BY <2>1, FS_Interval
  <2>3. QED
    BY <2>1, <2>2, FS_Interval
<1>8. IsFiniteSet(first) /\ Cardinality(first) <= 3
  <2> HIDE DEF first
  <2>1. f \in Injection(first, 0..2)
    BY <1>5, <1>6 DEF Injection, IsInjective
  <2>2. QED
    BY <1>7, <2>1, FS_Injection
<1>9. QED
  BY <1>3, <1>4, <1>8

-----------------------------------------------------------------------------
(* The interactive command: `btviz sniffers`.                              *)
HIDE DEF Dongles, PrimaryAdvChannels

(* A plan under way is a plan for dongles of the discovery result, where   *)
(* starts succeed every sniffer with work runs, and scanners are out of    *)
(* date only while one does not.                                           *)
CliInv ==
  /\ CliTypeOK
  /\ CoordInv
  /\ todo \subseteq dongles
  /\ AssignedAreRunning({})
  /\ ScannersRetuned

LEMMA InitCliInv == CliInit => CliInv
<1> SUFFICES ASSUME CliInit PROVE CliInv
  OBVIOUS
<1>1. CoordInv
  BY CoordInitIs DEF CliInit
<1>2. CliTypeOK /\ todo \subseteq dongles
  BY <1>1 DEF CliInit, CoordInit, CliTypeOK, CoordInv, CliStates
<1>3. ScannersRetuned /\ AssignedAreRunning({})
  BY DEF CliInit, CoordInit, ScannersRetuned, AssignedAreRunning, AssignedRun, NoRole, RoleOf
<1>4. QED
  BY <1>1, <1>2, <1>3 DEF CliInv

LEMMA NextCliInv == CliInv /\ [CliNext]_cliVars => CliInv'
<1> SUFFICES ASSUME CliInv, [CliNext]_cliVars PROVE CliInv'
  OBVIOUS
<1>1. /\ CliTypeOK /\ CoordInv /\ CoordTypeOK /\ todo \subseteq dongles
      /\ AssignedAreRunning({}) /\ ScannersRetuned
  BY DEF CliInv, CoordInv
<1>2. ASSUME NEW found \in SUBSET Dongles, Boot(found) \/ RefreshCommand(found)
      PROVE  CliInv'
  <2>1. Register(found) /\ cli' \in {"planning", "repl", "refreshing"}
    BY <1>2 DEF Boot, RefreshCommand
  <2>2. CoordInv' /\ todo' \subseteq dongles'
    BY <1>1, <2>1, RegisterPreserves DEF Register
  <2>3. AssignedAreRunning({})' /\ ScannersRetuned'
    BY <1>1, <2>1, RegisterAssigns, RegisterRetunes
  <2>4. QED
    BY <2>1, <2>2, <2>3 DEF CliInv, CliTypeOK, CoordInv, CliStates
<1>3. ASSUME NEW d \in Dongles, NEW o \in Starts, Plan(d, o)
      PROVE  CliInv'
  <2>1. ApplyPlanned(d, o) /\ cli' \in {"planning", "refreshing", "crashed", "failing", "repl"}
    BY <1>3 DEF Plan
  <2>2. CoordInv' /\ todo' \subseteq dongles'
    BY <1>1, <2>1, ApplyPlannedPreserves DEF Starts
  <2>3. d \in dongles /\ dongles \in SUBSET Dongles /\ SetRole(d, DefaultRole(dongles, d), o)
    BY <1>1, <2>1 DEF ApplyPlanned, PlannedNext, CoordTypeOK
  <2>4. WellFormed(DefaultRole(dongles, d))
    BY <2>3, DefaultRoleIs
  <2>5. AssignedAreRunning({})' /\ ScannersRetuned'
    BY <1>1, <2>3, <2>4, SetRoleAssigns, SetRoleRetunes DEF Starts
  <2>6. QED
    BY <2>1, <2>2, <2>5 DEF CliInv, CliTypeOK, CoordInv, CliStates
<1>4. ASSUME NEW d \in Dongles, NEW r \in UserRoles, NEW o \in Starts, Command(d, r, o)
      PROVE  CliInv'
  <2>1. SetRole(d, r, o) /\ UNCHANGED <<dongles, todo, cli>> /\ cli = "repl"
    BY <1>4 DEF Command
  <2>2. WellFormed(r) /\ r.kind # "none"
    <3>1. \A c \in PinChoices : WellFormed(Pinned(c)) /\ Pinned(c).kind = "pinned"
      BY PinChoicesAssumption DEF WellFormed, Pinned, Role
    <3>2. \A a \in Addrs : WellFormed(Follow(a)) /\ Follow(a).kind = "follow"
      BY DEF WellFormed, Follow, Role
    <3>3. /\ WellFormed(Idle) /\ Idle.kind = "idle"
          /\ WellFormed(ScanUnmonitored) /\ ScanUnmonitored.kind = "scan"
      BY DEF WellFormed, Idle, ScanUnmonitored, RoleOf, Role
    <3>4. QED
      BY <3>1, <3>2, <3>3 DEF UserRoles
  <2>3. CoordInv'
    BY <1>1, <2>1, <2>2, SetRolePreserves DEF Starts, CoordInv, CoordTypeOK
  <2>4. AssignedAreRunning({})' /\ ScannersRetuned'
    BY <1>1, <2>1, <2>2, SetRoleAssigns, SetRoleRetunes DEF Starts
  <2>5. QED
    BY <1>1, <2>1, <2>3, <2>4 DEF CliInv, CliTypeOK, CoordInv, CliStates
<1>5. CASE Quit
  <2>1. StopAll /\ cli' = "exited" /\ UNCHANGED <<dongles, todo>>
    BY <1>5 DEF Quit
  <2>2. CoordInv'
    BY <1>1, <2>1, StopAllPreserves DEF CoordTypeOK
  <2>3. AssignedAreRunning({})' /\ ScannersRetuned'
    BY <2>1, StopAllAssigns, StopAllRetunes
  <2>4. QED
    BY <1>1, <2>1, <2>2, <2>3 DEF CliInv, CliTypeOK, CoordInv, CliStates
<1>6. CASE UNCHANGED cliVars
  BY <1>1, <1>6 DEF cliVars, coordVars, CliInv, CliTypeOK, CoordInv, CoordTypeOK, RoleDrivesSniffer,
                    ScannersHopTheGap, AssignedAreRunning, AssignedRun, ScannersRetuned, Uncovered
<1>7. QED
  BY <1>2, <1>3, <1>4, <1>5, <1>6 DEF CliNext

(* CliInv holds in every reachable state.                                    *)
THEOREM CliInvariant == CliSpec => []CliInv
BY InitCliInv, NextCliInv, PTL DEF CliSpec

(* Whatever is typed and whichever start fails, roles and subprocesses     *)
(* agree.                                                                  *)
THEOREM CliHonoursRoles == CliSpec => []RoleDrivesSniffer
<1>1. CliInv => RoleDrivesSniffer
  BY DEF CliInv, CoordInv, RoleDrivesSniffer
<1>2. QED
  BY <1>1, CliInvariant, PTL

(* Unless a start raises, a running scanning sniffer hops exactly the      *)
(* channels nobody pins.                                                   *)
THEOREM CliScansTheRest == CliSpec => []ScanCoversTheRest
<1>1. CliInv => ScanCoversTheRest
  BY DEF CliInv, CoordInv, ScanCoversTheRest
<1>2. QED
  BY <1>1, CliInvariant, PTL

(* Whatever has raised before, with every assigned sniffer up again the    *)
(* pinned ones and the scanning ones together hop every primary.           *)
THEOREM CliCoverageComesBack == CliSpec => []CoverageComesBack
<1>1. ASSUME CliInv PROVE CoverageComesBack
  <2> SUFFICES ASSUME AssignedRun({}), NEW s \in Dongles, roles[s].kind = "scan",
                      NEW c \in PrimaryAdvChannels
               PROVE  \E d \in Dongles : sniffers[d].running /\ c \in sniffers[d].adv_hop
    BY DEF CoverageComesBack
  <2>1. RoleDrivesSniffer /\ ScannersRetuned
    BY <1>1 DEF CliInv, CoordInv
  <2>2. CASE c \in Uncovered(roles)
    <3>1. sniffers[s].running
      BY <2>2 DEF AssignedRun
    <3>2. sniffers[s].adv_hop = Uncovered(roles)
      BY <2>1, <3>1 DEF ScannersRetuned
    <3>3. QED
      BY <2>2, <3>1, <3>2
  <2>3. CASE c \notin Uncovered(roles)
    <3>1. PICK d \in Dongles : roles[d].kind = "pinned" /\ c \in roles[d].channels
      BY <2>3 DEF Uncovered
    <3>2. sniffers[d].running
      BY <3>1 DEF AssignedRun
    <3>3. sniffers[d].adv_hop = roles[d].channels
      BY <2>1, <3>1, <3>2 DEF RoleDrivesSniffer
    <3>4. QED
      BY <3>1, <3>2, <3>3
  <2>4. QED
    BY <2>2, <2>3
<1>2. QED
  BY <1>1, CliInvariant, PTL

(* Where starts succeed, one sniffer with the scanning role is enough for  *)
(* every primary channel to be hopped.                                     *)
THEOREM CliFillsGaps == CliSpec => []GapsAreFilled
<1>1. CliInv /\ CoverageComesBack => GapsAreFilled
  BY DEF CliInv, AssignedAreRunning, CoverageComesBack, GapsAreFilled
<1>2. QED
  BY <1>1, CliInvariant, CliCoverageComesBack, PTL

-----------------------------------------------------------------------------
(* The canvas session.                                                     *)
(* WatchdogGivesUpOnce needs the attempts to be numbers, RolesAreHonoured  *)
(* needs the whole of CoordInv, and a plan can only be carried on when the *)
(* dongles left to do are dongles of the discovery result.                 *)
IInv ==
  /\ TypeOK
  /\ CoordInv
  /\ todo \subseteq dongles
  /\ WatchdogGivesUpOnce
  /\ StoppedIsClean

USE SessionAssumption

(* A sniffer's clock starts again when its subprocess is spawned.          *)
LEMMA SpawnedIs ==
  ASSUME NEW S \in SUBSET Dongles, NEW W \in SUBSET Dongles, TypeOK, Spawned(S, W)
  PROVE  wedged' \subseteq Dongles /\ silent' \in [Dongles -> 0..(Threshold + 1)]
BY DEF Spawned, TypeOK

LEMMA InitIInv == Init => IInv
<1> SUFFICES ASSUME Init PROVE IInv
  OBVIOUS
<1>1. CoordInv
  BY CoordInitIs DEF Init
<1>2. TypeOK /\ todo \subseteq dongles
  BY <1>1 DEF Init, CoordInit, TypeOK, CoordInv
<1>3. WatchdogGivesUpOnce /\ StoppedIsClean
  BY DEF Init, CoordInit, WatchdogGivesUpOnce, StoppedIsClean, FreshSniffer, NoRole, RoleOf
<1>4. QED
  BY <1>1, <1>2, <1>3 DEF IInv

(* The tick counts an attempt only for a sniffer it does not know as stuck *)
(* and flags it in the very step in which the count passes the limit.      *)
LEMMA TickCounts ==
  ASSUME IInv, NEW o \in Starts, NEW W \in SUBSET Dongles, WatchdogTick(o, W)
  PROVE  attempts' \in [Dongles -> Nat] /\ stuck' \subseteq Dongles /\ WatchdogGivesUpOnce'
<1>1. /\ attempts \in [Dongles -> Nat] /\ stuck \subseteq Dongles /\ WatchdogGivesUpOnce
      /\ attempts' = [d \in Dongles |-> IF d \in Attempted THEN attempts[d] + 1 ELSE attempts[d]]
      /\ stuck' = stuck \cup GivenUp
  BY DEF IInv, TypeOK, WatchdogTick
<1>2. \A d \in Attempted : d \in Dongles /\ d \notin stuck
  BY DEF Attempted, Eligible
<1>3. \A d \in Dongles : d \in GivenUp <=> d \in Attempted /\ attempts[d] + 1 > MaxAttempts
  BY DEF GivenUp, Attempted
<1>4. attempts' \in [Dongles -> Nat] /\ stuck' \subseteq Dongles
  BY <1>1, <1>2, <1>3 DEF GivenUp
<1>5. ASSUME NEW d \in Dongles
      PROVE  attempts'[d] <= MaxAttempts + 1 /\ (d \in stuck' <=> attempts'[d] = MaxAttempts + 1)
  <2>1. /\ attempts[d] \in Nat /\ attempts[d] <= MaxAttempts + 1
        /\ d \in stuck <=> attempts[d] = MaxAttempts + 1
    BY <1>1 DEF WatchdogGivesUpOnce
  <2>2. CASE d \in Attempted
    BY <1>1, <1>2, <1>3, <2>1, <2>2
  <2>3. CASE d \notin Attempted
    BY <1>1, <1>3, <2>1, <2>3
  <2>4. QED
    BY <2>2, <2>3
<1>6. QED
  BY <1>4, <1>5 DEF WatchdogGivesUpOnce

LEMMA NextIInv == IInv /\ [Next]_vars => IInv'
<1> SUFFICES ASSUME IInv, [Next]_vars PROVE IInv'
  OBVIOUS
<1>1. /\ TypeOK /\ CoordInv /\ CoordTypeOK /\ todo \subseteq dongles
      /\ WatchdogGivesUpOnce /\ StoppedIsClean
  BY DEF IInv, CoordInv
<1>2. CASE \E found \in SUBSET Dongles : StartLive(found)
  <2>1. PICK found \in SUBSET Dongles : StartLive(found)
    BY <1>2
  <2>2. Register(found) /\ phase' = "starting" /\ UNCHANGED <<wedged, silent, watchVars>>
    BY <2>1 DEF StartLive
  <2>3. CoordInv' /\ todo' \subseteq dongles'
    BY <1>1, <2>2, RegisterPreserves DEF Register
  <2>4. TypeOK'
    BY <1>1, <2>2, <2>3 DEF TypeOK, CoordInv, watchVars
  <2>5. WatchdogGivesUpOnce' /\ StoppedIsClean'
    BY <1>1, <2>2 DEF WatchdogGivesUpOnce, StoppedIsClean, watchVars
  <2>6. QED
    BY <2>3, <2>4, <2>5 DEF IInv
<1>3. ASSUME NEW d \in Dongles, NEW o \in Starts, NEW W \in SUBSET Dongles, StartPlanned(d, o, W)
      PROVE  IInv'
  <2>1. /\ ApplyPlanned(d, o) /\ Spawned(NewlyRunning, W)
        /\ phase' \in {"broken", "live", "starting"} /\ UNCHANGED watchVars
    BY <1>3 DEF StartPlanned
  <2>2. CoordInv' /\ todo' \subseteq dongles'
    BY <1>1, <2>1, ApplyPlannedPreserves DEF Starts
  <2>3. TypeOK'
    BY <1>1, <2>1, <2>2, SpawnedIs DEF TypeOK, CoordInv, watchVars, NewlyRunning
  <2>4. WatchdogGivesUpOnce' /\ StoppedIsClean'
    BY <1>1, <2>1 DEF WatchdogGivesUpOnce, StoppedIsClean, watchVars
  <2>5. QED
    BY <2>2, <2>3, <2>4 DEF IInv
<1>4. ASSUME NEW a \in Addrs, NEW d \in Dongles, NEW o \in Starts, NEW W \in SUBSET Dongles,
             FollowDevice(a, d, o, W)
      PROVE  IInv'
  <2>1. /\ FollowOne(a, d, o) /\ Spawned(NewlyRunning, W)
        /\ phase \in {"live", "broken"} /\ UNCHANGED <<phase, watchVars>>
    BY <1>4 DEF FollowDevice
  <2>2. CoordInv' /\ todo' \subseteq dongles'
    BY <1>1, <2>1, FollowOnePreserves DEF Starts, FollowOne
  <2>3. TypeOK'
    BY <1>1, <2>1, <2>2, SpawnedIs DEF TypeOK, CoordInv, watchVars, NewlyRunning
  <2>4. WatchdogGivesUpOnce' /\ StoppedIsClean'
    BY <1>1, <2>1 DEF WatchdogGivesUpOnce, StoppedIsClean, watchVars
  <2>5. QED
    BY <2>2, <2>3, <2>4 DEF IInv
<1>5. ASSUME NEW o \in Starts, NEW W \in SUBSET Dongles, WatchdogTick(o, W)
      PROVE  IInv'
  <2> DEFINE S == Attempted \ GivenUp
  <2>1. /\ sniffers' = [d \in Dongles |-> IF d \in S THEN Restarted(d, o[d]) ELSE sniffers[d]]
        /\ sinceAttempt' = [d \in Dongles |-> IF d \in Attempted THEN 0 ELSE sinceAttempt[d]]
        /\ Spawned({d \in S : sniffers'[d].running}, W)
        /\ phase = "live" /\ UNCHANGED <<dongles, roles, todo, faults, phase>>
    BY <1>5 DEF WatchdogTick
  <2>2. S \in SUBSET Dongles
    BY DEF Attempted
  <2>3. CoordInv'
    <3> HIDE DEF S
    <3> QED BY <1>1, <2>1, <2>2, RestartPreserves DEF Starts
  <2>4. wedged' \subseteq Dongles /\ silent' \in [Dongles -> 0..(Threshold + 1)]
    <3> HIDE DEF S
    <3> QED BY <1>1, <2>1, <2>2, SpawnedIs
  <2>5. attempts' \in [Dongles -> Nat] /\ stuck' \subseteq Dongles /\ WatchdogGivesUpOnce'
    BY <1>5, TickCounts
  <2>6. sinceAttempt' \in [Dongles -> 0..MinGap]
    BY <1>1, <2>1 DEF TypeOK
  <2>7. TypeOK'
    BY <1>1, <2>1, <2>3, <2>4, <2>5, <2>6 DEF TypeOK, CoordInv
  <2>8. StoppedIsClean'
    BY <2>1 DEF StoppedIsClean
  <2>9. QED
    BY <1>1, <2>1, <2>3, <2>5, <2>7, <2>8 DEF IInv
<1>6. CASE StopLive
  <2>1. CoordInv'
    BY <1>1, <1>6, StopAllPreserves DEF StopLive, CoordTypeOK
  <2>2. TypeOK'
    BY <1>6, <2>1 DEF TypeOK, StopLive, CoordInv
  <2>3. WatchdogGivesUpOnce' /\ StoppedIsClean'
    BY <1>6 DEF StopLive, StopAll, WatchdogGivesUpOnce, StoppedIsClean, FreshSniffer, NoRole, RoleOf
  <2>4. QED
    BY <1>6, <2>1, <2>2, <2>3 DEF IInv, StopLive
<1>7. ASSUME UNCHANGED <<coordVars, phase, attempts, stuck>>, TypeOK'
      PROVE  IInv'
  <2>1. CoordInv'
    BY <1>1, <1>7 DEF CoordInv, CoordTypeOK, RoleDrivesSniffer, ScannersHopTheGap, Uncovered, coordVars
  <2>2. WatchdogGivesUpOnce' /\ StoppedIsClean'
    BY <1>1, <1>7 DEF WatchdogGivesUpOnce, StoppedIsClean, coordVars
  <2>3. QED
    BY <1>1, <1>7, <2>1, <2>2 DEF IInv, coordVars
<1>8. CASE Clock
  <2>1. silent' \in [Dongles -> 0..(Threshold + 1)] /\ sinceAttempt' \in [Dongles -> 0..MinGap]
    <3>1. \A d \in Dongles : /\ Least(silent[d] + 1, Threshold + 1) \in 0..(Threshold + 1)
                            /\ Least(sinceAttempt[d] + 1, MinGap) \in 0..MinGap
      BY <1>1 DEF TypeOK, Least
    <3>2. QED
      BY <1>1, <1>8, <3>1 DEF Clock, TypeOK
  <2>2. TypeOK'
    BY <1>1, <1>8, <2>1 DEF Clock, TypeOK, CoordTypeOK, coordVars
  <2>3. QED
    BY <1>7, <1>8, <2>2 DEF Clock
<1>9. ASSUME NEW d \in Dongles, Packet(d) \/ Wedge(d)
      PROVE  IInv'
  <2>1. TypeOK'
    BY <1>1, <1>9 DEF Packet, Wedge, TypeOK, CoordTypeOK, coordVars, watchVars
  <2>2. QED
    BY <1>7, <1>9, <2>1 DEF Packet, Wedge, watchVars
<1>10. CASE UNCHANGED vars
  <2>1. TypeOK'
    BY <1>1, <1>10 DEF vars, TypeOK, CoordTypeOK, coordVars, watchVars
  <2>2. QED
    BY <1>7, <1>10, <2>1 DEF vars, watchVars
<1>11. QED
  BY <1>2, <1>3, <1>4, <1>5, <1>6, <1>8, <1>9, <1>10 DEF Next

(* IInv holds in every reachable state.                                    *)
THEOREM SessionInvariant == Spec => []IInv
BY InitIInv, NextIInv, PTL DEF Spec

(* Every variable of the session keeps its type, for any number of dongles *)
(* and any limits of the watchdog.                                         *)
THEOREM SessionTypes == Spec => []TypeOK
<1>1. IInv => TypeOK
  BY DEF IInv
<1>2. QED
  BY <1>1, SessionInvariant, PTL

(* No interleaving of plans, follow requests, watchdog restarts, failing   *)
(* starts and stops separates roles from subprocesses: an Idle or unknown  *)
(* dongle has no subprocess, a running one serves its role.                *)
THEOREM SessionHonoursRoles == Spec => []RolesAreHonoured
<1>1. IInv => RolesAreHonoured
  BY DEF IInv, CoordInv, RolesAreHonoured
<1>2. QED
  BY <1>1, SessionInvariant, PTL

(* The watchdog makes at most max_attempts restarts per session and        *)
(* sniffer, and flags a sniffer stuck exactly when it declined one more.   *)
THEOREM SessionGivesUpOnce == Spec => []WatchdogGivesUpOnce
<1>1. IInv => WatchdogGivesUpOnce
  BY DEF IInv
<1>2. QED
  BY <1>1, SessionInvariant, PTL

(* However a session ended, nothing of it is left when the canvas says     *)
(* that it is stopped.                                                     *)
THEOREM SessionStopsClean == Spec => []StoppedIsClean
<1>1. IInv => StoppedIsClean
  BY DEF IInv
<1>2. QED
  BY <1>1, SessionInvariant, PTL
(* Carried along next to IInv: who has a subprocess when starts succeed.   *)
RInv == IInv /\ AssignedSniffersRun

LEMMA NextRInv == RInv /\ [Next]_vars => RInv'
<1> SUFFICES ASSUME RInv, [Next]_vars PROVE AssignedSniffersRun'
  BY NextIInv DEF RInv
<1> DEFINE X == {d \in Dongles : attempts[d] > 0}
<1>1. IInv /\ CoordInv /\ AssignedAreRunning(X)
  BY DEF RInv, IInv, AssignedSniffersRun
<1>2. ASSUME UNCHANGED attempts PROVE X' = X
  BY <1>2
<1>3. CASE \E found \in SUBSET Dongles : StartLive(found)
  BY <1>1, <1>2, <1>3, RegisterAssigns DEF StartLive, watchVars, AssignedSniffersRun
<1>4. ASSUME AssignedAreRunning({})' PROVE AssignedSniffersRun'
  BY <1>4 DEF AssignedSniffersRun, AssignedAreRunning, AssignedRun
<1>5. ASSUME NEW d \in Dongles, NEW o \in Starts, NEW W \in SUBSET Dongles, StartPlanned(d, o, W)
      PROVE  AssignedSniffersRun'
  <2>1. d \in dongles /\ dongles \in SUBSET Dongles /\ SetRole(d, DefaultRole(dongles, d), o)
    BY <1>1, <1>5 DEF StartPlanned, ApplyPlanned, PlannedNext, IInv, TypeOK, CoordTypeOK
  <2>2. WellFormed(DefaultRole(dongles, d))
    BY <2>1, DefaultRoleIs
  <2>3. QED
    BY <1>1, <1>4, <2>1, <2>2, SetRoleAssigns DEF Starts
<1>6. ASSUME NEW a \in Addrs, NEW d \in Dongles, NEW o \in Starts, NEW W \in SUBSET Dongles,
             FollowDevice(a, d, o, W)
      PROVE  AssignedSniffersRun'
  <2>1. SetRole(d, Follow(a), o) /\ WellFormed(Follow(a))
    BY <1>6 DEF FollowDevice, FollowOne, Follow, WellFormed, Role
  <2>2. QED
    BY <1>1, <1>4, <2>1, SetRoleAssigns DEF Starts
<1>7. ASSUME NEW o \in Starts, NEW W \in SUBSET Dongles, WatchdogTick(o, W)
      PROVE  AssignedSniffersRun'
  <2> DEFINE S == Attempted \ GivenUp
  <2>1. /\ UNCHANGED <<dongles, roles, todo, faults>> /\ S \in SUBSET Dongles
        /\ sniffers' = [d \in Dongles |-> IF d \in S THEN Restarted(d, o[d]) ELSE sniffers[d]]
        /\ attempts' = [d \in Dongles |-> IF d \in Attempted THEN attempts[d] + 1 ELSE attempts[d]]
    BY <1>7 DEF WatchdogTick, Attempted
  <2>2. attempts \in [Dongles -> Nat]
    BY <1>1 DEF IInv, TypeOK
  <2>3. X \cup S \subseteq X'
    BY <2>1, <2>2 DEF Attempted
  <2>4. PICK Y : Y = X'
    OBVIOUS
  <2>5. AssignedAreRunning(Y)'
    <3> HIDE DEF S, X
    <3> QED BY <1>1, <2>1, <2>3, <2>4, RestartAssigns DEF Starts
  <2>6. QED
    BY <2>4, <2>5 DEF AssignedSniffersRun, AssignedAreRunning, AssignedRun
<1>8. CASE StopLive
  BY <1>4, <1>8, StopAllAssigns DEF StopLive
<1>9. CASE Clock \/ (\E d \in Dongles : Packet(d) \/ Wedge(d)) \/ UNCHANGED vars
  <2>1. UNCHANGED <<coordVars, attempts>>
    BY <1>9 DEF Clock, Packet, Wedge, vars, watchVars
  <2>2. QED
    BY <1>1, <2>1 DEF AssignedSniffersRun, AssignedAreRunning, AssignedRun, Uncovered, coordVars
<1>10. QED
  BY <1>3, <1>5, <1>6, <1>7, <1>8, <1>9 DEF Next

(* Where starts succeed, no order of plans, follow requests, restarts and  *)
(* stops leaves a pinned or following sniffer without a subprocess, and a  *)
(* scanning one only if the watchdog restarted it.                         *)
THEOREM SessionKeepsSniffersRunning == Spec => []AssignedSniffersRun
<1>1. Init => AssignedSniffersRun
  BY DEF Init, CoordInit, AssignedSniffersRun, AssignedAreRunning, AssignedRun, NoRole, RoleOf
<1>2. Init => RInv
  BY <1>1, InitIInv DEF RInv
<1>3. RInv => AssignedSniffersRun
  BY DEF RInv
<1>4. QED
  BY <1>2, <1>3, NextRInv, PTL DEF Spec

-----------------------------------------------------------------------------
(* ReserveProtectsCoverage.  While the plan is worked through the role     *)
(* table is the plan so far; after that, as long as some reserved sniffer  *)
(* is left, it is the plan but for reserved ones that follow.              *)
Followers == {d \in Dongles : roles[d].kind = "follow"}

PlanSoFar ==
  phase = "starting" =>
    \A d \in dongles : roles[d] = IF d \in todo THEN Idle ELSE DefaultRole(dongles, d)

AsPlannedOrFollowing ==
  \A d \in dongles :
    \/ roles[d] = DefaultRole(dongles, d)
    \/ roles[d].kind = "follow" /\ Position(dongles, d) >= 3

OnlyKnownHaveRoles == \A d \in Dongles \ dongles : roles[d].kind = "none"

ReserveIntact ==
  phase = "live" /\ faults = {} /\ Cardinality(Followers) + 3 <= Cardinality(dongles) => AsPlannedOrFollowing

PInv == RInv /\ PlanSoFar /\ OnlyKnownHaveRoles /\ ReserveIntact

(* A follow request that leaves a reserve gets a reserved sniffer.         *)
LEMMA FollowTakesTheReserve ==
  ASSUME PInv, phase = "live", faults = {}, NEW a \in Addrs, NEW d \in Dongles, NEW o \in Starts,
         FollowOne(a, d, o), Cardinality(Followers)' + 3 <= Cardinality(dongles)
  PROVE  AsPlannedOrFollowing'
<1>1. /\ dongles \in SUBSET Dongles /\ roles \in [Dongles -> Role] /\ dongles' = dongles
      /\ roles' = [roles EXCEPT ![d] = Follow(a)] /\ d \in FollowCandidates
  BY DEF PInv, RInv, IInv, TypeOK, CoordTypeOK, FollowOne, PickedForFollow, SetRole
<1>2. Follow(a).kind = "follow" /\ roles[d].kind \in {"idle", "scan", "pinned"}
  BY <1>1 DEF Follow, FollowCandidates
<1>3. /\ IsFiniteSet(Followers) /\ Cardinality(Followers) \in Nat
      /\ IsFiniteSet(dongles) /\ Cardinality(dongles) \in Nat
  <2>1. Followers \in SUBSET Dongles
    BY DEF Followers
  <2>2. QED
    BY <1>1, <2>1, DonglesAreFinite
<1>4. Cardinality(Followers)' = Cardinality(Followers) + 1
  <2>1. Followers' = Followers \cup {d} /\ d \notin Followers
    BY <1>1, <1>2 DEF Followers
  <2>2. QED
    BY <1>3, <2>1, FS_AddElement
<1>5. Cardinality(Followers) + 4 <= Cardinality(dongles) /\ Cardinality(dongles) >= 3
  BY <1>3, <1>4
<1>6. AsPlannedOrFollowing
  BY <1>3, <1>5 DEF PInv, ReserveIntact
<1> DEFINE pins == {e \in dongles : Position(dongles, e) < 3}
<1>7. /\ \A e \in dongles : Position(dongles, e) >= 3 => DefaultRole(dongles, e) = Idle
      /\ \A e \in dongles : Position(dongles, e) < 3 => DefaultRole(dongles, e).kind = "pinned"
      /\ \A e \in dongles : Position(dongles, e) \in Nat
      /\ IsFiniteSet(pins) /\ Cardinality(pins) <= 3 /\ Cardinality(pins) \in Nat
  BY <1>1, <1>5, PlanReservesTheRest, PositionIs, FS_CardinalityType
<1>8. \E e \in dongles : e \notin pins /\ e \notin Followers
  <2> HIDE DEF pins
  <2> SUFFICES ASSUME dongles \subseteq pins \cup Followers PROVE FALSE
    OBVIOUS
  <2>1. Cardinality(dongles) <= Cardinality(pins \cup Followers) /\ IsFiniteSet(pins \cup Followers)
    BY <1>3, <1>7, FS_Subset, FS_Union
  <2>2. /\ Cardinality(pins \cup Followers) <= Cardinality(pins) + Cardinality(Followers)
        /\ Cardinality(pins \cup Followers) \in Nat
    <3>1. Cardinality(pins \cap Followers) \in Nat
      BY <1>3, <1>7, FS_Intersection, FS_CardinalityType
    <3>2. Cardinality(pins \cup Followers)
            = Cardinality(pins) + Cardinality(Followers) - Cardinality(pins \cap Followers)
      BY <1>3, <1>7, FS_Union
    <3>3. Cardinality(pins \cup Followers) \in Nat
      BY <2>1, FS_CardinalityType
    <3>4. QED
      BY <1>3, <1>7, <3>1, <3>2, <3>3
  <2>3. QED
    BY <1>3, <1>5, <1>7, <2>1, <2>2
<1>9. \E e \in Dongles : roles[e].kind = "idle"
  <2>1. PICK e \in dongles : e \notin pins /\ e \notin Followers
    BY <1>8
  <2>2. roles[e] = Idle
    BY <1>1, <1>6, <1>7, <2>1 DEF AsPlannedOrFollowing, Followers
  <2>3. QED
    BY <1>1, <2>2 DEF Idle, RoleOf
<1>10. roles[d].kind = "idle"
  BY <1>1, <1>9 DEF FollowCandidates
<1>11. d \in dongles /\ Position(dongles, d) >= 3
  <2>1. d \in dongles
    BY <1>10 DEF PInv, OnlyKnownHaveRoles
  <2>2. roles[d] = DefaultRole(dongles, d)
    BY <1>6, <1>10, <2>1 DEF AsPlannedOrFollowing
  <2>3. QED
    BY <1>7, <1>10, <2>1, <2>2
<1>12. QED
  BY <1>1, <1>2, <1>6, <1>11 DEF AsPlannedOrFollowing

LEMMA NextPInv == PInv /\ [Next]_vars => PInv'
<1> SUFFICES ASSUME PInv, [Next]_vars PROVE PlanSoFar' /\ OnlyKnownHaveRoles' /\ ReserveIntact'
  BY NextRInv DEF PInv
<1>1. /\ IInv /\ CoordInv /\ PlanSoFar /\ OnlyKnownHaveRoles /\ ReserveIntact /\ StoppedIsClean
      /\ dongles \in SUBSET Dongles /\ todo \in SUBSET dongles /\ roles \in [Dongles -> Role]
  BY DEF PInv, RInv, IInv, TypeOK, CoordTypeOK
<1>2. CASE \E found \in SUBSET Dongles : StartLive(found)
  <2>1. PICK found \in SUBSET Dongles : StartLive(found)
    BY <1>2
  <2>2. /\ \A d \in Dongles : roles[d].kind = "none"
        /\ dongles' = found /\ todo' = found /\ phase' = "starting"
        /\ roles' = [d \in Dongles |-> IF d \in found THEN Idle ELSE roles[d]]
    BY <1>1, <2>1 DEF StartLive, Register, StoppedIsClean
  <2>3. QED
    BY <2>2 DEF PlanSoFar, OnlyKnownHaveRoles, ReserveIntact
<1>3. ASSUME NEW d \in Dongles, NEW o \in Starts, NEW W \in SUBSET Dongles, StartPlanned(d, o, W)
      PROVE  PlanSoFar' /\ OnlyKnownHaveRoles' /\ ReserveIntact'
  <2> DEFINE r == DefaultRole(dongles, d)
  <2>1. /\ phase = "starting" /\ d \in todo /\ dongles' = dongles /\ faults' = faults
        /\ roles' = [roles EXCEPT ![d] = r]
        /\ todo' = IF SetRoleRaises(d, r, o) THEN {} ELSE todo \ {d}
        /\ phase' = IF SetRoleRaises(d, r, o) THEN "broken" ELSE IF todo = {d} THEN "live" ELSE "starting"
    BY <1>3 DEF StartPlanned, ApplyPlanned, PlannedNext, SetRole
  <2>2. ~SetRoleRaises(d, r, o) =>
          \A e \in dongles : roles'[e] = IF e \in todo' THEN Idle ELSE DefaultRole(dongles, e)
    BY <1>1, <2>1 DEF PlanSoFar
  <2>3. PlanSoFar'
    BY <2>1, <2>2 DEF PlanSoFar
  <2>4. OnlyKnownHaveRoles'
    BY <1>1, <2>1 DEF OnlyKnownHaveRoles
  <2>5. ReserveIntact'
    BY <2>1, <2>2 DEF ReserveIntact, AsPlannedOrFollowing
  <2>6. QED
    BY <2>3, <2>4, <2>5
<1>4. ASSUME NEW a \in Addrs, NEW d \in Dongles, NEW o \in Starts, NEW W \in SUBSET Dongles,
             FollowDevice(a, d, o, W)
      PROVE  PlanSoFar' /\ OnlyKnownHaveRoles' /\ ReserveIntact'
  <2>1. /\ phase \in {"live", "broken"} /\ phase' = phase /\ FollowOne(a, d, o)
        /\ dongles' = dongles /\ faults' = faults /\ roles' = [roles EXCEPT ![d] = Follow(a)]
        /\ d \in FollowCandidates
    BY <1>4 DEF FollowDevice, FollowOne, SetRole, PickedForFollow
  <2>2. roles[d].kind # "none"
    BY <1>1, <2>1 DEF FollowCandidates
  <2>3. PlanSoFar' /\ OnlyKnownHaveRoles'
    BY <1>1, <2>1, <2>2 DEF PlanSoFar, OnlyKnownHaveRoles
  <2>4. ReserveIntact'
    BY <2>1, FollowTakesTheReserve DEF ReserveIntact
  <2>5. QED
    BY <2>3, <2>4
<1>5. CASE StopLive
  BY <1>5 DEF StopLive, StopAll, PlanSoFar, OnlyKnownHaveRoles, ReserveIntact, NoRole, RoleOf
<1>6. ASSUME UNCHANGED <<dongles, roles, todo, faults, phase>>
      PROVE  PlanSoFar' /\ OnlyKnownHaveRoles' /\ ReserveIntact'
  BY <1>1, <1>6 DEF PlanSoFar, OnlyKnownHaveRoles, ReserveIntact, AsPlannedOrFollowing, Followers
<1>7. CASE \/ \E o \in Starts, W \in SUBSET Dongles : WatchdogTick(o, W)
           \/ Clock \/ (\E d \in Dongles : Packet(d) \/ Wedge(d)) \/ UNCHANGED vars
  BY <1>6, <1>7 DEF WatchdogTick, Clock, Packet, Wedge, vars, coordVars
<1>8. QED
  BY <1>2, <1>3, <1>4, <1>5, <1>7 DEF Next

(* For any number of dongles: as long as no more sniffers follow than were *)
(* reserved, each primary channel has a running pinned sniffer (roles.py,  *)
(* default_roles; coordinator.py, follow).                                 *)
THEOREM SessionProtectsCoverage == Spec => []ReserveProtectsCoverage
<1>1. Init => PInv
  <2>1. Init => AssignedSniffersRun
    BY DEF Init, CoordInit, AssignedSniffersRun, AssignedAreRunning, AssignedRun, NoRole, RoleOf
  <2>2. Init => PlanSoFar /\ OnlyKnownHaveRoles /\ ReserveIntact
    BY DEF Init, CoordInit, PlanSoFar, OnlyKnownHaveRoles, ReserveIntact, NoRole, RoleOf
  <2>3. QED
    BY <2>1, <2>2, InitIInv DEF PInv, RInv
<1>2. PInv => ReserveProtectsCoverage
  <2> SUFFICES ASSUME PInv, phase = "live", faults = {},
                      Cardinality(Followers) + 3 <= Cardinality(dongles), NEW c \in PrimaryAdvChannels
               PROVE  \E d \in Dongles : /\ roles[d].kind = "pinned" /\ c \in roles[d].channels
                                         /\ sniffers[d].running
    BY DEF ReserveProtectsCoverage, Followers
  <2>1. dongles \in SUBSET Dongles /\ AsPlannedOrFollowing
    BY DEF PInv, RInv, IInv, TypeOK, CoordTypeOK, ReserveIntact
  <2>2. Cardinality(dongles) >= 3
    <3>1. Followers \in SUBSET Dongles
      BY DEF Followers
    <3>2. Cardinality(Followers) \in Nat /\ Cardinality(dongles) \in Nat
      BY <2>1, <3>1, DonglesAreFinite
    <3>3. QED
      BY <3>2
  <2>3. PICK d \in dongles : DefaultRole(dongles, d) = Pinned({c}) /\ Position(dongles, d) < 3
    BY <2>1, <2>2, PlanPinsEachPrimary
  <2>4. roles[d] = Pinned({c})
    <3>1. Position(dongles, d) \in Nat
      BY <2>1, PositionIs
    <3>2. QED
      BY <2>1, <2>3, <3>1 DEF AsPlannedOrFollowing
  <2>5. roles[d].kind = "pinned" /\ c \in roles[d].channels /\ d \in Dongles
    BY <2>1, <2>4 DEF Pinned
  <2>6. sniffers[d].running
    BY <2>5 DEF PInv, RInv, AssignedSniffersRun, AssignedAreRunning, AssignedRun
  <2>7. QED
    BY <2>5, <2>6
<1>3. QED
  BY <1>1, <1>2, NextPInv, PTL DEF Spec
=============================================================================
