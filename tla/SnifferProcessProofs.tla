------------------------ MODULE SnifferProcessProofs ------------------------
(***************************************************************************)
(* What holds of a sniffer process for any number of restarts, pipes of    *)
(* any size and any failures.                                              *)
(***************************************************************************)
EXTENDS SnifferProcess, TLAPS

Active(g, k) == thread[g][k] \in {"reading", "handling"}
Serving(g) == extcap[g].status \in {"booting", "opened", "capturing"}

(* The generation the object works with is the newest, and the attributes  *)
(* follow the position of the caller.                                      *)
Handles ==
  /\ main.pc \in {"opening", "announcing"} => ~state.running /\ proc = gen /\ gen # 0
  /\ main.pc = "idle" /\ state.running => proc = gen /\ ctrlFd = gen /\ gen # 0
  /\ main.pc = "idle" /\ ~state.running => proc = 0 /\ ctrlFd = 0
  /\ main.pc = "opening" => ctrlFd = 0
  /\ main.pc = "announcing" => ctrlFd = gen
  /\ main.pc \in {"waiting", "joining"} => ctrlFd = 0
  /\ main.pc = "joining" => proc = 0

(* A subprocess nobody has told to end is the one of the newest generation.*)
OneServes ==
  \A g \in Gens : Serving(g) =>
    /\ g = gen /\ proc = gen
    /\ main.pc \in {"opening", "announcing"} \/ (main.pc = "idle" /\ state.running)

FilesAreKnown ==
  "spawn" \notin faults =>
    /\ files \subseteq {gen}
    /\ main.pc = "idle" /\ ~state.running => files = {}

FutureIsBlank ==
  \A g \in Gens : g > gen =>
    extcap[g] = Unborn /\ inbox[g] = <<>> /\ \A k \in Kinds : thread[g][k] = "none"

ThreadsAreKnown ==
  /\ main.pc = "opening" => \A k \in Kinds : thread[gen][k] = "none"
  /\ "slow" \notin faults =>
       \A g \in Gens, k \in Kinds :
         Active(g, k) => g = gen /\ ~(main.pc = "idle" /\ ~state.running)

IInv == TypeOK /\ Handles /\ OneServes /\ FilesAreKnown /\ FutureIsBlank /\ ThreadsAreKnown

LEMMA Defaults ==
  /\ SomeHop \in HopSets
  /\ AtRest \in MainType /\ AtRest.pc = "idle"
  /\ Unborn \in ProcType /\ Unborn.status = "none"
<1>1. SomeHop \in HopSets
  BY SnifferProcessAssumption DEF SomeHop
<1>2. QED
  BY <1>1 DEF AtRest, Unborn, MainType, ProcType

LEMMA InitEstablishesIInv == Init => IInv
<1> SUFFICES ASSUME Init PROVE IInv
  OBVIOUS
<1>1. TypeOK
  <2>1. /\ faults \subseteq MayFail /\ main \in MainType
        /\ gen \in 0..MaxStarts /\ proc \in {0, gen} /\ ctrlFd \in {0, gen}
        /\ stop \in BOOLEAN /\ files \subseteq 1..gen
    <3>1. /\ faults \in SUBSET MayFail /\ main = AtRest
          /\ gen = 0 /\ proc = 0 /\ ctrlFd = 0 /\ stop = FALSE /\ files = {}
      BY DEF Init
    <3>2. faults \subseteq MayFail /\ main \in MainType /\ stop \in BOOLEAN
      BY <3>1, Defaults
    <3>3. gen \in 0..MaxStarts /\ proc \in {0, gen} /\ ctrlFd \in {0, gen} /\ files \subseteq 1..gen
      BY <3>1, SnifferProcessAssumption
    <3>4. QED
      BY <3>2, <3>3
  <2>2. state \in StateType
    <3>1. state = [running |-> FALSE, hop |-> SomeHop, follow |-> NoAddr, error |-> FALSE]
      BY DEF Init
    <3>2. QED
      BY <3>1, Defaults DEF StateType
  <2>3. extcap \in [Gens -> ProcType] /\ inbox \in [Gens -> Seq(Message)]
    BY Defaults DEF Init
  <2>4. pipe \in [Gens -> [Kinds -> 0..PipeSize]] /\ thread \in [Gens -> [Kinds -> ThreadType]]
    BY SnifferProcessAssumption DEF Init, ThreadType
  <2>5. QED
    BY <2>1, <2>2, <2>3, <2>4 DEF TypeOK
<1>2. Handles /\ OneServes /\ FilesAreKnown /\ FutureIsBlank /\ ThreadsAreKnown
  BY DEF Init, Handles, OneServes, FilesAreKnown, FutureIsBlank, ThreadsAreKnown, Active, Serving, AtRest, Unborn
<1>3. QED
  BY <1>1, <1>2 DEF IInv

(* start                                                                   *)
LEMMA SpawnRaisesKeepsIInv == ASSUME IInv, SpawnRaises PROVE IInv'
<1>0. TypeOK
  BY DEF IInv
<1>1. /\ main.pc = "idle" /\ ~state.running /\ gen < MaxStarts /\ gen' = gen + 1
      /\ files' = files \cup {gen'} /\ "spawn" \in faults
      /\ UNCHANGED <<faults, main, state, proc, ctrlFd, stop, worldVars>>
  BY DEF SpawnRaises, Prepare, worldVars
<1>2. proc = 0 /\ ctrlFd = 0
  BY <1>1 DEF IInv, Handles
<1>3. TypeOK'
  <2>1. gen' \in 0..MaxStarts /\ files' \subseteq 1..gen' /\ proc' = 0 /\ ctrlFd' = 0
    BY <1>0, <1>1, <1>2, SnifferProcessAssumption DEF TypeOK
  <2>2. QED
    BY <1>0, <1>1, <2>1 DEF TypeOK, worldVars
<1>4. Handles' /\ OneServes' /\ FilesAreKnown' /\ FutureIsBlank' /\ ThreadsAreKnown'
  BY <1>0, <1>1, <1>2 DEF IInv, TypeOK, Handles, OneServes, FilesAreKnown, FutureIsBlank, ThreadsAreKnown, Active,
                          Serving, worldVars, Gens
<1>5. QED
  BY <1>3, <1>4 DEF IInv

LEMMA SpawnKeepsIInv ==
  ASSUME IInv, NEW h \in HopSets, NEW a \in Addrs \cup {NoAddr}, Spawn(h, a) PROVE IInv'
<1>0. TypeOK
  BY DEF IInv
<1> DEFINE born == [Unborn EXCEPT !.status = "booting", !.follow = a]
<1>1. /\ main.pc = "idle" /\ ~state.running /\ gen < MaxStarts /\ gen' = gen + 1 /\ proc' = gen'
      /\ files' = files \cup {gen'}
      /\ extcap' = [extcap EXCEPT ![gen'] = born]
      /\ main' = [pc |-> "opening", hop |-> h, follow |-> a]
      /\ UNCHANGED <<faults, state, ctrlFd, stop, inbox, pipe, thread>>
  BY DEF Spawn, Prepare
<1>2. proc = 0 /\ ctrlFd = 0
  BY <1>1 DEF IInv, Handles
<1>3. gen' \in Gens /\ gen' # 0
  BY <1>0, <1>1, SnifferProcessAssumption DEF TypeOK, Gens
<1>4. born \in ProcType /\ main' \in MainType /\ main'.pc = "opening"
  BY <1>1, Defaults DEF ProcType, MainType, Unborn
<1> HIDE DEF born
<1>5. \A g \in Gens : extcap'[g] = IF g = gen' THEN born ELSE extcap[g]
  BY <1>0, <1>1, <1>3 DEF TypeOK
<1>6. TypeOK'
  <2>1. gen' \in 0..MaxStarts /\ files' \subseteq 1..gen' /\ proc' = gen' /\ ctrlFd' = 0
    BY <1>0, <1>1, <1>2, SnifferProcessAssumption DEF TypeOK
  <2>2. extcap' \in [Gens -> ProcType]
    BY <1>0, <1>1, <1>3, <1>4 DEF TypeOK
  <2>3. QED
    BY <1>0, <1>1, <1>4, <2>1, <2>2 DEF TypeOK
<1>7. Handles'
  BY <1>1, <1>2, <1>3, <1>4 DEF Handles
<1>8. OneServes'
  BY <1>1, <1>2, <1>3, <1>4, <1>5 DEF IInv, OneServes, Serving
<1>9. FilesAreKnown' /\ FutureIsBlank'
  BY <1>0, <1>1, <1>3, <1>4, <1>5 DEF IInv, TypeOK, FilesAreKnown, FutureIsBlank, Gens
<1>10. ThreadsAreKnown'
  BY <1>0, <1>1, <1>3, <1>4 DEF IInv, TypeOK, FutureIsBlank, ThreadsAreKnown, Active, Gens
<1>11. QED
  BY <1>6, <1>7, <1>8, <1>9, <1>10 DEF IInv

LEMMA OpenCtrlKeepsIInv == ASSUME IInv, OpenCtrl PROVE IInv'
<1>0. TypeOK
  BY DEF IInv
<1>1. /\ main.pc = "opening" /\ ctrlFd' = gen /\ stop' = FALSE
      /\ thread' = [thread EXCEPT ![gen] = [k \in Kinds |-> "reading"]]
      /\ main' = [main EXCEPT !.pc = "announcing"]
      /\ UNCHANGED <<faults, state, gen, proc, files, extcap, inbox, pipe>>
  BY DEF OpenCtrl
<1>2. gen # 0 /\ gen \in Gens /\ proc = gen /\ ~state.running
  BY <1>0, <1>1, SnifferProcessAssumption DEF IInv, Handles, TypeOK, Gens
<1>3. main' \in MainType /\ main'.pc = "announcing"
  BY <1>0, <1>1 DEF TypeOK, MainType
<1>4. \A g \in Gens, k \in Kinds : thread'[g][k] = IF g = gen THEN "reading" ELSE thread[g][k]
  BY <1>0, <1>1, <1>2 DEF TypeOK
<1>5. TypeOK'
  <2>1. thread' \in [Gens -> [Kinds -> ThreadType]]
    BY <1>0, <1>1, <1>2 DEF TypeOK, ThreadType
  <2>2. QED
    BY <1>0, <1>1, <1>3, <2>1 DEF TypeOK
<1>6. Handles' /\ OneServes' /\ FilesAreKnown'
  BY <1>1, <1>2, <1>3 DEF IInv, Handles, OneServes, FilesAreKnown, Serving
<1>7. FutureIsBlank' /\ ThreadsAreKnown'
  BY <1>0, <1>1, <1>2, <1>3, <1>4 DEF IInv, TypeOK, FutureIsBlank, ThreadsAreKnown, Active, Gens
<1>8. QED
  BY <1>5, <1>6, <1>7 DEF IInv

(* WriteCtrl to the newest generation                                      *)
LEMMA WriteCtrlTypes ==
  ASSUME TypeOK, ctrlFd \in Gens, NEW m \in Message, WriteCtrl(m)
  PROVE  inbox' \in [Gens -> Seq(Message)] /\ \A g \in Gens : g # ctrlFd => inbox'[g] = inbox[g]
<1>1. inbox \in [Gens -> Seq(Message)] /\ inbox[ctrlFd] \in Seq(Message)
  BY DEF TypeOK
<1>2. Append(inbox[ctrlFd], m) \in Seq(Message)
  BY <1>1
<1>3. inbox' = inbox \/ inbox' = [inbox EXCEPT ![ctrlFd] = Append(inbox[ctrlFd], m)]
  BY DEF WriteCtrl
<1>4. QED
  BY <1>1, <1>2, <1>3

LEMMA MessagesAreTyped ==
  ASSUME NEW h \in HopSets
  PROVE  /\ Msg("init", h, NoAddr) \in Message /\ Msg("hop", h, NoAddr) \in Message
         /\ \A a \in Addrs : Msg("follow", h, a) \in Message
BY DEF Msg, Message

LEMMA AnnounceKeepsIInv == ASSUME IInv, Announce PROVE IInv'
<1>0. TypeOK
  BY DEF IInv
<1> DEFINE error == state.error \/ ~Alive(gen)
<1>1. /\ main.pc = "announcing" /\ WriteCtrl(Msg("init", main.hop, NoAddr))
      /\ state' = [running |-> TRUE, hop |-> main.hop, follow |-> main.follow, error |-> error]
      /\ main' = AtRest
      /\ UNCHANGED <<faults, gen, proc, ctrlFd, stop, files, extcap, pipe, thread>>
  BY DEF Announce
<1>2. gen # 0 /\ gen \in Gens /\ proc = gen /\ ctrlFd = gen
  BY <1>0, <1>1, SnifferProcessAssumption DEF IInv, Handles, TypeOK, Gens
<1>3. main.hop \in HopSets /\ main.follow \in Addrs \cup {NoAddr}
  BY <1>0 DEF TypeOK, MainType
<1>4. error \in BOOLEAN
  BY <1>0 DEF TypeOK, StateType
<1> HIDE DEF error
<1>5. state' \in StateType /\ state'.running
  BY <1>1, <1>3, <1>4 DEF StateType
<1>6. main' \in MainType /\ main'.pc = "idle"
  BY <1>1, Defaults
<1>7. inbox' \in [Gens -> Seq(Message)] /\ \A g \in Gens : g # gen => inbox'[g] = inbox[g]
  BY <1>0, <1>1, <1>2, <1>3, MessagesAreTyped, WriteCtrlTypes
<1>8. TypeOK'
  BY <1>0, <1>1, <1>5, <1>6, <1>7 DEF TypeOK
<1>9. Handles' /\ OneServes' /\ FilesAreKnown'
  BY <1>1, <1>2, <1>5, <1>6 DEF IInv, Handles, OneServes, FilesAreKnown, Serving
<1>10. FutureIsBlank' /\ ThreadsAreKnown'
  BY <1>0, <1>1, <1>2, <1>5, <1>6, <1>7 DEF IInv, TypeOK, FutureIsBlank, ThreadsAreKnown, Active, Gens
<1>11. QED
  BY <1>8, <1>9, <1>10 DEF IInv

(* stop, and the start that cannot open its pipes                          *)
LEMMA BeginStopKeepsIInv ==
  ASSUME IInv, BeginStop, state' \in StateType, state'.running = state.running,
         main.pc = "opening" \/ (main.pc = "idle" /\ (state.running \/ proc # 0))
  PROVE  IInv'
<1>0. TypeOK
  BY DEF IInv
<1>1. /\ stop' = TRUE /\ ctrlFd' = 0
      /\ extcap' = IF proc # 0 /\ Alive(proc) THEN [extcap EXCEPT ![proc].status = "dying"] ELSE extcap
      /\ main' = [AtRest EXCEPT !.pc = "waiting"]
      /\ UNCHANGED <<faults, gen, proc, files, inbox, pipe, thread>>
  BY DEF BeginStop
<1>2. gen # 0 /\ gen \in Gens /\ proc = gen
  BY <1>0, SnifferProcessAssumption DEF IInv, Handles, TypeOK, Gens
<1>3. main' \in MainType /\ main'.pc = "waiting"
  BY <1>1, Defaults DEF MainType
<1>4. extcap \in [Gens -> ProcType] /\ [extcap[gen] EXCEPT !.status = "dying"] \in ProcType
  BY <1>0, <1>2 DEF TypeOK, ProcType
<1>5. extcap' \in [Gens -> ProcType]
  BY <1>1, <1>2, <1>4
<1>6. \A g \in Gens : g # gen => extcap'[g] = extcap[g]
  BY <1>1, <1>2, <1>4
<1>7. ~Serving(gen)'
  <2>1. CASE Alive(gen)
    <3>1. extcap'[gen] = [extcap[gen] EXCEPT !.status = "dying"]
      BY <1>1, <1>2, <1>4, <2>1
    <3>2. extcap'[gen].status = "dying"
      BY <1>2, <1>4, <3>1 DEF ProcType
    <3>3. QED
      BY <1>1, <3>2 DEF Serving
  <2>2. CASE ~Alive(gen)
    BY <1>1, <1>2, <2>2 DEF Alive, Serving
  <2>3. QED
    BY <2>1, <2>2
<1>8. TypeOK'
  <2>1. stop' \in BOOLEAN
    BY <1>1
  <2>2. QED
    BY <1>0, <1>1, <1>3, <1>5, <2>1 DEF TypeOK
<1>9. Handles'
  BY <1>1, <1>2, <1>3 DEF Handles
<1>10. OneServes'
  BY <1>1, <1>2, <1>6, <1>7 DEF IInv, OneServes, Serving
<1>11. FilesAreKnown'
  BY <1>1, <1>3 DEF IInv, FilesAreKnown
<1>12. FutureIsBlank' /\ ThreadsAreKnown'
  BY <1>0, <1>1, <1>2, <1>3, <1>6 DEF IInv, TypeOK, FutureIsBlank, ThreadsAreKnown, Active, Gens
<1>13. QED
  BY <1>8, <1>9, <1>10, <1>11, <1>12 DEF IInv

LEMMA StopKeepsIInv == ASSUME IInv, Stop \/ OpenFails PROVE IInv'
<1>1. state \in StateType
  BY DEF IInv, TypeOK
<1>2. CASE Stop
  BY <1>1, <1>2, BeginStopKeepsIInv DEF Stop
<1>3. CASE OpenFails
  <2>1. state' = [state EXCEPT !.error = TRUE] /\ BeginStop /\ main.pc = "opening"
    BY <1>3 DEF OpenFails
  <2>2. state' \in StateType /\ state'.running = state.running
    BY <1>1, <2>1 DEF StateType
  <2>3. QED
    BY <2>1, <2>2, BeginStopKeepsIInv
<1>4. QED
  BY <1>2, <1>3

LEMMA ReapKeepsIInv == ASSUME IInv, Reap PROVE IInv'
<1>0. TypeOK
  BY DEF IInv
<1>1. /\ main.pc = "waiting" /\ proc' = 0 /\ main' = [main EXCEPT !.pc = "joining"]
      /\ UNCHANGED <<faults, state, gen, ctrlFd, stop, files, extcap, inbox, pipe, thread>>
  BY DEF Reap, worldVars
<1>2. main' \in MainType /\ main'.pc = "joining"
  BY <1>0, <1>1 DEF TypeOK, MainType
<1>3. TypeOK'
  BY <1>0, <1>1, <1>2 DEF TypeOK
<1>4. Handles' /\ OneServes' /\ FilesAreKnown' /\ FutureIsBlank' /\ ThreadsAreKnown'
  BY <1>1, <1>2 DEF IInv, Handles, OneServes, FilesAreKnown, FutureIsBlank, ThreadsAreKnown, Active, Serving
<1>5. QED
  BY <1>3, <1>4 DEF IInv

LEMMA JoinThreadsKeepsIInv == ASSUME IInv, JoinThreads PROVE IInv'
<1>0. TypeOK
  BY DEF IInv
<1>1. /\ main.pc = "joining"
      /\ (\A k \in Kinds : thread[gen][k] \in {"none", "done"}) \/ "slow" \in faults
      /\ files' = files \ {gen}
      /\ state' = [state EXCEPT !.running = FALSE, !.follow = NoAddr]
      /\ main' = AtRest
      /\ UNCHANGED <<faults, gen, proc, ctrlFd, stop, extcap, inbox, pipe, thread>>
  BY DEF JoinThreads, worldVars
<1>2. state' \in StateType /\ ~state'.running
  BY <1>0, <1>1 DEF TypeOK, StateType
<1>3. main' \in MainType /\ main'.pc = "idle"
  BY <1>1, Defaults
<1>4. proc = 0 /\ ctrlFd = 0
  BY <1>1 DEF IInv, Handles
<1>5. TypeOK'
  BY <1>0, <1>1, <1>2, <1>3 DEF TypeOK
<1>6. Handles' /\ OneServes' /\ FilesAreKnown'
  BY <1>1, <1>2, <1>3, <1>4 DEF IInv, Handles, OneServes, FilesAreKnown, Serving
<1>7. FutureIsBlank' /\ ThreadsAreKnown'
  BY <1>1, <1>2, <1>3 DEF IInv, FutureIsBlank, ThreadsAreKnown, Active
<1>8. QED
  BY <1>5, <1>6, <1>7 DEF IInv

(* retuning                                                                *)
LEMMA RetuneKeepsIInv ==
  ASSUME IInv, inbox' \in [Gens -> Seq(Message)],
         \A g \in Gens : g > gen => inbox'[g] = inbox[g],
         state' \in StateType, state'.running = state.running,
         UNCHANGED <<faults, main, gen, proc, ctrlFd, stop, files, extcap, pipe, thread>>
  PROVE  IInv'
<1>1. TypeOK'
  BY DEF IInv, TypeOK
<1>2. Handles' /\ OneServes' /\ FilesAreKnown' /\ FutureIsBlank' /\ ThreadsAreKnown'
  BY DEF IInv, Handles, OneServes, FilesAreKnown, FutureIsBlank, ThreadsAreKnown, Active, Serving
<1>3. QED
  BY <1>1, <1>2 DEF IInv

LEMMA SetAdvHopKeepsIInv == ASSUME IInv, NEW h \in HopSets, SetAdvHop(h) PROVE IInv'
<1>0. TypeOK
  BY DEF IInv
<1>1. /\ main.pc = "idle"
      /\ UNCHANGED <<faults, main, gen, proc, ctrlFd, stop, files, extcap, pipe, thread>>
  BY DEF SetAdvHop
<1>2. CASE state.running
  <2> DEFINE error == state.error \/ ~Alive(ctrlFd)
  <2>1. WriteCtrl(Msg("hop", h, NoAddr)) /\ state' = [state EXCEPT !.hop = h, !.error = error]
    BY <1>2 DEF SetAdvHop
  <2>2. error \in BOOLEAN
    BY <1>0 DEF TypeOK, StateType
  <2> HIDE DEF error
  <2>3. state' \in StateType /\ state'.running = state.running
    BY <1>0, <2>1, <2>2 DEF TypeOK, StateType
  <2>4. ctrlFd \in Gens /\ ctrlFd = gen
    BY <1>0, <1>1, <1>2, SnifferProcessAssumption DEF IInv, Handles, TypeOK, Gens
  <2>5. inbox' \in [Gens -> Seq(Message)] /\ \A g \in Gens : g # gen => inbox'[g] = inbox[g]
    BY <1>0, <2>1, <2>4, MessagesAreTyped, WriteCtrlTypes
  <2>6. \A g \in Gens : g > gen => inbox'[g] = inbox[g]
    BY <2>4, <2>5 DEF Gens
  <2>7. QED
    BY <1>1, <2>3, <2>5, <2>6, RetuneKeepsIInv
<1>3. CASE ~state.running
  <2>1. state' = [state EXCEPT !.hop = h] /\ inbox' = inbox
    BY <1>3 DEF SetAdvHop
  <2>2. state' \in StateType /\ state'.running = state.running /\ inbox' \in [Gens -> Seq(Message)]
    BY <1>0, <2>1 DEF TypeOK, StateType
  <2>3. QED
    BY <1>1, <2>1, <2>2, RetuneKeepsIInv
<1>4. QED
  BY <1>2, <1>3

LEMMA FollowAddressKeepsIInv == ASSUME IInv, NEW a \in Addrs, FollowAddress(a) PROVE IInv'
<1>0. TypeOK
  BY DEF IInv
<1> DEFINE error == state.error \/ ~Alive(ctrlFd)
<1>1. /\ main.pc = "idle" /\ state.running
      /\ WriteCtrl(Msg("follow", state.hop, a))
      /\ state' = [state EXCEPT !.follow = a, !.error = error]
      /\ UNCHANGED <<faults, main, gen, proc, ctrlFd, stop, files, extcap, pipe, thread>>
  BY DEF FollowAddress
<1>2. error \in BOOLEAN /\ state.hop \in HopSets
  BY <1>0 DEF TypeOK, StateType
<1> HIDE DEF error
<1>3. state' \in StateType /\ state'.running = state.running
  BY <1>0, <1>1, <1>2 DEF TypeOK, StateType
<1>4. ctrlFd \in Gens /\ ctrlFd = gen
  BY <1>0, <1>1, SnifferProcessAssumption DEF IInv, Handles, TypeOK, Gens
<1>5. inbox' \in [Gens -> Seq(Message)] /\ \A g \in Gens : g # gen => inbox'[g] = inbox[g]
  BY <1>0, <1>1, <1>2, <1>4, MessagesAreTyped, WriteCtrlTypes
<1>6. \A g \in Gens : g > gen => inbox'[g] = inbox[g]
  BY <1>4, <1>5 DEF Gens
<1>7. QED
  BY <1>1, <1>3, <1>5, <1>6, RetuneKeepsIInv

(* What a subprocess does: it may become less alive, never more.           *)
LEMMA WorldKeepsIInv ==
  ASSUME IInv, UNCHANGED <<faults, main, selfVars, thread>>, NEW g \in Gens,
         extcap' \in [Gens -> ProcType], inbox' \in [Gens -> Seq(Message)],
         pipe' \in [Gens -> [Kinds -> 0..PipeSize]],
         \A x \in Gens : x # g => extcap'[x] = extcap[x] /\ inbox'[x] = inbox[x],
         extcap[g].status # "none", Serving(g)' => Serving(g)
  PROVE  IInv'
<1>0. TypeOK
  BY DEF IInv
<1>1. ~(g > gen)
  BY Defaults DEF IInv, FutureIsBlank
<1>2. TypeOK'
  BY <1>0 DEF TypeOK, selfVars
<1>3. Handles' /\ FilesAreKnown' /\ ThreadsAreKnown'
  BY DEF IInv, Handles, FilesAreKnown, ThreadsAreKnown, Active, selfVars
<1>4. OneServes'
  BY DEF IInv, OneServes, Serving, selfVars
<1>5. FutureIsBlank'
  BY <1>1 DEF IInv, FutureIsBlank, selfVars
<1>6. QED
  BY <1>2, <1>3, <1>4, <1>5 DEF IInv

LEMMA ExtcapKeepsIInv == ASSUME IInv, NEW g \in Gens, Extcap(g) PROVE IInv'
<1>0. TypeOK
  BY DEF IInv
<1>1. extcap \in [Gens -> ProcType] /\ inbox \in [Gens -> Seq(Message)]
      /\ pipe \in [Gens -> [Kinds -> 0..PipeSize]]
  BY <1>0 DEF TypeOK
<1>2. extcap[g] \in ProcType
  BY <1>1
<1>3. CASE Open(g)
  <2>1. /\ extcap[g].status = "booting" /\ extcap' = [extcap EXCEPT ![g].status = "opened"]
        /\ UNCHANGED <<faults, main, selfVars, inbox, pipe, thread>>
    BY <1>3 DEF Open
  <2>2. [extcap[g] EXCEPT !.status = "opened"] \in ProcType
    BY <1>2 DEF ProcType
  <2>3. extcap' \in [Gens -> ProcType] /\ \A x \in Gens : x # g => extcap'[x] = extcap[x]
    BY <1>1, <2>1, <2>2
  <2>4. QED
    BY <1>1, <2>1, <2>3, WorldKeepsIInv DEF Serving
<1>4. CASE Obey(g)
  <2> DEFINE m == Head(inbox[g])
             tuned == [status |-> IF m.arg = "init" THEN "capturing" ELSE extcap[g].status,
                       hop    |-> IF m.arg = "follow" THEN extcap[g].hop ELSE m.hop,
                       follow |-> IF m.arg = "follow" THEN m.follow ELSE extcap[g].follow]
  <2>1. /\ extcap[g].status \in {"opened", "capturing"} /\ inbox[g] # <<>>
        /\ extcap' = [extcap EXCEPT ![g] = tuned]
        /\ inbox' = [inbox EXCEPT ![g] = Tail(inbox[g])]
        /\ UNCHANGED <<faults, main, selfVars, pipe, thread>>
    BY <1>4 DEF Obey
  <2>2. m \in Message /\ Tail(inbox[g]) \in Seq(Message)
    BY <1>1, <2>1
  <2> HIDE DEF m
  <2>3. tuned \in ProcType
    BY <1>2, <2>2 DEF ProcType, Message
  <2> HIDE DEF tuned
  <2>4. /\ extcap' \in [Gens -> ProcType] /\ inbox' \in [Gens -> Seq(Message)]
        /\ \A x \in Gens : x # g => extcap'[x] = extcap[x] /\ inbox'[x] = inbox[x]
    BY <1>1, <2>1, <2>2, <2>3
  <2>5. QED
    BY <1>1, <2>1, <2>4, WorldKeepsIInv DEF Serving
<1>5. CASE DieEarly(g)
  <2>1. /\ extcap[g].status = "booting" /\ extcap' = [extcap EXCEPT ![g].status = "stillborn"]
        /\ pipe' = [pipe EXCEPT ![g] = [k \in Kinds |-> IF k = "stderr" THEN PipeSize ELSE 0]]
        /\ UNCHANGED <<faults, main, selfVars, inbox, thread>>
    BY <1>5 DEF DieEarly
  <2>2. [extcap[g] EXCEPT !.status = "stillborn"] \in ProcType
    BY <1>2 DEF ProcType
  <2>3. extcap' \in [Gens -> ProcType] /\ \A x \in Gens : x # g => extcap'[x] = extcap[x]
    BY <1>1, <2>1, <2>2
  <2>4. pipe' \in [Gens -> [Kinds -> 0..PipeSize]]
    BY <1>1, <2>1, SnifferProcessAssumption
  <2>5. QED
    BY <1>1, <2>1, <2>3, <2>4, WorldKeepsIInv DEF Serving
<1>6. CASE Die(g)
  <2> DEFINE dead == [Unborn EXCEPT !.status = "dead"]
  <2>1. /\ extcap[g].status \in {"opened", "capturing", "dying"}
        /\ extcap' = [extcap EXCEPT ![g] = dead] /\ inbox' = [inbox EXCEPT ![g] = <<>>]
        /\ UNCHANGED <<faults, main, selfVars, pipe, thread>>
    BY <1>6 DEF Die
  <2>2. dead \in ProcType /\ dead.status = "dead" /\ <<>> \in Seq(Message)
    BY Defaults DEF ProcType
  <2> HIDE DEF dead
  <2>3. /\ extcap' \in [Gens -> ProcType] /\ inbox' \in [Gens -> Seq(Message)] /\ extcap'[g] = dead
        /\ \A x \in Gens : x # g => extcap'[x] = extcap[x] /\ inbox'[x] = inbox[x]
    BY <1>1, <2>1, <2>2
  <2>4. QED
    BY <1>1, <2>1, <2>2, <2>3, WorldKeepsIInv DEF Serving
<1>7. ASSUME NEW k \in Kinds, Emit(g, k) PROVE IInv'
  <2>1. /\ extcap[g].status # "none" /\ pipe[g][k] < PipeSize
        /\ pipe' = [pipe EXCEPT ![g][k] = pipe[g][k] + 1]
        /\ UNCHANGED <<faults, main, selfVars, extcap, inbox, thread>>
    BY <1>7 DEF Emit
  <2>2. pipe[g][k] + 1 \in 0..PipeSize
    BY <1>1, <2>1, SnifferProcessAssumption
  <2>3. pipe' \in [Gens -> [Kinds -> 0..PipeSize]]
    BY <1>1, <2>1, <2>2
  <2>4. QED
    BY <1>1, <2>1, <2>3, WorldKeepsIInv DEF Serving
<1>8. QED
  BY <1>3, <1>4, <1>5, <1>6, <1>7 DEF Extcap

(* The threads: one that is done stays done.                               *)
LEMMA ThreadKeepsIInv == ASSUME IInv, NEW g \in Gens, NEW k \in Kinds, Thread(g, k) PROVE IInv'
<1>0. TypeOK
  BY DEF IInv
<1>1. /\ thread \in [Gens -> [Kinds -> ThreadType]] /\ pipe \in [Gens -> [Kinds -> 0..PipeSize]]
      /\ state \in StateType
  BY <1>0 DEF TypeOK
<1>2. /\ Active(g, k)
      /\ \E t \in ThreadType \ {"none"} : thread' = [thread EXCEPT ![g][k] = t]
      /\ UNCHANGED <<faults, main, gen, proc, ctrlFd, stop, files, extcap, inbox>>
  <2>1. CASE Read(g, k)
    BY <2>1 DEF Read, Active, ThreadType, selfVars
  <2>2. CASE EndOfFile(g, k)
    BY <2>2 DEF EndOfFile, Active, ThreadType, selfVars
  <2>3. CASE Handle(g, k)
    BY <2>3 DEF Handle, Active, ThreadType
  <2>4. QED
    BY <2>1, <2>2, <2>3 DEF Thread
<1>3. PICK t \in ThreadType \ {"none"} : thread' = [thread EXCEPT ![g][k] = t]
  BY <1>2
<1>4. thread' \in [Gens -> [Kinds -> ThreadType]]
  BY <1>1, <1>3
<1>5. \A x \in Gens, y \in Kinds :
        thread'[x][y] = IF x = g /\ y = k THEN t ELSE thread[x][y]
  BY <1>1, <1>3
<1>6. pipe' \in [Gens -> [Kinds -> 0..PipeSize]]
  <2>1. CASE Read(g, k)
    <3>1. pipe[g][k] > 0 /\ pipe' = [pipe EXCEPT ![g][k] = pipe[g][k] - 1]
      BY <2>1 DEF Read
    <3>2. pipe[g][k] - 1 \in 0..PipeSize
      BY <1>1, <3>1, SnifferProcessAssumption
    <3>3. QED
      BY <1>1, <3>1, <3>2
  <2>2. CASE EndOfFile(g, k) \/ Handle(g, k)
    BY <1>1, <2>2 DEF EndOfFile, Handle
  <2>3. QED
    BY <2>1, <2>2 DEF Thread
<1>7. state' \in StateType /\ state'.running = state.running
  <2>1. state' = state \/ state' = [state EXCEPT !.error = TRUE]
    BY DEF Thread, Read, EndOfFile, Handle, selfVars
  <2>2. QED
    BY <1>1, <2>1 DEF StateType
<1>8. TypeOK'
  BY <1>0, <1>2, <1>4, <1>6, <1>7 DEF TypeOK
<1>9. Handles' /\ OneServes' /\ FilesAreKnown'
  BY <1>2, <1>7 DEF IInv, Handles, OneServes, FilesAreKnown, Serving
<1>10. thread[g][k] # "none"
  BY <1>2 DEF Active
<1>11. FutureIsBlank'
  BY <1>2, <1>5, <1>10 DEF IInv, FutureIsBlank
<1>12. ThreadsAreKnown'
  <2>1. main.pc = "opening" => gen \in Gens
    BY <1>0, SnifferProcessAssumption DEF IInv, Handles, TypeOK, Gens
  <2>2. QED
    BY <1>2, <1>5, <1>7, <1>10, <2>1 DEF IInv, ThreadsAreKnown, Active
<1>13. QED
  BY <1>8, <1>9, <1>11, <1>12 DEF IInv

LEMMA NextKeepsIInv == IInv /\ [Next]_vars => IInv'
<1> SUFFICES ASSUME IInv, [Next]_vars PROVE IInv'
  OBVIOUS
<1>1. CASE Caller
  BY <1>1, SpawnRaisesKeepsIInv, SpawnKeepsIInv, StopKeepsIInv, SetAdvHopKeepsIInv, FollowAddressKeepsIInv
     DEF Caller
<1>2. CASE InCall
  BY <1>2, OpenCtrlKeepsIInv, AnnounceKeepsIInv, StopKeepsIInv, ReapKeepsIInv, JoinThreadsKeepsIInv DEF InCall
<1>3. ASSUME NEW g \in Gens, Extcap(g) \/ \E k \in Kinds : Thread(g, k) PROVE IInv'
  BY <1>3, ExtcapKeepsIInv, ThreadKeepsIInv
<1>4. CASE UNCHANGED vars
  BY <1>4 DEF vars, selfVars, worldVars, IInv, TypeOK, Handles, OneServes, FilesAreKnown, FutureIsBlank,
              ThreadsAreKnown, Active, Serving
<1>5. QED
  BY <1>1, <1>2, <1>3, <1>4 DEF Next

(* The inductive invariant: where the caller is says which handles the     *)
(* object holds, which subprocess serves, and whose threads may run.       *)
THEOREM SnifferInvariant == Spec => []IInv
BY InitEstablishesIInv, NextKeepsIInv, PTL DEF Spec

(* Type correctness of the sniffer process.                                *)
THEOREM SnifferTypes == Spec => []TypeOK
<1>1. IInv => TypeOK
  BY DEF IInv
<1>2. QED
  BY <1>1, SnifferInvariant, PTL

(* stop, whether called by the coordinator or by a start that failed,      *)
(* leaves no subprocess, handle or FIFO behind (sniffer.py, stop).         *)
THEOREM SnifferStopsClean == Spec => []StoppedMeansGone
<1>1. IInv => StoppedMeansGone
  BY DEF IInv, Handles, OneServes, FilesAreKnown, StoppedMeansGone, Serving
<1>2. QED
  BY <1>1, SnifferInvariant, PTL

(* As long as no join times out, only threads of the running generation    *)
(* publish (sniffer.py, stop and the three loops).                         *)
THEOREM SnifferReadersAreCurrent == Spec => []ReadersAreCurrent
<1>1. IInv => ReadersAreCurrent
  BY DEF IInv, ThreadsAreKnown, ReadersAreCurrent, Active
<1>2. QED
  BY <1>1, SnifferInvariant, PTL

-----------------------------------------------------------------------------
(* TunedAsStated.  What the extcap will be tuned to once it has read all   *)
(* its messages: the last one of a kind decides, or its own setting.       *)
HopComes(s, own, want) ==
  /\ (\A j \in 1..Len(s) : s[j].arg = "follow") => own = want
  /\ \A i \in 1..Len(s) :
       s[i].arg # "follow" /\ (\A j \in 1..Len(s) : i < j => s[j].arg = "follow") => s[i].hop = want

FollowComes(s, own, want) ==
  /\ (\A j \in 1..Len(s) : s[j].arg # "follow") => own = want
  /\ \A i \in 1..Len(s) :
       s[i].arg = "follow" /\ (\A j \in 1..Len(s) : i < j => s[j].arg # "follow") => s[i].follow = want

(* It is what SnifferState says, from the start on: the address to follow  *)
(* is in the command, the hop set is in the first message.                 *)
Tuned ==
  gen # 0 /\ Serving(gen) =>
    /\ main.pc \in {"opening", "announcing"} => inbox[gen] = <<>> /\ extcap[gen].follow = main.follow
    /\ main.pc = "idle" /\ state.running =>
         /\ HopComes(inbox[gen], extcap[gen].hop, state.hop)
         /\ FollowComes(inbox[gen], extcap[gen].follow, state.follow)

(* A message sent decides about its own kind and about no other.           *)
LEMMA SentComes ==
  ASSUME NEW s \in Seq(Message), NEW m \in Message, NEW hop, NEW wantedHop, NEW follow, NEW wanted,
         m.arg = "follow" => HopComes(s, hop, wantedHop), m.arg # "follow" => m.hop = wantedHop,
         m.arg # "follow" => FollowComes(s, follow, wanted), m.arg = "follow" => m.follow = wanted
  PROVE  HopComes(Append(s, m), hop, wantedHop) /\ FollowComes(Append(s, m), follow, wanted)
<1> DEFINE t == Append(s, m)
<1>1. /\ Len(s) \in Nat /\ Len(t) = Len(s) + 1 /\ t[Len(s) + 1] = m
      /\ \A i \in 1..Len(s) : t[i] = s[i]
  OBVIOUS
<1> HIDE DEF t
<1>2. \A i \in 1..Len(t) : i \in 1..Len(s) \/ i = Len(t)
  BY <1>1
<1>3. HopComes(t, hop, wantedHop)
  <2>1. CASE m.arg = "follow"
    BY <1>1, <1>2, <2>1 DEF HopComes
  <2>2. CASE m.arg # "follow"
    BY <1>1, <1>2, <2>2 DEF HopComes
  <2>3. QED
    BY <2>1, <2>2
<1>4. FollowComes(t, follow, wanted)
  <2>1. CASE m.arg # "follow"
    BY <1>1, <1>2, <2>1 DEF FollowComes
  <2>2. CASE m.arg = "follow"
    BY <1>1, <1>2, <2>2 DEF FollowComes
  <2>3. QED
    BY <2>1, <2>2
<1>5. QED
  BY <1>3, <1>4 DEF t

(* A message obeyed moves from the FIFO into the setting.                  *)
LEMMA ObeyedComes ==
  ASSUME NEW s \in Seq(Message), s # <<>>, NEW hop, NEW wantedHop, NEW follow, NEW wanted,
         HopComes(s, hop, wantedHop), FollowComes(s, follow, wanted)
  PROVE  /\ HopComes(Tail(s), IF Head(s).arg = "follow" THEN hop ELSE Head(s).hop, wantedHop)
         /\ FollowComes(Tail(s), IF Head(s).arg = "follow" THEN Head(s).follow ELSE follow, wanted)
<1> DEFINE t == Tail(s)
           m == Head(s)
<1>1. /\ Len(s) \in Nat /\ Len(t) = Len(s) - 1 /\ Len(s) >= 1 /\ m = s[1]
      /\ \A i \in 1..Len(t) : t[i] = s[i + 1]
  OBVIOUS
<1> HIDE DEF t, m
<1>2. \A i \in 1..Len(s) : i = 1 \/ (i - 1 \in 1..Len(t) /\ s[i] = t[i - 1])
  BY <1>1
<1>3. HopComes(t, IF m.arg = "follow" THEN hop ELSE m.hop, wantedHop)
  <2>1. ASSUME \A j \in 1..Len(t) : t[j].arg = "follow"
        PROVE  (IF m.arg = "follow" THEN hop ELSE m.hop) = wantedHop
    <3>1. \A j \in 1..Len(s) : 1 < j => s[j].arg = "follow"
      BY <1>2, <2>1
    <3>2. CASE m.arg = "follow"
      BY <1>1, <1>2, <2>1, <3>2 DEF HopComes
    <3>3. CASE m.arg # "follow"
      BY <1>1, <3>1, <3>3 DEF HopComes
    <3>4. QED
      BY <3>2, <3>3
  <2>2. ASSUME NEW i \in 1..Len(t), t[i].arg # "follow",
               \A j \in 1..Len(t) : i < j => t[j].arg = "follow"
        PROVE  t[i].hop = wantedHop
    <3>1. i + 1 \in 1..Len(s) /\ s[i + 1] = t[i]
      BY <1>1
    <3>2. \A j \in 1..Len(s) : i + 1 < j => s[j].arg = "follow"
      BY <1>2, <2>2
    <3>3. QED
      BY <2>2, <3>1, <3>2 DEF HopComes
  <2>3. QED
    BY <2>1, <2>2 DEF HopComes
<1>4. FollowComes(t, IF m.arg = "follow" THEN m.follow ELSE follow, wanted)
  <2>1. ASSUME \A j \in 1..Len(t) : t[j].arg # "follow"
        PROVE  (IF m.arg = "follow" THEN m.follow ELSE follow) = wanted
    <3>1. \A j \in 1..Len(s) : 1 < j => s[j].arg # "follow"
      BY <1>2, <2>1
    <3>2. CASE m.arg = "follow"
      BY <1>1, <3>1, <3>2 DEF FollowComes
    <3>3. CASE m.arg # "follow"
      BY <1>1, <1>2, <2>1, <3>3 DEF FollowComes
    <3>4. QED
      BY <3>2, <3>3
  <2>2. ASSUME NEW i \in 1..Len(t), t[i].arg = "follow",
               \A j \in 1..Len(t) : i < j => t[j].arg # "follow"
        PROVE  t[i].follow = wanted
    <3>1. i + 1 \in 1..Len(s) /\ s[i + 1] = t[i]
      BY <1>1
    <3>2. \A j \in 1..Len(s) : i + 1 < j => s[j].arg # "follow"
      BY <1>2, <2>2
    <3>3. QED
      BY <2>2, <3>1, <3>2 DEF FollowComes
  <2>3. QED
    BY <2>1, <2>2 DEF FollowComes
<1>5. QED
  BY <1>3, <1>4 DEF t, m

(* A write reaches a subprocess that serves.                               *)
LEMMA SendKeepsTuned ==
  ASSUME IInv, gen \in Gens, ctrlFd = gen, NEW m \in Message, WriteCtrl(m),
         main.pc' = "idle", state'.running, UNCHANGED <<gen, extcap>>,
         Serving(gen) =>
           /\ m.arg = "follow" => HopComes(inbox[gen], extcap[gen].hop, state'.hop)
           /\ m.arg # "follow" => m.hop = state'.hop /\ FollowComes(inbox[gen], extcap[gen].follow, state'.follow)
           /\ m.arg = "follow" => m.follow = state'.follow
  PROVE  Tuned'
<1> SUFFICES ASSUME Serving(gen) PROVE Tuned'
  BY DEF Tuned, Serving
<1>1. inbox \in [Gens -> Seq(Message)] /\ inbox[gen] \in Seq(Message)
  BY DEF IInv, TypeOK
<1>2. inbox'[gen] = Append(inbox[gen], m)
  BY <1>1 DEF WriteCtrl, Serving, Alive
<1>3. /\ HopComes(Append(inbox[gen], m), extcap[gen].hop, state'.hop)
      /\ FollowComes(Append(inbox[gen], m), extcap[gen].follow, state'.follow)
  BY <1>1, SentComes
<1>4. QED
  BY <1>2, <1>3 DEF Tuned

LEMMA CallsKeepTuned == ASSUME IInv, Tuned, Caller \/ InCall PROVE Tuned'
<1>0. TypeOK /\ state \in StateType /\ extcap \in [Gens -> ProcType]
  BY DEF IInv, TypeOK
<1>1. CASE SpawnRaises
  BY <1>1 DEF SpawnRaises, Prepare, IInv, Handles, Tuned
<1>2. ASSUME NEW h \in HopSets, NEW a \in Addrs \cup {NoAddr}, Spawn(h, a) PROVE Tuned'
  <2> DEFINE born == [Unborn EXCEPT !.status = "booting", !.follow = a]
  <2>1. /\ gen' = gen + 1 /\ gen < MaxStarts /\ extcap' = [extcap EXCEPT ![gen'] = born] /\ inbox' = inbox
        /\ main' = [pc |-> "opening", hop |-> h, follow |-> a]
    BY <1>2 DEF Spawn, Prepare
  <2>2. gen' \in Gens /\ gen' > gen
    BY <1>0, <2>1, SnifferProcessAssumption DEF TypeOK, Gens
  <2>3. born.follow = a /\ inbox[gen'] = <<>>
    BY <2>2, Defaults DEF IInv, FutureIsBlank, ProcType
  <2> HIDE DEF born
  <2>4. extcap'[gen'] = born /\ main'.pc = "opening" /\ main'.follow = a
    BY <1>0, <2>1, <2>2
  <2>5. QED
    BY <2>1, <2>3, <2>4 DEF Tuned
<1>3. CASE Stop \/ OpenFails
  BY <1>3 DEF Stop, OpenFails, BeginStop, Tuned, AtRest
<1>4. ASSUME NEW h \in HopSets, SetAdvHop(h) PROVE Tuned'
  <2>1. main.pc = "idle" /\ UNCHANGED <<main, gen, ctrlFd, extcap>>
    BY <1>4 DEF SetAdvHop
  <2>2. CASE state.running
    <3> DEFINE error == state.error \/ ~Alive(ctrlFd)
               m == Msg("hop", h, NoAddr)
    <3>1. WriteCtrl(m) /\ state' = [state EXCEPT !.hop = h, !.error = error]
      BY <1>4, <2>2 DEF SetAdvHop
    <3> HIDE DEF error
    <3>2. state'.running = state.running /\ state'.hop = h /\ state'.follow = state.follow
      BY <1>0, <3>1 DEF StateType
    <3>3. gen \in Gens /\ ctrlFd = gen
      BY <1>0, <2>1, <2>2, SnifferProcessAssumption DEF IInv, Handles, TypeOK, Gens
    <3>4. m \in Message /\ m.arg = "hop" /\ m.hop = h
      BY MessagesAreTyped DEF Msg
    <3> HIDE DEF m
    <3>5. Serving(gen) => FollowComes(inbox[gen], extcap[gen].follow, state'.follow)
      BY <2>1, <2>2, <3>2, <3>3 DEF Tuned, Gens
    <3>6. QED
      BY <2>1, <2>2, <3>1, <3>2, <3>3, <3>4, <3>5, SendKeepsTuned
  <2>3. CASE ~state.running
    BY <1>0, <1>4, <2>1, <2>3 DEF SetAdvHop, StateType, Tuned, Serving
  <2>4. QED
    BY <2>2, <2>3
<1>5. ASSUME NEW a \in Addrs, FollowAddress(a) PROVE Tuned'
  <2> DEFINE error == state.error \/ ~Alive(ctrlFd)
             m == Msg("follow", state.hop, a)
  <2>1. /\ main.pc = "idle" /\ state.running /\ UNCHANGED <<main, gen, ctrlFd, extcap>>
        /\ WriteCtrl(m) /\ state' = [state EXCEPT !.follow = a, !.error = error]
    BY <1>5 DEF FollowAddress
  <2> HIDE DEF error
  <2>2. state'.running /\ state'.hop = state.hop /\ state'.follow = a /\ state.hop \in HopSets
    BY <1>0, <2>1 DEF StateType
  <2>3. gen \in Gens /\ ctrlFd = gen
    BY <1>0, <2>1, SnifferProcessAssumption DEF IInv, Handles, TypeOK, Gens
  <2>4. m \in Message /\ m.arg = "follow" /\ m.follow = a
    BY <2>2, MessagesAreTyped DEF Msg
  <2> HIDE DEF m
  <2>5. Serving(gen) => HopComes(inbox[gen], extcap[gen].hop, state'.hop)
    BY <2>1, <2>2, <2>3 DEF Tuned, Gens
  <2>6. QED
    BY <2>1, <2>2, <2>3, <2>4, <2>5, SendKeepsTuned
<1>6. CASE OpenCtrl
  <2>1. main'.pc = "announcing" /\ main'.follow = main.follow
    BY <1>0, <1>6 DEF OpenCtrl, TypeOK, MainType
  <2>2. QED
    BY <1>6, <2>1 DEF OpenCtrl, Tuned, Serving
<1>7. CASE Announce
  <2> DEFINE error == state.error \/ ~Alive(gen)
             m == Msg("init", main.hop, NoAddr)
  <2>1. /\ main.pc = "announcing" /\ main' = AtRest /\ UNCHANGED <<gen, ctrlFd, extcap>> /\ WriteCtrl(m)
        /\ state' = [running |-> TRUE, hop |-> main.hop, follow |-> main.follow, error |-> error]
    BY <1>7 DEF Announce
  <2> HIDE DEF error
  <2>2. state'.running /\ state'.hop = main.hop /\ state'.follow = main.follow /\ main'.pc = "idle"
    BY <2>1, Defaults
  <2>3. gen \in Gens /\ ctrlFd = gen
    BY <1>0, <2>1, SnifferProcessAssumption DEF IInv, Handles, TypeOK, Gens
  <2>4. m \in Message /\ m.arg = "init" /\ m.hop = main.hop
    BY <1>0, MessagesAreTyped DEF Msg, TypeOK, MainType
  <2> HIDE DEF m
  <2>5. Serving(gen) => FollowComes(inbox[gen], extcap[gen].follow, state'.follow)
    BY <2>1, <2>2, <2>3 DEF Tuned, FollowComes, Gens
  <2>6. QED
    BY <2>1, <2>2, <2>3, <2>4, <2>5, SendKeepsTuned
<1>8. CASE Reap
  <2>1. main'.pc = "joining"
    BY <1>0, <1>8 DEF Reap, TypeOK, MainType
  <2>2. QED
    BY <2>1 DEF Tuned
<1>9. CASE JoinThreads
  <2>1. main'.pc = "idle" /\ ~state'.running
    BY <1>0, <1>9, Defaults DEF JoinThreads, StateType
  <2>2. QED
    BY <2>1 DEF Tuned
<1>10. QED
  BY <1>1, <1>2, <1>3, <1>4, <1>5, <1>6, <1>7, <1>8, <1>9 DEF Caller, InCall

LEMMA ExtcapKeepsTuned == ASSUME IInv, Tuned, NEW g \in Gens, Extcap(g) PROVE Tuned'
<1>1. /\ extcap \in [Gens -> ProcType] /\ inbox \in [Gens -> Seq(Message)]
      /\ UNCHANGED <<main, state, gen>>
      /\ extcap[g] \in ProcType
  BY DEF IInv, TypeOK, Extcap, Open, Obey, DieEarly, Die, Emit, selfVars
<1>2. gen = 0 \/ gen \in Gens
  BY SnifferProcessAssumption DEF IInv, TypeOK, Gens
<1>3. CASE Open(g)
  <2>1. /\ extcap' = [extcap EXCEPT ![g].status = "opened"] /\ inbox' = inbox
        /\ extcap[g].status = "booting"
    BY <1>3 DEF Open
  <2>2. [extcap[g] EXCEPT !.status = "opened"].hop = extcap[g].hop
        /\ [extcap[g] EXCEPT !.status = "opened"].follow = extcap[g].follow
    BY <1>1 DEF ProcType
  <2>3. /\ g # gen => extcap'[gen] = extcap[gen]
        /\ extcap'[g].hop = extcap[g].hop /\ extcap'[g].follow = extcap[g].follow
    BY <1>1, <2>1, <2>2
  <2>4. Serving(g)
    BY <2>1 DEF Serving
  <2>5. QED
    BY <1>1, <2>1, <2>3, <2>4 DEF Tuned, Serving
<1>4. CASE Obey(g)
  <2> DEFINE m == Head(inbox[g])
             tuned == [status |-> IF m.arg = "init" THEN "capturing" ELSE extcap[g].status,
                       hop    |-> IF m.arg = "follow" THEN extcap[g].hop ELSE m.hop,
                       follow |-> IF m.arg = "follow" THEN m.follow ELSE extcap[g].follow]
  <2>1. /\ extcap[g].status \in {"opened", "capturing"} /\ inbox[g] # <<>>
        /\ extcap' = [extcap EXCEPT ![g] = tuned]
        /\ inbox' = [inbox EXCEPT ![g] = Tail(inbox[g])]
    BY <1>4 DEF Obey
  <2>2. Serving(g) /\ g = gen
    BY <2>1 DEF IInv, OneServes, Serving
  <2>3. inbox'[g] = Tail(inbox[g]) /\ extcap'[g] = tuned
    BY <1>1, <2>1
  <2>4. /\ extcap'[g].hop = IF m.arg = "follow" THEN extcap[g].hop ELSE m.hop
        /\ extcap'[g].follow = IF m.arg = "follow" THEN m.follow ELSE extcap[g].follow
    BY <2>3
  <2>5. ~(main.pc \in {"opening", "announcing"})
    BY <2>1, <2>2 DEF Tuned, Gens
  <2>6. ASSUME main.pc = "idle", state.running
        PROVE  /\ HopComes(inbox'[g], extcap'[g].hop, state.hop)
               /\ FollowComes(inbox'[g], extcap'[g].follow, state.follow)
    <3>1. HopComes(inbox[g], extcap[g].hop, state.hop) /\ FollowComes(inbox[g], extcap[g].follow, state.follow)
      BY <2>2, <2>6 DEF Tuned, Gens
    <3>2. inbox[g] \in Seq(Message)
      BY <1>1
    <3>3. QED
      BY <2>1, <2>3, <2>4, <3>1, <3>2, ObeyedComes
  <2>7. QED
    BY <1>1, <2>2, <2>5, <2>6 DEF Tuned
<1>5. CASE DieEarly(g)
  <2>1. extcap' = [extcap EXCEPT ![g].status = "stillborn"] /\ inbox' = inbox
    BY <1>5 DEF DieEarly
  <2>2. g # gen => extcap'[gen] = extcap[gen]
    BY <1>1, <2>1
  <2>3. [extcap[g] EXCEPT !.status = "stillborn"].status = "stillborn"
    BY <1>1 DEF ProcType
  <2>4. extcap'[g].status = "stillborn"
    BY <1>1, <2>1, <2>3
  <2>5. QED
    BY <1>1, <2>1, <2>2, <2>4 DEF Tuned, Serving
<1>6. CASE Die(g)
  <2> DEFINE dead == [Unborn EXCEPT !.status = "dead"]
  <2>1. extcap' = [extcap EXCEPT ![g] = dead] /\ inbox' = [inbox EXCEPT ![g] = <<>>]
    BY <1>6 DEF Die
  <2>2. dead.status = "dead"
    BY Defaults DEF ProcType
  <2> HIDE DEF dead
  <2>3. /\ g # gen => extcap'[gen] = extcap[gen] /\ inbox'[gen] = inbox[gen]
        /\ extcap'[g].status = "dead"
    BY <1>1, <2>1, <2>2
  <2>4. QED
    BY <1>1, <2>3 DEF Tuned, Serving
<1>7. ASSUME NEW k \in Kinds, Emit(g, k) PROVE Tuned'
  BY <1>1, <1>7 DEF Emit, Tuned, Serving
<1>8. QED
  BY <1>3, <1>4, <1>5, <1>6, <1>7 DEF Extcap

LEMMA ThreadKeepsTuned == ASSUME IInv, Tuned, NEW g \in Gens, NEW k \in Kinds, Thread(g, k) PROVE Tuned'
<1>1. UNCHANGED <<main, gen, extcap, inbox>> /\ (state' = state \/ state' = [state EXCEPT !.error = TRUE])
  BY DEF Thread, Read, EndOfFile, Handle, selfVars
<1>2. state'.running = state.running /\ state'.hop = state.hop /\ state'.follow = state.follow
  BY <1>1 DEF IInv, TypeOK, StateType
<1>3. QED
  BY <1>1, <1>2 DEF Tuned, Serving

(* Across restarts, retuning and failed writes, the extcap is tuned to     *)
(* what SnifferState says once it has read its messages (sniffer.py,       *)
(* start, set_adv_hop, follow_address).                                    *)
THEOREM SnifferTunedAsStated == Spec => []TunedAsStated
<1>1. Init => Tuned
  BY DEF Init, Tuned, AtRest
<1>2. ASSUME IInv, Tuned, [Next]_vars PROVE Tuned'
  <2>1. CASE Caller \/ InCall
    BY <1>2, <2>1, CallsKeepTuned
  <2>2. ASSUME NEW g \in Gens, Extcap(g) \/ \E k \in Kinds : Thread(g, k) PROVE Tuned'
    BY <1>2, <2>2, ExtcapKeepsTuned, ThreadKeepsTuned
  <2>3. CASE UNCHANGED vars
    BY <1>2, <2>3 DEF vars, selfVars, worldVars, Tuned, Serving
  <2>4. QED
    BY <1>2, <2>1, <2>2, <2>3 DEF Next
<1>3. IInv /\ Tuned => TunedAsStated
  <2> SUFFICES ASSUME IInv, Tuned, main.pc = "idle", state.running, extcap[gen].status = "capturing", inbox[gen] = <<>>
               PROVE  extcap[gen].hop = state.hop /\ extcap[gen].follow = state.follow
    BY DEF TunedAsStated
  <2>1. HopComes(<<>>, extcap[gen].hop, state.hop) /\ FollowComes(<<>>, extcap[gen].follow, state.follow)
    BY DEF IInv, Handles, Tuned, Serving
  <2>2. QED
    BY <2>1 DEF HopComes, FollowComes
<1>4. QED
  BY <1>1, <1>2, <1>3, SnifferInvariant, PTL DEF Spec
=============================================================================
