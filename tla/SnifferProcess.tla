--------------------------- MODULE SnifferProcess ---------------------------
(***************************************************************************)
(* One extcap/sniffer.py SnifferProcess: the thread of the caller that     *)
(* starts, retunes and stops it, the extcap subprocess behind its FIFOs,   *)
(* and the reader threads, through any number of restarts.                 *)
(*                                                                         *)
(* A generation is one call of start that got as far as creating its       *)
(* FIFOs.  The objects a generation owns - FIFOs, subprocess, threads -    *)
(* outlive a stop whose waits time out; the attributes of the object and   *)
(* the event _stop are shared by all generations.                          *)
(*                                                                         *)
(* The extcap is external: it opens all its pipes at once, waits for the   *)
(* INIT message, writes packets, control messages and lines of text, and   *)
(* may die at any time.  What it prints before it opens its pipes fits     *)
(* into the pipe.  A control write is one message, although follow_address *)
(* and the start send two each.                                            *)
(***************************************************************************)
EXTENDS Integers, FiniteSets, Sequences

CONSTANTS
  HopSets,     \* advertising channel lists
  Addrs,       \* addresses to follow
  NoAddr,
  Kinds,       \* the pipes read by a thread each: "capture", "ctrl_out", "stderr"
  PipeSize,    \* what a pipe holds
  MaxStarts,   \* bound: generations
  MaxCtrl,     \* bound: messages under way to the extcap
  MayFail      \* kinds of failure considered

Gens == 1..MaxStarts

ASSUME SnifferProcessAssumption ==
  /\ NoAddr \notin Addrs /\ HopSets # {}
  /\ PipeSize \in Nat \ {0} /\ MaxStarts \in Nat /\ MaxCtrl \in Nat \ {0}
  /\ MayFail \subseteq {"spawn", "early", "slow"}

VARIABLES
  faults,   \* those that occur: Popen raises; the extcap dies before it
            \* opens its pipes; waits and joins may time out
  main,     \* where the caller is in start or stop, and what it asked for
  state,    \* SnifferState: running, adv_hop, follow_target, last_error
  gen,      \* the generation self._fifo_dir and the threads belong to
  proc,     \* _proc, 0 for None
  ctrlFd,   \* _ctrl_in_fd, 0 for None
  stop,     \* _stop
  files,    \* generations whose FIFOs exist
  extcap,   \* the subprocesses: status, and what each is tuned to
  inbox,    \* messages in the control FIFO of each
  pipe,     \* how much is in each of its other pipes
  thread    \* the threads of each generation

selfVars == <<state, gen, proc, ctrlFd, stop, files>>
worldVars == <<extcap, inbox, pipe, thread>>
vars == <<faults, main, selfVars, worldVars>>

Message == [arg : {"init"}, hop : HopSets, follow : {NoAddr}]
           \cup [arg : {"hop"}, hop : HopSets, follow : {NoAddr}]
           \cup [arg : {"follow"}, hop : HopSets, follow : Addrs]

SomeHop == CHOOSE h \in HopSets : TRUE
Msg(arg, h, a) == [arg |-> arg, hop |-> h, follow |-> a]

AtRest == [pc |-> "idle", hop |-> SomeHop, follow |-> NoAddr]
Unborn == [status |-> "none", hop |-> SomeHop, follow |-> NoAddr]

Init ==
  /\ faults \in SUBSET MayFail
  /\ main = AtRest
  /\ state = [running |-> FALSE, hop |-> SomeHop, follow |-> NoAddr, error |-> FALSE]
  /\ gen = 0 /\ proc = 0 /\ ctrlFd = 0 /\ stop = FALSE /\ files = {}
  /\ extcap = [g \in Gens |-> Unborn]
  /\ inbox = [g \in Gens |-> <<>>]
  /\ pipe = [g \in Gens |-> [k \in Kinds |-> 0]]
  /\ thread = [g \in Gens |-> [k \in Kinds |-> "none"]]

-----------------------------------------------------------------------------
(* start, up to Popen.  When that raises, the FIFOs stay.  The address to  *)
(* follow is an argument of the command, the hop set is not.               *)
Prepare ==
  /\ main.pc = "idle" /\ ~state.running
  /\ gen < MaxStarts
  /\ gen' = gen + 1
  /\ files' = files \cup {gen'}
  /\ UNCHANGED <<faults, ctrlFd, stop, inbox, pipe, thread>>

SpawnRaises ==
  /\ Prepare
  /\ "spawn" \in faults
  /\ UNCHANGED <<main, state, proc, extcap>>

Spawn(h, a) ==
  /\ Prepare
  /\ proc' = gen'
  /\ extcap' = [extcap EXCEPT ![gen'] = [Unborn EXCEPT !.status = "booting", !.follow = a]]
  /\ main' = [pc |-> "opening", hop |-> h, follow |-> a]
  /\ UNCHANGED state

(* The open of the control FIFO returns once the extcap has opened its end.*)
(* The threads are started on a cleared event.                             *)
\* Mutant: the event is not cleared.
OpenCtrlKeepsStop ==
  /\ main.pc = "opening"
  /\ extcap[gen].status \in {"opened", "dead"}
  /\ ctrlFd' = gen
  /\ thread' = [thread EXCEPT ![gen] = [k \in Kinds |-> IF stop THEN "done" ELSE "reading"]]
  /\ main' = [main EXCEPT !.pc = "announcing"]
  /\ UNCHANGED <<faults, stop, state, gen, proc, files, extcap, inbox, pipe>>

OpenCtrl ==
  /\ main.pc = "opening"
  /\ extcap[gen].status \in {"opened", "dead"}
  /\ ctrlFd' = gen
  /\ stop' = FALSE
  /\ thread' = [thread EXCEPT ![gen] = [k \in Kinds |-> "reading"]]
  /\ main' = [main EXCEPT !.pc = "announcing"]
  /\ UNCHANGED <<faults, state, gen, proc, files, extcap, inbox, pipe>>

(* _write_ctrl: a message, or last_error if nobody reads any more          *)
Alive(g) == extcap[g].status \in {"booting", "opened", "capturing", "dying"}

WriteCtrl(m) ==
  inbox' = IF Alive(ctrlFd) THEN [inbox EXCEPT ![ctrlFd] = Append(@, m)] ELSE inbox

\* Mutant: the hop set is taken to be the default one and not sent.
AnnounceDefault ==
  /\ main.pc = "announcing"
  /\ WriteCtrl(Msg("init", SomeHop, NoAddr))
  /\ state' = [running |-> TRUE, hop |-> main.hop, follow |-> main.follow,
               error |-> state.error \/ ~Alive(gen)]
  /\ main' = AtRest
  /\ UNCHANGED <<faults, gen, proc, ctrlFd, stop, files, extcap, pipe, thread>>

(* The initial hop set and INIT; then the sniffer counts as running.       *)
Announce ==
  /\ main.pc = "announcing"
  /\ WriteCtrl(Msg("init", main.hop, NoAddr))
  /\ state' = [running |-> TRUE, hop |-> main.hop, follow |-> main.follow,
               error |-> state.error \/ ~Alive(gen)]
  /\ main' = AtRest
  /\ UNCHANGED <<faults, gen, proc, ctrlFd, stop, files, extcap, pipe, thread>>

-----------------------------------------------------------------------------
(* stop, from its guard to terminate.  Also what start calls when a        *)
(* control FIFO cannot be opened.                                          *)
\* Mutant: the subprocess is expected to end by itself.
BeginStopUnterminated ==
  /\ stop' = TRUE
  /\ ctrlFd' = 0
  /\ main' = [AtRest EXCEPT !.pc = "waiting"]
  /\ UNCHANGED <<faults, gen, proc, files, worldVars>>

BeginStop ==
  /\ stop' = TRUE
  /\ ctrlFd' = 0
  /\ extcap' = IF proc # 0 /\ Alive(proc) THEN [extcap EXCEPT ![proc].status = "dying"] ELSE extcap
  /\ main' = [AtRest EXCEPT !.pc = "waiting"]
  /\ UNCHANGED <<faults, gen, proc, files, inbox, pipe, thread>>

\* Mutant: stop looks at `running` only.
OpenFailsUnstopped ==
  /\ main.pc = "opening"
  /\ state' = [state EXCEPT !.error = TRUE]
  /\ main' = AtRest
  /\ UNCHANGED <<faults, gen, proc, ctrlFd, stop, files, worldVars>>

OpenFails ==
  /\ main.pc = "opening"
  /\ state' = [state EXCEPT !.error = TRUE]
  /\ BeginStop

Stop ==
  /\ main.pc = "idle"
  /\ state.running \/ proc # 0
  /\ BeginStop
  /\ UNCHANGED state

(* wait(timeout=2), else kill, which is not waited for                     *)
Reap ==
  /\ main.pc = "waiting"
  /\ ~Alive(proc) \/ "slow" \in faults
  /\ proc' = 0
  /\ main' = [main EXCEPT !.pc = "joining"]
  /\ UNCHANGED <<faults, state, gen, ctrlFd, stop, files, worldVars>>

\* Mutant: the threads are not waited for.
ForgetThreads ==
  /\ main.pc = "joining"
  /\ files' = files \ {gen}
  /\ state' = [state EXCEPT !.running = FALSE, !.follow = NoAddr]
  /\ main' = AtRest
  /\ UNCHANGED <<faults, gen, proc, ctrlFd, stop, worldVars>>

(* join(timeout=1) of the threads there are, then the FIFOs are removed    *)
JoinThreads ==
  /\ main.pc = "joining"
  /\ (\A k \in Kinds : thread[gen][k] \in {"none", "done"}) \/ "slow" \in faults
  /\ files' = files \ {gen}
  /\ state' = [state EXCEPT !.running = FALSE, !.follow = NoAddr]
  /\ main' = AtRest
  /\ UNCHANGED <<faults, gen, proc, ctrlFd, stop, worldVars>>

-----------------------------------------------------------------------------
(* Retuning a running sniffer; one that is not running keeps a note only.  *)
SetAdvHop(h) ==
  /\ main.pc = "idle"
  /\ IF state.running
     THEN /\ Len(inbox[ctrlFd]) < MaxCtrl
          /\ WriteCtrl(Msg("hop", h, NoAddr))
          /\ state' = [state EXCEPT !.hop = h, !.error = @ \/ ~Alive(ctrlFd)]
     ELSE state' = [state EXCEPT !.hop = h] /\ UNCHANGED inbox
  /\ UNCHANGED <<faults, main, gen, proc, ctrlFd, stop, files, extcap, pipe, thread>>

(* The coordinator calls it for a running sniffer only.                    *)
FollowAddress(a) ==
  /\ main.pc = "idle" /\ state.running
  /\ Len(inbox[ctrlFd]) < MaxCtrl
  /\ WriteCtrl(Msg("follow", state.hop, a))
  /\ state' = [state EXCEPT !.follow = a, !.error = @ \/ ~Alive(ctrlFd)]
  /\ UNCHANGED <<faults, main, gen, proc, ctrlFd, stop, files, extcap, pipe, thread>>

-----------------------------------------------------------------------------
(* The extcap.                                                             *)
Open(g) ==
  /\ extcap[g].status = "booting"
  /\ extcap' = [extcap EXCEPT ![g].status = "opened"]
  /\ UNCHANGED <<faults, main, selfVars, inbox, pipe, thread>>

Obey(g) ==
  /\ extcap[g].status \in {"opened", "capturing"}
  /\ inbox[g] # <<>>
  /\ LET m == Head(inbox[g])
     IN extcap' = [extcap EXCEPT ![g] =
          [status |-> IF m.arg = "init" THEN "capturing" ELSE extcap[g].status,
           hop    |-> IF m.arg = "follow" THEN extcap[g].hop ELSE m.hop,
           follow |-> IF m.arg = "follow" THEN m.follow ELSE extcap[g].follow]]
  /\ inbox' = [inbox EXCEPT ![g] = Tail(@)]
  /\ UNCHANGED <<faults, main, selfVars, pipe, thread>>

(* A subprocess that has been told to end may still write.                 *)
Emit(g, k) ==
  /\ extcap[g].status \in (IF k = "stderr" THEN {"booting", "opened", "capturing", "dying"}
                                           ELSE {"capturing", "dying"})
  /\ pipe[g][k] < PipeSize
  /\ pipe' = [pipe EXCEPT ![g][k] = @ + 1]
  /\ UNCHANGED <<faults, main, selfVars, extcap, inbox, thread>>

(* An early death leaves the traceback in the pipe.                        *)
DieEarly(g) ==
  /\ "early" \in faults
  /\ extcap[g].status = "booting"
  /\ extcap' = [extcap EXCEPT ![g].status = "stillborn"]
  /\ pipe' = [pipe EXCEPT ![g] = [k \in Kinds |-> IF k = "stderr" THEN PipeSize ELSE 0]]
  /\ UNCHANGED <<faults, main, selfVars, inbox, thread>>

Die(g) ==
  /\ extcap[g].status \in {"opened", "capturing", "dying"}
  /\ extcap' = [extcap EXCEPT ![g] = [Unborn EXCEPT !.status = "dead"]]
  /\ inbox' = [inbox EXCEPT ![g] = <<>>]
  /\ UNCHANGED <<faults, main, selfVars, pipe, thread>>

-----------------------------------------------------------------------------
(* The threads: _capture_loop, _ctrl_out_loop, _stderr_loop.  They block   *)
(* in a read until something or the end of the file arrives.               *)
Read(g, k) ==
  /\ thread[g][k] = "reading"
  /\ pipe[g][k] > 0
  /\ pipe' = [pipe EXCEPT ![g][k] = @ - 1]
  /\ thread' = [thread EXCEPT ![g][k] = "handling"]
  /\ UNCHANGED <<faults, main, selfVars, extcap, inbox>>

EndOfFile(g, k) ==
  /\ thread[g][k] = "reading"
  /\ pipe[g][k] = 0 /\ ~Alive(g)
  /\ thread' = [thread EXCEPT ![g][k] = "done"]
  /\ UNCHANGED <<faults, main, selfVars, extcap, inbox, pipe>>

(* A packet is published, a message or line may be noted as last_error;    *)
(* then the thread looks at _stop.  The stderr thread looks first.         *)
Handle(g, k) ==
  /\ thread[g][k] = "handling"
  /\ thread' = [thread EXCEPT ![g][k] = IF stop THEN "done" ELSE "reading"]
  /\ state' = IF k = "capture" \/ (k = "stderr" /\ stop) THEN state ELSE [state EXCEPT !.error = TRUE]
  /\ UNCHANGED <<faults, main, gen, proc, ctrlFd, stop, files, extcap, inbox, pipe>>

-----------------------------------------------------------------------------
Caller ==
  \/ SpawnRaises \/ Stop
  \/ \E h \in HopSets, a \in Addrs \cup {NoAddr} : Spawn(h, a)
  \/ \E h \in HopSets : SetAdvHop(h)
  \/ \E a \in Addrs : FollowAddress(a)

InCall == OpenCtrl \/ OpenFails \/ Announce \/ Reap \/ JoinThreads

Extcap(g) == Open(g) \/ Obey(g) \/ DieEarly(g) \/ Die(g) \/ \E k \in Kinds : Emit(g, k)

Thread(g, k) == Read(g, k) \/ EndOfFile(g, k) \/ Handle(g, k)

Next == Caller \/ InCall \/ \E g \in Gens : Extcap(g) \/ \E k \in Kinds : Thread(g, k)

Spec == Init /\ [][Next]_vars

(* Fairness: a call under way and every thread go on while they can; an    *)
(* extcap opens its pipes or dies, and dies when it is told to.            *)
Fairness ==
  /\ WF_vars(OpenCtrl \/ Announce \/ Reap \/ JoinThreads)
  /\ \A g \in Gens :
       /\ WF_vars(Open(g) \/ DieEarly(g))
       /\ WF_vars(extcap[g].status = "dying" /\ Die(g))
       /\ \A k \in Kinds : WF_vars(Thread(g, k))

FairSpec == Spec /\ Fairness

-----------------------------------------------------------------------------
MainType == [pc : {"idle", "opening", "announcing", "waiting", "joining"},
             hop : HopSets, follow : Addrs \cup {NoAddr}]
StateType == [running : BOOLEAN, hop : HopSets, follow : Addrs \cup {NoAddr}, error : BOOLEAN]
ProcType == [status : {"none", "booting", "opened", "capturing", "dying", "dead", "stillborn"},
             hop : HopSets, follow : Addrs \cup {NoAddr}]
ThreadType == {"none", "reading", "handling", "done"}

TypeOK ==
  /\ faults \subseteq MayFail /\ main \in MainType /\ state \in StateType
  /\ gen \in 0..MaxStarts /\ proc \in {0, gen} /\ ctrlFd \in {0, gen}
  /\ stop \in BOOLEAN /\ files \subseteq 1..gen
  /\ extcap \in [Gens -> ProcType] /\ inbox \in [Gens -> Seq(Message)]
  /\ pipe \in [Gens -> [Kinds -> 0..PipeSize]] /\ thread \in [Gens -> [Kinds -> ThreadType]]

(* When the object says it is not running, and no call is under way, no    *)
(* subprocess is left that nobody has told to end, and no handle on one.   *)
(* Its FIFOs are gone, unless Popen raised in some start.                  *)
StoppedMeansGone ==
  main.pc = "idle" /\ ~state.running =>
    /\ proc = 0 /\ ctrlFd = 0
    /\ \A g \in Gens : extcap[g].status \notin {"booting", "opened", "capturing"}
    /\ "spawn" \notin faults => files = {}

(* The threads of a generation end with it, unless a join timed out: what  *)
(* is published comes from the subprocess that runs now.                   *)
ReadersAreCurrent ==
  "slow" \notin faults =>
    \A g \in Gens, k \in Kinds :
      thread[g][k] \in {"reading", "handling"} =>
        g = gen /\ ~(main.pc = "idle" /\ ~state.running)

(* Once it has read its messages, the extcap is tuned to what SnifferState *)
(* says: across restarts, retuning and failed writes.                      *)
TunedAsStated ==
  main.pc = "idle" /\ state.running /\ extcap[gen].status = "capturing" /\ inbox[gen] = <<>> =>
    extcap[gen].hop = state.hop /\ extcap[gen].follow = state.follow

(* start and stop return, if no extcap dies before it opens its pipes.     *)
CallsReturn == ("early" \notin faults /\ main.pc # "idle") ~> (main.pc = "idle")

(* An extcap that lives is never blocked for good by a full pipe.          *)
PipesAreDrained ==
  \A g \in Gens, k \in Kinds :
    (pipe[g][k] = PipeSize) ~> (pipe[g][k] < PipeSize \/ ~Alive(g))

(* sniffer.py:190-194: stderr is captured so that tracebacks of the extcap *)
(* surface as last_error.                                                  *)
EarlyErrorsSurface ==
  \A g \in Gens : (extcap[g].status = "stillborn") ~> state.error
=============================================================================
