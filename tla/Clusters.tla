------------------------------ MODULE Clusters ------------------------------
(***************************************************************************)
(* The periodic cluster pass: the canvas dispatches a snapshot of the      *)
(* devices to a worker thread (ui/canvas.py, _run_cluster_tick and         *)
(* _ClusterWorker), the runner returns the pairs it would merge            *)
(* (cluster/runner.py), and the main thread applies them to the cluster    *)
(* tables in one transaction (db/repos.py, Clusters.apply_run).  Meanwhile *)
(* devices are classified, by the user or by what is heard of them, and    *)
(* the program may end at any time.                                        *)
(*                                                                         *)
(* Which pairs the signals merge is left open: any pairs of one class.     *)
(* apply_run takes the decisions of a run in the order of the list, here   *)
(* in any order.  Every cluster row the program writes is confirmed, so    *)
(* the DELETE of unconfirmed rows finds none and is left out, and so are   *)
(* the scores and times kept as evidence.                                  *)
(***************************************************************************)
EXTENDS Integers, FiniteSets

CONSTANTS
  Devs,         \* rows of devices
  Classes,      \* effective device classes
  NoClass,      \* not classified
  MaxPerClass   \* cluster.max_per_class

ASSUME ClustersAssumption == NoClass \notin Classes /\ MaxPerClass \in Nat

VARIABLES
  class,      \* COALESCE(user_device_class, device_class) of each device
  busy,       \* _cluster_busy
  worker,     \* the worker thread and what it holds
  applying,   \* is the main thread inside the transaction of apply_run?
  run,        \* the decisions being applied
  todo,       \* those of them still to be applied
  grouping,   \* device_to_cluster of apply_run, 0 for "not in it"
  work,       \* the cluster tables as the transaction sees them
  saved,      \* the cluster tables as committed
  evidence    \* history: all decisions whose transaction was committed

workerVars == <<busy, worker>>
applyVars == <<applying, run, todo, grouping, work, saved, evidence>>
vars == <<class, workerVars, applyVars>>

Pairs == {{a, b} : a, b \in Devs} \ {{a} : a \in Devs}

(* Rows of device_clusters, pairs of device_cluster_members, and the last  *)
(* id AUTOINCREMENT has given out.                                         *)
Tables == [rows : SUBSET (Nat \ {0}), members : SUBSET ((Nat \ {0}) \X Devs), seq : Nat]

NoTables == [rows |-> {}, members |-> {}, seq |-> 0]

Snapshot == [Devs -> Classes \cup {NoClass}]
Nothing == [d \in Devs |-> NoClass]

Idle == [pc |-> "idle", seen |-> Nothing, merges |-> {}]

NotGrouped == [d \in Devs |-> 0]

Init ==
  /\ class \in Snapshot
  /\ busy = FALSE /\ worker = Idle
  /\ applying = FALSE /\ run = {} /\ todo = {} /\ grouping = NotGrouped
  /\ work = NoTables /\ saved = NoTables
  /\ evidence = {}

(* set_user_device_class, or a class the decoder found; the main thread    *)
Classify(d, c) ==
  /\ ~applying
  /\ class' = [class EXCEPT ![d] = c]
  /\ UNCHANGED <<workerVars, applyVars>>

(***************************************************************************)
(* _run_cluster_tick, by timer or button: a tick while a run is in flight  *)
(* is dropped, and so is one that finds no device.  load_devices takes the *)
(* classified devices heard of lately.                                     *)
(***************************************************************************)
RunClusterTick(recent) ==
  /\ ~busy /\ ~applying
  /\ recent # {} /\ \A d \in recent : class[d] # NoClass
  /\ busy' = TRUE
  /\ worker' = [Idle EXCEPT !.pc = "requested",
                            !.seen = [d \in Devs |-> IF d \in recent THEN class[d] ELSE NoClass]]
  /\ UNCHANGED <<class, applyVars>>

(* ClusterRunner.run_once: pairs of one class, unless the class is too big *)
Eligible(seen) ==
  {d \in Devs : /\ seen[d] # NoClass
                /\ Cardinality({e \in Devs : seen[e] = seen[d]}) <= MaxPerClass}

Candidates(seen) ==
  {p \in Pairs : p \subseteq Eligible(seen) /\ \A a, b \in p : seen[a] = seen[b]}

RunOnce(merges) ==
  /\ worker.pc = "requested"
  /\ merges \subseteq Candidates(worker.seen)
  /\ worker' = [Idle EXCEPT !.pc = "finished", !.merges = merges]
  /\ UNCHANGED <<class, busy, applyVars>>

(* the run raises, and the worker emits `failed` *)
RunFails ==
  /\ worker.pc = "requested"
  /\ worker' = [Idle EXCEPT !.pc = "failed"]
  /\ UNCHANGED <<class, busy, applyVars>>

\* Mutant: the next tick is only allowed when a run has succeeded.
OnClusterFailedStaysBusy ==
  /\ worker.pc = "failed" /\ ~applying
  /\ worker' = Idle
  /\ UNCHANGED <<class, busy, applyVars>>

OnClusterFailed ==
  /\ worker.pc = "failed" /\ ~applying
  /\ busy' = FALSE /\ worker' = Idle
  /\ UNCHANGED <<class, applyVars>>

(***************************************************************************)
(* _on_cluster_finished and apply_run.                                     *)
(***************************************************************************)
GroupingOf(t) ==
  [d \in Devs |-> IF \E c \in t.rows : <<c, d>> \in t.members
                  THEN CHOOSE c \in t.rows : <<c, d>> \in t.members ELSE 0]

(* Without decisions apply_run returns before it opens a transaction.      *)
OnClusterFinished ==
  /\ worker.pc = "finished" /\ ~applying
  /\ busy' = FALSE /\ worker' = Idle
  /\ IF worker.merges = {}
     THEN UNCHANGED applyVars
     ELSE /\ applying' = TRUE
          /\ run' = worker.merges /\ todo' = worker.merges
          /\ grouping' = GroupingOf(work)
          /\ UNCHANGED <<work, saved, evidence>>
  /\ UNCHANGED class

(* What the four cases of the loop over the decisions have in common.      *)
Decision(e) ==
  /\ applying /\ e \in todo
  /\ todo' = todo \ {e}
  /\ UNCHANGED <<class, workerVars, applying, run, saved, evidence>>

ClustersOf(e) == {grouping[d] : d \in e} \ {0}

(* Both in one cluster: only the time of the decision is updated.          *)
Touch(e) ==
  /\ Decision(e)
  /\ \E c \in ClustersOf(e) : \A d \in e : grouping[d] = c
  /\ UNCHANGED <<grouping, work>>

\* Mutants: the members are moved after the row, and so the rows of the
\* members, are gone; the younger cluster is kept; grouping is not updated.
MergeDeletesFirst(e) ==
  /\ Decision(e)
  /\ \E keep, drop \in ClustersOf(e) :
       /\ keep < drop
       /\ work' = [work EXCEPT !.rows = @ \ {drop}, !.members = {m \in @ : m[1] # drop}]
       /\ grouping' = [d \in Devs |-> IF grouping[d] = drop THEN keep ELSE grouping[d]]

MergeKeepsYounger(e) ==
  /\ Decision(e)
  /\ \E keep, drop \in ClustersOf(e) :
       /\ keep > drop
       /\ work' = [work EXCEPT !.rows = @ \ {drop},
                               !.members = {<<IF m[1] = drop THEN keep ELSE m[1], m[2]>> : m \in @}]
       /\ grouping' = [d \in Devs |-> IF grouping[d] = drop THEN keep ELSE grouping[d]]

MergeStaleGrouping(e) ==
  /\ Decision(e)
  /\ \E keep, drop \in ClustersOf(e) :
       /\ keep < drop
       /\ work' = [work EXCEPT !.rows = @ \ {drop},
                               !.members = {<<IF m[1] = drop THEN keep ELSE m[1], m[2]>> : m \in @}]
  /\ UNCHANGED grouping

(* In two clusters: the older, of the lower id, absorbs the younger.       *)
MergeClusters(e) ==
  /\ Decision(e)
  /\ \E keep, drop \in ClustersOf(e) :
       /\ keep < drop
       /\ work' = [work EXCEPT !.rows = @ \ {drop},
                               !.members = {<<IF m[1] = drop THEN keep ELSE m[1], m[2]>> : m \in @}]
       /\ grouping' = [d \in Devs |-> IF grouping[d] = drop THEN keep ELSE grouping[d]]

(* One in a cluster: the other joins it.                                   *)
AddMember(e) ==
  /\ Decision(e)
  /\ \E c \in ClustersOf(e), d \in e :
       /\ grouping[d] = 0
       /\ work' = [work EXCEPT !.members = @ \cup {<<c, d>>}]
       /\ grouping' = [grouping EXCEPT ![d] = c]

\* Mutant: the new cluster is not entered into grouping.
CreateClusterStaleGrouping(e) ==
  /\ Decision(e)
  /\ ClustersOf(e) = {}
  /\ LET c == work.seq + 1
     IN  work' = [rows |-> work.rows \cup {c}, seq |-> c,
                  members |-> work.members \cup {<<c, d>> : d \in e}]
  /\ UNCHANGED grouping

(* Neither in a cluster: a new one.                                        *)
CreateCluster(e) ==
  /\ Decision(e)
  /\ ClustersOf(e) = {}
  /\ LET c == work.seq + 1
     IN  /\ work' = [rows |-> work.rows \cup {c}, seq |-> c,
                     members |-> work.members \cup {<<c, d>> : d \in e}]
         /\ grouping' = [d \in Devs |-> IF d \in e THEN c ELSE grouping[d]]

(* The transaction ends; what apply_run kept in local variables is gone.   *)
Leave ==
  /\ applying' = FALSE /\ run' = {} /\ todo' = {} /\ grouping' = NotGrouped
  /\ UNCHANGED class

Commit ==
  /\ applying /\ todo = {}
  /\ Leave
  /\ saved' = work /\ evidence' = evidence \cup run
  /\ UNCHANGED <<work, workerVars>>

(* a statement raises: tx rolls back, the canvas shows the error *)
Rollback ==
  /\ applying
  /\ Leave
  /\ work' = saved
  /\ UNCHANGED <<saved, evidence, workerVars>>

(* The program ends, in order or not, and is started again.                *)
Restart ==
  /\ Leave
  /\ work' = saved
  /\ busy' = FALSE /\ worker' = Idle
  /\ UNCHANGED <<saved, evidence>>

Next ==
  \/ \E d \in Devs, c \in Classes \cup {NoClass} : Classify(d, c)
  \/ \E recent \in SUBSET Devs : RunClusterTick(recent)
  \/ \E merges \in SUBSET Pairs : RunOnce(merges)
  \/ RunFails \/ OnClusterFailed \/ OnClusterFinished
  \/ \E e \in Pairs : Touch(e) \/ MergeClusters(e) \/ AddMember(e) \/ CreateCluster(e)
  \/ Commit \/ Rollback \/ Restart

Spec == Init /\ [][Next]_vars

(* Fairness: the worker finishes its run one way or the other, and the     *)
(* event loop of the main thread delivers its signal.                      *)
Fairness ==
  /\ WF_vars(RunFails \/ \E merges \in SUBSET Pairs : RunOnce(merges))
  /\ WF_vars(OnClusterFailed \/ OnClusterFinished)
  /\ WF_vars(\/ \E e \in Pairs : Touch(e) \/ MergeClusters(e) \/ AddMember(e) \/ CreateCluster(e)
             \/ Commit)

FairSpec == Spec /\ Fairness

-----------------------------------------------------------------------------
TypeOK ==
  /\ class \in Snapshot
  /\ busy \in BOOLEAN /\ applying \in BOOLEAN
  /\ worker \in [pc : {"idle", "requested", "finished", "failed"}, seen : Snapshot,
                 merges : SUBSET Pairs]
  /\ run \subseteq Pairs /\ todo \subseteq run
  /\ grouping \in [Devs -> Nat]
  /\ work \in Tables /\ saved \in Tables
  /\ evidence \subseteq Pairs

(* Whatever transaction is under way: no device is in two clusters, every  *)
(* membership is in a cluster that exists, every cluster has at least two  *)
(* members, and no id is handed out twice.                                 *)
Sound(t) ==
  /\ \A m, n \in t.members : m[2] = n[2] => m = n
  /\ \A m \in t.members : m[1] \in t.rows
  /\ \A c \in t.rows : \E m, n \in t.members : m # n /\ m[1] = c /\ n[1] = c
  /\ \A c \in t.rows : c <= t.seq

ClustersAreSound == Sound(work) /\ Sound(saved)

(* Sticky clusters: devices grouped by a committed run stay together, and  *)
(* in the cluster row created first, as apply_run's own docstring says     *)
(* (repos.py:1353-1374).  The docstring of the class says otherwise: see   *)
(* RunsReplaceClusters.                                                    *)
ClustersOnlyGrow ==
  [][\A m, n \in saved.members :
       m[1] = n[1] =>
         \E c \in 1..m[1] : <<c, m[2]>> \in saved'.members /\ <<c, n[2]>> \in saved'.members]_vars

(* The committed clusters are the connected components of all decisions    *)
(* ever committed: the order of decisions, rollbacks and restarts leave no *)
(* trace.  (Not of those of the last run: see RunsReplaceClusters.)        *)
Blocks(t) == {{m[2] : m \in {n \in t.members : n[1] = c}} : c \in t.rows}

P == INSTANCE Partition WITH blocks <- Blocks(saved)

ImplementsPartition == P!Spec

(* "It wipes existing clusters of that source before writing the new       *)
(* state" (the docstring of Clusters, repos.py:1341-1344): a committed run *)
(* leaves the components of its own decisions.  It fails, since apply_run  *)
(* adds to what earlier runs have left.                                    *)
RunsReplaceClusters ==
  [][saved' # saved => Blocks(saved') = P!Components(run)]_vars

(* A run in flight keeps other runs away; it does so only for so long.     *)
RunsEnd == busy ~> ~busy

(* "Cross-class merges are forbidden by construction" (cluster/base.py:131):*)
(* what is merged is of one class.  The runner saw a snapshot, and the     *)
(* result is applied without another look at the classes.                  *)
MergesAreWithinAClass ==
  applying => \A e \in run : \A a, b \in e : class[a] = class[b]
=============================================================================
