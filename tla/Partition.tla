----------------------------- MODULE Partition -----------------------------
(***************************************************************************)
(* What a user is promised about clusters: devices are shown as one        *)
(* exactly when a chain of merge decisions connects them, whenever those   *)
(* decisions were made.  Clusters therefore only grow, and no device is in *)
(* two of them.                                                            *)
(***************************************************************************)
CONSTANT Devs

VARIABLES
  evidence,   \* the pairs of devices decided so far to be one
  blocks      \* the clusters, as sets of devices

Pairs == {{a, b} : a, b \in Devs} \ {{a} : a \in Devs}

(* The connected component of d in the graph with edges E.                 *)
Component(E, d) ==
  {x \in Devs : \A S \in SUBSET Devs :
     d \in S /\ (\A e \in E : e \cap S = {} \/ e \subseteq S) => x \in S}

Components(E) == {Component(E, d) : d \in UNION E}

Init == evidence = {} /\ blocks = {}

Decide(E) ==
  /\ evidence' = evidence \cup E
  /\ blocks' = Components(evidence')

Next == \E E \in SUBSET Pairs : Decide(E)

Spec == Init /\ [][Next]_<<evidence, blocks>>
=============================================================================
