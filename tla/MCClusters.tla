----------------------------- MODULE MCClusters -----------------------------
(* Clusters on small sets: see the .cfg files and the README.              *)
EXTENDS Clusters
=============================================================================
