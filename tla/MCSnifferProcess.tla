-------------------------- MODULE MCSnifferProcess --------------------------
(* SnifferProcess on small sets: see the .cfg files and the README.        *)
EXTENDS SnifferProcess

(* An early death together with no other kind of failure.                  *)
EarlyAlone == "early" \in faults => faults = {"early"}
=============================================================================
