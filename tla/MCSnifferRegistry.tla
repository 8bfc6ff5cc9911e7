-------------------------- MODULE MCSnifferRegistry -------------------------
(* SnifferRegistry on small sets: see the .cfg files and the README.       *)
EXTENDS SnifferRegistry
=============================================================================
