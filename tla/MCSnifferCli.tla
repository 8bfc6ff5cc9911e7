---------------------------- MODULE MCSnifferCli ----------------------------
(* SnifferCli on small sets: see the .cfg files and the README.            *)
EXTENDS SnifferCli

(* Where starts fail, two dongles; where they succeed, all of them.        *)
FewFail == faults # {} => dongles \subseteq {1, 2}
=============================================================================
