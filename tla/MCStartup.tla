----------------------------- MODULE MCStartup ------------------------------
(* Startup with three versions; schema.sql makes five changes.             *)
EXTENDS Startup, TLC

MCLast == 0 :> 1 @@ 1 :> 3 @@ 2 :> 5
Symmetry == Permutations(Procs)
=============================================================================
