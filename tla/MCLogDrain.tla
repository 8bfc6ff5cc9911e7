----------------------------- MODULE MCLogDrain -----------------------------
(* LogDrain on small sets: see the .cfg files and the README.              *)
EXTENDS LogDrain
=============================================================================
