-------------------------- MODULE MCCaptureSession --------------------------
(* CaptureSession on small sets: see the .cfg files and the README.        *)
EXTENDS CaptureSession

(* At most one sniffer is in the watchdog's hands.                         *)
OneInTrouble ==
  /\ Cardinality(wedged) <= 1
  /\ Cardinality({d \in Dongles : attempts[d] > 0}) <= 1
  /\ \A d \in Dongles : attempts[d] > 0 => wedged \subseteq {d}

(* Where starts fail, two dongles; with more than two, one in trouble.     *)
FewInTrouble ==
  /\ dongles \in {{}, {1}, {1, 2}, {2, 3, 4}, Dongles}
  /\ Cardinality(faults) <= 1
  /\ faults # {} => dongles \subseteq {1, 2}
  /\ Cardinality(dongles) > 2 => OneInTrouble
=============================================================================
