---------------------------- MODULE MCLiveIngest ----------------------------
(* LiveIngest on small sets: see the .cfg files and the README.            *)
EXTENDS LiveIngest, TLC

(* Three packets without clues and at one time, or two with both.          *)
Underway == {queue[i] : i \in DOMAIN queue} \cup {batch[i] : i \in DOMAIN batch}
              \cup {reader[r].pkt : r \in {x \in Readers : reader[x].pc # "reading"}}
TwoOrThree ==
  \/ stats.received + Cardinality({r \in Readers : reader[r].pc = "called"}) <= 2
  \/ /\ now = 0
     /\ \A d \in Devs : work.name[d] = NoName
     /\ \A p \in Underway : p.name = NoName
=============================================================================
