------------------------------- MODULE Roles -------------------------------
(***************************************************************************)
(* Sniffer roles and the default role plan (capture/roles.py).             *)
(*                                                                         *)
(* Dongle i is the i-th entry of list_dongles(); Python dictionaries keep  *)
(* insertion order, so "first in the dictionary" is "least index" here.    *)
(* A Follow role keeps only the address it targets: address type and IRK   *)
(* travel with it and no decision of the coordinator looks at them.        *)
(***************************************************************************)
EXTENDS Integers, FiniteSets

CONSTANTS
  NumDongles,   \* how many dongles can ever be discovered
  TxCapable,    \* the dongles whose firmware can transmit
  Addrs,        \* addresses a user may ask to follow
  NoAddr        \* "no target"

ASSUME RolesAssumption ==
  /\ NumDongles \in Nat \ {0}
  /\ TxCapable \subseteq 1..NumDongles
  /\ NoAddr \notin Addrs

Dongles == 1..NumDongles

PrimaryAdvChannels == {37, 38, 39}

Role == [kind     : {"none", "idle", "pinned", "scan", "follow"},
         channels : SUBSET PrimaryAdvChannels,
         target   : Addrs \cup {NoAddr}]

RoleOf(kind) == [kind |-> kind, channels |-> {}, target |-> NoAddr]

NoRole          == RoleOf("none")    \* the dongle has no entry in the role table
Idle            == RoleOf("idle")
ScanUnmonitored == RoleOf("scan")
Pinned(chs)     == [kind |-> "pinned", channels |-> chs, target |-> NoAddr]
Follow(addr)    == [kind |-> "follow", channels |-> {}, target |-> addr]

(***************************************************************************)
(* default_roles: the order in which the plan lists the dongles of D.      *)
(* From four dongles on, receive-only dongles come before transmit-capable *)
(* ones (the sort is stable).                                              *)
(***************************************************************************)
RxFirst(D) == Cardinality(D) >= 4

Before(D, a, b) ==
  LET tx(d) == RxFirst(D) /\ d \in TxCapable
  IN  IF tx(a) = tx(b) THEN a < b ELSE tx(b)

Position(D, d) == Cardinality({e \in D : Before(D, e, d)})

(* 1 dongle scans, 2 pin 37 and scan the rest, 3 pin the three primaries,  *)
(* 4 and more leave what is left after the three pins Idle.                *)
DefaultRole(D, d) ==
  LET p == Position(D, d)
  IN  IF Cardinality(D) <= 2 /\ p = Cardinality(D) - 1 THEN ScanUnmonitored
      ELSE IF p < 3 THEN Pinned({37 + p})
      ELSE Idle
=============================================================================
