-------------------------- MODULE MCSenderIfaces --------------------------
(***************************************************************************)
(* SenderIfaces for TLC: a host sends to a group from two source           *)
(* addresses, and its interface changes while this host listens, from a to *)
(* b, which is in no subcloud of this host.  The first entry may have the  *)
(* one or the other, or come back changed; the second has the old one, so  *)
(* that the two may have the same interface.                               *)
(***************************************************************************)
EXTENDS SenderIfaces

CONSTANTS g, s1, s2, a, b

MCKey == {<<g, s1>>, <<g, s2>>}
MCAnnounced == [k \in MCKey |-> IF k[2] = s1 THEN {{a}, {b}} ELSE {{a}}]
MCLocal == {a}

(* Both interfaces are in subclouds of this host. *)
MCAllLocal == {a, b}

(* A host with one source address, whose interfaces change. *)
MCSourceKey == {<<g, s1>>}
MCSourceAnnounced == [k \in MCSourceKey |-> {{a}, {a, b}}]
============================================================================
