--------------------------- MODULE MCIcdPeerbase ---------------------------
(***************************************************************************)
(* IcdPeerbase for TLC.  The host has two interfaces; a receiver announces *)
(* one of their INDs, or the other with one that the host has not.         *)
(***************************************************************************)
EXTENDS IcdPeerbase

CONSTANTS i1, i2, i3

MCInd == {i1, i2, i3}
MCHostInd == {i1, i2}
MCCapInds == {{i1}, {i2, i3}}
============================================================================
