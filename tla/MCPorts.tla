------------------------------ MODULE MCPorts ------------------------------
(***************************************************************************)
(* Ports for TLC, with a table of two slots.  The file is empty, lists one *)
(* port or both, repeats a port, has more entries than the table, or a     *)
(* word.                                                                   *)
(***************************************************************************)
EXTENDS Ports

CONSTANTS p1, p2

MCPort == {p1, p2}
MCFiles == {<<>>, <<p1>>, <<p2, p1>>, <<p1, p1>>, <<p1, p2, p1>>, <<p2, Word>>}
============================================================================
