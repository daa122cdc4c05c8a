---------------------------- MODULE MCOperation ----------------------------
(* Small instances of Operation: their listeners and getters.               *)
EXTENDS Operation

CONSTANTS u1, u2, g1

=============================================================================
