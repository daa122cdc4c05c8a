---------------------------- MODULE MCBundledCall ----------------------------
(* Small instances of BundledCall: two calls that fill a bundle, one that   *)
(* fits with neither, and one over the limit.  One of the two cannot be     *)
(* encoded.                                                                 *)
EXTENDS BundledCall

CONSTANTS c1, c2, c3, big, b1

MCBundleOf == [c \in Calls |-> b1]

MCSize == [c \in Calls |-> IF c = big THEN 5 ELSE IF c = c2 THEN 3 ELSE 1]

MCBytes == [c \in Calls |-> 1]

=============================================================================
