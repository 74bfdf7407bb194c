------------------------------- MODULE MCFiles -------------------------------
(* Files with two user processes, one file and three descriptors each.       *)
EXTENDS Files, TLC

CONSTANTS u1, u2, f

Users == {u1, u2}
OneFile == {f}

=============================================================================
