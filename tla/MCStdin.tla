------------------------------- MODULE MCStdin -------------------------------
(* Two readers of a buffer of two characters: enough to fill it, to wrap    *)
(* it twice, and to race for the last key.                                  *)
EXTENDS Stdin

CONSTANTS u1, u2

TwoUsers == {u1, u2}

=============================================================================
