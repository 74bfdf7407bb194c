-------------------------------- MODULE MCSfs --------------------------------
(* Sfs with blocks of two bytes, one direct block and two entries.          *)
EXTENDS Sfs, TLC

CONSTANTS f1, f2, h1, h2

TwoFiles == {f1, f2}
TwoHandles == {h1, h2}

Alike == Permutations(TwoFiles) \cup Permutations(TwoHandles)

=============================================================================
