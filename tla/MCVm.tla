--------------------------------- MODULE MCVm ---------------------------------
(* Vm with two processes and four user pages under two tables: two for a     *)
(* program, whose area can be written or not, and two for the stack.         *)
EXTENDS Vm, TLC

CONSTANTS u1, u2

Users2 == {u1, u2}
Alike == Permutations(Users2)
TwoPrograms == {<<[pages |-> {0, 1}, write |-> w]>> : w \in BOOLEAN}

=============================================================================
