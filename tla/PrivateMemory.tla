----------------------------- MODULE PrivateMemory -----------------------------
(* What virtual memory promises programs: every process has an address space *)
(* of its own.  fork copies it, exec replaces it by the program, a page that  *)
(* is touched for the first time appears with some contents, and a process    *)
(* changes nothing but its own pages.                                         *)
EXTENDS FiniteSets

CONSTANTS User, Page, Value,
          Image,        \* contents of the pages of a program
          Programs,     \* sequences of areas [pages, write]
          StackTop      \* stack pages that exist from the start

VARIABLE space          \* space[p], from the pages that p has to contents

Nothing == [v \in {} |-> Image]

SpaceInit == space = [p \in User |-> Nothing]

Domain(p) == DOMAIN space[p]

SpaceFork(p, c) ==
    /\ space[c] = Nothing
    /\ space' = [space EXCEPT ![c] = space[p]]

SpaceWrite(p, v, x) ==
    /\ v \in Domain(p)
    /\ space' = [space EXCEPT ![p][v] = x]

SpaceTouch(p, v) ==
    /\ v \notin Domain(p)
    /\ \E x \in Value :
        space' = [space EXCEPT ![p] =
                    [w \in Domain(p) \cup {v} |-> IF w = v THEN x ELSE space[p][w]]]

SpaceExec(p, loaded) ==
    \E top \in [StackTop -> Value] :
        space' = [space EXCEPT ![p] =
                    [v \in loaded \cup StackTop |->
                        IF v \in loaded THEN Image ELSE top[v]]]

SpaceExit(p) == space' = [space EXCEPT ![p] = Nothing]

SpaceNext ==
    \E p \in User :
        \/ \E c \in User \ {p} : SpaceFork(p, c)
        \/ \E v \in Page : SpaceTouch(p, v) \/ \E x \in Value : SpaceWrite(p, v, x)
        \/ \E prog \in Programs : SpaceExec(p, UNION {prog[i].pages : i \in DOMAIN prog})
        \/ SpaceExit(p)

SpaceSpec == SpaceInit /\ [][SpaceNext]_space

=============================================================================
