------------------------------ MODULE Lifecycle ------------------------------
(***************************************************************************)
(* What the process subsystem promises the programs that call fork, exit    *)
(* and wait, with no scheduler, no sleeping and no run queue: a process is  *)
(* born as the child of a living process, dies once, leaves its children to *)
(* the root, and disappears only when its living parent collects it.        *)
(***************************************************************************)
CONSTANTS Member,  \* processes that come and go
          Root     \* the process that adopts orphans and never dies

VARIABLES status,  \* status[p]: "none", "alive" or "dead"
          father   \* father[p], Root for a p that does not exist

lifeVars == <<status, father>>

LifeTypeOK == /\ status \in [Member -> {"none", "alive", "dead"}]
              /\ father \in [Member -> Member \cup {Root}]

LifeInit == /\ status = [p \in Member |-> "none"]
            /\ father = [p \in Member |-> Root]

Alive(p) == p = Root \/ (p \in Member /\ status[p] = "alive")

Birth(p, c) ==
    /\ Alive(p)
    /\ status[c] = "none"
    /\ status' = [status EXCEPT ![c] = "alive"]
    /\ father' = [father EXCEPT ![c] = p]

Death(p) ==
    /\ status[p] = "alive"
    /\ status' = [status EXCEPT ![p] = "dead"]
    /\ father' = [c \in Member |-> IF father[c] = p THEN Root ELSE father[c]]

\* The dead c is collected by its father.
Burial(c) ==
    /\ status[c] = "dead"
    /\ Alive(father[c])
    /\ status' = [status EXCEPT ![c] = "none"]
    /\ father' = [father EXCEPT ![c] = Root]

LifeNext == \/ \E p \in Member \cup {Root}, c \in Member : Birth(p, c)
            \/ \E p \in Member : Death(p) \/ Burial(p)

LifeSpec == LifeInit /\ [][LifeNext]_lifeVars

=============================================================================
