-------------------------------- MODULE Family --------------------------------
(***************************************************************************)
(* The family links of kern/process/proc.c: the children of a process are   *)
(* a doubly linked list from cptr, youngest first, which set_links,         *)
(* remove_links and the adoption in do_exit change and do_wait walks.  The  *)
(* module Process speaks of the set of children only; here is why the walk  *)
(* finds that set.                                                          *)
(***************************************************************************)
EXTENDS Integers, FiniteSets, Sequences, SequencesExt

CONSTANTS User,      \* process structures of user processes
          initproc,  \* adopts orphans
          NULL

ASSUME FamilyAssumption == /\ initproc \notin User /\ NULL \notin User \cup {initproc}
                           /\ IsFiniteSet(User)

Proc == User \cup {initproc}

VARIABLES status,  \* status[p]: "none", "alive" or "dead", a zombie
          parent,  \* parent[p]
          cptr,    \* the youngest child
          optr,    \* the older sibling
          yptr     \* the younger sibling

familyVars == <<status, parent, cptr, optr, yptr>>

FamilyInit == /\ status = [p \in User |-> "none"]
              /\ parent = [p \in Proc |-> NULL]
              /\ cptr = [p \in Proc |-> NULL]
              /\ optr = [p \in Proc |-> NULL]
              /\ yptr = [p \in Proc |-> NULL]

Alive(p) == p = initproc \/ (p \in User /\ status[p] = "alive")

(* The children of p, as do_wait finds them: the walk from cptr along optr, *)
(* which is cut off when it has met more processes than there are.          *)
Kids(p) ==
    LET walk[n \in 0 .. Cardinality(Proc)] ==
            IF n = 0 THEN cptr[p]
            ELSE IF walk[n - 1] = NULL THEN NULL ELSE optr[walk[n - 1]]
    IN  [i \in 1 .. Cardinality({n \in 0 .. Cardinality(Proc) : walk[n] # NULL}) |->
            walk[i - 1]]

-----------------------------------------------------------------------------

\* alloc_proc clears the fields of c, set_links makes c the youngest of p.
set_links(p, c) ==
    /\ Alive(p)
    /\ status[c] = "none"
    /\ status' = [status EXCEPT ![c] = "alive"]
    /\ parent' = [parent EXCEPT ![c] = p]
    /\ optr' = [optr EXCEPT ![c] = cptr[p]]
    /\ yptr' = [x \in Proc |-> IF x = c THEN NULL
                               ELSE IF x = cptr[p] THEN c ELSE yptr[x]]
    /\ cptr' = [cptr EXCEPT ![c] = NULL, ![p] = c]

\* One round of the loop of do_exit: the orphan c becomes initproc's youngest.
Adopt(l, c) ==
    LET first == l.cptr[initproc]
    IN  [parent |-> [l.parent EXCEPT ![c] = initproc],
         optr   |-> [l.optr EXCEPT ![c] = first],
         yptr   |-> [x \in Proc |-> IF x = c THEN NULL
                                    ELSE IF x = first THEN c ELSE l.yptr[x]],
         cptr   |-> [l.cptr EXCEPT ![initproc] = c]]

\* The loop, over the children kids of the process that exits.
AdoptAll(l, kids) ==
    LET after[n \in 0 .. Len(kids)] ==
            IF n = 0 THEN l ELSE Adopt(after[n - 1], kids[n])
    IN  after[Len(kids)]

\* Mutant: the children stay where they are.
Exit_Abandons(p) ==
    /\ status[p] = "alive"
    /\ status' = [status EXCEPT ![p] = "dead"]
    /\ UNCHANGED <<parent, cptr, optr, yptr>>

\* do_exit: the children are adopted, and p becomes a zombie.
Exit(p) ==
    LET links == [parent |-> parent, cptr |-> cptr, optr |-> optr, yptr |-> yptr]
        new   == AdoptAll(links, Kids(p))
    IN  /\ status[p] = "alive"
        /\ status' = [status EXCEPT ![p] = "dead"]
        /\ parent' = new.parent
        /\ cptr' = [new.cptr EXCEPT ![p] = NULL]
        /\ optr' = new.optr
        /\ yptr' = new.yptr

\* Mutant: the younger sibling of c goes on naming c.
remove_links_KeepsYounger(p, c) ==
    /\ Alive(p)
    /\ status[c] = "dead"
    /\ Contains(Kids(p), c)
    /\ status' = [status EXCEPT ![c] = "none"]
    /\ yptr' = [x \in Proc |-> IF x = optr[c] THEN yptr[c] ELSE yptr[x]]
    /\ cptr' = IF yptr[c] = NULL THEN [cptr EXCEPT ![p] = optr[c]] ELSE cptr
    /\ UNCHANGED <<parent, optr>>

(* do_wait finds the zombie c in its walk: remove_links, then the structure *)
(* is freed.  The fields of c keep what they hold until alloc_proc.         *)
remove_links(p, c) ==
    /\ Alive(p)
    /\ status[c] = "dead"
    /\ Contains(Kids(p), c)
    /\ status' = [status EXCEPT ![c] = "none"]
    /\ yptr' = [x \in Proc |-> IF x = optr[c] THEN yptr[c] ELSE yptr[x]]
    /\ optr' = [x \in Proc |-> IF x = yptr[c] THEN optr[c] ELSE optr[x]]
    /\ cptr' = IF yptr[c] = NULL THEN [cptr EXCEPT ![parent[c]] = optr[c]] ELSE cptr
    /\ UNCHANGED parent

-----------------------------------------------------------------------------

(* The walk from cptr ends, meets exactly the processes that name p as      *)
(* parent, each once, and yptr leads back along it; a zombie has none.  No  *)
(* live list runs through a structure that was freed.                       *)
LinksExact ==
    \A p \in Proc :
        (p = initproc \/ status[p] # "none") =>
            LET kids == Kids(p)
            IN  /\ IsInjective(kids)
                /\ ToSet(kids) = {c \in User : status[c] # "none" /\ parent[c] = p}
                /\ \A i \in DOMAIN kids :
                      yptr[kids[i]] = IF i = 1 THEN NULL ELSE kids[i - 1]
                /\ ~ Alive(p) => kids = <<>>

\* The process whose walk finds c, or c itself when none does.
FoundBy(c) ==
    LET F == {p \in Proc : Alive(p) /\ Contains(Kids(p), c)}
    IN  IF status[c] = "none" THEN initproc
        ELSE IF F = {} THEN c ELSE CHOOSE p \in F : TRUE

Life == INSTANCE Lifecycle WITH Member <- User, Root <- initproc,
                                father <- [c \in User |-> FoundBy(c)]

(* Every child is found by the process that must collect it, after any      *)
(* sequence of forks, exits, adoptions and waits.                           *)
ImplementsLifecycle == Life!LifeSpec

=============================================================================
