--------------------------------- MODULE Pid ---------------------------------
(***************************************************************************)
(* get_pid (kern/process/proc.c) on the list of processes that do_fork and  *)
(* do_wait change.  Between two calls get_pid remembers the last pid it     *)
(* gave and next_safe, below which it believes every larger pid is free, so *)
(* that most calls need not look at the list.  do_fork and do_wait change   *)
(* the family links in the same section, so the two are composed here.      *)
(***************************************************************************)
EXTENDS Family

CONSTANTS MaxProcess,  \* MAX_PROCESS, which idleproc counts for
          MaxPid       \* MAX_PID

\* There is room for idleproc and initproc; the rest is a static_assert of get_pid.
ASSUME PidAssumption == /\ MaxProcess \in Nat /\ MaxProcess > 1
                        /\ MaxPid \in Nat /\ MaxPid > MaxProcess

VARIABLES procList,  \* proc_list, the youngest first
          pid,       \* pid[p]
          lastPid,   \* last_pid
          nextSafe   \* next_safe

pidVars == <<procList, pid, lastPid, nextSafe>>

\* As get_pid leaves them when it gives initproc its pid.
PidInit == /\ procList = <<initproc>>
           /\ pid = [p \in Proc |-> IF p = initproc THEN 1 ELSE 0]
           /\ lastPid = 1
           /\ nextSafe = MaxPid

(* One round of the walk over proc_list, at its i-th process: it steps over *)
(* a pid in use, starts again when that takes it to a pid it may have       *)
(* passed, and lowers safe to the least larger pid it meets.                *)
ScanStep(w) ==
    LET id == pid[procList[w.i]]
    IN  IF w.i > Len(procList) THEN w
        ELSE IF id = w.last
        THEN IF w.last + 1 >= w.safe
             THEN [i |-> 1, last |-> IF w.last + 1 >= MaxPid THEN 1 ELSE w.last + 1,
                   safe |-> MaxPid]
             ELSE [w EXCEPT !.i = @ + 1, !.last = @ + 1]
        ELSE [w EXCEPT !.i = @ + 1, !.safe = IF id > w.last /\ w.safe > id THEN id ELSE @]

(* The walk, from the pid last; it has ended after so many rounds, because  *)
(* it comes nearer to a free pid each time it starts again.                 *)
Scan(last) ==
    LET rounds == MaxPid * (Len(procList) + 1)
        after[n \in 0 .. rounds] ==
            IF n = 0 THEN [i |-> 1, last |-> last, safe |-> MaxPid]
            ELSE ScanStep(after[n - 1])
    IN  after[rounds]

\* Mutant: next_safe is trusted when it is reached.
get_pid_Trusts ==
    IF lastPid + 1 >= MaxPid THEN Scan(1) ELSE [last |-> lastPid + 1, safe |-> nextSafe]

\* The new last_pid, which is the pid returned, and the new next_safe.
get_pid ==
    IF lastPid + 1 >= MaxPid THEN Scan(1)
    ELSE IF lastPid + 1 >= nextSafe THEN Scan(lastPid + 1)
    ELSE [last |-> lastPid + 1, safe |-> nextSafe]

(* do_fork, with interrupts off: c takes a pid and is linked as the         *)
(* youngest process and the youngest child of p.                            *)
Fork(p, c) ==
    /\ Len(procList) + 1 < MaxProcess
    /\ lastPid' = get_pid.last
    /\ nextSafe' = get_pid.safe
    /\ pid' = [pid EXCEPT ![c] = lastPid']
    /\ procList' = <<c>> \o procList
    /\ set_links(p, c)

\* do_wait finds the zombie c: it is unlinked and its structure freed.
Reap(p, c) ==
    /\ \E i \in DOMAIN procList : procList[i] = c /\ procList' = RemoveAt(procList, i)
    /\ pid' = [pid EXCEPT ![c] = 0]
    /\ UNCHANGED <<lastPid, nextSafe>>
    /\ remove_links(p, c)

Init == FamilyInit /\ PidInit

Next == \/ \E p \in Proc, c \in User : Fork(p, c) \/ Reap(p, c)
        \/ \E p \in User : Exit(p) /\ UNCHANGED pidVars

vars == <<familyVars, pidVars>>

Spec == Init /\ [][Next]_vars

-----------------------------------------------------------------------------

(* No two live processes have the same pid, whatever was freed and taken    *)
(* since get_pid last looked at the list, and proc_list holds all of them:   *)
(* kill and waitpid mean one process.                                       *)
PidsUnique ==
    /\ IsInjective(procList)
    /\ ToSet(procList) = {initproc} \cup {c \in User : status[c] # "none"}
    /\ \A p, q \in ToSet(procList) : pid[p] = pid[q] => p = q

=============================================================================
