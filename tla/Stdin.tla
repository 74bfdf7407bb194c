-------------------------------- MODULE Stdin --------------------------------
(***************************************************************************)
(* Console input (kern/fs/devs/dev_stdin.c) on the scheduling core: the     *)
(* keyboard interrupt writes characters to a ring buffer, processes that    *)
(* read it sleep while it is empty, and any of them may be killed.          *)
(*                                                                          *)
(* The keys pressed are numbered, so that a buffer slot tells which key it  *)
(* holds.  The interrupt may come between any two steps: the system call    *)
(* gate leaves interrupts on, and each step below is one section of the     *)
(* code that has them off.                                                  *)
(***************************************************************************)
EXTENDS Sched, Sequences, SequencesExt

CONSTANTS BufSize,  \* STDIN_BUFSIZE
          MaxLen,   \* the longest read
          MaxKeys   \* bound: keys pressed in a run

ASSUME StdinAssumption == BufSize \in Nat \ {0} /\ MaxLen \in Nat /\ MaxKeys \in Nat

VARIABLES buffer,     \* stdin_buffer: the key in each slot, 0 at first
          rpos,       \* p_rpos
          wpos,       \* p_wpos
          queue,      \* wait_queue
          wakeFlags,  \* wakeup_flags of the wait_t of each reader
          want,       \* characters the reader still asks for
          exiting,    \* PF_EXITING
          pc,
          pressed,    \* history: the number of keys pressed
          read        \* history: the keys handed to readers, in order

stdinVars == <<buffer, rpos, wpos, queue, wakeFlags, want, exiting, pc, pressed, read>>
vars == <<schedVars, stdinVars>>

Init ==
    /\ current = idleproc
    /\ state = [p \in Proc |-> IF p = initproc THEN "sleeping" ELSE "runnable"]
    /\ waitState = [p \in Proc |-> IF p = initproc THEN "child" ELSE "none"]
    /\ needResched = [p \in Proc |-> p = idleproc]
    /\ runq = User
    /\ timers = {}
    /\ panic = "no"
    /\ buffer = [i \in 0 .. BufSize - 1 |-> 0]
    /\ rpos = 0 /\ wpos = 0
    /\ queue = <<>>
    /\ wakeFlags = [p \in User |-> "interrupted"]
    /\ want = [p \in User |-> 0]
    /\ exiting = [p \in User |-> FALSE]
    /\ pc = [p \in Proc |-> IF p = idleproc THEN "idle"
                            ELSE IF p = initproc THEN "init" ELSE "user"]
    /\ pressed = 0
    /\ read = <<>>

At(p, l) == panic = "no" /\ current = p /\ pc[p] = l

Goto(p, l) == pc' = [pc EXCEPT ![p] = l]

\* An interrupt that comes from user mode returns through the end of trap.
AfterInterrupt == IF pc[current] = "user" THEN [pc EXCEPT ![current] = "trap_ret"]
                                          ELSE pc

-----------------------------------------------------------------------------
(* The keyboard interrupt.                                                  *)

\* Mutant: the readers behind the first are unlinked and not woken.
Woken_First == IF queue = <<>> THEN {} ELSE {Head(queue)}

\* wakeup_queue wakes whom it takes out of the queue, until this is empty.
Woken == ToSet(queue)

\* Mutant: a full buffer is not noticed.
NextWpos_Unchecked == wpos + 1

NextWpos == IF wpos - rpos < BufSize THEN wpos + 1 ELSE wpos

dev_stdin_write ==
    LET W == Woken
    IN  /\ panic = "no"
        /\ pressed < MaxKeys
        /\ pressed' = pressed + 1
        /\ buffer' = [buffer EXCEPT ![wpos % BufSize] = pressed']
        /\ wpos' = NextWpos
        /\ Asserted(WakeupAsserts(W))
        /\ queue' = <<>>
        /\ wakeFlags' = [p \in User |-> IF p \in W THEN "kbd" ELSE wakeFlags[p]]
        /\ state' = StateAfterWakeup(W)
        /\ waitState' = WaitAfterWakeup(W)
        /\ runq' = QueueAfterWakeup(W)
        /\ pc' = AfterInterrupt
        /\ UNCHANGED <<current, needResched, timers, rpos, want, exiting, read>>

-----------------------------------------------------------------------------
(* dev_stdin_read.                                                          *)

(* One round with interrupts off, q being the wait queue without p: p takes *)
(* what it can get, and returns or goes to sleep on the queue.              *)
Take(p, q) ==
    LET n == Min({want[p], wpos - rpos})
    IN  /\ read' = read \o [i \in 1 .. n |-> buffer[(rpos + i - 1) % BufSize]]
        /\ rpos' = rpos + n
        /\ IF want[p] = n
           THEN /\ want' = [want EXCEPT ![p] = 0]
                /\ queue' = q
                /\ Goto(p, "trap_ret")
                /\ UNCHANGED <<state, waitState, wakeFlags>>
           ELSE /\ want' = [want EXCEPT ![p] = @ - n]
                /\ state' = [state EXCEPT ![p] = "sleeping"]
                /\ waitState' = [waitState EXCEPT ![p] = "kbd"]
                /\ wakeFlags' = [wakeFlags EXCEPT ![p] = "interrupted"]
                /\ queue' = Append(q, p)
                /\ Goto(p, "read_sched")
        /\ UNCHANGED <<current, needResched, runq, timers, panic,
                       buffer, wpos, exiting, pressed>>

\* sys_read of n characters.
SysRead(p, n) ==
    /\ At(p, "user")
    /\ want' = [want EXCEPT ![p] = n]
    /\ Goto(p, "read")
    /\ UNCHANGED <<schedVars, buffer, rpos, wpos, queue, wakeFlags, exiting,
                   pressed, read>>

Read(p) == At(p, "read") /\ Take(p, queue)

\* Mutant: wait_current_del is left out for a reader that was interrupted.
ReadInterrupted_Stays(p) ==
    /\ At(p, "read_woken")
    /\ wakeFlags[p] # "kbd"
    /\ want' = [want EXCEPT ![p] = 0]
    /\ Goto(p, "trap_ret")
    /\ UNCHANGED <<schedVars, buffer, rpos, wpos, queue, wakeFlags, exiting,
                   pressed, read>>

wait_in_queue(p) == \E i \in DOMAIN queue : queue[i] = p

\* wait_current_del.
Without(p) == IF wait_in_queue(p)
              THEN RemoveAt(queue, CHOOSE i \in DOMAIN queue : queue[i] = p)
              ELSE queue

\* Back from schedule(), woken by a key: another round.
ReadAgain(p) ==
    /\ At(p, "read_woken")
    /\ wakeFlags[p] = "kbd"
    /\ Take(p, Without(p))

\* Woken by do_kill: the read ends with what it has.
ReadInterrupted(p) ==
    /\ At(p, "read_woken")
    /\ wakeFlags[p] # "kbd"
    /\ queue' = Without(p)
    /\ want' = [want EXCEPT ![p] = 0]
    /\ Goto(p, "trap_ret")
    /\ UNCHANGED <<schedVars, buffer, rpos, wpos, wakeFlags, exiting, pressed, read>>

-----------------------------------------------------------------------------
(* The rest of the kernel around them.                                      *)

\* p kills q, or finds it killed already.
SysKill(p, q) ==
    LET W == {x \in {q} : ~ exiting[x] /\ waitState[x] \in Interruptible}
    IN  /\ At(p, "user")
        /\ Live(q)
        /\ Asserted(WakeupAsserts(W))
        /\ exiting' = [exiting EXCEPT ![q] = TRUE]
        /\ state' = StateAfterWakeup(W)
        /\ waitState' = WaitAfterWakeup(W)
        /\ runq' = QueueAfterWakeup(W)
        /\ Goto(p, "trap_ret")
        /\ UNCHANGED <<current, needResched, timers, buffer, rpos, wpos, queue,
                       wakeFlags, want, pressed, read>>

\* The end of trap: an exiting process exits, one with need_resched yields.
TrapReturn(p) ==
    /\ At(p, "trap_ret")
    /\ IF exiting[p]
       THEN /\ state' = [state EXCEPT ![p] = "zombie"]
            /\ Goto(p, "exit_sched")
       ELSE /\ Goto(p, IF needResched[p] THEN "preempt" ELSE "user")
            /\ UNCHANGED state
    /\ UNCHANGED <<current, waitState, needResched, runq, timers, panic,
                   buffer, rpos, wpos, queue, wakeFlags, want, exiting, pressed, read>>

IdleLoop ==
    /\ At(idleproc, "idle")
    /\ needResched[idleproc]
    /\ Goto(idleproc, "idle_sched")
    /\ UNCHANGED <<schedVars, buffer, rpos, wpos, queue, wakeFlags, want,
                   exiting, pressed, read>>

\* Calls of schedule(), and where they return to.
StdinResume == [read_sched |-> "read_woken", preempt |-> "user",
                exit_sched |-> "exit_sched", idle_sched |-> "idle"]

Switch(p, next) ==
    /\ panic = "no"
    /\ current = p
    /\ pc[p] \in DOMAIN StdinResume
    /\ Schedule(next)
    /\ Goto(p, StdinResume[pc[p]])
    /\ UNCHANGED <<buffer, rpos, wpos, queue, wakeFlags, want, exiting, pressed, read>>

\* The timer interrupt, with no timer set; it may use up the slice.
Tick(sliceUsed) ==
    /\ panic = "no"
    /\ ClockTick({}, sliceUsed)
    /\ pc' = AfterInterrupt
    /\ UNCHANGED <<buffer, rpos, wpos, queue, wakeFlags, want, exiting, pressed, read>>

UserStep(p) ==
    \/ \E n \in 1 .. MaxLen : SysRead(p, n)
    \/ Read(p)
    \/ ReadAgain(p)
    \/ ReadInterrupted(p)
    \/ \E q \in User : SysKill(p, q)
    \/ TrapReturn(p)

Next == \/ dev_stdin_write
        \/ \E p \in User : UserStep(p)
        \/ IdleLoop
        \/ \E p, q \in Proc : Switch(p, q)
        \/ \E sliceUsed \in BOOLEAN : Tick(sliceUsed)

Spec == Init /\ [][Next]_vars

-----------------------------------------------------------------------------

(* The wait queue holds every reader asleep, each once, and besides them only *)
(* readers that a kill woke and that have not run yet: never a wait_t whose   *)
(* frame is gone, whether a key wakes the reader, a kill, or both.            *)
QueueExact ==
    /\ IsInjective(queue)
    /\ ToSet(queue) \subseteq {p \in User : pc[p] \in {"read_sched", "read_woken"}}
    /\ \A p \in User : waitState[p] = "kbd" => p \in ToSet(queue)

(* No reader sleeps while there is something to read, although a key may    *)
(* come between the test of the buffer and schedule().                      *)
NoReaderForgotten ==
    rpos < wpos => \A p \in User : waitState[p] # "kbd"

(* Keys are read in the order they were pressed, as long as the buffer has  *)
(* held them all, whoever reads them; and none is ever read twice.          *)
ReadInOrder ==
    /\ IsInjective(read)
    /\ pressed = wpos => \A i \in DOMAIN read : read[i] = i

=============================================================================
