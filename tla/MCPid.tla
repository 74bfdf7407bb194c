------------------------------- MODULE MCPid -------------------------------
(* Three structures besides idleproc and initproc, and the fewest pids the  *)
(* static_assert allows, so that pids wrap around among live ones; lists of *)
(* up to three children, adoptions of up to two, zombies among them.        *)
EXTENDS Pid

CONSTANTS u1, u2, u3

Users == {u1, u2, u3}

=============================================================================
