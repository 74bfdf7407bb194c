---------------------------- MODULE MCSyncClients ----------------------------
(* SyncClients with three threads: a table of three, two meals each.        *)
EXTENDS SyncClients, TLC

CONSTANTS t0, t1, t2

Threads3 == {t0, t1, t2}
Who3 == 0 :> t0 @@ 1 :> t1 @@ 2 :> t2
Cv3 == 0 .. 2
Sems3 == {<<"mutex">>, <<"next">>} \cup {<<"cv", i>> : i \in Cv3}

=============================================================================
