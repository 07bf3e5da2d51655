---------------------------- MODULE MCSelfTests ----------------------------
(* The tests with the shells of M19 and M20 on time, and with them late.    *)
EXTENDS SelfTests

AllOnDisk == {"hello3", "winapp", "consumer"}
NotAsked == Prog \ {"shell3", "shell4"}
Lagging == Prog \ {"shell4"}
Everything == Prog
=============================================================================
