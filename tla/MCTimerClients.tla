---------------------------- MODULE MCTimerClients ----------------------------
(* An instance of TimerClients for TLC: two clients and two nodes.         *)
EXTENDS TimerClients

CONSTANTS t1, t2, c1, c2

TwoTimers == {t1, t2}
TwoClients == {c1, c2}
=============================================================================
