----------------------------- MODULE MCTimerWheel -----------------------------
(* Instances of TimerWheel for TLC. *)
EXTENDS TimerWheel

CONSTANTS t1, t2, t3

ThreeTimers == {t1, t2, t3}
AllDelays == 0 .. Base * Base * Base * Base - 1
=============================================================================
