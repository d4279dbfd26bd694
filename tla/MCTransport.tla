----------------------------- MODULE MCTransport -----------------------------
(* Instances of Transport for TLC. *)
EXTENDS Transport

CONSTANTS t1, t2

TwoTrans == {t1, t2}
OneTrans == {t1}
TwoFds == 0 .. 1
ThreeFds == 0 .. 2
(* Nothing is claimed after a thread has strayed, and TLC does not go on.  *)
Together == ~strayed
Symmetry == Permutations(TwoTrans)
=============================================================================
