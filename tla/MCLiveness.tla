----------------------------- MODULE MCLiveness -----------------------------
(***************************************************************************)
(* Small instances of the stages and of the timer wheel under fairness: a  *)
(* behaviour is one of the stages, or one of a wheel, and the part it does *)
(* not choose at its start stays as it is.                                 *)
(***************************************************************************)
EXTENDS Stage

CONSTANTS t1, t2, Base, NoTimer, Delays

VARIABLES part, where, expire, last, count, polling, busy

wheel == <<where, expire, last, count, polling, busy>>

(* A sink and a stage of two threads that both send to it. *)
FanIn == <<1, 2>>
FanInDest == <<0, 1>>
FanInEmits == <<0, 2>>

AllDelays == 0 .. Base * Base * Base * Base - 1

Wheel == INSTANCE TimerWheel WITH Handles <- {t1, t2}

MCInit ==
  /\ part \in {"stages", "wheel"} /\ Init /\ Wheel!Init
  /\ part = "stages" => last = 0

MCNext ==
  /\ UNCHANGED part
  /\ \/ part = "stages" /\ Next /\ UNCHANGED wheel
     \/ part = "wheel" /\ Wheel!Next /\ UNCHANGED vars

MCSpec ==
  /\ MCInit /\ [][MCNext]_<<part, vars, wheel>>
  /\ part = "stages" => Fairness
  /\ part = "wheel" => WF_wheel(Wheel!Poll)

(* create_stage returns, whether it succeeds or not. *)
CreationEnds == part = "stages" => CreateReturns

(* What is committed is handled as long as nobody stops the thread.        *)
EventsEnd == part = "stages" => EventsAreHandled

(* stop_all returns, with the two exceptions of Abandoned.                 *)
StoppingEnds == part = "stages" => StopReturns

(* Every timer fires or is cancelled, unless callbacks that keep starting  *)
(* timers with no delay hold one poll of g_timer_poll for ever.            *)
TimersEnd == part = "wheel" => Wheel!EveryTimerEnds
=============================================================================
