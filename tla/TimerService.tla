---------------------------- MODULE TimerService ----------------------------
(***************************************************************************)
(* What g_timer (sax/timer.h) promises, without a wheel: a timer started   *)
(* with a delay of d ticks fires at the d-th tick, neither earlier nor     *)
(* later, unless it is cancelled first.  A delay of 0 is due at once in a  *)
(* callback; outside of one the tick of "now" is over, and the timer fires *)
(* a whole lap later.                                                      *)
(***************************************************************************)
EXTENDS Integers

CONSTANTS Handles,    \* the timers that can be pending at once
          NoTimer,    \* no callback runs
          Delays,     \* the delays a client asks for
          Lap         \* the ticks until a delay of 0 comes round

Off == -1             \* the timer is not pending

VARIABLES left,       \* the ticks until each timer fires, or Off
          inTick,     \* g_timer_poll is at work on one tick
          busy        \* the timer whose callback runs, or NoTimer

serviceVars == <<left, inTick, busy>>

ServiceInit == /\ left = [h \in Handles |-> Off]
               /\ inTick = FALSE
               /\ busy = NoTimer

(* Clients call between the ticks and from callbacks. *)
ClientRuns == inTick => busy # NoTimer

Start(h, d) ==
  /\ ClientRuns
  /\ left[h] = Off /\ h # busy
  /\ left' = [left EXCEPT ![h] = IF d = 0 /\ ~inTick THEN Lap ELSE d]
  /\ UNCHANGED <<inTick, busy>>

Cancel(h) ==
  /\ ClientRuns
  /\ left[h] # Off
  /\ left' = [left EXCEPT ![h] = Off]
  /\ UNCHANGED <<inTick, busy>>

Tick ==
  /\ ~inTick
  /\ inTick' = TRUE
  /\ left' = [h \in Handles |-> IF left[h] = Off THEN Off ELSE left[h] - 1]
  /\ UNCHANGED busy

Fire(h) ==
  /\ inTick /\ busy = NoTimer
  /\ left[h] = 0
  /\ left' = [left EXCEPT ![h] = Off]
  /\ busy' = h
  /\ UNCHANGED inTick

Return ==
  /\ busy # NoTimer
  /\ busy' = NoTimer
  /\ UNCHANGED <<left, inTick>>

(* The tick is over once nothing is due. *)
EndTick ==
  /\ inTick /\ busy = NoTimer
  /\ \A h \in Handles : left[h] # 0
  /\ inTick' = FALSE
  /\ UNCHANGED <<left, busy>>

ServiceNext == \/ \E h \in Handles : \/ \E d \in Delays : Start(h, d)
                                     \/ Cancel(h) \/ Fire(h)
               \/ Tick \/ Return \/ EndTick

ServiceSpec == ServiceInit /\ [][ServiceNext]_serviceVars
=============================================================================
