---------------------------- MODULE TimerClients ----------------------------
(***************************************************************************)
(* Clients of one g_timer, each with the handle g_timer_start gave it.     *)
(* They drop a handle when its timer fires (timer.h:37), and otherwise     *)
(* cancel it, once or, as test/t_timer.cpp does, twice.                    *)
(***************************************************************************)
EXTENDS TimerWheel

CONSTANT Clients

VARIABLES holds,      \* the handle of each client, or NoTimer
          cancelled   \* the client has cancelled it

clientVars == <<vars, holds, cancelled>>

ClientInit == /\ Init
              /\ holds = [c \in Clients |-> NoTimer]
              /\ cancelled = [c \in Clients |-> FALSE]

StartBy(c) ==
  /\ holds[c] = NoTimer
  /\ \E h \in Handles, d \in Delays :
       Start(h, d) /\ holds' = [holds EXCEPT ![c] = h]
  /\ UNCHANGED cancelled

(* g_timer_cancel as a whole: it returns 1 for a node that is not linked.  *)
CancelBy(c) ==
  /\ holds[c] # NoTimer
  /\ ClientRuns
  /\ IF Pending(holds[c]) THEN Cancel(holds[c]) ELSE UNCHANGED vars
  /\ cancelled' = [cancelled EXCEPT ![c] = TRUE]
  /\ UNCHANGED holds

PollAll ==
  /\ Poll
  /\ holds' = [c \in Clients |-> IF holds[c] = busy' /\ ~cancelled[c]
                                 THEN NoTimer ELSE holds[c]]
  /\ UNCHANGED cancelled

ClientNext == (\E c \in Clients : StartBy(c) \/ CancelBy(c)) \/ PollAll

ClientSpec == ClientInit /\ [][ClientNext]_clientVars

(* test/t_timer.cpp:41: to cancel a timer again returns 1 and does         *)
(* nothing.                                                                *)
SecondCancelRefused ==
  [][\A c \in Clients : CancelBy(c) /\ cancelled[c] => UNCHANGED vars]_clientVars
=============================================================================
