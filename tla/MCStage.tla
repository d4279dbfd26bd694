------------------------------- MODULE MCStage -------------------------------
(***************************************************************************)
(* An instance of Stage, the pipeline of test/t_stage.cpp, and beside it   *)
(* one of the timer stage with a stage that asks it: a behaviour is one of *)
(* either, and the other stays as it is initially.                         *)
(***************************************************************************)
EXTENDS Stage

CONSTANTS Requests, NoTimer,  \* of the timer stage: its timers, and none,
          Delays, Lap, Polling, Idle, MaxBehind

VARIABLES part,
          left, inTick, busy, behind, requests, timeouts, tpc, turns, idles,
          ticks, ahead, bpc, told, due

timer == <<left, inTick, busy, behind, requests, timeouts, tpc, turns, idles,
           ticks, ahead, bpc, told, due>>

(* sink (1), midware (2), source (3): midware has two threads. *)
Pipeline == <<1, 2, 1>>
PipelineDest == <<0, 1, 2>>
PipelineEmits == <<0, 0, 2>>

Timer == INSTANCE Stimer WITH
  Handles <- Requests, pc <- tpc, stop <- told

ASSUME TimerAssumption == Timer!StimerAssumption

MCInit == part \in {"pipeline", "timer"} /\ Init /\ Timer!Init

MCNext ==
  /\ UNCHANGED part
  /\ \/ part = "pipeline" /\ Next /\ UNCHANGED timer
     \/ part = "timer" /\ Timer!Next /\ UNCHANGED vars

(* The pipeline is checked for safety only; at the timer stage threads run *)
(* on, handlers return and time goes by.                                   *)
MCSpec ==
  /\ MCInit /\ [][MCNext]_<<part, vars, timer>>
  /\ WF_timer(part = "timer" /\ Timer!TimerThread)
  /\ WF_timer(part = "timer" /\ Timer!AskerThread)
  /\ WF_timer(part = "timer" /\ Timer!Clock)

(* The timer stage's wheel follows the clock, poll by poll.                *)
WheelKeepsTime == Timer!WheelKeepsTime

(* Every request to the timer stage is answered, but for a stop or a       *)
(* circular wait.                                                          *)
TimeoutsArrive == Timer!TimeoutsArrive
=============================================================================
