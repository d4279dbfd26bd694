------------------------------- MODULE Stimer -------------------------------
(***************************************************************************)
(* The timer stage (sax/stage/stimer.h): a thread that takes               *)
(* add_timer_events from its queue, starts a timer for each, and sends a   *)
(* timer_timeout_event to the stage that asked, from the callback.  The    *)
(* timer is any that keeps the promise of TimerService, as TimerWheel      *)
(* does.  With it are the thread of the asking stage, whose handler may    *)
(* ask again, threads of the program that ask, and the clock.              *)
(*                                                                         *)
(* Time is kept relative to the last poll.  A queue is a channel of a      *)
(* bounded number of events, as in Stage; the event in hand is its head.   *)
(***************************************************************************)
EXTENDS TimerService, Sequences, SequencesExt

CONSTANTS Polling,    \* POLLING_COUNT
          Idle,       \* SLEEP_IDLE_COUNT
          QueueCap,   \* events that either queue has room for
          MaxBehind   \* bound: the clock waits when the last poll is so long ago

(* The timers' handles are the requests (trans_id) that may be under way.  *)

StimerAssumption ==
  /\ Polling \in Nat \ {0} /\ Idle \in Nat \ {0}
  /\ QueueCap \in Nat \ {0} /\ MaxBehind \in Nat \ {0}
  /\ Delays \subseteq Nat /\ Lap \in Nat \ {0} /\ NoTimer \notin Handles

VARIABLES
  behind,     \* g_now_ms() - _last_ms
  requests,   \* the queue of the timer stage: a timer and its delay each
  timeouts,   \* the queue of the asking stage
  pc,         \* where the timer thread stands in run()
  turns,      \* its count, as far as POLLING_COUNT
  idles,      \* its idle_count
  ticks,      \* the ticks that g_timer_poll has still to do, this one included
  ahead,      \* now_ms - _last_ms of the poll under way, or 0
  bpc,        \* where the thread of the asking stage stands
  stop,       \* the threads whose _stop is set
  due         \* history: ms until a timer's delay has passed since the last poll before
              \* on_event started it

loop == <<pc, turns, idles>>
poll == <<ticks, ahead>>
asker == <<bpc, timeouts>>
stimerVars == <<serviceVars, behind, requests, asker, loop, poll, stop, due>>

InQueue(t) == \E i \in DOMAIN requests : requests[i].timer = t
Pending(t) == InQueue(t) \/ left[t] # Off \/ busy = t
HasRoom(q) == Len(q) < QueueCap

Init ==
  /\ ServiceInit
  /\ behind = 0 /\ requests = <<>> /\ timeouts = <<>>
  /\ pc = "top" /\ turns = 0 /\ idles = 0
  /\ ticks = 0 /\ ahead = 0
  /\ bpc = "pop"
  /\ stop = {}
  /\ due = [t \in Handles |-> 0]

-----------------------------------------------------------------------------
(* The timer thread *)

(* One round of the loop, from the test of _stop to pop_event: an event,   *)
(* or nothing, and every SLEEP_IDLE_COUNT-th time a sleep and a poll.  The *)
(* count is never reset, but being an int32_t it will overflow, and is     *)
(* then below POLLING_COUNT for many rounds (here, for Polling).           *)
Top ==
  /\ pc = "top"
  /\ IF "timer" \in stop
     THEN pc' = "exited" /\ UNCHANGED <<turns, idles>>
     ELSE /\ IF turns < Polling THEN turns' = turns + 1 ELSE turns' \in {turns, 0}
          /\ IF requests # <<>>
             THEN pc' = "on_event" /\ UNCHANGED idles
             ELSE IF idles + 1 >= Idle THEN pc' = "idle_poll" /\ idles' = 0
             ELSE pc' = "bottom" /\ idles' = idles + 1
  /\ UNCHANGED <<serviceVars, behind, requests, asker, poll, stop, due>>

(* on_event: the timer starts at the time of the last poll; then the event *)
(* is destroyed.                                                           *)
OnEvent ==
  /\ pc = "on_event"
  /\ LET r == Head(requests)
     IN /\ Start(r.timer, r.delay)
        /\ due' = [due EXCEPT ![r.timer] = left'[r.timer] - behind]
  /\ requests' = Tail(requests)
  /\ pc' = "bottom"
  /\ UNCHANGED <<behind, asker, turns, idles, poll, stop>>

(* The end of a round: a poll, unless count is below POLLING_COUNT.        *)
Bottom ==
  /\ pc = "bottom"
  /\ pc' = IF turns >= Polling THEN "bottom_poll" ELSE "top"
  /\ UNCHANGED <<serviceVars, behind, requests, asker, turns, idles, poll, stop, due>>

Polls == pc \in {"idle_poll", "bottom_poll"}
After == IF pc = "idle_poll" THEN "bottom" ELSE "top"

(* A slip: _last_ms = now_ms, before the two are compared. *)
PollTimerNoted ==
  /\ Polls /\ ticks = 0 /\ ahead = 0
  /\ behind' = 0
  /\ pc' = After
  /\ UNCHANGED <<serviceVars, requests, asker, turns, idles, poll, stop, due>>

(* poll_timer reads the clock. *)
PollTimer ==
  /\ Polls /\ ticks = 0 /\ ahead = 0
  /\ IF behind > 0 THEN ticks' = behind /\ ahead' = behind /\ UNCHANGED pc
     ELSE pc' = After /\ UNCHANGED poll
  /\ UNCHANGED <<serviceVars, behind, requests, asker, turns, idles, stop, due>>

PollTick ==
  /\ ticks > 0 /\ Tick
  /\ UNCHANGED <<behind, requests, asker, loop, poll, stop, due>>

PollFire ==
  /\ \E t \in Handles : Fire(t) /\ due' = [due EXCEPT ![t] = 0]
  /\ UNCHANGED <<behind, requests, asker, loop, poll, stop>>

(* _timer_proc: it waits for room in the queue of the asking stage. *)
TimerProc ==
  /\ busy # NoTimer /\ HasRoom(timeouts)
  /\ timeouts' = Append(timeouts, busy)
  /\ Return
  /\ UNCHANGED <<behind, requests, bpc, loop, poll, stop, due>>

PollEndTick ==
  /\ EndTick
  /\ ticks' = ticks - 1
  /\ UNCHANGED <<behind, requests, asker, loop, ahead, stop, due>>

(* A slip: _last_ms = g_now_ms(), once more. *)
PollEndNow ==
  /\ Polls /\ ahead > 0 /\ ticks = 0
  /\ behind' = 0 /\ ahead' = 0
  /\ pc' = After
  /\ UNCHANGED <<serviceVars, requests, asker, turns, idles, ticks, stop, due>>

(* _last_ms = now_ms *)
PollEnd ==
  /\ Polls /\ ahead > 0 /\ ticks = 0
  /\ behind' = behind - ahead /\ ahead' = 0
  /\ pc' = After
  /\ UNCHANGED <<serviceVars, requests, asker, turns, idles, ticks, stop, due>>

TimerThread == \/ Top \/ OnEvent \/ Bottom
               \/ PollTimer \/ PollTick \/ PollFire \/ TimerProc \/ PollEndTick \/ PollEnd

-----------------------------------------------------------------------------
(* allocate_event and push_event of an add_timer_event *)
Ask(t, d) ==
  /\ ~Pending(t) /\ HasRoom(requests)
  /\ requests' = Append(requests, [timer |-> t, delay |-> d])

(* A thread of the program; it asks for no timer that is under way or has  *)
(* its timeout unread.                                                     *)
Request(t, d) ==
  /\ t \notin Range(timeouts)
  /\ Ask(t, d)
  /\ UNCHANGED <<serviceVars, behind, asker, loop, poll, stop, due>>

(* The asking stage: its thread takes a timeout, and its handler returns   *)
(* or first asks for the same timer again, for which it waits.             *)
Pop ==
  /\ bpc = "pop"
  /\ \/ timeouts # <<>> /\ bpc' \in {"on_event", "ask"}
     \/ timeouts = <<>> /\ "asker" \in stop /\ bpc' = "exited"
  /\ UNCHANGED <<serviceVars, behind, requests, timeouts, loop, poll, stop, due>>

AskAgain ==
  /\ bpc = "ask"
  /\ \E d \in Delays : Ask(Head(timeouts), d)
  /\ bpc' = "on_event"
  /\ UNCHANGED <<serviceVars, behind, timeouts, loop, poll, stop, due>>

HandlerReturns ==
  /\ bpc = "on_event"
  /\ timeouts' = Tail(timeouts)
  /\ bpc' = "pop"
  /\ UNCHANGED <<serviceVars, behind, requests, loop, poll, stop, due>>

AskerThread == Pop \/ AskAgain \/ HandlerReturns

Clock ==
  /\ behind < MaxBehind
  /\ behind' = behind + 1
  /\ due' = [t \in Handles |->      \* a timer behind MaxBehind is late enough
                IF left[t] = Off \/ due[t] <= - MaxBehind THEN due[t] ELSE due[t] - 1]
  /\ UNCHANGED <<serviceVars, requests, asker, loop, poll, stop>>

SignalStop(who) ==
  /\ who \notin stop /\ stop' = stop \cup {who}
  /\ UNCHANGED <<serviceVars, behind, requests, asker, loop, poll, due>>

Next == \/ TimerThread \/ AskerThread \/ Clock
        \/ \E t \in Handles, d \in Delays : Request(t, d)
        \/ \E who \in {"timer", "asker"} : SignalStop(who)

Spec == Init /\ [][Next]_stimerVars

-----------------------------------------------------------------------------
(* The wheel shows the time of the poll under way, or of the last one: no  *)
(* millisecond is lost or counted twice, however long events and callbacks *)
(* hold the thread up, and what a timer has left is what it had when it    *)
(* was started less what has gone by since.                                *)
WheelKeepsTime ==
  \A t \in Handles : left[t] # Off =>
    left[t] = due[t] + behind - (ahead - ticks) - (IF inTick THEN 1 ELSE 0)

(* The timer thread waits for the asking stage, and that one for it. *)
CircularWait == /\ busy # NoTimer /\ ~HasRoom(timeouts)
                /\ bpc = "ask" /\ ~HasRoom(requests)

(* Every request is answered, unless a thread is told to stop, or both     *)
(* threads wait for room in each other's queue.                            *)
TimeoutsArrive ==
  \A t \in Handles : Pending(t) ~> (~Pending(t) \/ stop # {} \/ CircularWait)
=============================================================================
