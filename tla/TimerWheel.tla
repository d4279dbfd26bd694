----------------------------- MODULE TimerWheel -----------------------------
(***************************************************************************)
(* g_timer (sax/timer.c): the hierarchical timing wheel, four levels of    *)
(* Base slots (256 in the code), its clock a word of Base^4 values (the    *)
(* uint32_t) that wraps round.  It is used by one thread; the interleaving *)
(* is that of g_timer_poll with the callbacks it calls, which start and    *)
(* cancel timers.                                                          *)
(*                                                                         *)
(* The list of a slot is the set of the nodes linked into it: nothing here *)
(* depends on the order in which the timers of one tick fire.              *)
(***************************************************************************)
EXTENDS Integers, FiniteSets

CONSTANTS Base,       \* slots of a level
          Handles,    \* the nodes of the pool, which are the timers' handles
          NoTimer,    \* no callback runs
          Delays      \* the values of delay_ticks

Span == Base * Base * Base * Base     \* the values of a uint32_t

ASSUME BaseAssumption == Base \in Nat /\ Base > 1
ASSUME DelaysAssumption == Delays \subseteq 0 .. Span - 1
ASSUME HandlesAssumption == NoTimer \notin Handles

VARIABLES
  where,              \* the slot each node is linked into, or Unlinked
  expire,             \* node->expire (0 while the node is not linked)
  last, count,        \* t->last, t->count
  polling,            \* g_timer_poll is in the fire() of a tick
  busy                \* the node whose callback runs, or NoTimer

vars == <<where, expire, last, count, polling, busy>>

Levels == 1 .. 4
Slot == Levels \X (0 .. Base - 1)
Unlinked == <<0, 0>>                  \* node->prev == NULL

TypeOK ==
  /\ where \in [Handles -> Slot \cup {Unlinked}]
  /\ expire \in [Handles -> 0 .. Span - 1]
  /\ last \in 0 .. Span - 1
  /\ count \in Nat
  /\ polling \in BOOLEAN
  /\ busy \in Handles \cup {NoTimer}

-----------------------------------------------------------------------------
(* The delays that a level serves, and the digit of a time it is indexed   *)
(* by.                                                                     *)
Reach(k) == CASE k = 0 -> 1
              [] k = 1 -> Base
              [] k = 2 -> Base * Base
              [] k = 3 -> Base * Base * Base
              [] k = 4 -> Span

Digit(x, k) == (x \div Reach(k - 1)) % Base

(* A slip: <= 0x100 for <= 0xFF, on every level. *)
LevelForLoose(d) ==
  CHOOSE k \in Levels : (k < 4 => d <= Reach(k)) /\ (k > 1 => d > Reach(k - 1))

(* schedule(): the level is chosen by the delay, the slot by the time. *)
LevelFor(d) == CHOOSE k \in Levels : d < Reach(k) /\ (k > 1 => d >= Reach(k - 1))
SlotFor(e, d) == <<LevelFor(d), Digit(e, LevelFor(d))>>

(* reschedule(): the nodes of slot x move on.  The list is emptied last,   *)
(* and would lose a node that schedule() had put back into it.             *)
Rescheduled(w, x, now) ==
  [h \in Handles |->
     LET y == SlotFor(expire[h], (expire[h] - now) % Span)
     IN IF w[h] # x THEN w[h] ELSE IF y = x THEN Unlinked ELSE y]

(* Slips: only the highest level handed down, and the top one forgotten.   *)
CascadedOnce(w, now) ==
  LET From(v, k) == IF now % Reach(k - 1) # 0 \/ (k < 4 /\ now % Reach(k) = 0)
                    THEN v ELSE Rescheduled(v, <<k, Digit(now, k)>>, now)
  IN From(From(From(w, 4), 3), 2)

CascadedNoTop(w, now) ==
  LET From(v, k) == IF now % Reach(k - 1) # 0 THEN v
                    ELSE Rescheduled(v, <<k, Digit(now, k)>>, now)
  IN From(From(w, 3), 2)

(* The part of g_timer_poll that comes before fire(): with t->last = now,  *)
(* each level whose lower digits are all 0 hands its slot down.            *)
Cascaded(w, now) ==
  LET From(v, k) == IF now % Reach(k - 1) # 0 THEN v
                    ELSE Rescheduled(v, <<k, Digit(now, k)>>, now)
  IN From(From(From(w, 4), 3), 2)

Init ==
  /\ where = [h \in Handles |-> Unlinked]
  /\ expire = [h \in Handles |-> 0]
  /\ last \in 0 .. Span - 1           \* g_timer_create2(now)
  /\ count = 0
  /\ polling = FALSE
  /\ busy = NoTimer

-----------------------------------------------------------------------------
(* Clients call between two ticks, and from callbacks. *)
ClientRuns == polling => busy # NoTimer

(* The pool hands out any node that is free. *)
Start(h, d) ==
  /\ ClientRuns
  /\ where[h] = Unlinked /\ h # busy
  /\ expire' = [expire EXCEPT ![h] = (last + d) % Span]
  /\ where' = [where EXCEPT ![h] = SlotFor((last + d) % Span, d)]
  /\ count' = count + 1
  /\ UNCHANGED <<last, polling, busy>>

(* g_timer_cancel of a node that is linked; of any other it returns 1 and  *)
(* changes nothing.                                                        *)
Cancel(h) ==
  /\ ClientRuns
  /\ where[h] # Unlinked
  /\ where' = [where EXCEPT ![h] = Unlinked]
  /\ expire' = [expire EXCEPT ![h] = 0]
  /\ count' = count - 1
  /\ UNCHANGED <<last, polling, busy>>

(* One round of the loop in g_timer_poll, up to fire(). *)
Tick ==
  LET now == (last + 1) % Span IN
  /\ ~polling
  /\ last' = now
  /\ where' = Cascaded(where, now)
  /\ polling' = TRUE
  /\ UNCHANGED <<expire, count, busy>>

DueSlot == <<1, Digit(last, 1)>>

(* fire(): while the list is not empty, a node is unlinked, its callback   *)
(* run, and the node given back to the pool.                               *)
Fire(h) ==
  /\ polling /\ busy = NoTimer
  /\ where[h] = DueSlot
  /\ count' = count - 1
  /\ where' = [where EXCEPT ![h] = Unlinked]
  /\ expire' = [expire EXCEPT ![h] = 0]
  /\ busy' = h
  /\ UNCHANGED <<last, polling>>

Return ==
  /\ busy # NoTimer
  /\ busy' = NoTimer
  /\ UNCHANGED <<where, expire, last, count, polling>>

EndTick ==
  /\ polling /\ busy = NoTimer
  /\ \A h \in Handles : where[h] # DueSlot
  /\ polling' = FALSE
  /\ UNCHANGED <<where, expire, last, count, busy>>

Poll == Tick \/ (\E h \in Handles : Fire(h)) \/ Return \/ EndTick

Next == \/ \E h \in Handles : (\E d \in Delays : Start(h, d)) \/ Cancel(h)
        \/ Poll

Spec == Init /\ [][Next]_vars

(* The owner keeps polling and callbacks return. *)
FairSpec == Spec /\ WF_vars(Poll)

-----------------------------------------------------------------------------
(* Properties *)

Pending(h) == where[h] # Unlinked

(* A node is in the slot of its expiry time, on a level that reaches it,   *)
(* and no level has already passed the slot.  g_timer_count counts the     *)
(* nodes that are in a slot, also inside a callback, and all has its type. *)
Ahead(h) == (expire[h] - last) % Span
Placed ==
  /\ TypeOK
  /\ count = Cardinality({h \in Handles : Pending(h)})
  /\ \A h \in Handles : Pending(h) =>
       LET k == where[h][1] IN
       /\ where[h][2] = Digit(expire[h], k)
       /\ k = 1 \/ (Ahead(h) < Reach(k) /\ Ahead(h) > 0)

(* What is left of a timer: above the first level the time to its expiry,  *)
(* on it the rounds until its slot comes up.                               *)
TicksLeft(h) == IF ~Pending(h) THEN -1
                ELSE IF where[h][1] > 1 THEN Ahead(h)
                ELSE IF polling /\ where[h] = DueSlot THEN 0
                ELSE ((where[h][2] - last - 1) % Base) + 1

Service == INSTANCE TimerService WITH
  Lap <- Base, inTick <- polling, left <- [h \in Handles |-> TicksLeft(h)]

(* The wheel is a timer service: every timer fires at exactly its tick.    *)
ImplementsService == Service!ServiceSpec

(* Every timer fires or is cancelled, unless callbacks that keep starting  *)
(* timers with no delay hold one poll for ever.                            *)
EveryTimerEnds ==
  \A h \in Handles : (Pending(h) ~> ~Pending(h)) \/ <>[]polling
=============================================================================
