-------------------------------- MODULE Fifo --------------------------------
(***************************************************************************)
(* sax::fifo (sax/c++/fifo.h): a bounded queue between any number of       *)
(* threads.  Two semaphores count the free places and the items, and a     *)
(* spin lock at each end lets one thread at a time move _tail or _head.    *)
(*                                                                         *)
(* One step per operation on a semaphore or a lock, and between enter and  *)
(* leave one for the place and one for _tail or _head, with the leave that *)
(* follows.  The items are numbered in the order they are stored, so that  *)
(* the properties can tell them apart.                                     *)
(***************************************************************************)
EXTENDS Integers, FiniteSets

CONSTANTS Pushers, Poppers,  \* the threads that push_back and pop_front
          _cap,              \* the capacity
          ItemNumbers        \* bound: items are numbered modulo this

VARIABLES _queue, _head, _tail,
          _tsem, _hsem,      \* the counts of the semaphores
          _tlock, _hlock,    \* the thread that has the lock, or "nobody"
          at,                \* where each thread is
          pushed, popped,    \* how many items have been stored and taken
          taken              \* the number of the item taken last

vars == <<_queue, _head, _tail, _tsem, _hsem, _tlock, _hlock, at, pushed, popped, taken>>

Threads == Pushers \cup Poppers

(* A capacity, room to tell as many items apart, and finitely many threads *)
(* each of which stays at its end.                                         *)
FifoAssumption ==
  /\ _cap \in Nat \ {0} /\ ItemNumbers \in Nat /\ ItemNumbers > _cap
  /\ IsFiniteSet(Pushers) /\ IsFiniteSet(Poppers)
  /\ Pushers \cap Poppers = {} /\ "nobody" \notin Threads

Empty == -1
Places == {"out", "enter", "inside", "moving", "post"}
Numbers == 0 .. ItemNumbers - 1

TypeOK ==
  /\ _queue \in [0 .. _cap - 1 -> Numbers \cup {Empty}]
  /\ _head \in 0 .. _cap - 1 /\ _tail \in 0 .. _cap - 1
  /\ _tsem \in 0 .. _cap /\ _hsem \in 0 .. _cap
  /\ _tlock \in Pushers \cup {"nobody"} /\ _hlock \in Poppers \cup {"nobody"}
  /\ at \in [Threads -> Places]
  /\ pushed \in Numbers /\ popped \in Numbers /\ taken \in Numbers

Init ==
  /\ _queue = [i \in 0 .. _cap - 1 |-> Empty]
  /\ _head = 0 /\ _tail = 0
  /\ _tsem = _cap /\ _hsem = 0
  /\ _tlock = "nobody" /\ _hlock = "nobody"
  /\ at = [t \in Threads |-> "out"]
  /\ pushed = 0 /\ popped = 0 /\ taken = 0

Go(t, from, to) == at[t] = from /\ at' = [at EXCEPT ![t] = to]

Wrapped(i) == IF i >= _cap THEN 0 ELSE i
Following(n) == IF n + 1 >= ItemNumbers THEN 0 ELSE n + 1   \* the next number

-----------------------------------------------------------------------------
(* push_back; a wait in vain, which returns false, changes nothing.        *)

PushWait(p) ==
  /\ _tsem > 0
  /\ Go(p, "out", "enter")
  /\ _tsem' = _tsem - 1
  /\ UNCHANGED <<_queue, _head, _tail, _hsem, _tlock, _hlock, pushed, popped, taken>>

PushEnter(p) ==
  /\ _tlock = "nobody"
  /\ Go(p, "enter", "inside")
  /\ _tlock' = p
  /\ UNCHANGED <<_queue, _head, _tail, _tsem, _hsem, _hlock, pushed, popped, taken>>

PushStore(p) ==
  /\ Go(p, "inside", "moving")
  /\ _queue' = [_queue EXCEPT ![_tail] = Following(pushed)]
  /\ pushed' = Following(pushed)
  /\ UNCHANGED <<_head, _tail, _tsem, _hsem, _tlock, _hlock, popped, taken>>

PushMove(p) ==
  /\ Go(p, "moving", "post")
  /\ _tail' = Wrapped(_tail + 1)
  /\ _tlock' = "nobody"
  /\ UNCHANGED <<_queue, _head, _tsem, _hsem, _hlock, pushed, popped, taken>>

PushPost(p) ==
  /\ Go(p, "post", "out")
  /\ _hsem' = _hsem + 1
  /\ UNCHANGED <<_queue, _head, _tail, _tsem, _tlock, _hlock, pushed, popped, taken>>

-----------------------------------------------------------------------------
(* pop_front *)

PopWait(c) ==
  /\ _hsem > 0
  /\ Go(c, "out", "enter")
  /\ _hsem' = _hsem - 1
  /\ UNCHANGED <<_queue, _head, _tail, _tsem, _tlock, _hlock, pushed, popped, taken>>

(* A slip: the place is given back before its item is taken. *)
PopEnterPosting(c) ==
  /\ _hlock = "nobody"
  /\ Go(c, "enter", "inside")
  /\ _hlock' = c
  /\ _tsem' = _tsem + 1
  /\ UNCHANGED <<_queue, _head, _tail, _hsem, _tlock, pushed, popped, taken>>

PopEnter(c) ==
  /\ _hlock = "nobody"
  /\ Go(c, "enter", "inside")
  /\ _hlock' = c
  /\ UNCHANGED <<_queue, _head, _tail, _tsem, _hsem, _tlock, pushed, popped, taken>>

PopTake(c) ==
  /\ Go(c, "inside", "moving")
  /\ taken' = _queue[_head]
  /\ popped' = Following(popped)
  /\ UNCHANGED <<_queue, _head, _tail, _tsem, _hsem, _tlock, _hlock, pushed>>

PopMove(c) ==
  /\ Go(c, "moving", "post")
  /\ _head' = Wrapped(_head + 1)
  /\ _hlock' = "nobody"
  /\ UNCHANGED <<_queue, _tail, _tsem, _hsem, _tlock, pushed, popped, taken>>

PopPost(c) ==
  /\ Go(c, "post", "out")
  /\ _tsem' = _tsem + 1
  /\ UNCHANGED <<_queue, _head, _tail, _hsem, _tlock, _hlock, pushed, popped, taken>>

Next ==
  \/ \E p \in Pushers : PushWait(p) \/ PushEnter(p) \/ PushStore(p)
                       \/ PushMove(p) \/ PushPost(p)
  \/ \E c \in Poppers : PopWait(c) \/ PopEnter(c) \/ PopTake(c)
                       \/ PopMove(c) \/ PopPost(c)

Spec == Init /\ [][Next]_vars

-----------------------------------------------------------------------------
(* Properties *)

(* Items are taken in the order they were stored, none twice and none that *)
(* is not there yet, whatever the order in which the threads post.         *)
TakesInOrder == taken = popped

(* The permits of both semaphores and the threads on their way between     *)
(* them add up to the capacity, so no place is lost and none promised      *)
(* twice.                                                                  *)
PermitsAddUp ==
  _tsem + _hsem + Cardinality({t \in Threads : at[t] # "out"}) = _cap
=============================================================================
