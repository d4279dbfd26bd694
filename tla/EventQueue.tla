----------------------------- MODULE EventQueue -----------------------------
(***************************************************************************)
(* sax::event_queue (sax/stage/event_queue.h): the byte ring between many  *)
(* producers, serialised by a spin lock while they allocate, and the one   *)
(* consumer thread, which takes no lock.                                   *)
(*                                                                         *)
(* The ring is modelled word by word (4 bytes): a block is a header of two *)
(* words, block_state and block_size, followed by the event.  A word that  *)
(* no live block defines is Junk, and reading one as a header yields any   *)
(* value.  Each step reads or writes shared memory once, so that every     *)
(* interleaving of the consumer with a producer inside its critical        *)
(* section is explored.  The memory is sequentially consistent (volatile   *)
(* accesses, total store order, commit_event kept out of line).            *)
(***************************************************************************)
EXTENDS Integers, Sequences, FiniteSets

CONSTANTS Producers,  \* threads that call allocate_event and commit_event
          Cap,        \* _cap, in words
          Lens,       \* the values new_len takes, in words
          MaxHeld,    \* events a producer may hold when it asks for another
          Nobody,     \* the lock is free
          Junk        \* a word that holds no header and no event

Hdr == 2              \* sizeof(event_header), in words

ASSUME CapAssumption == Cap \in Nat /\ Cap > Hdr
ASSUME LensAssumption == Lens \subseteq Nat /\ \A n \in Lens : n > Hdr
ASSUME MaxHeldAssumption == MaxHeld \in Nat
ASSUME ValuesAssumption ==
  /\ Nobody \notin Producers
  /\ Junk \notin Nat
  /\ Junk \notin Producers
  /\ \A p \in Producers : p \notin Nat

(* enum state, with the values the compiler gives it *)
ALLOCATED == 0
COMMITTED == 1
SKIPPED   == 2
States == {ALLOCATED, COMMITTED, SKIPPED}

Words == 0 .. Cap - 1
Nil == -1             \* the NULL pointer

VARIABLES
  allocPos, freePos,  \* _alloc_pos and _free_pos
  mem,                \* _buf
  lock,               \* _lock: the producer inside it, or Nobody
  pc,                 \* where each producer stands in allocate_event
  len, wait,          \* its arguments: the block size, and wait
  ptr, skip,          \* its locals new_alloc_pos and skip_flag
  held,               \* the blocks it has constructed and not committed
  cpc,                \* where the consumer stands
  ev,                 \* the block pop_event returned
  blocks              \* history: the live blocks in allocation order

ring  == <<allocPos, freePos, mem>>
locals == <<pc, len, wait, ptr, skip, held>>
consumer == <<cpc, ev>>
vars == <<allocPos, freePos, mem, lock, pc, len, wait, ptr, skip, held,
          cpc, ev, blocks>>

Block == [pos : Words, len : Lens, owner : Producers, committed : BOOLEAN]
Until(b) == b.pos + b.len

PCs  == {"idle", "enter", "load", "header", "marker", "publish", "leave",
         "construct"}
CPCs == {"pop", "wrap", "state", "skipped", "front", "handle", "free"}

TypeOK ==
  /\ allocPos \in 0 .. Cap
  /\ freePos \in 0 .. Cap
  /\ mem \in [Words -> States \cup Lens \cup Producers \cup {Junk}]
  /\ lock \in Producers \cup {Nobody}
  /\ pc \in [Producers -> PCs]
  /\ len \in [Producers -> Lens \cup {0}]
  /\ wait \in [Producers -> BOOLEAN]
  /\ ptr \in [Producers -> Words \cup {Nil}]
  /\ skip \in [Producers -> BOOLEAN]
  /\ held \in [Producers -> SUBSET Words]
  /\ cpc \in CPCs
  /\ ev \in Words \cup {Nil}
  /\ blocks \in Seq(Block)

-----------------------------------------------------------------------------
(* The arithmetic of allocate(), for _alloc_pos a, local_free_pos f and    *)
(* new_len n.                                                              *)

Unwrapped(a, f) == a - f >= 0                        \* cond1
RearFitsOneShort(a, n) == Cap - a - n >= -1          \* a slip in cond2
RearFits(a, n)  == Cap - a - n >= 0                  \* cond2
NeverSkip(a, f, n) == FALSE        \* a slip: the wrap to the front left out
SkipFlag(a, f, n)  == Unwrapped(a, f) /\ ~RearFits(a, n)
AllocAt(a, f, n)   == IF SkipFlag(a, f, n) THEN 0 ELSE a
(* Slips in the test for free space: the length forgotten, and >= for >.   *)
AllocatedNoLength(a, f, n) == \/ Unwrapped(a, f) /\ RearFits(a, n)
                              \/ f - AllocAt(a, f, n) > 0
AllocatedToTheBrim(a, f, n) == \/ Unwrapped(a, f) /\ RearFits(a, n)
                               \/ f - AllocAt(a, f, n) - n >= 0
Allocated(a, f, n) == \/ Unwrapped(a, f) /\ RearFits(a, n)
                      \/ f - AllocAt(a, f, n) - n > 0
NeedsMarkerLate(a) == Cap - a > 2 * Hdr              \* a slip: twice the header
NeedsMarker(a)  == Cap - a > Hdr

(* What a header word yields when it is read. *)
StateAt(q) == IF mem[q] \in States THEN {mem[q]} ELSE States
SizeAt(q)  == IF mem[q + 1] \in Lens THEN {mem[q + 1]} ELSE Lens

(* Memory m with the header of a fresh block at q, and with every word of  *)
(* the event in the block of n words at q set to w.                        *)
WithReadyHeader(m, q, n) == [m EXCEPT ![q] = COMMITTED, ![q + 1] = n]
WithHeader(m, q, n) == [m EXCEPT ![q] = ALLOCATED, ![q + 1] = n]
WithEvent(m, q, n, w) ==
  [x \in Words |-> IF q + Hdr <= x /\ x < q + n THEN w ELSE m[x]]

Init ==
  /\ allocPos = 0
  /\ freePos = 0
  /\ mem = [x \in Words |-> Junk]
  /\ lock = Nobody
  /\ pc = [p \in Producers |-> "idle"]
  /\ len = [p \in Producers |-> 0]
  /\ wait = [p \in Producers |-> FALSE]
  /\ ptr = [p \in Producers |-> Nil]
  /\ skip = [p \in Producers |-> FALSE]
  /\ held = [p \in Producers |-> {}]
  /\ cpc = "pop"
  /\ ev = Nil
  /\ blocks = <<>>

-----------------------------------------------------------------------------
(* Producers: allocate_event, construction of the event, commit_event.     *)

(* A call of allocate_event<EVENT_TYPE>(w), with n its new_len. *)
Call(p, n, w) ==
  /\ pc[p] = "idle"
  /\ Cardinality(held[p]) <= MaxHeld
  /\ pc' = [pc EXCEPT ![p] = "enter"]
  /\ len' = [len EXCEPT ![p] = n]
  /\ wait' = [wait EXCEPT ![p] = w]
  /\ UNCHANGED <<ring, lock, ptr, skip, held, consumer, blocks>>

Enter(p) ==
  /\ pc[p] = "enter"
  /\ lock = Nobody
  /\ lock' = p
  /\ pc' = [pc EXCEPT ![p] = "load"]
  /\ UNCHANGED <<ring, len, wait, ptr, skip, held, consumer, blocks>>

(* The one read of _free_pos, and all that allocate() concludes from it.   *)
Load(p) ==
  /\ pc[p] = "load"
  /\ IF Allocated(allocPos, freePos, len[p])
     THEN /\ ptr' = [ptr EXCEPT ![p] = AllocAt(allocPos, freePos, len[p])]
          /\ skip' = [skip EXCEPT ![p] = SkipFlag(allocPos, freePos, len[p])]
          /\ pc' = [pc EXCEPT ![p] = "header"]
     ELSE /\ pc' = [pc EXCEPT ![p] = "leave"]
          /\ UNCHANGED <<ptr, skip>>
  /\ UNCHANGED <<ring, lock, len, wait, held, consumer, blocks>>

WriteHeader(p) ==
  /\ pc[p] = "header"
  /\ mem' = WithHeader(mem, ptr[p], len[p])
  /\ pc' = [pc EXCEPT ![p] = "marker"]
  /\ UNCHANGED <<allocPos, freePos, lock, len, wait, ptr, skip, held,
                 consumer, blocks>>

(* The marker that sends the consumer back to the front, when there is     *)
(* room for one.                                                           *)
WriteMarker(p) ==
  /\ pc[p] = "marker"
  /\ mem' = IF skip[p] /\ NeedsMarker(allocPos)
            THEN [mem EXCEPT ![allocPos] = SKIPPED]
            ELSE mem
  /\ pc' = [pc EXCEPT ![p] = "publish"]
  /\ UNCHANGED <<allocPos, freePos, lock, len, wait, ptr, skip, held,
                 consumer, blocks>>

Publish(p) ==
  /\ pc[p] = "publish"
  /\ allocPos' = ptr[p] + len[p]
  /\ blocks' = Append(blocks, [pos |-> ptr[p], len |-> len[p], owner |-> p,
                               committed |-> FALSE])
  /\ pc' = [pc EXCEPT ![p] = "leave"]
  /\ UNCHANGED <<freePos, mem, lock, len, wait, ptr, skip, held, consumer>>

(* The unlock; a call that found no room and has to wait goes round again  *)
(* (the 1 ms sleep is a stuttering step), one that has not gives up.       *)
Leave(p) ==
  /\ pc[p] = "leave"
  /\ ptr[p] # Nil \/ wait[p]
  /\ lock' = Nobody
  /\ pc' = [pc EXCEPT ![p] = IF ptr[p] # Nil THEN "construct" ELSE "enter"]
  /\ UNCHANGED <<ring, len, wait, ptr, skip, held, consumer, blocks>>

GiveUp(p) ==
  /\ pc[p] = "leave"
  /\ ptr[p] = Nil /\ ~wait[p]
  /\ lock' = Nobody
  /\ pc' = [pc EXCEPT ![p] = "idle"]
  /\ len' = [len EXCEPT ![p] = 0]
  /\ UNCHANGED <<ring, wait, ptr, skip, held, consumer, blocks>>

(* new (ptr) EVENT_TYPE(), outside the lock; the call returns. *)
Construct(p) ==
  /\ pc[p] = "construct"
  /\ mem' = WithEvent(mem, ptr[p], len[p], p)
  /\ held' = [held EXCEPT ![p] = @ \cup {ptr[p]}]
  /\ ptr' = [ptr EXCEPT ![p] = Nil]
  /\ skip' = [skip EXCEPT ![p] = FALSE]
  /\ len' = [len EXCEPT ![p] = 0]
  /\ wait' = [wait EXCEPT ![p] = FALSE]
  /\ pc' = [pc EXCEPT ![p] = "idle"]
  /\ UNCHANGED <<allocPos, freePos, lock, consumer, blocks>>

CommitEvent(p, q) ==
  /\ pc[p] = "idle"
  /\ q \in held[p]
  /\ mem' = [mem EXCEPT ![q] = COMMITTED]
  /\ held' = [held EXCEPT ![p] = @ \ {q}]
  /\ blocks' = [i \in DOMAIN blocks |->
                  IF blocks[i].pos = q
                  THEN [blocks[i] EXCEPT !.committed = TRUE] ELSE blocks[i]]
  /\ UNCHANGED <<allocPos, freePos, lock, pc, len, wait, ptr, skip, consumer>>

-----------------------------------------------------------------------------
(* The consumer: pop_event, on_event, destroy_event.                       *)

(* An empty queue is polled again: pop_event returns NULL. *)
CheckEmpty ==
  /\ cpc = "pop"
  /\ freePos # allocPos
  /\ cpc' = "wrap"
  /\ UNCHANGED <<ring, lock, locals, ev, blocks>>

WrapAtEnd ==
  /\ cpc = "wrap"
  /\ freePos' = IF Cap - freePos <= Hdr THEN 0 ELSE freePos
  /\ cpc' = "state"
  /\ UNCHANGED <<allocPos, mem, lock, locals, ev, blocks>>

(* Slips in the dispatch on block_state: an event taken before its commit, *)
(* and a marker taken for an event that is not ready.                      *)
ReadStateEager ==
  /\ cpc = "state"
  /\ \E s \in StateAt(freePos) :
       IF s = SKIPPED THEN cpc' = "skipped" /\ UNCHANGED ev
                      ELSE cpc' = "handle" /\ ev' = freePos
  /\ UNCHANGED <<ring, lock, locals, blocks>>

ReadStateNoMarker ==
  /\ cpc = "state"
  /\ \E s \in StateAt(freePos) :
       IF s = COMMITTED THEN cpc' = "handle" /\ ev' = freePos
                        ELSE cpc' = "pop" /\ UNCHANGED ev
  /\ UNCHANGED <<ring, lock, locals, blocks>>

ReadState ==
  /\ cpc = "state"
  /\ \E s \in StateAt(freePos) :
       \/ /\ s = COMMITTED
          /\ cpc' = "handle"
          /\ ev' = freePos
       \/ /\ s = SKIPPED
          /\ cpc' = "skipped"
          /\ UNCHANGED ev
       \/ /\ s = ALLOCATED
          /\ cpc' = "pop"
          /\ UNCHANGED ev
  /\ UNCHANGED <<ring, lock, locals, blocks>>

(* A slip: the event at the front is read, and _free_pos not reset. *)
FollowMarkerInPlace ==
  /\ cpc = "skipped"
  /\ cpc' = "front"
  /\ UNCHANGED <<ring, lock, locals, ev, blocks>>

FollowMarker ==
  /\ cpc = "skipped"
  /\ freePos' = 0
  /\ cpc' = "front"
  /\ UNCHANGED <<allocPos, mem, lock, locals, ev, blocks>>

ReadFront ==
  /\ cpc = "front"
  /\ \E s \in StateAt(0) :
       IF s = COMMITTED THEN cpc' = "handle" /\ ev' = 0
                        ELSE cpc' = "pop" /\ UNCHANGED ev
  /\ UNCHANGED <<ring, lock, locals, blocks>>

(* on_event has run on the event; destroy() then ends its life. *)
HandleAndDestroy ==
  /\ cpc = "handle"
  /\ \E n \in SizeAt(ev) : mem' = WithEvent(mem, ev, n, Junk)
  /\ cpc' = "free"
  /\ UNCHANGED <<allocPos, freePos, lock, locals, ev, blocks>>

Free ==
  /\ cpc = "free"
  /\ \E n \in SizeAt(ev) : freePos' = freePos + n
  /\ blocks' = Tail(blocks)
  /\ ev' = Nil
  /\ cpc' = "pop"
  /\ UNCHANGED <<allocPos, mem, lock, locals>>

-----------------------------------------------------------------------------
Allocate(p) == Enter(p) \/ Load(p) \/ WriteHeader(p) \/ WriteMarker(p)
                 \/ Publish(p) \/ Leave(p) \/ GiveUp(p) \/ Construct(p)

Producer(p) == \/ \E n \in Lens, w \in BOOLEAN : Call(p, n, w)
               \/ Allocate(p)
               \/ \E q \in held[p] : CommitEvent(p, q)

Consumer == CheckEmpty \/ WrapAtEnd \/ ReadState \/ FollowMarker
              \/ ReadFront \/ HandleAndDestroy \/ Free

Next == (\E p \in Producers : Producer(p)) \/ Consumer

Spec == Init /\ [][Next]_vars

(* A thread that can run does: allocate_event does not stop half way, an   *)
(* event a producer holds is committed, the stage thread keeps popping and *)
(* its handler returns.  Nothing obliges a producer to call, and the spin  *)
(* lock is only weakly fair.                                               *)
Fairness ==
  /\ \A p \in Producers :
       /\ WF_vars(Allocate(p))
       /\ \A q \in Words : WF_vars(CommitEvent(p, q))
  /\ WF_vars(Consumer)

FairSpec == Spec /\ Fairness

-----------------------------------------------------------------------------
(* Properties *)

Live == {blocks[i] : i \in DOMAIN blocks}

(* The words of two live blocks never meet and stay inside the buffer: a   *)
(* stale _free_pos read by allocate() only ever hides free space.          *)
NoOverlap ==
  \A i, j \in DOMAIN blocks :
    /\ Until(blocks[i]) <= Cap
    /\ i # j => \/ Until(blocks[i]) <= blocks[j].pos
                \/ Until(blocks[j]) <= blocks[i].pos

(* "_free_pos == _alloc_pos means empty" (event_queue.h:144): a full ring  *)
(* is never taken for an empty one, nor the other way round.               *)
EqualMeansEmpty == (freePos = allocPos) <=> (blocks = <<>>)

(* pop_event only ever interprets words that are headers in use: the       *)
(* header of the oldest live block or a SKIPPED marker, never leftovers.   *)
ReadsOnlyHeaders ==
  /\ cpc = "state" =>
       /\ freePos \in Words
       /\ mem[freePos] \in States
       /\ mem[freePos] # SKIPPED => blocks # <<>> /\ blocks[1].pos = freePos
  /\ cpc = "front" => blocks # <<>> /\ blocks[1].pos = 0

(* The event given to the handler is the oldest one, committed, and every  *)
(* word of it is the one its producer constructed (the reordering that     *)
(* event_queue.h:100-113 warns of does not happen at this level).          *)
HandlesIntactEvent ==
  cpc = "handle" =>
    /\ blocks # <<>>
    /\ blocks[1].committed
    /\ blocks[1].pos = ev
    /\ \A x \in Words : ev + Hdr <= x /\ x < ev + blocks[1].len
                          => mem[x] = blocks[1].owner

(* The assertion commented out at event_queue.h:200, and the size that is  *)
(* added there: what is freed is exactly the oldest block.                 *)
FreesTheHead ==
  cpc = "free" => /\ blocks # <<>>
                  /\ ev = freePos
                  /\ blocks[1].pos = ev
                  /\ mem[ev + 1] = blocks[1].len

(* The ring implements the channel: events are delivered once each, in the *)
(* order of their allocation, and only after their commit.                 *)
Channel == INSTANCE EventChannel WITH
  slots <- [i \in DOMAIN blocks |->
              [owner |-> blocks[i].owner, len |-> blocks[i].len,
               committed |-> blocks[i].committed]],
  handling <- cpc \in {"handle", "free"}

ImplementsChannel == Channel!ChanSpec

(* A thread waiting in allocate_event(wait = true) is served, unless other *)
(* producers are served for ever in its place.                             *)
Waiting(p) == pc[p] \in {"enter", "load"} /\ wait[p]
WaitingIsServed ==
  \A p \in Producers :
    \/ Waiting(p) ~> pc[p] = "construct"
    \/ []<>(\E q \in Producers \ {p} : pc[q] = "construct")

(* Every allocated block is handled and its place given back: the consumer *)
(* never stops freeing while there is a block, and it frees them in order. *)
EveryBlockIsFreed == []<>(blocks = <<>> \/ cpc = "free")
=============================================================================
