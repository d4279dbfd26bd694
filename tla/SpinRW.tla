------------------------------- MODULE SpinRW -------------------------------
(***************************************************************************)
(* The reader-writer spin lock of sax/os_api.c (g_spin_rw_t): one word,    *)
(* sem, that holds a writer's flag and a count of readers, and a count w   *)
(* of waiting writers, which holds new readers off if writers are to be    *)
(* preferred.                                                              *)
(*                                                                         *)
(* One step per access to sem or w.  The test of sem that comes before a   *)
(* compare-and-swap is part of it, as it only spares a swap that would     *)
(* fail.  How long a thread spins before it yields is left out.            *)
(***************************************************************************)
EXTENDS Integers, FiniteSets

CONSTANTS Procs,         \* the threads
          prefer_writer  \* the argument of g_spin_rw_init

ASSUME ProcsFinite == IsFiniteSet(Procs)
ASSUME PreferIsBoolean == prefer_writer \in BOOLEAN

VARIABLES flag,     \* SPIN_WRITER_LOCK_FLAG of sem
          readers,  \* the rest of sem
          w,        \* w
          pc        \* where each thread is

vars == <<flag, readers, w, pc>>

(* The places of a thread: asking ("first") for the writer's lock, about   *)
(* to be counted, spinning, with the lock or without it about to be        *)
(* uncounted, and inside; for a reader, before the test of w, of sem and   *)
(* the addition, with an addition to take back, and inside.                *)
Places == {"idle", "first", "count", "spin", "got", "gaveup", "writing",
           "testw", "test", "add", "takeback", "reading"}

Waiting == {"spin", "got", "gaveup"}
HasFlag == {"got", "writing"}
Counted == {"takeback", "reading"}

At(places) == {t \in Procs : pc[t] \in places}

TypeOK ==
  /\ flag \in BOOLEAN /\ readers \in Nat /\ w \in Nat
  /\ pc \in [Procs -> Places]

Init ==
  /\ flag = FALSE /\ readers = 0 /\ w = 0
  /\ pc = [t \in Procs |-> "idle"]

Go(t, from, to) == pc[t] = from /\ pc' = [pc EXCEPT ![t] = to]

-----------------------------------------------------------------------------
(* g_spin_lockw, g_spin_try_lockw *)

LockW(t) ==
  /\ Go(t, "idle", "first")
  /\ UNCHANGED <<flag, readers, w>>

(* A slip: readers who are about to take themselves off are not waited for.*)
SwapFlagOnly(t) ==
  /\ ~flag
  /\ flag' = TRUE
  /\ UNCHANGED readers

(* SPIN_WRITER_TRYLOCK: sem must be 0 altogether. *)
Swap(t) ==
  /\ ~flag /\ readers = 0
  /\ flag' = TRUE
  /\ UNCHANGED readers

FirstTry(t) ==
  \/ Go(t, "first", "writing") /\ Swap(t) /\ UNCHANGED w
  \/ /\ flag \/ readers # 0
     /\ Go(t, "first", "count")
     /\ UNCHANGED <<flag, readers, w>>

(* g_spin_try_lockw with no time to wait. *)
NoTime(t) ==
  /\ Go(t, "count", "idle")
  /\ UNCHANGED <<flag, readers, w>>

CountIn(t) ==
  /\ Go(t, "count", "spin")
  /\ w' = IF prefer_writer THEN w + 1 ELSE w
  /\ UNCHANGED <<flag, readers>>

Spin(t) == Go(t, "spin", "got") /\ Swap(t) /\ UNCHANGED w

(* g_spin_try_lockw, when its time is over. *)
GiveUp(t) ==
  /\ flag \/ readers # 0
  /\ Go(t, "spin", "gaveup")
  /\ UNCHANGED <<flag, readers, w>>

(* A slip: the thread that gives up remains counted. *)
CountOutGotten(t) ==
  /\ \/ Go(t, "got", "writing") /\ w' = (IF prefer_writer THEN w - 1 ELSE w)
     \/ Go(t, "gaveup", "idle") /\ w' = w
  /\ UNCHANGED <<flag, readers>>

CountOut(t) ==
  /\ \/ Go(t, "got", "writing")
     \/ Go(t, "gaveup", "idle")
  /\ w' = IF prefer_writer THEN w - 1 ELSE w
  /\ UNCHANGED <<flag, readers>>

(* g_spin_unlockw: only the flag goes. *)
UnlockW(t) ==
  /\ Go(t, "writing", "idle")
  /\ flag' = FALSE
  /\ UNCHANGED <<readers, w>>

-----------------------------------------------------------------------------
(* g_spin_lockr, g_spin_try_lockr *)

LockR(t) ==
  /\ Go(t, "idle", "testw")
  /\ UNCHANGED <<flag, readers, w>>

(* A slip: waiting writers do not count. *)
TestWNot(t) ==
  /\ Go(t, "testw", "test")
  /\ UNCHANGED <<flag, readers, w>>

(* SPIN_READER_TRYLOCK: the tests of w ...                                 *)
TestW(t) ==
  /\ w = 0
  /\ Go(t, "testw", "test")
  /\ UNCHANGED <<flag, readers, w>>

(* ... and of sem, ...                                                     *)
Test(t) ==
  /\ Go(t, "test", IF flag THEN "testw" ELSE "add")
  /\ UNCHANGED <<flag, readers, w>>

(* ... the addition, which tells whether a writer came first ...           *)
Add(t) ==
  /\ Go(t, "add", IF flag THEN "takeback" ELSE "reading")
  /\ readers' = readers + 1
  /\ UNCHANGED <<flag, w>>

(* ... and is taken back then. *)
TakeBack(t) ==
  /\ Go(t, "takeback", "testw")
  /\ readers' = readers - 1
  /\ UNCHANGED <<flag, w>>

(* g_spin_try_lockr, between two tries. *)
GiveUpR(t) ==
  /\ Go(t, "testw", "idle")
  /\ UNCHANGED <<flag, readers, w>>

UnlockR(t) ==
  /\ Go(t, "reading", "idle")
  /\ readers' = readers - 1
  /\ UNCHANGED <<flag, w>>

-----------------------------------------------------------------------------

(* What a thread does once it has asked. *)
Runs(t) ==
  \/ FirstTry(t) \/ CountIn(t) \/ Spin(t) \/ CountOut(t) \/ UnlockW(t)
  \/ TestW(t) \/ Test(t) \/ Add(t) \/ TakeBack(t) \/ UnlockR(t)

Next == \E t \in Procs : LockW(t) \/ LockR(t) \/ NoTime(t) \/ GiveUp(t) \/ GiveUpR(t) \/ Runs(t)

Spec == Init /\ [][Next]_vars

(* Threads run on, and leave the lock they have entered.                   *)
Fairness == \A t \in Procs : WF_vars(Runs(t))
FairSpec == Spec /\ Fairness

-----------------------------------------------------------------------------
(* Properties *)

(* A writer is alone: what g_spin_lockw and g_spin_lockr promise between   *)
(* them, though a reader adds itself before it knows that it may enter.    *)
WriterIsAlone ==
  \A t, u \in Procs : pc[t] = "writing" /\ pc[u] \in {"writing", "reading"} => t = u

(* sem and w come back to 0 when nobody is about: g_spin_rw_free asserts   *)
(* it.  Every path through the lock takes off what it has put on.          *)
CountsAdd ==
  /\ readers = Cardinality(At(Counted))
  /\ w = IF prefer_writer THEN Cardinality(At(Waiting)) ELSE 0
(* Taking off what another has put on would leave the types, too. *)
CountsReturn == TypeOK /\ CountsAdd

(* With prefer_writer, writers that spin are not kept out by readers that  *)
(* come and go: one gets in, unless all give up.                           *)
WritersGetIn == At({"spin"}) # {} ~> (At({"writing"}) # {} \/ At({"spin"}) = {})
=============================================================================
