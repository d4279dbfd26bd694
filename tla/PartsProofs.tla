---------------------------- MODULE PartsProofs ----------------------------
(***************************************************************************)
(* The small parts of the library, as the runs of MCParts compose them.    *)
(*                                                                         *)
(* For any finite number of threads, and with or without prefer_writer: a  *)
(* writer of SpinRW is alone, and both counts return to 0.                 *)
(*                                                                         *)
(* WriterIsAlone is not inductive.  A writer's swap finds sem = 0, and why *)
(* this means that nobody is reading is what CountsAdd says: readers       *)
(* are all in the count.  An addition that finds no flag lets a reader in, *)
(* and why no writer is inside then is what Ownership says.                *)
(*                                                                         *)
(* What is popped from the fifo is what was pushed, in that order, and no  *)
(* permit is lost, for any number of threads and places.                   *)
(*                                                                         *)
(* For any number of files, any names and any sizes: the files of a log    *)
(* stay in order, wherever a rotation has been cut off and whatever has    *)
(* been opened, renamed or counted since; and as long as nothing has       *)
(* happened that the files may be miscounted for, only the oldest lines    *)
(* are dropped.                                                            *)
(*                                                                         *)
(* What SlabPoolProofs proves of its pool is carried over to the           *)
(* composition.                                                            *)
(*                                                                         *)
(* For any number of blocks and of magic numbers: no block of FsbPool is   *)
(* handed out twice or lost while one thread allocates and another frees   *)
(* without a lock, and a key finds its block for as long as that is        *)
(* allocated and not again while its magic number tells.                   *)
(*                                                                         *)
(* Both buffers implement ByteTape, for any size of the blocks, any bytes, *)
(* lengths and bounds.  PieceInv and ChainInv are inductive: every         *)
(* position is right, so that a byte of the tape has one place; then each  *)
(* call keeps the bytes of the tape but for those it may change.           *)
(***************************************************************************)
EXTENDS MCParts, Sequences, FiniteSetTheorems, TLAPS

(* The flag is up exactly if a thread has it; only one has, and nobody is  *)
(* reading beside it.                                                      *)
Ownership ==
  /\ flag <=> \E t \in Procs : pc[t] \in HasFlag
  /\ \A t, u \in Procs : pc[t] \in HasFlag /\ pc[u] \in HasFlag => t = u
  /\ flag => \A t \in Procs : pc[t] # "reading"

IInv == TypeOK /\ CountsAdd /\ Ownership

-----------------------------------------------------------------------------
(* Counting the threads in a set of places *)

(* The set of threads at some places is finite.                            *)
LEMMA AtFinite ==
  ASSUME NEW S
  PROVE  IsFiniteSet(At(S)) /\ Cardinality(At(S)) \in Nat
<1>1. At(S) \subseteq Procs  BY DEF At
<1>2. IsFiniteSet(At(S))  BY <1>1, ProcsFinite, FS_Subset
<1> QED  BY <1>2, FS_CardinalityType

(* A thread that goes to one of the places from elsewhere adds one.        *)
LEMMA Joins ==
  ASSUME TypeOK, NEW t \in Procs, NEW from, NEW to, NEW S,
         Go(t, from, to), from \notin S, to \in S
  PROVE  Cardinality(At(S))' = Cardinality(At(S)) + 1
<1>1. At(S)' = At(S) \cup {t} /\ t \notin At(S)  BY DEF At, Go, TypeOK
<1>2. IsFiniteSet(At(S))  BY AtFinite
<1>3. Cardinality(At(S) \cup {t}) = Cardinality(At(S)) + 1  BY <1>1, <1>2, FS_AddElement
<1> QED  BY <1>1, <1>3

(* A thread that goes from one of the places elsewhere takes one off, and  *)
(* there was one.                                                          *)
LEMMA Leaves ==
  ASSUME TypeOK, NEW t \in Procs, NEW from, NEW to, NEW S,
         Go(t, from, to), from \in S, to \notin S
  PROVE  /\ Cardinality(At(S))' = Cardinality(At(S)) - 1
         /\ Cardinality(At(S)) - 1 \in Nat
<1>1. At(S)' = At(S) \ {t} /\ t \in At(S)  BY DEF At, Go, TypeOK
<1>2. IsFiniteSet(At(S))  BY AtFinite
<1>3. Cardinality(At(S) \ {t}) = Cardinality(At(S)) - 1  BY <1>1, <1>2, FS_RemoveElement
<1>4. IsFiniteSet(At(S) \ {t})  BY <1>2, FS_Subset
<1>5. Cardinality(At(S) \ {t}) \in Nat  BY <1>4, FS_CardinalityType
<1> QED  BY <1>1, <1>3, <1>5

(* Any other step leaves the count alone.                                  *)
LEMMA Stays ==
  ASSUME TypeOK, NEW t \in Procs, NEW from, NEW to, NEW S,
         Go(t, from, to), from \in S <=> to \in S
  PROVE  Cardinality(At(S))' = Cardinality(At(S))
<1>1. At(S)' = At(S)  BY DEF At, Go, TypeOK
<1> QED  BY <1>1

(* Nobody is counted if the count is 0.                                    *)
LEMMA NobodyCounted ==
  ASSUME NEW S, Cardinality(At(S)) = 0
  PROVE  \A t \in Procs : pc[t] \notin S
<1>1. At(S) = {}  BY AtFinite, FS_EmptySet
<1> QED  BY <1>1 DEF At

-----------------------------------------------------------------------------
(* The invariant holds at the start.                                       *)
LEMMA InitInv == Init => IInv
<1> SUFFICES ASSUME Init PROVE IInv  OBVIOUS
<1>1. TypeOK  BY DEF Init, TypeOK, Places
<1>2. At(Counted) = {} /\ At(Waiting) = {}  BY DEF Init, At, Counted, Waiting
<1>3. CountsAdd  BY <1>2, FS_EmptySet DEF Init, CountsAdd
<1>4. Ownership  BY DEF Init, Ownership, HasFlag
<1> QED  BY <1>1, <1>3, <1>4 DEF IInv

(* A step between places of no significance, with nothing changed.         *)
LEMMA PlainStep ==
  ASSUME IInv, NEW t \in Procs, NEW from, NEW to \in Places, Go(t, from, to),
         from \notin Counted \cup Waiting \cup HasFlag,
         to \notin Counted \cup Waiting \cup HasFlag,
         UNCHANGED <<flag, readers, w>>
  PROVE  IInv'
<1> USE DEF IInv
<1>1. TypeOK'  BY DEF TypeOK, Go
<1>2. CountsAdd'
  <2>1. Cardinality(At(Counted))' = Cardinality(At(Counted))  BY Stays
  <2>2. Cardinality(At(Waiting))' = Cardinality(At(Waiting))  BY Stays
  <2> QED  BY <2>1, <2>2 DEF CountsAdd
<1>3. Ownership'  BY DEF Ownership, HasFlag, Counted, TypeOK, Go
<1> QED  BY <1>1, <1>2, <1>3

(* A swap that succeeds, out of "first" or "spin".                         *)
LEMMA SwapStep ==
  ASSUME IInv, NEW t \in Procs, Swap(t), UNCHANGED w,
         Go(t, "first", "writing") \/ Go(t, "spin", "got")
  PROVE  IInv'
<1> USE DEF IInv
<1>1. TypeOK'  BY DEF TypeOK, Go, Swap, Places
<1>2. CountsAdd'
  <2>1. Cardinality(At(Counted))' = Cardinality(At(Counted))
    BY Stays DEF Counted
  <2>2. Cardinality(At(Waiting))' = Cardinality(At(Waiting))
    BY Stays DEF Waiting
  <2> QED  BY <2>1, <2>2 DEF CountsAdd, Swap
<1>3. \A u \in Procs : pc[u] \notin Counted /\ pc[u] \notin HasFlag
  <2>1. \A u \in Procs : pc[u] \notin Counted  BY NobodyCounted DEF CountsAdd, Swap
  <2>2. \A u \in Procs : pc[u] \notin HasFlag  BY DEF Ownership, Swap
  <2> QED  BY <2>1, <2>2
<1>4. Ownership'  BY <1>3 DEF Ownership, HasFlag, Counted, TypeOK, Go, Swap
<1> QED  BY <1>1, <1>2, <1>4

(* Counting in: the thread joins those that wait.                          *)
LEMMA CountInStep ==
  ASSUME IInv, NEW t \in Procs, CountIn(t)
  PROVE  IInv'
<1> USE DEF IInv
<1>1. TypeOK'  BY DEF TypeOK, Go, CountIn, Places
<1>2. CountsAdd'
  <2>1. Cardinality(At(Counted))' = Cardinality(At(Counted))
    BY Stays DEF Counted, CountIn
  <2>2. Cardinality(At(Waiting))' = Cardinality(At(Waiting)) + 1
    BY Joins DEF Waiting, CountIn
  <2> QED  BY <2>1, <2>2 DEF CountsAdd, CountIn
<1>3. Ownership'  BY DEF Ownership, HasFlag, TypeOK, Go, CountIn
<1> QED  BY <1>1, <1>2, <1>3

(* Counting out, with the lock or without it.                              *)
LEMMA CountOutStep ==
  ASSUME IInv, NEW t \in Procs, CountOut(t)
  PROVE  IInv'
<1> USE DEF IInv
<1>1. /\ Cardinality(At(Waiting))' = Cardinality(At(Waiting)) - 1
      /\ Cardinality(At(Waiting)) - 1 \in Nat
  BY Leaves DEF Waiting, CountOut
<1>2. Cardinality(At(Counted))' = Cardinality(At(Counted))
  BY Stays DEF Counted, CountOut
<1>3. TypeOK'  BY <1>1 DEF TypeOK, Go, CountOut, Places, CountsAdd
<1>4. CountsAdd'  BY <1>1, <1>2 DEF CountsAdd, CountOut
<1>5. Ownership'  BY DEF Ownership, HasFlag, TypeOK, Go, CountOut
<1> QED  BY <1>3, <1>4, <1>5

(* A writer that gives up takes nothing along.                             *)
LEMMA GiveUpStep ==
  ASSUME IInv, NEW t \in Procs, GiveUp(t)
  PROVE  IInv'
<1> USE DEF IInv
<1>1. TypeOK'  BY DEF TypeOK, Go, GiveUp, Places
<1>2. CountsAdd'
  <2>1. Cardinality(At(Counted))' = Cardinality(At(Counted))
    BY Stays DEF Counted, GiveUp
  <2>2. Cardinality(At(Waiting))' = Cardinality(At(Waiting))
    BY Stays DEF Waiting, GiveUp
  <2> QED  BY <2>1, <2>2 DEF CountsAdd, GiveUp
<1>3. Ownership'  BY DEF Ownership, HasFlag, TypeOK, Go, GiveUp
<1> QED  BY <1>1, <1>2, <1>3

(* A writer leaves: readers that have yet to take themselves off stay in   *)
(* the count.                                                              *)
LEMMA UnlockWStep ==
  ASSUME IInv, NEW t \in Procs, UnlockW(t)
  PROVE  IInv'
<1> USE DEF IInv
<1>1. TypeOK'  BY DEF TypeOK, Go, UnlockW, Places
<1>2. CountsAdd'
  <2>1. Cardinality(At(Counted))' = Cardinality(At(Counted))
    BY Stays DEF Counted, UnlockW
  <2>2. Cardinality(At(Waiting))' = Cardinality(At(Waiting))
    BY Stays DEF Waiting, UnlockW
  <2> QED  BY <2>1, <2>2 DEF CountsAdd, UnlockW
<1>3. Ownership'  BY DEF Ownership, HasFlag, TypeOK, Go, UnlockW
<1> QED  BY <1>1, <1>2, <1>3

(* A reader adds itself, and is inside if no flag was there.               *)
LEMMA AddStep ==
  ASSUME IInv, NEW t \in Procs, Add(t)
  PROVE  IInv'
<1> USE DEF IInv
<1>1. TypeOK'  BY DEF TypeOK, Go, Add, Places
<1>2. CountsAdd'
  <2>1. Cardinality(At(Counted))' = Cardinality(At(Counted)) + 1
    BY Joins DEF Counted, Add
  <2>2. Cardinality(At(Waiting))' = Cardinality(At(Waiting))
    BY Stays DEF Waiting, Add
  <2> QED  BY <2>1, <2>2 DEF CountsAdd, Add
<1>3. Ownership'  BY DEF Ownership, HasFlag, TypeOK, Go, Add
<1> QED  BY <1>1, <1>2, <1>3

(* A reader takes itself off, after it has read or in vain.                *)
LEMMA SubtractStep ==
  ASSUME IInv, NEW t \in Procs, TakeBack(t) \/ UnlockR(t)
  PROVE  IInv'
<1> USE DEF IInv
<1>1. /\ Cardinality(At(Counted))' = Cardinality(At(Counted)) - 1
      /\ Cardinality(At(Counted)) - 1 \in Nat
  BY Leaves DEF Counted, TakeBack, UnlockR
<1>2. Cardinality(At(Waiting))' = Cardinality(At(Waiting))
  BY Stays DEF Waiting, TakeBack, UnlockR
<1>3. TypeOK'  BY <1>1 DEF TypeOK, Go, TakeBack, UnlockR, Places, CountsAdd
<1>4. CountsAdd'  BY <1>1, <1>2 DEF CountsAdd, TakeBack, UnlockR
<1>5. Ownership'  BY DEF Ownership, HasFlag, TypeOK, Go, TakeBack, UnlockR
<1> QED  BY <1>3, <1>4, <1>5

(* Every step preserves the invariant.                                     *)
LEMMA NextInv == IInv /\ [Next]_vars => IInv'
<1> SUFFICES ASSUME IInv, [Next]_vars PROVE IInv'  OBVIOUS
<1>1. CASE UNCHANGED vars
  BY <1>1 DEF vars, IInv, TypeOK, CountsAdd, Ownership, At
<1>2. CASE Next
  <2>1. PICK t \in Procs :
          LockW(t) \/ LockR(t) \/ NoTime(t) \/ GiveUp(t) \/ GiveUpR(t) \/ Runs(t)
    BY <1>2 DEF Next
  <2> USE DEF Places, Counted, Waiting, HasFlag
  <2>2. CASE LockW(t)  BY <2>2, PlainStep DEF LockW
  <2>3. CASE LockR(t)  BY <2>3, PlainStep DEF LockR
  <2>4. CASE NoTime(t)  BY <2>4, PlainStep DEF NoTime
  <2>5. CASE GiveUp(t)  BY <2>5, GiveUpStep
  <2>6. CASE GiveUpR(t)  BY <2>6, PlainStep DEF GiveUpR
  <2>7. CASE FirstTry(t)  BY <2>7, SwapStep, PlainStep DEF FirstTry
  <2>8. CASE CountIn(t)  BY <2>8, CountInStep
  <2>9. CASE Spin(t)  BY <2>9, SwapStep DEF Spin
  <2>10. CASE CountOut(t)  BY <2>10, CountOutStep
  <2>11. CASE UnlockW(t)  BY <2>11, UnlockWStep
  <2>12. CASE TestW(t)  BY <2>12, PlainStep DEF TestW
  <2>13. CASE Test(t)
    <3>1. CASE flag  BY <2>13, <3>1, PlainStep DEF Test
    <3>2. CASE ~flag  BY <2>13, <3>2, PlainStep DEF Test
    <3> QED  BY <3>1, <3>2
  <2>14. CASE Add(t)  BY <2>14, AddStep
  <2>15. CASE TakeBack(t) \/ UnlockR(t)  BY <2>15, SubtractStep
  <2> QED  BY <2>1, <2>2, <2>3, <2>4, <2>5, <2>6, <2>7, <2>8, <2>9, <2>10, <2>11,
             <2>12, <2>13, <2>14, <2>15 DEF Runs
<1> QED  BY <1>1, <1>2 DEF vars

-----------------------------------------------------------------------------
(* The invariant holds throughout.                                         *)
THEOREM Invariant == Spec => []IInv
<1> QED  BY InitInv, NextInv, PTL DEF Spec

(* The places are those of the code and the counts never go below 0.       *)
THEOREM TypeCorrect == Spec => []TypeOK
<1>1. IInv => TypeOK  BY DEF IInv
<1> QED  BY <1>1, Invariant, PTL

(* Nobody is inside beside a writer: g_spin_lockw against g_spin_lockr,    *)
(* g_spin_lockw and their timed variants.                                  *)
THEOREM Exclusion == Spec => []WriterIsAlone
<1>1. IInv => WriterIsAlone  BY DEF IInv, Ownership, WriterIsAlone, HasFlag
<1> QED  BY <1>1, Invariant, PTL

(* What g_spin_rw_free asserts holds whenever no thread is under way.      *)
THEOREM CountsCorrect == Spec => []CountsReturn
<1>1. IInv => CountsReturn  BY DEF IInv, CountsReturn
<1> QED  BY <1>1, Invariant, PTL

-----------------------------------------------------------------------------
(* The pool of blocks.  That every block is in one place is counted: the   *)
(* ring, the blocks that are handed out and the one in the hands of each   *)
(* thread add up.  The steps need to know besides that an id stands in the *)
(* ring once and what is in the ring is nowhere else; the count then says  *)
(* that the freeing thread finds room.  A key that has become stale        *)
(* differs from that of the block in its place because the latter's        *)
(* allocation is younger, and as long as the stale one is younger than all *)
(* magic numbers are many.                                                 *)

LEMMA FsbAssumed == Fsb!FsbAssumption
BY PartsAssumption

(* The instance of FiniteSets counts alike.                                *)
LEMMA FsbCounts == \A S : Fsb!Cardinality(S) = Cardinality(S)
BY DEF Fsb!Cardinality, Cardinality

(* What each of the two threads has in its hands. *)
Mine == IF apc \in {"magic", "id"} THEN {new} ELSE {}
Yours == IF fpc # "idle" THEN {old} ELSE {}

CountInv ==
  Cardinality(Fsb!InRing) + Cardinality(blocks) + Cardinality(Mine) + Cardinality(Yours)
    = block_count

RingInv ==
  /\ apc = "take" => begin # end
  /\ fpc = "publish" => ids[end] = old
  /\ \A x, y \in Fsb!InRing : ids[x] = ids[y] => x = y
  /\ \A x \in Fsb!InRing : ids[x] \notin blocks /\ ids[x] \notin Mine /\ ids[x] \notin Yours
  /\ Mine \cap Yours = {} /\ blocks \cap Mine = {} /\ blocks \cap Yours = {}
  /\ \A b \in Fsb!Blocks : b \in blocks \cup Mine \cup Yours \/ \E x \in Fsb!InRing : ids[x] = b

(* How many allocations ago a magic number was given. *)
Since(m) == IF m <= next_magic THEN next_magic - m ELSE next_magic - m + Magics - 1

KeyInv ==
  /\ \A b \in blocks : header[b].id = b /\ header[b].magic # 0
  /\ \A b \in Fsb!Blocks \ blocks :
       header[b].magic = IF apc = "id" /\ b = new THEN next_magic ELSE 0
  /\ blocks # {} \/ stale # {} \/ Mine # {} => next_magic # 0

StaleInv ==
  \A k \in stale :
    /\ k.key.magic # 0 /\ k.age = Since(k.key.magic)
    /\ k.key.id \in blocks => Since(header[k.key.id].magic) < k.age
    /\ k.key.id \in Mine => k.age > 0

BlocksInv == Fsb!TypeOK /\ CountInv /\ RingInv /\ KeyInv /\ StaleInv

-----------------------------------------------------------------------------
(* The ring *)

(* A place of the ring is one of those from begin on.                      *)
LEMMA RingCount ==
  ASSUME Fsb!FsbAssumption, Fsb!TypeOK
  PROVE  /\ Fsb!InRing \subseteq 0 .. block_count /\ IsFiniteSet(Fsb!InRing)
         /\ Cardinality(Fsb!InRing) = IF begin <= end THEN end - begin
                                  ELSE end - begin + block_count + 1
<1>1. block_count \in Nat /\ begin \in 0 .. block_count /\ end \in 0 .. block_count
  BY DEF Fsb!FsbAssumption, Fsb!TypeOK
<1>2. CASE begin <= end
  <2>1. Fsb!InRing = begin .. end - 1  BY <1>1, <1>2 DEF Fsb!InRing
  <2>2. begin \in Int /\ end - 1 \in Int  BY <1>1
  <2>3. /\ IsFiniteSet(begin .. end - 1)
        /\ Cardinality(begin .. end - 1) = IF begin > end - 1 THEN 0 ELSE end - 1 - begin + 1
    BY <2>2, FS_Interval
  <2> QED  BY <1>1, <1>2, <2>1, <2>3
<1>3. CASE ~(begin <= end)
  <2> DEFINE first == begin .. block_count
             second == 0 .. end - 1
  <2>1. Fsb!InRing = first \cup second  BY <1>1, <1>3 DEF Fsb!InRing
  <2>2. IsFiniteSet(first) /\ Cardinality(first) = block_count - begin + 1
    BY <1>1, FS_Interval
  <2>3. IsFiniteSet(second) /\ Cardinality(second) = end
    BY <1>1, FS_Interval
  <2>4. first \cap second = {}  BY <1>1, <1>3
  <2>5. first \cup second \subseteq 0 .. block_count  BY <1>1
  <2> HIDE DEF first, second
  <2>6. /\ IsFiniteSet(first \cup second)
        /\ Cardinality(first \cup second)
             = Cardinality(first) + Cardinality(second) - Cardinality(first \cap second)
    BY <2>2, <2>3, FS_Union
  <2>7. Cardinality(first \cap second) = 0  BY <2>4, FS_EmptySet
  <2> QED  BY <1>1, <1>3, <2>1, <2>2, <2>3, <2>5, <2>6, <2>7
<1> QED  BY <1>2, <1>3

(* A thread that takes the first id leaves the others.                     *)
LEMMA RingTaken ==
  ASSUME Fsb!FsbAssumption, Fsb!TypeOK, begin # end, begin' = Fsb!After(begin), end' = end
  PROVE  begin' \in 0 .. block_count /\ begin \in Fsb!InRing /\ Fsb!InRing' = Fsb!InRing \ {begin}
<1>1. block_count \in Nat /\ begin \in 0 .. block_count /\ end \in 0 .. block_count
  BY DEF Fsb!FsbAssumption, Fsb!TypeOK
<1>2. begin' = IF begin = block_count THEN 0 ELSE begin + 1  BY <1>1 DEF Fsb!After
<1>3. begin \in Fsb!InRing  BY <1>1 DEF Fsb!InRing
<1>4. Fsb!InRing' = Fsb!InRing \ {begin}  BY <1>1, <1>2 DEF Fsb!InRing
<1> QED  BY <1>1, <1>2, <1>3, <1>4

(* A thread that adds one to a ring that is not full finds a place at the  *)
(* end.                                                                    *)
LEMMA RingPut ==
  ASSUME Fsb!FsbAssumption, Fsb!TypeOK, Cardinality(Fsb!InRing) < block_count,
         end' = Fsb!After(end), begin' = begin
  PROVE  /\ end' \in 0 .. block_count /\ end \notin Fsb!InRing /\ Fsb!InRing' = Fsb!InRing \cup {end}
         /\ end' # begin
<1>1. block_count \in Nat /\ begin \in 0 .. block_count /\ end \in 0 .. block_count
  BY DEF Fsb!FsbAssumption, Fsb!TypeOK
<1>2. end' = IF end = block_count THEN 0 ELSE end + 1  BY <1>1 DEF Fsb!After
<1>3. end' # begin  BY <1>1, <1>2, RingCount
<1>4. end \notin Fsb!InRing  BY <1>1 DEF Fsb!InRing
<1>5. Fsb!InRing' = Fsb!InRing \cup {end}  BY <1>1, <1>2, <1>3 DEF Fsb!InRing
<1> QED  BY <1>1, <1>2, <1>3, <1>4, <1>5

(* What is counted is finite.                                              *)
LEMMA Countable ==
  ASSUME Fsb!FsbAssumption, Fsb!TypeOK
  PROVE  /\ IsFiniteSet(blocks) /\ Cardinality(blocks) \in Nat
         /\ Cardinality(Fsb!InRing) \in Nat
         /\ Cardinality(Mine) = IF apc \in {"magic", "id"} THEN 1 ELSE 0
         /\ Cardinality(Yours) = IF fpc # "idle" THEN 1 ELSE 0
<1>1. IsFiniteSet(Fsb!Blocks)
  BY FS_Interval DEF Fsb!Blocks, Fsb!FsbAssumption
<1>2. IsFiniteSet(blocks)  BY <1>1, FS_Subset DEF Fsb!TypeOK
<1> QED
  BY <1>2, RingCount, FS_CardinalityType, FS_Singleton, FS_EmptySet DEF Mine, Yours

-----------------------------------------------------------------------------
(* Magic numbers *)

(* The number of allocations since that of a magic number.                 *)
LEMMA SinceFacts ==
  ASSUME Fsb!FsbAssumption, next_magic \in 1 .. Magics - 1, NEW m \in 1 .. Magics - 1
  PROVE  /\ Since(m) \in 0 .. Magics - 2
         /\ \A l \in 1 .. Magics - 1 : Since(l) = Since(m) => l = m
         /\ Since(next_magic) = 0
BY DEF Fsb!FsbAssumption, Since

(* An allocation makes all others older by one.                            *)
LEMMA SinceNext ==
  ASSUME Fsb!FsbAssumption, next_magic \in 1 .. Magics - 1, NEW m \in 1 .. Magics - 1,
         next_magic' = (IF next_magic + 1 = Magics THEN 1 ELSE next_magic + 1),
         Since(m) < Magics - 2
  PROVE  Since(m)' = Since(m) + 1
BY DEF Fsb!FsbAssumption, Since

(* A number is made of its quotient and its remainder.                     *)
LEMMA QuotientOfInt ==
  ASSUME NEW x \in Int, NEW b \in Nat \ {0}
  PROVE  x \div b \in Int /\ x % b \in 0 .. b - 1 /\ x = b * (x \div b) + (x % b)
OBVIOUS

(* Age counts them.                                                        *)
LEMMA AgeCounts ==
  ASSUME Fsb!FsbAssumption, next_magic \in 1 .. Magics - 1, NEW b, header[b].magic \in 1 .. Magics - 1
  PROVE  Fsb!Age(b) = Since(header[b].magic)
<1> DEFINE K == Magics - 1
           m == header[b].magic
           d == next_magic - m + Magics - 1
<1>1. K \in Nat \ {0} /\ m \in 1 .. K /\ next_magic \in 1 .. K  BY DEF Fsb!FsbAssumption
<1>2. d = next_magic - m + K /\ d \in Int  BY <1>1 DEF Fsb!FsbAssumption
<1>3. d % K \in 0 .. K - 1 /\ d \div K \in Int /\ d = K * (d \div K) + (d % K)
  <2> HIDE DEF d, K, m
  <2> QED  BY <1>1, <1>2, QuotientOfInt
<1> HIDE DEF d, K, m
<1>4. CASE m <= next_magic
  <2>1. d - K \in 0 .. K - 1  BY <1>1, <1>2, <1>4
  <2>2. K * (d \div K - 1) = (d - K) - (d % K)  BY <1>1, <1>2, <1>3
  <2>3. ~(d \div K - 1 >= 1)  BY <1>1, <1>2, <1>3, <2>1, <2>2
  <2>4. ~(d \div K - 1 <= -1)  BY <1>1, <1>2, <1>3, <2>1, <2>2
  <2>5. d \div K = 1  BY <1>3, <2>3, <2>4
  <2>6. d % K = next_magic - m  BY <1>1, <1>2, <1>3, <2>5
  <2> QED  BY <1>4, <2>6 DEF Fsb!Age, Since, K, m, d
<1>5. CASE ~(m <= next_magic)
  <2>1. d \in 0 .. K - 1  BY <1>1, <1>2, <1>5
  <2>2. ~(d \div K >= 1)  BY <1>1, <1>2, <1>3, <2>1
  <2>3. ~(d \div K <= -1)  BY <1>1, <1>2, <1>3, <2>1
  <2>4. d \div K = 0  BY <1>3, <2>2, <2>3
  <2>5. d % K = d  BY <1>1, <1>2, <1>3, <2>4
  <2> QED  BY <1>5, <2>5 DEF Fsb!Age, Since, K, m, d
<1> QED  BY <1>4, <1>5, <1>1

-----------------------------------------------------------------------------
(* The steps *)

LEMMA BlocksInit == ASSUME Fsb!FsbAssumption PROVE Fsb!Init => BlocksInv
<1> SUFFICES ASSUME Fsb!Init PROVE BlocksInv  OBVIOUS
<1>1. block_count \in Nat \ {0} /\ Magics \in Nat /\ Magics >= 2  BY DEF Fsb!FsbAssumption
<1>2. PICK junk \in Fsb!Blocks :
        ids = [x \in 0 .. block_count |-> IF x \in Fsb!Blocks THEN x ELSE junk]
  BY DEF Fsb!Init
<1>3. 0 \in Fsb!Blocks /\ Fsb!Blocks = 0 .. block_count - 1  BY <1>1 DEF Fsb!Blocks
<1>4. ids \in [0 .. block_count -> Fsb!Blocks]  BY <1>2
<1>5. Fsb!NoKey \in Fsb!Key  BY <1>1, <1>3 DEF Fsb!NoKey, Fsb!Key
<1>6. Fsb!TypeOK  BY <1>1, <1>3, <1>4, <1>5 DEF Fsb!Init, Fsb!TypeOK
<1>7. Fsb!InRing = Fsb!Blocks  BY <1>1, <1>3 DEF Fsb!Init, Fsb!InRing
<1>8. \A x \in Fsb!InRing : ids[x] = x  BY <1>1, <1>2, <1>3, <1>7
<1>9. Mine = {} /\ Yours = {} /\ blocks = {} /\ stale = {}  BY DEF Fsb!Init, Mine, Yours
<1>10. Cardinality(Fsb!InRing) = block_count  BY <1>1, <1>6, RingCount DEF Fsb!Init
<1>11. CountInv  BY <1>1, <1>9, <1>10, FS_EmptySet DEF CountInv
<1>12. RingInv  BY <1>7, <1>8, <1>9 DEF Fsb!Init, RingInv
<1>13. KeyInv  BY <1>9 DEF Fsb!Init, KeyInv, Fsb!NoKey
<1>14. StaleInv  BY <1>9 DEF StaleInv
<1> QED  BY <1>6, <1>11, <1>12, <1>13, <1>14 DEF BlocksInv

(* A pool that is seen not to be empty does not get empty: only the thread *)
(* that looked takes from it.                                              *)
LEMMA StepAllocLook == ASSUME Fsb!FsbAssumption, BlocksInv, Fsb!AllocLook PROVE BlocksInv'
<1> USE DEF Fsb!AllocLook, BlocksInv
<1>1. Mine' = Mine /\ Yours' = Yours /\ Fsb!InRing' = Fsb!InRing  BY DEF Mine, Yours, Fsb!InRing
<1>2. Fsb!TypeOK'  BY DEF Fsb!TypeOK
<1>3. CountInv'  BY <1>1 DEF CountInv
<1>4. RingInv'  BY <1>1 DEF RingInv
<1>5. KeyInv'  BY <1>1 DEF KeyInv
<1>6. StaleInv'  BY <1>1 DEF StaleInv, Since
<1> QED  BY <1>2, <1>3, <1>4, <1>5, <1>6

(* The first id goes from the ring into the hands of the thread, and all   *)
(* keys get older by an allocation.                                        *)
LEMMA StepAllocTake == ASSUME Fsb!FsbAssumption, BlocksInv, Fsb!AllocTake PROVE BlocksInv'
<1> USE DEF BlocksInv
<1>1. /\ apc = "take" /\ apc' = "magic" /\ begin # end /\ begin' = Fsb!After(begin)
      /\ new' = ids[begin]
      /\ next_magic' = IF next_magic + 1 = Magics THEN 1 ELSE next_magic + 1
      /\ stale' = {[k EXCEPT !.age = @ + 1] : k \in {l \in stale : l.age < Magics - 2}}
      /\ end' = end /\ ids' = ids /\ header' = header /\ fpc' = fpc /\ old' = old /\ blocks' = blocks
  BY DEF Fsb!AllocTake, RingInv
<1>2. begin' \in 0 .. block_count /\ begin \in Fsb!InRing /\ Fsb!InRing' = Fsb!InRing \ {begin}
  BY <1>1, RingTaken
<1>3. Mine = {} /\ Mine' = {ids[begin]} /\ Yours' = Yours  BY <1>1 DEF Mine, Yours
<1>4. Fsb!InRing \subseteq 0 .. block_count /\ IsFiniteSet(Fsb!InRing)  BY RingCount
<1>5. ids[begin] \in Fsb!Blocks  BY <1>2, <1>4 DEF Fsb!TypeOK
<1>6. Magics \in Nat /\ Magics >= 2 /\ next_magic \in 0 .. Magics - 1
  BY DEF Fsb!FsbAssumption, Fsb!TypeOK
<1>7. next_magic' \in 1 .. Magics - 1  BY <1>1, <1>6
<1>8. \A k \in stale : k \in [key : Fsb!Key, age : 0 .. Magics - 2]  BY DEF Fsb!TypeOK
<1>9. ASSUME NEW k \in stale'
      PROVE  \E l \in stale : /\ l.age < Magics - 2
                              /\ k.key = l.key /\ k.age = l.age + 1
                              /\ k \in [key : Fsb!Key, age : 0 .. Magics - 2]
  <2>1. PICK l \in stale : l.age < Magics - 2 /\ k = [l EXCEPT !.age = @ + 1]  BY <1>1
  <2>2. l \in [key : Fsb!Key, age : 0 .. Magics - 2]  BY <1>8
  <2>3. k = [key |-> l.key, age |-> l.age + 1]  BY <2>1, <2>2
  <2> QED  BY <1>6, <2>1, <2>2, <2>3
<1>10. Fsb!TypeOK'
  <2>1. stale' \subseteq [key : Fsb!Key, age : 0 .. Magics - 2]  BY <1>9
  <2> QED  BY <1>1, <1>2, <1>5, <1>7, <2>1 DEF Fsb!TypeOK
<1>11. CountInv'
  <2>1. Cardinality(Fsb!InRing') = Cardinality(Fsb!InRing) - 1  BY <1>2, <1>4, FS_RemoveElement
  <2>2. Cardinality(Mine) = 0 /\ Cardinality(Mine') = 1  BY <1>3, FS_EmptySet, FS_Singleton
  <2> QED  BY <1>1, <1>3, <2>1, <2>2, Countable DEF CountInv
<1>12. RingInv'
  <2>1. \A x \in Fsb!InRing' : ids[x] # ids[begin]  BY <1>2 DEF RingInv
  <2>2. ids[begin] \notin blocks /\ ids[begin] \notin Yours  BY <1>2 DEF RingInv
  <2>3. \A b \in Fsb!Blocks : b \in blocks \cup Mine' \cup Yours \/ \E x \in Fsb!InRing' : ids[x] = b
    BY <1>2, <1>3 DEF RingInv
  <2> QED  BY <1>1, <1>2, <1>3, <2>1, <2>2, <2>3 DEF RingInv
<1>13. KeyInv'
  BY <1>1, <1>7 DEF KeyInv
<1>14. StaleInv'
  <2> SUFFICES ASSUME NEW k \in stale'
               PROVE  /\ k.key.magic # 0 /\ k.age = Since(k.key.magic)'
                      /\ k.key.id \in blocks => Since(header[k.key.id].magic)' < k.age
                      /\ k.key.id \in Mine' => k.age > 0
    BY <1>1 DEF StaleInv
  <2>1. PICK l \in stale : /\ l.age < Magics - 2
                           /\ k.key = l.key /\ k.age = l.age + 1
                           /\ l \in [key : Fsb!Key, age : 0 .. Magics - 2]
    BY <1>8, <1>9
  <2>2. next_magic \in 1 .. Magics - 1  BY <1>6 DEF KeyInv
  <2>3. k.key.magic \in 1 .. Magics - 1
    BY <1>6, <2>1 DEF StaleInv, Fsb!Key
  <2>4. Since(k.key.magic) = l.age  BY <2>1 DEF StaleInv
  <2>5. Since(k.key.magic)' = k.age  BY <1>1, <2>1, <2>2, <2>3, <2>4, SinceNext
  <2>6. ASSUME k.key.id \in blocks PROVE Since(header[k.key.id].magic)' < k.age
    <3> DEFINE m == header[k.key.id].magic
    <3>1. k.key.id \in Fsb!Blocks  BY <2>6 DEF Fsb!TypeOK
    <3>2. m \in 1 .. Magics - 1  BY <1>6, <2>6, <3>1 DEF KeyInv, Fsb!TypeOK, Fsb!Key
    <3>3. Since(m) < l.age /\ l.age \in 0 .. Magics - 2  BY <2>1, <2>6 DEF StaleInv
    <3>4. Since(m) \in Int /\ m' = m  BY <1>1, <2>2, <3>2, SinceFacts
    <3>5. Since(m) < Magics - 2  BY <1>6, <2>1, <3>3, <3>4
    <3> HIDE DEF m
    <3>6. Since(m)' = Since(m) + 1
      <4>1. (IF m <= next_magic' THEN next_magic' - m ELSE next_magic' - m + Magics - 1)
              = (IF m <= next_magic THEN next_magic - m ELSE next_magic - m + Magics - 1) + 1
        BY <1>1, <1>6, <2>2, <3>2, <3>5 DEF Since
      <4> QED  BY <3>4, <4>1 DEF Since
    <3> QED  BY <2>1, <3>3, <3>4, <3>6 DEF m
  <2>7. k.age > 0  BY <2>1
  <2> QED  BY <2>3, <2>5, <2>6, <2>7
<1> QED  BY <1>10, <1>11, <1>12, <1>13, <1>14

LEMMA StepAllocMagic == ASSUME Fsb!FsbAssumption, BlocksInv, Fsb!AllocMagic PROVE BlocksInv'
<1> USE DEF BlocksInv
<1>1. /\ apc = "magic" /\ apc' = "id" /\ header' = [header EXCEPT ![new].magic = next_magic]
      /\ begin' = begin /\ end' = end /\ ids' = ids /\ next_magic' = next_magic
      /\ new' = new /\ fpc' = fpc /\ old' = old /\ blocks' = blocks /\ stale' = stale
  BY DEF Fsb!AllocMagic
<1>2. Mine' = Mine /\ Mine = {new} /\ Yours' = Yours /\ Fsb!InRing' = Fsb!InRing
  BY <1>1 DEF Mine, Yours, Fsb!InRing
<1>3. new \in Fsb!Blocks /\ new \notin blocks  BY <1>2 DEF Fsb!TypeOK, RingInv
<1>4. header' \in [Fsb!Blocks -> Fsb!Key]
      /\ \A b \in Fsb!Blocks : header'[b] = IF b = new THEN [header[new] EXCEPT !.magic = next_magic]
                                        ELSE header[b]
  BY <1>1, <1>3 DEF Fsb!TypeOK, Fsb!Key
<1>5. header'[new].magic = next_magic  BY <1>3, <1>4 DEF Fsb!TypeOK, Fsb!Key
<1>6. Fsb!TypeOK'  BY <1>1, <1>4 DEF Fsb!TypeOK
<1>7. CountInv'  BY <1>1, <1>2 DEF CountInv
<1>8. RingInv'  BY <1>1, <1>2 DEF RingInv
<1>9. \A b \in blocks : header'[b] = header[b]  BY <1>3, <1>4 DEF Fsb!TypeOK
<1>10. KeyInv'  BY <1>1, <1>2, <1>4, <1>5, <1>9 DEF KeyInv
<1>11. StaleInv'  BY <1>1, <1>2, <1>9 DEF StaleInv, Since
<1> QED  BY <1>6, <1>7, <1>8, <1>10, <1>11

(* The block is handed out, with the youngest of all keys.                 *)
LEMMA StepAllocId == ASSUME Fsb!FsbAssumption, BlocksInv, Fsb!AllocId PROVE BlocksInv'
<1> USE DEF BlocksInv
<1>1. /\ apc = "id" /\ apc' = "idle" /\ header' = [header EXCEPT ![new].id = new]
      /\ blocks' = blocks \cup {new}
      /\ begin' = begin /\ end' = end /\ ids' = ids /\ next_magic' = next_magic
      /\ new' = new /\ fpc' = fpc /\ old' = old /\ stale' = stale
  BY DEF Fsb!AllocId
<1>2. Mine' = {} /\ Mine = {new} /\ Yours' = Yours /\ Fsb!InRing' = Fsb!InRing
  BY <1>1 DEF Mine, Yours, Fsb!InRing
<1>3. new \in Fsb!Blocks /\ new \notin blocks  BY <1>2 DEF Fsb!TypeOK, RingInv
<1>4. header' \in [Fsb!Blocks -> Fsb!Key]
      /\ \A b \in Fsb!Blocks : header'[b] = IF b = new THEN [header[new] EXCEPT !.id = new]
                                        ELSE header[b]
  BY <1>1, <1>3 DEF Fsb!TypeOK, Fsb!Key
<1>5. header'[new].id = new /\ header'[new].magic = next_magic
  BY <1>1, <1>3, <1>4 DEF Fsb!TypeOK, Fsb!Key, KeyInv
<1>6. next_magic # 0 /\ next_magic \in 1 .. Magics - 1
  BY <1>2 DEF KeyInv, Fsb!TypeOK, Fsb!FsbAssumption
<1>7. \A b \in blocks : header'[b] = header[b]  BY <1>3, <1>4 DEF Fsb!TypeOK
<1>8. Fsb!TypeOK'  BY <1>1, <1>3, <1>4 DEF Fsb!TypeOK
<1>9. CountInv'
  <2>1. Cardinality(blocks \cup {new}) = Cardinality(blocks) + 1
    BY <1>3, Countable, FS_AddElement
  <2>2. Cardinality(Mine) = 1 /\ Cardinality(Mine') = 0
    BY <1>2, FS_EmptySet, FS_Singleton
  <2> QED  BY <1>1, <1>2, <2>1, <2>2, Countable DEF CountInv
<1>10. RingInv'
  BY <1>1, <1>2 DEF RingInv
<1>11. KeyInv'
  <2>1. \A b \in blocks' : header'[b].id = b /\ header'[b].magic # 0
    BY <1>1, <1>5, <1>6, <1>7 DEF KeyInv
  <2>2. \A b \in Fsb!Blocks \ blocks' : header'[b].magic = 0
    BY <1>1, <1>4 DEF KeyInv
  <2> QED  BY <1>1, <1>6, <2>1, <2>2 DEF KeyInv
<1>12. StaleInv'
  <2>1. Since(next_magic) = 0  BY <1>6, SinceFacts
  <2>2. \A m : Since(m)' = Since(m)  BY <1>1 DEF Since
  <2>3. ASSUME NEW k \in stale, k.key.id \in blocks'
        PROVE  Since(header'[k.key.id].magic) < k.age
    <3>1. CASE k.key.id = new
      <4>1. k.age > 0  BY <1>2, <3>1 DEF StaleInv
      <4> QED  BY <1>5, <2>1, <3>1, <4>1
    <3>2. CASE k.key.id \in blocks  BY <1>7, <3>2 DEF StaleInv
    <3> QED  BY <1>1, <2>3, <3>1, <3>2
  <2> QED  BY <1>1, <1>2, <2>2, <2>3 DEF StaleInv
<1> QED  BY <1>8, <1>9, <1>10, <1>11, <1>12

(* The block comes into the hands of the other thread; its key is stale    *)
(* from now on.                                                            *)
LEMMA StepFree ==
  ASSUME Fsb!FsbAssumption, BlocksInv, NEW b \in Fsb!Blocks, Fsb!Free(b)
  PROVE  BlocksInv'
<1> USE DEF BlocksInv
<1>1. /\ fpc = "idle" /\ b \in blocks /\ fpc' = "put" /\ old' = b /\ blocks' = blocks \ {b}
      /\ stale' = stale \cup {[key |-> header[b], age |-> Fsb!Age(b)]}
      /\ header' = [header EXCEPT ![b] = Fsb!NoKey]
      /\ begin' = begin /\ end' = end /\ ids' = ids /\ next_magic' = next_magic
      /\ apc' = apc /\ new' = new
  BY DEF Fsb!Free
<1>2. Mine' = Mine /\ Yours = {} /\ Yours' = {b} /\ Fsb!InRing' = Fsb!InRing
  BY <1>1 DEF Mine, Yours, Fsb!InRing
<1>3. b \notin Mine  BY <1>1 DEF RingInv
<1>4. Fsb!NoKey \in Fsb!Key /\ Fsb!NoKey.magic = 0
  BY DEF Fsb!NoKey, Fsb!Key, Fsb!Blocks, Fsb!FsbAssumption
<1>5. header' \in [Fsb!Blocks -> Fsb!Key]
      /\ \A c \in Fsb!Blocks : header'[c] = IF c = b THEN Fsb!NoKey ELSE header[c]
  BY <1>1, <1>4 DEF Fsb!TypeOK
<1>6. next_magic \in 1 .. Magics - 1
  BY <1>1 DEF KeyInv, Fsb!TypeOK, Fsb!FsbAssumption
<1>7. header[b] \in Fsb!Key /\ header[b].id = b /\ header[b].magic \in 1 .. Magics - 1
  BY <1>1 DEF KeyInv, Fsb!TypeOK, Fsb!Key, Fsb!FsbAssumption
<1>8. Fsb!Age(b) = Since(header[b].magic) /\ Fsb!Age(b) \in 0 .. Magics - 2
  BY <1>6, <1>7, AgeCounts, SinceFacts
<1>9. \A c \in blocks' : c # b /\ c \in blocks /\ header'[c] = header[c]
  BY <1>1, <1>5 DEF Fsb!TypeOK
<1>10. Fsb!TypeOK'
  <2>1. [key |-> header[b], age |-> Fsb!Age(b)] \in [key : Fsb!Key, age : 0 .. Magics - 2]
    BY <1>7, <1>8
  <2>2. stale' \subseteq [key : Fsb!Key, age : 0 .. Magics - 2]  BY <1>1, <2>1 DEF Fsb!TypeOK
  <2> QED  BY <1>1, <1>5, <2>2 DEF Fsb!TypeOK
<1>11. CountInv'
  <2>1. Cardinality(blocks \ {b}) = Cardinality(blocks) - 1
    BY <1>1, Countable, FS_RemoveElement
  <2>2. Cardinality(Yours) = 0 /\ Cardinality(Yours') = 1
    BY <1>2, FS_EmptySet, FS_Singleton
  <2> QED  BY <1>1, <1>2, <2>1, <2>2, Countable DEF CountInv
<1>12. RingInv'
  BY <1>1, <1>2, <1>3 DEF RingInv
<1>13. KeyInv'
  <2>1. \A c \in blocks' : header'[c].id = c /\ header'[c].magic # 0  BY <1>9 DEF KeyInv
  <2>2. ASSUME NEW c \in Fsb!Blocks \ blocks'
        PROVE  header'[c].magic = IF apc' = "id" /\ c = new' THEN next_magic' ELSE 0
    <3>1. CASE c = b
      <4>1. ~(apc = "id" /\ c = new)  BY <1>3, <3>1 DEF Mine
      <4> QED  BY <1>1, <1>4, <1>5, <3>1, <4>1
    <3>2. CASE c # b
      <4>1. c \in Fsb!Blocks \ blocks /\ header'[c] = header[c]  BY <1>1, <1>5, <3>2
      <4> QED  BY <1>1, <4>1 DEF KeyInv
    <3> QED  BY <3>1, <3>2
  <2> QED  BY <1>1, <1>6, <2>1, <2>2 DEF KeyInv
<1>14. StaleInv'
  <2>1. \A m : Since(m)' = Since(m)  BY <1>1 DEF Since
  <2>2. ASSUME NEW k \in stale
        PROVE  /\ k.key.magic # 0 /\ k.age = Since(k.key.magic)'
               /\ k.key.id \in blocks' => Since(header'[k.key.id].magic) < k.age
               /\ k.key.id \in Mine' => k.age > 0
    BY <1>2, <1>9, <2>1 DEF StaleInv
  <2>3. ASSUME NEW k, k = [key |-> header[b], age |-> Fsb!Age(b)]
        PROVE  /\ k.key.magic # 0 /\ k.age = Since(k.key.magic)'
               /\ k.key.id \notin blocks' /\ k.key.id \notin Mine'
    BY <1>1, <1>2, <1>3, <1>7, <1>8, <2>1, <2>3
  <2>4. \A m : (IF m <= next_magic' THEN next_magic' - m ELSE next_magic' - m + Magics - 1)
                  = Since(m)
    BY <1>1 DEF Since
  <2> QED  BY <1>1, <2>1, <2>2, <2>3, <2>4 DEF StaleInv, Since
<1> QED  BY <1>10, <1>11, <1>12, <1>13, <1>14

(* The id is put behind the end, where there is none of the ring.          *)
LEMMA StepFreePut == ASSUME Fsb!FsbAssumption, BlocksInv, Fsb!FreePut PROVE BlocksInv'
<1> USE DEF BlocksInv
<1>1. /\ fpc = "put" /\ fpc' = "publish" /\ ids' = [ids EXCEPT ![end] = old]
      /\ begin' = begin /\ end' = end /\ next_magic' = next_magic /\ header' = header
      /\ apc' = apc /\ new' = new /\ old' = old /\ blocks' = blocks /\ stale' = stale
  BY DEF Fsb!FreePut
<1>2. Mine' = Mine /\ Yours' = Yours /\ Fsb!InRing' = Fsb!InRing
  BY <1>1 DEF Mine, Yours, Fsb!InRing
<1>3. end \in 0 .. block_count /\ old \in Fsb!Blocks  BY DEF Fsb!TypeOK
<1>4. Fsb!InRing \subseteq 0 .. block_count /\ end \notin Fsb!InRing
  BY RingCount, <1>3 DEF Fsb!InRing, Fsb!TypeOK
<1>5. ids' \in [0 .. block_count -> Fsb!Blocks] /\ ids'[end] = old
  BY <1>1, <1>3 DEF Fsb!TypeOK
<1>6. \A x \in Fsb!InRing : ids'[x] = ids[x]  BY <1>1, <1>4 DEF Fsb!TypeOK
<1>7. Fsb!TypeOK'  BY <1>1, <1>5 DEF Fsb!TypeOK
<1>8. CountInv'  BY <1>1, <1>2 DEF CountInv
<1>9. RingInv'
  <2>1. \A b \in Fsb!Blocks : b \in blocks \cup Mine \cup Yours \/ \E x \in Fsb!InRing : ids'[x] = b
    BY <1>6 DEF RingInv
  <2>2. \A x, y \in Fsb!InRing : ids'[x] = ids'[y] => x = y  BY <1>6 DEF RingInv
  <2>3. \A x \in Fsb!InRing : ids'[x] \notin blocks /\ ids'[x] \notin Mine /\ ids'[x] \notin Yours
    BY <1>6 DEF RingInv
  <2> QED  BY <1>1, <1>2, <1>5, <2>1, <2>2, <2>3 DEF RingInv
<1>10. KeyInv'  BY <1>1, <1>2 DEF KeyInv
<1>11. StaleInv'  BY <1>1, <1>2 DEF StaleInv, Since
<1> QED  BY <1>7, <1>8, <1>9, <1>10, <1>11

(* There is room for it, because this thread has a block that the ring has *)
(* not.                                                                    *)
LEMMA StepFreePublish == ASSUME Fsb!FsbAssumption, BlocksInv, Fsb!FreePublish PROVE BlocksInv'
<1> USE DEF BlocksInv
<1>1. /\ fpc = "publish" /\ fpc' = "idle" /\ end' = Fsb!After(end)
      /\ begin' = begin /\ ids' = ids /\ next_magic' = next_magic /\ header' = header
      /\ apc' = apc /\ new' = new /\ old' = old /\ blocks' = blocks /\ stale' = stale
  BY DEF Fsb!FreePublish
<1>2. Mine' = Mine /\ Yours = {old} /\ Yours' = {}
  BY <1>1 DEF Mine, Yours
<1>3. Cardinality(Yours) = 1 /\ Cardinality(Yours') = 0
  BY <1>2, FS_EmptySet, FS_Singleton
<1>4. Cardinality(Fsb!InRing) < block_count
  BY <1>3, Countable DEF CountInv, Fsb!FsbAssumption
<1>5. end' \in 0 .. block_count /\ end \notin Fsb!InRing /\ Fsb!InRing' = Fsb!InRing \cup {end}
      /\ end' # begin
  BY <1>1, <1>4, RingPut
<1>6. ids[end] = old /\ old \in Fsb!Blocks  BY <1>1 DEF RingInv, Fsb!TypeOK
<1>7. old \notin blocks /\ old \notin Mine /\ \A x \in Fsb!InRing : ids[x] # old
  BY <1>2 DEF RingInv
<1>8. Fsb!TypeOK'  BY <1>1, <1>5 DEF Fsb!TypeOK
<1>9. CountInv'
  <2>1. Cardinality(Fsb!InRing') = Cardinality(Fsb!InRing) + 1
    BY <1>5, RingCount, FS_AddElement
  <2> QED  BY <1>1, <1>2, <1>3, <2>1, Countable DEF CountInv
<1>10. RingInv'
  <2>1. \A x, y \in Fsb!InRing' : ids[x] = ids[y] => x = y
    BY <1>5, <1>6, <1>7 DEF RingInv
  <2>2. \A x \in Fsb!InRing' : ids[x] \notin blocks /\ ids[x] \notin Mine
    BY <1>5, <1>6, <1>7 DEF RingInv
  <2>3. \A b \in Fsb!Blocks : b \in blocks \cup Mine \/ \E x \in Fsb!InRing' : ids[x] = b
    BY <1>2, <1>5, <1>6 DEF RingInv
  <2>4. apc = "take" => begin # end'  BY <1>5
  <2> QED  BY <1>1, <1>2, <2>1, <2>2, <2>3, <2>4 DEF RingInv
<1>11. KeyInv'  BY <1>1, <1>2 DEF KeyInv
<1>12. StaleInv'  BY <1>1, <1>2 DEF StaleInv, Since
<1> QED  BY <1>8, <1>9, <1>10, <1>11, <1>12

LEMMA BlocksNext == ASSUME Fsb!FsbAssumption, BlocksInv, [Fsb!Next]_(Fsb!vars) PROVE BlocksInv'
<1>1. CASE UNCHANGED Fsb!vars
  <2>1. Mine' = Mine /\ Yours' = Yours /\ Fsb!InRing' = Fsb!InRing
    BY <1>1 DEF Fsb!vars, Mine, Yours, Fsb!InRing
  <2>2. Fsb!TypeOK'  BY <1>1 DEF Fsb!vars, BlocksInv, Fsb!TypeOK
  <2>3. CountInv'  BY <1>1, <2>1 DEF Fsb!vars, BlocksInv, CountInv
  <2>4. RingInv'  BY <1>1, <2>1 DEF Fsb!vars, BlocksInv, RingInv
  <2>5. KeyInv'  BY <1>1, <2>1 DEF Fsb!vars, BlocksInv, KeyInv
  <2>6. StaleInv'  BY <1>1, <2>1 DEF Fsb!vars, BlocksInv, StaleInv, Since
  <2> QED  BY <2>2, <2>3, <2>4, <2>5, <2>6 DEF BlocksInv
<1> QED
  BY <1>1, StepAllocLook, StepAllocTake, StepAllocMagic, StepAllocId,
     StepFree, StepFreePut, StepFreePublish DEF Fsb!Next

-----------------------------------------------------------------------------
(* The invariant holds of every behaviour.                                 *)
THEOREM BlocksInvariant == Fsb!Spec => []BlocksInv
<1> USE FsbAssumed
<1>1. Fsb!Init => BlocksInv  BY BlocksInit
<1>2. BlocksInv /\ [Fsb!Next]_(Fsb!vars) => BlocksInv'  BY BlocksNext
<1> QED  BY <1>1, <1>2, PTL DEF Fsb!Spec

(* No access leaves the ring, the blocks or the magic numbers.             *)
THEOREM BlocksTyped == Fsb!Spec => []Fsb!TypeOK
<1> USE FsbAssumed
<1>1. BlocksInv => Fsb!TypeOK  BY DEF BlocksInv
<1> QED  BY <1>1, BlocksInvariant, PTL

(* No block is handed out twice or lost, whatever the threads of           *)
(* g_fsb_alloc and g_fsb_free do between each other's accesses.            *)
THEOREM BlocksInOnePlace == Fsb!Spec => []Fsb!EveryBlockInOnePlace
<1> USE FsbAssumed
<1>1. BlocksInv => Fsb!EveryBlockInOnePlace
  <2> SUFFICES ASSUME BlocksInv PROVE Fsb!EveryBlockInOnePlace  OBVIOUS
  <2>1. Fsb!FreeBlocks \cup blocks \cup Mine \cup Yours = Fsb!Blocks
    <3>1. \A x \in Fsb!InRing : ids[x] \in Fsb!Blocks  BY RingCount DEF BlocksInv, Fsb!TypeOK
    <3>2. blocks \subseteq Fsb!Blocks /\ Mine \subseteq Fsb!Blocks /\ Yours \subseteq Fsb!Blocks
      BY DEF BlocksInv, Fsb!TypeOK, Mine, Yours
    <3>3. \A b \in Fsb!Blocks : b \in blocks \cup Mine \cup Yours \/ \E x \in Fsb!InRing : ids[x] = b
      BY DEF BlocksInv, RingInv
    <3> QED  BY <3>1, <3>2, <3>3 DEF Fsb!FreeBlocks
  <2> QED  BY <2>1, FsbCounts DEF BlocksInv, CountInv, Fsb!EveryBlockInOnePlace, Mine, Yours
<1> QED  BY <1>1, BlocksInvariant, PTL

(* The key of a freed block does not find it, nor the block that is        *)
(* allocated in its place, as long as fewer allocations have been made     *)
(* than there are magic numbers (g_fsb_getblock).                          *)
THEOREM NoStaleKeyFinds == Fsb!Spec => []Fsb!StaleKeysFindNothing
<1> USE FsbAssumed
<1>1. BlocksInv => Fsb!StaleKeysFindNothing
  <2> SUFFICES ASSUME BlocksInv, NEW k \in stale, Fsb!Finds(k.key) PROVE FALSE
    BY DEF Fsb!StaleKeysFindNothing
  <2> USE DEF BlocksInv
  <2> DEFINE b == k.key.id
  <2>1. k.key \in Fsb!Key /\ b \in Fsb!Blocks /\ header[b] = k.key /\ k.key.magic # 0
        /\ k.age = Since(k.key.magic)
    BY DEF Fsb!TypeOK, Fsb!Key, Fsb!Finds, StaleInv
  <2>2. next_magic \in 1 .. Magics - 1 /\ k.key.magic \in 1 .. Magics - 1
    BY <2>1 DEF KeyInv, Fsb!TypeOK, Fsb!Key, Fsb!FsbAssumption
  <2>3. CASE b \in blocks
    <3>1. Since(header[b].magic) < k.age  BY <2>3 DEF StaleInv
    <3> QED  BY <2>1, <2>2, <3>1, SinceFacts
  <2>4. CASE b \notin blocks
    <3>1. apc = "id" /\ b = new /\ header[b].magic = next_magic
      BY <2>1, <2>4 DEF KeyInv
    <3>2. k.age > 0  BY <3>1 DEF StaleInv, Mine
    <3> QED  BY <2>1, <2>2, <3>1, <3>2, SinceFacts
  <2> QED  BY <2>3, <2>4
<1> QED  BY <1>1, BlocksInvariant, PTL

(* A block that is allocated is found by its key, and g_fsb_used is right  *)
(* while nothing is under way.                                             *)
THEOREM LiveKeysFind == Fsb!Spec => []Fsb!LiveBlocksAreFound
<1> USE FsbAssumed
<1>1. BlocksInv => Fsb!LiveBlocksAreFound
  <2> SUFFICES ASSUME BlocksInv PROVE Fsb!LiveBlocksAreFound  OBVIOUS
  <2> USE DEF BlocksInv
  <2>1. \A b \in blocks : header[b].id = b /\ Fsb!Finds(header[b])  BY DEF KeyInv, Fsb!Finds
  <2>2. ASSUME apc = "idle", fpc = "idle" PROVE Fsb!Used = Cardinality(blocks)
    <3>1. Mine = {} /\ Yours = {}  BY <2>2 DEF Mine, Yours
    <3>2. Cardinality(Fsb!InRing) + Cardinality(blocks) = block_count
      BY <3>1, Countable, FS_EmptySet DEF CountInv
    <3>3. begin \in Int /\ end \in Int /\ block_count \in Nat  BY DEF Fsb!TypeOK, Fsb!FsbAssumption
    <3> QED  BY <3>2, <3>3, RingCount, Countable DEF Fsb!Used
  <2> QED  BY <2>1, <2>2, FsbCounts DEF Fsb!LiveBlocksAreFound
<1> QED  BY <1>1, BlocksInvariant, PTL

-----------------------------------------------------------------------------
(* The fifo: what is popped are the items in the order of their being      *)
(* stored, and no permit is lost.                                          *)
(*                                                                         *)
(* Neither says where the items are.  Stored and not taken are, for every  *)
(* permit of _hsem and every thread between a permit of one semaphore and  *)
(* its post to the other, one item each; they lie from _head on, and       *)
(* _tail is behind the last (FifoOrderInv).  That one thread at a time is  *)
(* between moving its end and noting it is due to the locks (FifoLockInv), *)
(* and that a pusher has a place which holds nothing, to the permits.      *)
FifoIn(T, S) == {t \in T : at[t] \in S}
FifoCount(T, S) == Cardinality(FifoIn(T, S))

(* The items stored and not taken; the places that hold none. *)
FifoItems == _hsem + FifoCount(Pushers, {"moving", "post"}) + FifoCount(Poppers, {"enter", "inside"})
FifoFree == _tsem + FifoCount(Pushers, {"enter", "inside"}) + FifoCount(Poppers, {"moving", "post"})

(* The k-th place and number from a given one on. *)
FifoPlace(h, k) == IF h + k >= _cap THEN h + k - _cap ELSE h + k
FifoNumber(n, k) == IF n + k >= ItemNumbers THEN n + k - ItemNumbers ELSE n + k

(* The two ends, as they will be when the thread that moves one is done. *)
FifoMoving(T) == \E t \in T : at[t] = "moving"
FifoHead == IF FifoMoving(Poppers) THEN Fifo!Wrapped(_head + 1) ELSE _head
FifoTail == IF FifoMoving(Pushers) THEN Fifo!Wrapped(_tail + 1) ELSE _tail

FifoLockInv ==
  /\ \A p \in Pushers : _tlock = p <=> at[p] \in {"inside", "moving"}
  /\ \A c \in Poppers : _hlock = c <=> at[c] \in {"inside", "moving"}

FifoPermitInv == FifoItems + FifoFree = _cap

FifoRow(q, h, t, n, oldest, newest) ==  \* n items in q from h to t, with the numbers from old to new
  /\ t = FifoPlace(h, n)
  /\ newest = FifoNumber(oldest, n)
  /\ \A k \in 0 .. n - 1 : q[FifoPlace(h, k)] = FifoNumber(oldest, k + 1)
FifoOrderInv == FifoRow(_queue, FifoHead, FifoTail, FifoItems, popped, pushed) /\ Fifo!TakesInOrder

FifoIInv == Fifo!TypeOK /\ FifoLockInv /\ FifoPermitInv /\ FifoOrderInv

-----------------------------------------------------------------------------
(* Counting threads *)

(* The instance of FiniteSets in Fifo counts as the one here does.          *)
LEMMA FifoFiniteSets ==
  \A S : Fifo!IsFiniteSet(S) = IsFiniteSet(S) /\ Fifo!Cardinality(S) = Cardinality(S)
BY DEF Fifo!IsFiniteSet, IsFiniteSet, Fifo!Cardinality, Cardinality

(* The threads of one end, or of both, at some places are finitely many.   *)
LEMMA FifoInFinite ==
  ASSUME Fifo!FifoAssumption, NEW T \in SUBSET Fifo!Threads, NEW S
  PROVE  IsFiniteSet(FifoIn(T, S)) /\ FifoCount(T, S) \in Nat
<1>1. FifoIn(T, S) \subseteq Pushers \cup Poppers  BY DEF FifoIn, Fifo!Threads
<1>2. IsFiniteSet(Pushers \cup Poppers)  BY FS_Union, FifoFiniteSets DEF Fifo!FifoAssumption
<1>3. IsFiniteSet(FifoIn(T, S))  BY <1>1, <1>2, FS_Subset
<1> QED  BY <1>3, FS_CardinalityType DEF FifoCount

(* A thread that goes to one of the places from elsewhere adds one.        *)
LEMMA FifoJoins ==
  ASSUME Fifo!FifoAssumption, Fifo!TypeOK, NEW T \in SUBSET Fifo!Threads, NEW S, NEW t \in T, NEW from, NEW to,
         Fifo!Go(t, from, to), from \notin S, to \in S
  PROVE  FifoCount(T, S)' = FifoCount(T, S) + 1
<1>1. FifoIn(T, S)' = FifoIn(T, S) \cup {t} /\ t \notin FifoIn(T, S)
  BY DEF FifoIn, Fifo!Go, Fifo!TypeOK
<1>2. IsFiniteSet(FifoIn(T, S))  BY FifoInFinite
<1>3. Cardinality(FifoIn(T, S) \cup {t}) = Cardinality(FifoIn(T, S)) + 1
  BY <1>1, <1>2, FS_AddElement
<1> QED  BY <1>1, <1>3 DEF FifoCount

(* A thread that goes from one of the places elsewhere takes one off, and  *)
(* there was one.                                                          *)
LEMMA FifoLeaves ==
  ASSUME Fifo!FifoAssumption, Fifo!TypeOK, NEW T \in SUBSET Fifo!Threads, NEW S, NEW t \in T, NEW from, NEW to,
         Fifo!Go(t, from, to), from \in S, to \notin S
  PROVE  FifoCount(T, S)' = FifoCount(T, S) - 1 /\ FifoCount(T, S) > 0
<1>1. FifoIn(T, S)' = FifoIn(T, S) \ {t} /\ t \in FifoIn(T, S)  BY DEF FifoIn, Fifo!Go, Fifo!TypeOK
<1>2. IsFiniteSet(FifoIn(T, S))  BY FifoInFinite
<1>3. Cardinality(FifoIn(T, S) \ {t}) = Cardinality(FifoIn(T, S)) - 1
  BY <1>1, <1>2, FS_RemoveElement
<1>4. IsFiniteSet(FifoIn(T, S) \ {t})  BY <1>2, FS_Subset
<1>5. Cardinality(FifoIn(T, S) \ {t}) \in Nat  BY <1>4, FS_CardinalityType
<1>6. FifoCount(T, S) \in Nat  BY FifoInFinite
<1> QED  BY <1>1, <1>3, <1>5, <1>6 DEF FifoCount

(* Any other step leaves the count alone, one of the other end's threads   *)
(* in particular.                                                          *)
LEMMA FifoStays ==
  ASSUME Fifo!TypeOK, NEW T \in SUBSET Fifo!Threads, NEW S, NEW t, NEW from, NEW to,
         Fifo!Go(t, from, to), t \notin T \/ (from \in S <=> to \in S)
  PROVE  FifoCount(T, S)' = FifoCount(T, S)
<1>1. FifoIn(T, S)' = FifoIn(T, S)  BY DEF FifoIn, Fifo!Go, Fifo!TypeOK
<1> QED  BY <1>1 DEF FifoCount

(* Both numbers and their parts are numbers.                               *)
LEMMA FifoCountsAreNumbers ==
  ASSUME Fifo!FifoAssumption, Fifo!TypeOK
  PROVE  /\ FifoItems \in Nat /\ FifoFree \in Nat
         /\ \A S : FifoCount(Pushers, S) \in Nat /\ FifoCount(Poppers, S) \in Nat
                   /\ FifoCount(Fifo!Threads, S) \in Nat
<1>1. \A S : FifoCount(Pushers, S) \in Nat /\ FifoCount(Poppers, S) \in Nat /\ FifoCount(Fifo!Threads, S) \in Nat
  BY FifoInFinite DEF Fifo!Threads
<1>2. _hsem \in Nat /\ _tsem \in Nat  BY DEF Fifo!TypeOK, Fifo!FifoAssumption
<1> QED  BY <1>1, <1>2 DEF FifoItems, FifoFree

-----------------------------------------------------------------------------
(* Places and numbers *)

(* Places are places, and different ones for different counts below the    *)
(* capacity; the next place after the k-th is the k+1-st, from whichever   *)
(* end one looks.                                                          *)
LEMMA FifoPlaceFacts ==
  ASSUME Fifo!FifoAssumption, NEW h \in 0 .. _cap - 1
  PROVE  /\ Fifo!Wrapped(h + 1) \in 0 .. _cap - 1
         /\ FifoPlace(h, 0) = h
         /\ \A k \in 0 .. _cap : FifoPlace(h, k) \in 0 .. _cap - 1
         /\ \A k \in 0 .. _cap - 1 : /\ Fifo!Wrapped(FifoPlace(h, k) + 1) = FifoPlace(h, k + 1)
                                     /\ FifoPlace(Fifo!Wrapped(h + 1), k) = FifoPlace(h, k + 1)
         /\ \A j, k \in 0 .. _cap - 1 : FifoPlace(h, j) = FifoPlace(h, k) => j = k
BY DEF Fifo!FifoAssumption, FifoPlace, Fifo!Wrapped

(* The same for numbers.                                                   *)
LEMMA FifoNumberFacts ==
  ASSUME Fifo!FifoAssumption, NEW n \in Fifo!Numbers
  PROVE  /\ Fifo!Following(n) \in Fifo!Numbers
         /\ FifoNumber(n, 0) = n /\ FifoNumber(n, 1) = Fifo!Following(n)
         /\ \A k \in 0 .. _cap - 1 : /\ Fifo!Following(FifoNumber(n, k)) = FifoNumber(n, k + 1)
                                     /\ FifoNumber(Fifo!Following(n), k) = FifoNumber(n, k + 1)
BY DEF Fifo!FifoAssumption, FifoNumber, Fifo!Following, Fifo!Numbers

(* An item stored behind the last one.                                     *)
LEMMA FifoStoredRow ==
  ASSUME Fifo!FifoAssumption, NEW q \in [0 .. _cap - 1 -> Fifo!Numbers \cup {Fifo!Empty}],
         NEW h \in 0 .. _cap - 1, NEW t, NEW n \in 0 .. _cap - 1,
         NEW oldest \in Fifo!Numbers, NEW newest \in Fifo!Numbers, FifoRow(q, h, t, n, oldest, newest)
  PROVE  FifoRow([q EXCEPT ![t] = Fifo!Following(newest)], h, Fifo!Wrapped(t + 1), n + 1, oldest, Fifo!Following(newest))
<1> DEFINE r == [q EXCEPT ![t] = Fifo!Following(newest)]
<1>1. t = FifoPlace(h, n) /\ t \in 0 .. _cap - 1  BY FifoPlaceFacts DEF FifoRow, Fifo!FifoAssumption
<1>2. Fifo!Wrapped(t + 1) = FifoPlace(h, n + 1)  BY <1>1, FifoPlaceFacts
<1>3. Fifo!Following(newest) = FifoNumber(oldest, n + 1)  BY FifoNumberFacts DEF FifoRow
<1>4. ASSUME NEW k \in 0 .. n PROVE r[FifoPlace(h, k)] = FifoNumber(oldest, k + 1)
  <2>1. k \in 0 .. _cap - 1 /\ k \in 0 .. _cap  BY DEF Fifo!FifoAssumption
  <2>2. CASE k = n
    BY <1>1, <1>3, <2>2
  <2>3. CASE k \in 0 .. n - 1
    <3>1. FifoPlace(h, k) # t  BY <1>1, <2>1, <2>3, FifoPlaceFacts
    <3>2. q[FifoPlace(h, k)] = FifoNumber(oldest, k + 1)  BY <2>3 DEF FifoRow
    <3>3. FifoPlace(h, k) \in 0 .. _cap - 1  BY <2>1, FifoPlaceFacts
    <3> QED  BY <3>1, <3>2, <3>3
  <2> QED  BY <2>2, <2>3
<1>5. (n + 1) - 1 = n  OBVIOUS
<1> HIDE DEF r
<1>6. FifoRow(r, h, Fifo!Wrapped(t + 1), n + 1, oldest, Fifo!Following(newest))
  BY <1>2, <1>3, <1>4, <1>5 DEF FifoRow
<1> QED  BY <1>6 DEF r

(* The oldest item taken.                                                  *)
LEMMA FifoTakenRow ==
  ASSUME Fifo!FifoAssumption, NEW q, NEW h \in 0 .. _cap - 1, NEW t, NEW n \in 1 .. _cap,
         NEW oldest \in Fifo!Numbers, NEW newest, FifoRow(q, h, t, n, oldest, newest)
  PROVE  /\ FifoRow(q, Fifo!Wrapped(h + 1), t, n - 1, Fifo!Following(oldest), newest)
         /\ q[h] = Fifo!Following(oldest)
<1>0. n - 1 \in 0 .. _cap - 1 /\ (n - 1) + 1 = n  BY DEF Fifo!FifoAssumption
<1>1. t = FifoPlace(Fifo!Wrapped(h + 1), n - 1)  BY <1>0, FifoPlaceFacts DEF FifoRow
<1>2. newest = FifoNumber(Fifo!Following(oldest), n - 1)  BY <1>0, FifoNumberFacts DEF FifoRow
<1>3. q[h] = Fifo!Following(oldest)
  <2>1. q[FifoPlace(h, 0)] = FifoNumber(oldest, 0 + 1)  BY DEF FifoRow
  <2> QED  BY <2>1, FifoPlaceFacts, FifoNumberFacts
<1>4. ASSUME NEW k \in 0 .. (n - 1) - 1
      PROVE  q[FifoPlace(Fifo!Wrapped(h + 1), k)] = FifoNumber(Fifo!Following(oldest), k + 1)
  <2>1. k + 1 \in 0 .. n - 1 /\ k \in 0 .. _cap - 1 /\ k + 1 \in 0 .. _cap - 1
    BY DEF Fifo!FifoAssumption
  <2>2. q[FifoPlace(h, k + 1)] = FifoNumber(oldest, (k + 1) + 1)  BY <2>1 DEF FifoRow
  <2>3. FifoPlace(Fifo!Wrapped(h + 1), k) = FifoPlace(h, k + 1)  BY <2>1, FifoPlaceFacts
  <2>4. FifoNumber(Fifo!Following(oldest), k + 1) = FifoNumber(oldest, (k + 1) + 1)
    BY <2>1, FifoNumberFacts
  <2> QED  BY <2>2, <2>3, <2>4
<1> QED  BY <1>1, <1>2, <1>3, <1>4 DEF FifoRow

-----------------------------------------------------------------------------
(* The steps *)

(* The invariant holds at the start.                                       *)
LEMMA FifoInitInv == ASSUME Fifo!FifoAssumption, Fifo!Init PROVE FifoIInv
<1>1. Fifo!TypeOK  BY DEF Fifo!FifoAssumption, Fifo!Init, Fifo!TypeOK, Fifo!Places, Fifo!Numbers
<1>2. FifoLockInv  BY DEF Fifo!FifoAssumption, Fifo!Init, FifoLockInv, Fifo!Threads
<1>3. \A T \in SUBSET Fifo!Threads : \A S : "out" \notin S => FifoCount(T, S) = 0
  <2> TAKE T \in SUBSET Fifo!Threads
  <2> TAKE S
  <2>1. HAVE "out" \notin S
  <2>2. FifoIn(T, S) = {}  BY <2>1 DEF Fifo!Init, FifoIn
  <2> QED  BY <2>2, FS_EmptySet DEF FifoCount
<1>4. FifoItems = 0 /\ FifoFree = _cap
  <2>1. Pushers \in SUBSET Fifo!Threads /\ Poppers \in SUBSET Fifo!Threads  BY DEF Fifo!Threads
  <2>2. /\ FifoCount(Pushers, {"moving", "post"}) = 0 /\ FifoCount(Poppers, {"enter", "inside"}) = 0
        /\ FifoCount(Pushers, {"enter", "inside"}) = 0 /\ FifoCount(Poppers, {"moving", "post"}) = 0
    BY <1>3, <2>1
  <2> QED  BY <2>2 DEF FifoItems, FifoFree, Fifo!Init, Fifo!FifoAssumption
<1>5. FifoPermitInv  BY <1>4 DEF FifoPermitInv, Fifo!FifoAssumption
<1>6. FifoOrderInv
  <2>1. FifoHead = 0 /\ FifoTail = 0  BY DEF Fifo!Init, FifoHead, FifoTail, FifoMoving, Fifo!Threads
  <2> QED
    BY <1>4, <2>1 DEF Fifo!Init, FifoOrderInv, FifoRow, Fifo!TakesInOrder, FifoPlace, FifoNumber, Fifo!FifoAssumption
<1> QED  BY <1>1, <1>2, <1>5, <1>6 DEF FifoIInv

(* Counting two sets that have nothing in common.                          *)
LEMMA FifoDisjointUnion ==
  ASSUME NEW S, NEW T, IsFiniteSet(S), IsFiniteSet(T), S \cap T = {}
  PROVE  /\ IsFiniteSet(S \cup T)
         /\ Cardinality(S \cup T) = Cardinality(S) + Cardinality(T)
<1>1. Cardinality(S \cap T) = 0  BY FS_EmptySet
<1>2. IsFiniteSet(S \cup T) /\ Cardinality(S \cup T) = Cardinality(S) + Cardinality(T) - Cardinality(S \cap T)
  BY FS_Union
<1>3. Cardinality(S) \in Nat /\ Cardinality(T) \in Nat  BY FS_CardinalityType
<1> QED  BY <1>1, <1>2, <1>3

(* The permits and the threads of PermitInv are those of PermitsAddUp.     *)
LEMMA FifoPermitsFromCounts ==
  ASSUME Fifo!FifoAssumption, Fifo!TypeOK, FifoPermitInv
  PROVE  Fifo!PermitsAddUp
<1> DEFINE A == FifoIn(Pushers, {"moving", "post"})  B == FifoIn(Pushers, {"enter", "inside"})
           C == FifoIn(Poppers, {"enter", "inside"})  D == FifoIn(Poppers, {"moving", "post"})
<1>1. /\ IsFiniteSet(A) /\ Cardinality(A) \in Nat /\ IsFiniteSet(B) /\ Cardinality(B) \in Nat
      /\ IsFiniteSet(C) /\ Cardinality(C) \in Nat /\ IsFiniteSet(D) /\ Cardinality(D) \in Nat
  BY FifoInFinite DEF FifoCount, Fifo!Threads
<1>2. {t \in Fifo!Threads : at[t] # "out"} = (A \cup B) \cup (C \cup D)
  BY DEF Fifo!TypeOK, Fifo!Places, Fifo!Threads, FifoIn
<1>3. A \cap B = {} /\ C \cap D = {} /\ (A \cup B) \cap (C \cup D) = {}
  BY DEF FifoIn, Fifo!FifoAssumption
<1> HIDE DEF A, B, C, D
<1>4. IsFiniteSet(A \cup B) /\ Cardinality(A \cup B) = Cardinality(A) + Cardinality(B)
  BY <1>1, <1>3, FifoDisjointUnion
<1>5. IsFiniteSet(C \cup D) /\ Cardinality(C \cup D) = Cardinality(C) + Cardinality(D)
  BY <1>1, <1>3, FifoDisjointUnion
<1>6. Cardinality((A \cup B) \cup (C \cup D)) = Cardinality(A \cup B) + Cardinality(C \cup D)
  BY <1>1, <1>3, <1>4, <1>5, FifoDisjointUnion
<1>7. _tsem \in Nat /\ _hsem \in Nat /\ _cap \in Nat  BY DEF Fifo!TypeOK, Fifo!FifoAssumption
<1>8. _hsem + Cardinality(A) + Cardinality(C) + (_tsem + Cardinality(B) + Cardinality(D)) = _cap
  BY DEF FifoPermitInv, FifoItems, FifoFree, FifoCount, A, B, C, D
<1>9. Cardinality((A \cup B) \cup (C \cup D)) =
        Cardinality(A) + Cardinality(B) + (Cardinality(C) + Cardinality(D))
  BY <1>4, <1>5, <1>6
<1>10. _tsem + _hsem + Cardinality((A \cup B) \cup (C \cup D)) = _cap
  BY <1>1, <1>7, <1>8, <1>9
<1>11. Fifo!Cardinality((A \cup B) \cup (C \cup D)) = Cardinality((A \cup B) \cup (C \cup D))
  BY FifoFiniteSets
<1> QED  BY <1>2, <1>10, <1>11 DEF Fifo!PermitsAddUp

(* A step of a pusher leaves the numbers of poppers alone, and vice versa. *)
LEMMA FifoOtherEnd ==
  ASSUME Fifo!FifoAssumption, Fifo!TypeOK, NEW t, NEW from, NEW to, Fifo!Go(t, from, to)
  PROVE  /\ t \in Pushers => \A S : FifoCount(Poppers, S)' = FifoCount(Poppers, S)
         /\ t \in Poppers => \A S : FifoCount(Pushers, S)' = FifoCount(Pushers, S)
BY FifoStays DEF Fifo!FifoAssumption, Fifo!Threads

(* Steps that touch neither the items nor the ends keep the order.         *)
LEMMA FifoOrderKept ==
  ASSUME FifoOrderInv, Fifo!TypeOK, NEW t, NEW from, NEW to, Fifo!Go(t, from, to),
         from # "moving", to # "moving", FifoItems' = FifoItems,
         UNCHANGED <<_queue, _head, _tail, pushed, popped, taken>>
  PROVE  FifoOrderInv'
<1>1. /\ FifoMoving(Pushers)' <=> FifoMoving(Pushers)
      /\ FifoMoving(Poppers)' <=> FifoMoving(Poppers)
  BY DEF FifoMoving, Fifo!Go, Fifo!TypeOK, Fifo!Threads
<1>2. FifoHead' = FifoHead /\ FifoTail' = FifoTail  BY <1>1 DEF FifoHead, FifoTail, Fifo!Wrapped
<1>3. FifoRow(_queue, FifoHead, FifoTail, FifoItems, popped, pushed)'
  BY <1>2 DEF FifoOrderInv, FifoRow, FifoPlace, FifoNumber
<1> QED  BY <1>3 DEF FifoOrderInv, Fifo!TakesInOrder

(* Nobody gets off the map.                                                *)
LEMMA FifoAtTyped ==
  ASSUME Fifo!TypeOK, NEW t, NEW from, NEW to \in Fifo!Places, Fifo!Go(t, from, to)
  PROVE  at' \in [Fifo!Threads -> Fifo!Places]
BY DEF Fifo!TypeOK, Fifo!Go

(* A pusher takes a permit.                                                *)
LEMMA FifoStepPushWait ==
  ASSUME Fifo!FifoAssumption, FifoIInv, NEW p \in Pushers, Fifo!PushWait(p)
  PROVE  FifoIInv'
<1> USE DEF FifoIInv
<1>1. Fifo!TypeOK'
  <2>1. at' \in [Fifo!Threads -> Fifo!Places]  BY FifoAtTyped DEF Fifo!PushWait, Fifo!Places
  <2> QED  BY <2>1 DEF Fifo!FifoAssumption, Fifo!TypeOK, Fifo!PushWait
<1>2. FifoLockInv'  BY DEF FifoLockInv, Fifo!PushWait, Fifo!Go, Fifo!TypeOK, Fifo!Threads
<1>3. FifoItems' = FifoItems /\ FifoFree' = FifoFree
  <2>1. FifoCount(Pushers, {"moving", "post"})' = FifoCount(Pushers, {"moving", "post"})
    BY FifoStays DEF Fifo!PushWait, Fifo!Threads
  <2>2. FifoCount(Pushers, {"enter", "inside"})' = FifoCount(Pushers, {"enter", "inside"}) + 1
    BY FifoJoins DEF Fifo!PushWait, Fifo!Threads
  <2>3. \A S : FifoCount(Poppers, S)' = FifoCount(Poppers, S)  BY FifoOtherEnd DEF Fifo!PushWait
  <2> QED
    BY <2>1, <2>2, <2>3, FifoCountsAreNumbers DEF FifoItems, FifoFree, Fifo!PushWait, Fifo!TypeOK
<1>4. FifoPermitInv'  BY <1>3 DEF FifoPermitInv
<1>5. FifoOrderInv'  BY <1>3, FifoOrderKept DEF Fifo!PushWait
<1> QED  BY <1>1, <1>2, <1>4, <1>5

(* A pusher takes the lock.                                                *)
LEMMA FifoStepPushEnter ==
  ASSUME Fifo!FifoAssumption, FifoIInv, NEW p \in Pushers, Fifo!PushEnter(p)
  PROVE  FifoIInv'
<1> USE DEF FifoIInv
<1>1. Fifo!TypeOK'
  <2>1. at' \in [Fifo!Threads -> Fifo!Places]  BY FifoAtTyped DEF Fifo!PushEnter, Fifo!Places
  <2> QED  BY <2>1 DEF Fifo!FifoAssumption, Fifo!TypeOK, Fifo!PushEnter
<1>2. FifoLockInv'
  BY DEF Fifo!FifoAssumption, FifoLockInv, Fifo!PushEnter, Fifo!Go, Fifo!TypeOK, Fifo!Threads
<1>3. FifoItems' = FifoItems /\ FifoFree' = FifoFree
  <2>1. FifoCount(Pushers, {"moving", "post"})' = FifoCount(Pushers, {"moving", "post"})
    BY FifoStays DEF Fifo!PushEnter, Fifo!Threads
  <2>2. FifoCount(Pushers, {"enter", "inside"})' = FifoCount(Pushers, {"enter", "inside"})
    BY FifoStays DEF Fifo!PushEnter, Fifo!Threads
  <2>3. \A S : FifoCount(Poppers, S)' = FifoCount(Poppers, S)  BY FifoOtherEnd DEF Fifo!PushEnter
  <2> QED  BY <2>1, <2>2, <2>3 DEF FifoItems, FifoFree, Fifo!PushEnter
<1>4. FifoPermitInv'  BY <1>3 DEF FifoPermitInv
<1>5. FifoOrderInv'  BY <1>3, FifoOrderKept DEF Fifo!PushEnter
<1> QED  BY <1>1, <1>2, <1>4, <1>5

(* A pusher stores its item, in a place that holds none.                   *)
LEMMA FifoStepPushStore ==
  ASSUME Fifo!FifoAssumption, FifoIInv, NEW p \in Pushers, Fifo!PushStore(p)
  PROVE  FifoIInv'
<1> USE DEF FifoIInv
<1>1. Fifo!Following(pushed) \in Fifo!Numbers  BY FifoNumberFacts DEF Fifo!TypeOK
<1>2. Fifo!TypeOK'
  <2>1. at' \in [Fifo!Threads -> Fifo!Places]  BY FifoAtTyped DEF Fifo!PushStore, Fifo!Places
  <2> QED  BY <1>1, <2>1 DEF Fifo!FifoAssumption, Fifo!TypeOK, Fifo!PushStore
<1>3. FifoLockInv'
  BY DEF Fifo!FifoAssumption, FifoLockInv, Fifo!PushStore, Fifo!Go, Fifo!TypeOK, Fifo!Threads
<1>4. /\ FifoItems' = FifoItems + 1 /\ FifoFree' = FifoFree - 1
      /\ FifoItems \in 0 .. _cap - 1
  <2>1. FifoCount(Pushers, {"moving", "post"})' = FifoCount(Pushers, {"moving", "post"}) + 1
    BY FifoJoins DEF Fifo!PushStore, Fifo!Threads
  <2>2. /\ FifoCount(Pushers, {"enter", "inside"})' = FifoCount(Pushers, {"enter", "inside"}) - 1
        /\ FifoCount(Pushers, {"enter", "inside"}) > 0
    BY FifoLeaves DEF Fifo!PushStore, Fifo!Threads
  <2>3. /\ FifoCount(Poppers, {"enter", "inside"})' = FifoCount(Poppers, {"enter", "inside"})
        /\ FifoCount(Poppers, {"moving", "post"})' = FifoCount(Poppers, {"moving", "post"})
    BY FifoOtherEnd DEF Fifo!PushStore
  <2>4. FifoItems' = FifoItems + 1 /\ FifoFree' = FifoFree - 1
    <3>1. /\ FifoCount(Pushers, {"moving", "post"}) \in Nat /\ FifoCount(Poppers, {"enter", "inside"}) \in Nat
          /\ FifoCount(Pushers, {"enter", "inside"}) \in Nat /\ FifoCount(Poppers, {"moving", "post"}) \in Nat
      BY FifoCountsAreNumbers
    <3>2. _hsem \in Nat /\ _tsem \in Nat /\ _hsem' = _hsem /\ _tsem' = _tsem
      BY DEF Fifo!PushStore, Fifo!TypeOK, Fifo!FifoAssumption
    <3>3. FifoItems' = FifoItems + 1  BY <2>1, <2>3, <3>1, <3>2 DEF FifoItems
    <3>4. FifoFree' = FifoFree - 1  BY <2>2, <2>3, <3>1, <3>2 DEF FifoFree
    <3> QED  BY <3>3, <3>4
  <2>5. FifoFree > 0
    BY <2>2, FifoCountsAreNumbers DEF FifoFree, Fifo!TypeOK
  <2> QED  BY <2>4, <2>5, FifoCountsAreNumbers DEF FifoPermitInv, Fifo!FifoAssumption
<1>5. FifoPermitInv'  BY <1>4, FifoCountsAreNumbers DEF FifoPermitInv
<1>6. /\ FifoTail = _tail /\ FifoTail' = Fifo!Wrapped(_tail + 1)
      /\ FifoHead' = FifoHead
  <2>1. ~FifoMoving(Pushers)  BY DEF FifoMoving, FifoLockInv, Fifo!PushStore, Fifo!Go
  <2>2. FifoMoving(Pushers)'  BY DEF FifoMoving, Fifo!PushStore, Fifo!Go, Fifo!TypeOK, Fifo!Threads
  <2>3. FifoMoving(Poppers)' <=> FifoMoving(Poppers)
    BY DEF FifoMoving, Fifo!PushStore, Fifo!Go, Fifo!TypeOK, Fifo!Threads, Fifo!FifoAssumption
  <2> QED  BY <2>1, <2>2, <2>3 DEF FifoHead, FifoTail, Fifo!Wrapped, Fifo!PushStore
<1>7. FifoHead \in 0 .. _cap - 1  BY FifoPlaceFacts DEF FifoHead, Fifo!TypeOK
<1>8. FifoRow(_queue', FifoHead, Fifo!Wrapped(_tail + 1), FifoItems + 1, popped, Fifo!Following(pushed))
  BY <1>4, <1>6, <1>7, FifoStoredRow DEF FifoOrderInv, Fifo!TypeOK, Fifo!PushStore
<1>9. FifoOrderInv'
  BY <1>4, <1>6, <1>8 DEF FifoOrderInv, Fifo!TakesInOrder, Fifo!PushStore, FifoRow, FifoPlace, FifoNumber
<1> QED  BY <1>2, <1>3, <1>5, <1>9

(* A pusher is done with _tail, and leaves the lock.                       *)
LEMMA FifoStepPushMove ==
  ASSUME Fifo!FifoAssumption, FifoIInv, NEW p \in Pushers, Fifo!PushMove(p)
  PROVE  FifoIInv'
<1> USE DEF FifoIInv
<1>1. Fifo!TypeOK'
  <2>1. at' \in [Fifo!Threads -> Fifo!Places]  BY FifoAtTyped DEF Fifo!PushMove, Fifo!Places
  <2>2. Fifo!Wrapped(_tail + 1) \in 0 .. _cap - 1  BY FifoPlaceFacts DEF Fifo!TypeOK
  <2> QED  BY <2>1, <2>2 DEF Fifo!FifoAssumption, Fifo!TypeOK, Fifo!PushMove
<1>2. FifoLockInv'
  BY DEF Fifo!FifoAssumption, FifoLockInv, Fifo!PushMove, Fifo!Go, Fifo!TypeOK, Fifo!Threads
<1>3. FifoItems' = FifoItems /\ FifoFree' = FifoFree
  <2>1. FifoCount(Pushers, {"moving", "post"})' = FifoCount(Pushers, {"moving", "post"})
    BY FifoStays DEF Fifo!PushMove, Fifo!Threads
  <2>2. FifoCount(Pushers, {"enter", "inside"})' = FifoCount(Pushers, {"enter", "inside"})
    BY FifoStays DEF Fifo!PushMove, Fifo!Threads
  <2>3. \A S : FifoCount(Poppers, S)' = FifoCount(Poppers, S)  BY FifoOtherEnd DEF Fifo!PushMove
  <2> QED  BY <2>1, <2>2, <2>3 DEF FifoItems, FifoFree, Fifo!PushMove
<1>4. FifoPermitInv'  BY <1>3 DEF FifoPermitInv
<1>5. FifoHead' = FifoHead /\ FifoTail' = FifoTail
  <2>1. FifoMoving(Pushers)  BY DEF FifoMoving, Fifo!PushMove, Fifo!Go
  <2>2. ~FifoMoving(Pushers)'
    <3>1. \A q \in Pushers : at[q] = "moving" => q = p  BY DEF FifoLockInv, Fifo!PushMove, Fifo!Go
    <3> QED  BY <3>1 DEF FifoMoving, Fifo!PushMove, Fifo!Go, Fifo!TypeOK, Fifo!Threads
  <2>3. FifoMoving(Poppers)' <=> FifoMoving(Poppers)
    BY DEF FifoMoving, Fifo!PushMove, Fifo!Go, Fifo!TypeOK, Fifo!Threads, Fifo!FifoAssumption
  <2> QED  BY <2>1, <2>2, <2>3 DEF FifoHead, FifoTail, Fifo!Wrapped, Fifo!PushMove
<1>6. FifoOrderInv'
  BY <1>3, <1>5 DEF FifoOrderInv, Fifo!TakesInOrder, Fifo!PushMove, FifoRow, FifoPlace, FifoNumber
<1> QED  BY <1>1, <1>2, <1>4, <1>6

(* A pusher posts.                                                         *)
LEMMA FifoStepPushPost ==
  ASSUME Fifo!FifoAssumption, FifoIInv, NEW p \in Pushers, Fifo!PushPost(p)
  PROVE  FifoIInv'
<1> USE DEF FifoIInv
<1>1. /\ FifoCount(Pushers, {"moving", "post"})' = FifoCount(Pushers, {"moving", "post"}) - 1
      /\ FifoCount(Pushers, {"moving", "post"}) > 0
  BY FifoLeaves DEF Fifo!PushPost, Fifo!Threads
<1>2. FifoItems' = FifoItems /\ FifoFree' = FifoFree
  <2>1. FifoCount(Pushers, {"enter", "inside"})' = FifoCount(Pushers, {"enter", "inside"})
    BY FifoStays DEF Fifo!PushPost, Fifo!Threads
  <2>2. \A S : FifoCount(Poppers, S)' = FifoCount(Poppers, S)  BY FifoOtherEnd DEF Fifo!PushPost
  <2> QED
    BY <1>1, <2>1, <2>2, FifoCountsAreNumbers DEF FifoItems, FifoFree, Fifo!PushPost, Fifo!TypeOK
<1>3. FifoPermitInv'  BY <1>2 DEF FifoPermitInv
<1>4. Fifo!TypeOK'
  <2>1. at' \in [Fifo!Threads -> Fifo!Places]  BY FifoAtTyped DEF Fifo!PushPost, Fifo!Places
  <2>2. _hsem + 1 \in 0 .. _cap
    <3>1. /\ FifoCount(Pushers, {"moving", "post"}) \in Nat /\ FifoCount(Poppers, {"enter", "inside"}) \in Nat
          /\ FifoFree \in Nat /\ _hsem \in Nat /\ _cap \in Nat
      BY FifoCountsAreNumbers DEF Fifo!TypeOK, Fifo!FifoAssumption
    <3> QED  BY <1>1, <3>1 DEF FifoPermitInv, FifoItems
  <2> QED  BY <2>1, <2>2 DEF Fifo!FifoAssumption, Fifo!TypeOK, Fifo!PushPost
<1>5. FifoLockInv'  BY DEF FifoLockInv, Fifo!PushPost, Fifo!Go, Fifo!TypeOK, Fifo!Threads
<1>6. FifoOrderInv'  BY <1>2, FifoOrderKept DEF Fifo!PushPost
<1> QED  BY <1>3, <1>4, <1>5, <1>6

(* A popper takes a permit.                                                *)
LEMMA FifoStepPopWait ==
  ASSUME Fifo!FifoAssumption, FifoIInv, NEW c \in Poppers, Fifo!PopWait(c)
  PROVE  FifoIInv'
<1> USE DEF FifoIInv
<1>1. Fifo!TypeOK'
  <2>1. at' \in [Fifo!Threads -> Fifo!Places]  BY FifoAtTyped DEF Fifo!PopWait, Fifo!Places
  <2> QED  BY <2>1 DEF Fifo!FifoAssumption, Fifo!TypeOK, Fifo!PopWait
<1>2. FifoLockInv'  BY DEF FifoLockInv, Fifo!PopWait, Fifo!Go, Fifo!TypeOK, Fifo!Threads
<1>3. FifoItems' = FifoItems /\ FifoFree' = FifoFree
  <2>1. FifoCount(Poppers, {"moving", "post"})' = FifoCount(Poppers, {"moving", "post"})
    BY FifoStays DEF Fifo!PopWait, Fifo!Threads
  <2>2. FifoCount(Poppers, {"enter", "inside"})' = FifoCount(Poppers, {"enter", "inside"}) + 1
    BY FifoJoins DEF Fifo!PopWait, Fifo!Threads
  <2>3. \A S : FifoCount(Pushers, S)' = FifoCount(Pushers, S)  BY FifoOtherEnd DEF Fifo!PopWait
  <2> QED
    BY <2>1, <2>2, <2>3, FifoCountsAreNumbers DEF FifoItems, FifoFree, Fifo!PopWait, Fifo!TypeOK
<1>4. FifoPermitInv'  BY <1>3 DEF FifoPermitInv
<1>5. FifoOrderInv'  BY <1>3, FifoOrderKept DEF Fifo!PopWait
<1> QED  BY <1>1, <1>2, <1>4, <1>5

(* A popper takes the lock.                                                *)
LEMMA FifoStepPopEnter ==
  ASSUME Fifo!FifoAssumption, FifoIInv, NEW c \in Poppers, Fifo!PopEnter(c)
  PROVE  FifoIInv'
<1> USE DEF FifoIInv
<1>1. Fifo!TypeOK'
  <2>1. at' \in [Fifo!Threads -> Fifo!Places]  BY FifoAtTyped DEF Fifo!PopEnter, Fifo!Places
  <2> QED  BY <2>1 DEF Fifo!FifoAssumption, Fifo!TypeOK, Fifo!PopEnter
<1>2. FifoLockInv'
  BY DEF Fifo!FifoAssumption, FifoLockInv, Fifo!PopEnter, Fifo!Go, Fifo!TypeOK, Fifo!Threads
<1>3. FifoItems' = FifoItems /\ FifoFree' = FifoFree
  <2>1. FifoCount(Poppers, {"moving", "post"})' = FifoCount(Poppers, {"moving", "post"})
    BY FifoStays DEF Fifo!PopEnter, Fifo!Threads
  <2>2. FifoCount(Poppers, {"enter", "inside"})' = FifoCount(Poppers, {"enter", "inside"})
    BY FifoStays DEF Fifo!PopEnter, Fifo!Threads
  <2>3. \A S : FifoCount(Pushers, S)' = FifoCount(Pushers, S)  BY FifoOtherEnd DEF Fifo!PopEnter
  <2> QED  BY <2>1, <2>2, <2>3 DEF FifoItems, FifoFree, Fifo!PopEnter
<1>4. FifoPermitInv'  BY <1>3 DEF FifoPermitInv
<1>5. FifoOrderInv'  BY <1>3, FifoOrderKept DEF Fifo!PopEnter
<1> QED  BY <1>1, <1>2, <1>4, <1>5

(* A popper takes the oldest item.                                         *)
LEMMA FifoStepPopTake ==
  ASSUME Fifo!FifoAssumption, FifoIInv, NEW c \in Poppers, Fifo!PopTake(c)
  PROVE  FifoIInv'
<1> USE DEF FifoIInv
<1>1. /\ FifoItems' = FifoItems - 1 /\ FifoFree' = FifoFree + 1
      /\ FifoItems \in 1 .. _cap
  <2>1. FifoCount(Poppers, {"moving", "post"})' = FifoCount(Poppers, {"moving", "post"}) + 1
    BY FifoJoins DEF Fifo!PopTake, Fifo!Threads
  <2>2. /\ FifoCount(Poppers, {"enter", "inside"})' = FifoCount(Poppers, {"enter", "inside"}) - 1
        /\ FifoCount(Poppers, {"enter", "inside"}) > 0
    BY FifoLeaves DEF Fifo!PopTake, Fifo!Threads
  <2>3. /\ FifoCount(Pushers, {"enter", "inside"})' = FifoCount(Pushers, {"enter", "inside"})
        /\ FifoCount(Pushers, {"moving", "post"})' = FifoCount(Pushers, {"moving", "post"})
    BY FifoOtherEnd DEF Fifo!PopTake
  <2>4. /\ FifoCount(Pushers, {"moving", "post"}) \in Nat /\ FifoCount(Poppers, {"enter", "inside"}) \in Nat
        /\ FifoCount(Pushers, {"enter", "inside"}) \in Nat /\ FifoCount(Poppers, {"moving", "post"}) \in Nat
    BY FifoCountsAreNumbers
  <2>5. _hsem \in Nat /\ _tsem \in Nat /\ _hsem' = _hsem /\ _tsem' = _tsem
    BY DEF Fifo!PopTake, Fifo!TypeOK, Fifo!FifoAssumption
  <2>6. FifoItems' = FifoItems - 1 /\ FifoItems > 0  BY <2>2, <2>3, <2>4, <2>5 DEF FifoItems
  <2>7. FifoFree' = FifoFree + 1  BY <2>1, <2>3, <2>4, <2>5 DEF FifoFree
  <2> QED  BY <2>6, <2>7, FifoCountsAreNumbers DEF FifoPermitInv, Fifo!FifoAssumption
<1>2. /\ FifoHead = _head /\ FifoHead' = Fifo!Wrapped(_head + 1)
      /\ FifoTail' = FifoTail
  <2>1. ~FifoMoving(Poppers)  BY DEF FifoMoving, FifoLockInv, Fifo!PopTake, Fifo!Go
  <2>2. FifoMoving(Poppers)'  BY DEF FifoMoving, Fifo!PopTake, Fifo!Go, Fifo!TypeOK, Fifo!Threads
  <2>3. FifoMoving(Pushers)' <=> FifoMoving(Pushers)
    BY DEF FifoMoving, Fifo!PopTake, Fifo!Go, Fifo!TypeOK, Fifo!Threads, Fifo!FifoAssumption
  <2> QED  BY <2>1, <2>2, <2>3 DEF FifoHead, FifoTail, Fifo!Wrapped, Fifo!PopTake
<1>3. /\ FifoRow(_queue, Fifo!Wrapped(_head + 1), FifoTail, FifoItems - 1, Fifo!Following(popped), pushed)
      /\ _queue[_head] = Fifo!Following(popped)
  BY <1>1, <1>2, FifoTakenRow DEF FifoOrderInv, Fifo!TypeOK
<1>4. Fifo!TypeOK'
  <2>1. at' \in [Fifo!Threads -> Fifo!Places]  BY FifoAtTyped DEF Fifo!PopTake, Fifo!Places
  <2>2. Fifo!Following(popped) \in Fifo!Numbers  BY FifoNumberFacts DEF Fifo!TypeOK
  <2> QED  BY <1>3, <2>1, <2>2 DEF Fifo!FifoAssumption, Fifo!TypeOK, Fifo!PopTake
<1>5. FifoLockInv'
  BY DEF Fifo!FifoAssumption, FifoLockInv, Fifo!PopTake, Fifo!Go, Fifo!TypeOK, Fifo!Threads
<1>6. FifoPermitInv'  BY <1>1, FifoCountsAreNumbers DEF FifoPermitInv
<1>7. FifoOrderInv'
  BY <1>1, <1>2, <1>3 DEF FifoOrderInv, Fifo!TakesInOrder, Fifo!PopTake, FifoRow, FifoPlace, FifoNumber
<1> QED  BY <1>4, <1>5, <1>6, <1>7

(* A popper is done with _head, and leaves the lock.                       *)
LEMMA FifoStepPopMove ==
  ASSUME Fifo!FifoAssumption, FifoIInv, NEW c \in Poppers, Fifo!PopMove(c)
  PROVE  FifoIInv'
<1> USE DEF FifoIInv
<1>1. Fifo!TypeOK'
  <2>1. at' \in [Fifo!Threads -> Fifo!Places]  BY FifoAtTyped DEF Fifo!PopMove, Fifo!Places
  <2>2. Fifo!Wrapped(_head + 1) \in 0 .. _cap - 1  BY FifoPlaceFacts DEF Fifo!TypeOK
  <2> QED  BY <2>1, <2>2 DEF Fifo!FifoAssumption, Fifo!TypeOK, Fifo!PopMove
<1>2. FifoLockInv'
  BY DEF Fifo!FifoAssumption, FifoLockInv, Fifo!PopMove, Fifo!Go, Fifo!TypeOK, Fifo!Threads
<1>3. FifoItems' = FifoItems /\ FifoFree' = FifoFree
  <2>1. FifoCount(Poppers, {"moving", "post"})' = FifoCount(Poppers, {"moving", "post"})
    BY FifoStays DEF Fifo!PopMove, Fifo!Threads
  <2>2. FifoCount(Poppers, {"enter", "inside"})' = FifoCount(Poppers, {"enter", "inside"})
    BY FifoStays DEF Fifo!PopMove, Fifo!Threads
  <2>3. \A S : FifoCount(Pushers, S)' = FifoCount(Pushers, S)  BY FifoOtherEnd DEF Fifo!PopMove
  <2> QED  BY <2>1, <2>2, <2>3 DEF FifoItems, FifoFree, Fifo!PopMove
<1>4. FifoPermitInv'  BY <1>3 DEF FifoPermitInv
<1>5. FifoHead' = FifoHead /\ FifoTail' = FifoTail
  <2>1. FifoMoving(Poppers)  BY DEF FifoMoving, Fifo!PopMove, Fifo!Go
  <2>2. ~FifoMoving(Poppers)'
    <3>1. \A q \in Poppers : at[q] = "moving" => q = c  BY DEF FifoLockInv, Fifo!PopMove, Fifo!Go
    <3> QED  BY <3>1 DEF FifoMoving, Fifo!PopMove, Fifo!Go, Fifo!TypeOK, Fifo!Threads
  <2>3. FifoMoving(Pushers)' <=> FifoMoving(Pushers)
    BY DEF FifoMoving, Fifo!PopMove, Fifo!Go, Fifo!TypeOK, Fifo!Threads, Fifo!FifoAssumption
  <2> QED  BY <2>1, <2>2, <2>3 DEF FifoHead, FifoTail, Fifo!Wrapped, Fifo!PopMove
<1>6. FifoOrderInv'
  BY <1>3, <1>5 DEF FifoOrderInv, Fifo!TakesInOrder, Fifo!PopMove, FifoRow, FifoPlace, FifoNumber
<1> QED  BY <1>1, <1>2, <1>4, <1>6

(* A popper posts.                                                         *)
LEMMA FifoStepPopPost ==
  ASSUME Fifo!FifoAssumption, FifoIInv, NEW c \in Poppers, Fifo!PopPost(c)
  PROVE  FifoIInv'
<1> USE DEF FifoIInv
<1>1. /\ FifoCount(Poppers, {"moving", "post"})' = FifoCount(Poppers, {"moving", "post"}) - 1
      /\ FifoCount(Poppers, {"moving", "post"}) > 0
  BY FifoLeaves DEF Fifo!PopPost, Fifo!Threads
<1>2. FifoItems' = FifoItems /\ FifoFree' = FifoFree
  <2>1. FifoCount(Poppers, {"enter", "inside"})' = FifoCount(Poppers, {"enter", "inside"})
    BY FifoStays DEF Fifo!PopPost, Fifo!Threads
  <2>2. \A S : FifoCount(Pushers, S)' = FifoCount(Pushers, S)  BY FifoOtherEnd DEF Fifo!PopPost
  <2> QED
    BY <1>1, <2>1, <2>2, FifoCountsAreNumbers DEF FifoItems, FifoFree, Fifo!PopPost, Fifo!TypeOK
<1>3. FifoPermitInv'  BY <1>2 DEF FifoPermitInv
<1>4. Fifo!TypeOK'
  <2>1. at' \in [Fifo!Threads -> Fifo!Places]  BY FifoAtTyped DEF Fifo!PopPost, Fifo!Places
  <2>2. _tsem + 1 \in 0 .. _cap
    <3>1. /\ FifoCount(Poppers, {"moving", "post"}) \in Nat /\ FifoCount(Pushers, {"enter", "inside"}) \in Nat
          /\ FifoItems \in Nat /\ _tsem \in Nat /\ _cap \in Nat
      BY FifoCountsAreNumbers DEF Fifo!TypeOK, Fifo!FifoAssumption
    <3> QED  BY <1>1, <3>1 DEF FifoPermitInv, FifoFree
  <2> QED  BY <2>1, <2>2 DEF Fifo!FifoAssumption, Fifo!TypeOK, Fifo!PopPost
<1>5. FifoLockInv'  BY DEF FifoLockInv, Fifo!PopPost, Fifo!Go, Fifo!TypeOK, Fifo!Threads
<1>6. FifoOrderInv'  BY <1>2, FifoOrderKept DEF Fifo!PopPost
<1> QED  BY <1>3, <1>4, <1>5, <1>6

-----------------------------------------------------------------------------
(* The theorems *)

(* The invariant holds throughout.                                         *)
LEMMA FifoInvariant == ASSUME Fifo!FifoAssumption PROVE Fifo!Spec => []FifoIInv
<1>1. Fifo!Init => FifoIInv  BY FifoInitInv
<1>2. FifoIInv /\ [Fifo!Next]_(Fifo!vars) => FifoIInv'
  <2> SUFFICES ASSUME FifoIInv, [Fifo!Next]_(Fifo!vars) PROVE FifoIInv'  OBVIOUS
  <2>1. CASE \E p \in Pushers : \/ Fifo!PushWait(p) \/ Fifo!PushEnter(p) \/ Fifo!PushStore(p)
                                \/ Fifo!PushMove(p) \/ Fifo!PushPost(p)
    BY <2>1, FifoStepPushWait, FifoStepPushEnter, FifoStepPushStore, FifoStepPushMove, FifoStepPushPost
  <2>2. CASE \E c \in Poppers : \/ Fifo!PopWait(c) \/ Fifo!PopEnter(c) \/ Fifo!PopTake(c)
                                \/ Fifo!PopMove(c) \/ Fifo!PopPost(c)
    BY <2>2, FifoStepPopWait, FifoStepPopEnter, FifoStepPopTake, FifoStepPopMove, FifoStepPopPost
  <2>3. CASE UNCHANGED Fifo!vars
    <3>1. UNCHANGED <<_queue, _head, _tail, _tsem, _hsem, _tlock, _hlock, at, pushed, popped, taken>>
      BY <2>3 DEF Fifo!vars
    <3> QED
      BY <3>1 DEF FifoIInv, Fifo!TypeOK, FifoLockInv, FifoPermitInv, FifoOrderInv, Fifo!TakesInOrder, FifoRow, FifoItems,
                    FifoFree, FifoCount, FifoIn, FifoHead, FifoTail, FifoMoving, Fifo!Wrapped, FifoPlace, FifoNumber
  <2> QED  BY <2>1, <2>2, <2>3 DEF Fifo!Next
<1> QED  BY <1>1, <1>2, PTL DEF Fifo!Spec

(* Types, in particular: neither semaphore exceeds the capacity, and       *)
(* neither end leaves the queue.                                           *)
THEOREM FifoTyped == ASSUME Fifo!FifoAssumption PROVE Fifo!Spec => []Fifo!TypeOK
<1>1. FifoIInv => Fifo!TypeOK  BY DEF FifoIInv
<1> QED  BY <1>1, FifoInvariant, PTL

(* push_back and pop_front: what comes out is what went in, in that order, *)
(* each item once.                                                         *)
THEOREM FirstInFirstOut == ASSUME Fifo!FifoAssumption PROVE Fifo!Spec => []Fifo!TakesInOrder
<1>1. FifoIInv => Fifo!TakesInOrder  BY DEF FifoIInv, FifoOrderInv
<1> QED  BY <1>1, FifoInvariant, PTL

(* The posts and waits of push_back and pop_front: no place is lost, and   *)
(* none promised twice.                                                    *)
THEOREM NoPermitLost == ASSUME Fifo!FifoAssumption PROVE Fifo!Spec => []Fifo!PermitsAddUp
<1>1. FifoIInv => Fifo!PermitsAddUp  BY FifoPermitsFromCounts DEF FifoIInv
<1> QED  BY <1>1, FifoInvariant, PTL

-----------------------------------------------------------------------------
(* The log files.  Ordered needs to know that there is no line yet that is *)
(* newer than the next one, and that a rotation renames a file to the      *)
(* number that follows its own (which is one that exists), of a name that  *)
(* is a file's.  DropsOldest needs to know which files there are at every  *)
(* step of a rotation: what is removed is the last of the row, so the      *)
(* oldest by Ordered, and no file is renamed over another.                 *)

(* The instance of FiniteSets in LogFileWriter counts as the one here does.*)
LEMMA LogCounts == \A S : Log!Cardinality(S) = Cardinality(S)
BY DEF Log!Cardinality, Cardinality

(* The files of one name, a row.                                           *)
LogRows == [Log!Numbers -> SUBSET Nat]

(* Ordered, of one row.                                                    *)
LogInOrder(row) ==
  \A j, k \in Log!Numbers :
    j < k => \A newer \in row[j] \ Log!Absent, older \in row[k] \ Log!Absent : older < newer

(* No line of a row is newer than the last one.                            *)
LogPast(row, last) == \A k \in Log!Numbers : \A line \in row[k] : line <= last

LogGood(row, last) == row \in LogRows /\ LogInOrder(row) /\ LogPast(row, last)

LogFilesInv ==
  /\ lines \in Nat
  /\ file \in [Names -> LogRows]
  /\ \A n \in Names : LogGood(file[n], lines)

(* Where a rotation may be.                                                *)
LogRotationInv ==
  /\ _logfile_name \in Names \cup {"stdout"}
  /\ _max_logfiles \in Log!Maxima /\ _curr_logfiles \in Log!Numbers
  /\ doing \in {"remove", "shift"} => _logfile_name \in Names
  /\ doing = "shift" => i \in Int /\ i < MostFiles

LogIInv == LogFilesInv /\ LogRotationInv

-----------------------------------------------------------------------------
(* Rows *)

(* A file that is removed, or emptied, leaves the others in order.         *)
LEMMA LogRemovedRow ==
  ASSUME NEW row, NEW last \in Nat, LogGood(row, last), NEW k \in Log!Numbers
  PROVE  LogGood([row EXCEPT ![k] = Log!Absent], last)
<1> DEFINE result == [row EXCEPT ![k] = Log!Absent]
<1>1. row \in LogRows  BY DEF LogGood
<1>2. result \in LogRows  BY <1>1 DEF LogRows, Log!Absent
<1>3. \A j \in Log!Numbers : result[j] = IF j = k THEN Log!Absent ELSE row[j]  BY <1>1 DEF LogRows
<1>4. LogInOrder(result)  BY <1>3 DEF LogGood, LogInOrder
<1>5. LogPast(result, last)  BY <1>3 DEF LogGood, LogPast, Log!Absent
<1> HIDE DEF result
<1>6. LogGood(result, last)  BY <1>2, <1>4, <1>5 DEF LogGood
<1> QED  BY <1>6 DEF result

(* A file may take the number that follows its own: those with a smaller   *)
(* number are newer, those with a larger one older than what has that      *)
(* number now.                                                             *)
LEMMA LogRenamedRow ==
  ASSUME NEW row, NEW last \in Nat, LogGood(row, last), MostFiles \in Nat,
         NEW k \in Log!Numbers, k + 1 \in Log!Numbers
  PROVE  LogGood([row EXCEPT ![k + 1] = row[k], ![k] = Log!Absent], last)
<1> DEFINE result == [row EXCEPT ![k + 1] = row[k], ![k] = Log!Absent]
<1>1. row \in LogRows  BY DEF LogGood
<1>2. result \in LogRows  BY <1>1 DEF LogRows, Log!Absent
<1>3. k \in Int /\ k # k + 1  BY DEF Log!Numbers
<1>4. \A j \in Log!Numbers : result[j] = IF j = k THEN Log!Absent
                                     ELSE IF j = k + 1 THEN row[k] ELSE row[j]
  BY <1>1, <1>3 DEF LogRows
<1>5. LogInOrder(result)
  <2> HIDE DEF result
  <2> SUFFICES ASSUME NEW j \in Log!Numbers, NEW l \in Log!Numbers, j < l,
                      NEW newer \in result[j] \ Log!Absent, NEW older \in result[l] \ Log!Absent
               PROVE  older < newer
    BY DEF LogInOrder
  <2>1. j # k /\ l # k  BY <1>4
  <2>2. CASE l = k + 1
    <3>1. j < k  BY <2>1, <2>2, <1>3 DEF Log!Numbers
    <3>2. newer \in row[j] \ Log!Absent /\ older \in row[k] \ Log!Absent
      BY <1>4, <2>1, <2>2, <3>1, <1>3 DEF Log!Numbers
    <3> QED  BY <3>1, <3>2 DEF LogGood, LogInOrder
  <2>3. CASE j = k + 1
    <3>1. k < l  BY <2>3 DEF Log!Numbers
    <3>2. newer \in row[k] \ Log!Absent /\ older \in row[l] \ Log!Absent
      BY <1>4, <2>1, <2>3, <3>1, <1>3 DEF Log!Numbers
    <3> QED  BY <3>1, <3>2 DEF LogGood, LogInOrder
  <2>4. CASE j # k + 1 /\ l # k + 1
    <3>1. newer \in row[j] \ Log!Absent /\ older \in row[l] \ Log!Absent  BY <1>4, <2>1, <2>4
    <3> QED  BY <3>1 DEF LogGood, LogInOrder
  <2> QED  BY <2>2, <2>3, <2>4
<1>6. LogPast(result, last)  BY <1>4, <1>1 DEF LogGood, LogPast, Log!Absent
<1> HIDE DEF result
<1>7. LogGood(result, last)  BY <1>2, <1>5, <1>6 DEF LogGood
<1> QED  BY <1>7 DEF result

(* The file that is written may take a line newer than all.                *)
LEMMA LogLoggedRow ==
  ASSUME NEW row, NEW last \in Nat, LogGood(row, last), MostFiles \in Nat
  PROVE  LogGood([row EXCEPT ![0] = @ \cup {last + 1}], last + 1)
<1> DEFINE result == [row EXCEPT ![0] = @ \cup {last + 1}]
<1>1. row \in LogRows /\ 0 \in Log!Numbers  BY DEF LogGood, Log!Numbers
<1>2. result \in LogRows  BY <1>1 DEF LogRows
<1>3. \A j \in Log!Numbers : result[j] = IF j = 0 THEN row[0] \cup {last + 1} ELSE row[j]
  BY <1>1 DEF LogRows
<1>4. \A j \in Log!Numbers : \A line \in row[j] : line \in Nat /\ line <= last
  BY <1>1 DEF LogGood, LogPast, LogRows
<1> HIDE DEF result
<1>5. LogInOrder(result)
  <2> SUFFICES ASSUME NEW j \in Log!Numbers, NEW k \in Log!Numbers, j < k,
                      NEW newer \in result[j] \ Log!Absent, NEW older \in result[k] \ Log!Absent
               PROVE  older < newer
    BY DEF LogInOrder
  <2>1. k # 0  BY DEF Log!Numbers
  <2>2. older \in row[k] \ Log!Absent  BY <1>3, <2>1
  <2>3. CASE newer \in row[j]  BY <2>2, <2>3 DEF LogGood, LogInOrder
  <2>4. CASE newer \notin row[j]
    <3>1. newer = last + 1  BY <1>3, <2>4
    <3> QED  BY <2>2, <3>1, <1>4
  <2> QED  BY <2>3, <2>4
<1>6. LogPast(result, last + 1)
  <2> SUFFICES ASSUME NEW k \in Log!Numbers, NEW line \in result[k] PROVE line <= last + 1
    BY DEF LogPast
  <2>1. line \in row[k] \/ line = last + 1  BY <1>3
  <2> QED  BY <2>1, <1>4
<1>7. LogGood(result, last + 1)  BY <1>2, <1>5, <1>6 DEF LogGood
<1> QED  BY <1>7 DEF result

(* A row whose first file is there or created empty is as good as before.  *)
LEMMA LogOpenedRow ==
  ASSUME NEW row, NEW last \in Nat, LogGood(row, last), MostFiles \in Nat
  PROVE  LogGood([row EXCEPT ![0] = row[0] \ Log!Absent], last)
<1> DEFINE result == [row EXCEPT ![0] = row[0] \ Log!Absent]
<1>1. row \in LogRows /\ 0 \in Log!Numbers  BY DEF LogGood, Log!Numbers
<1>2. result \in LogRows  BY <1>1 DEF LogRows
<1>3. \A j \in Log!Numbers : result[j] = IF j = 0 THEN row[0] \ Log!Absent ELSE row[j]
  BY <1>1 DEF LogRows
<1> HIDE DEF result
<1>4. LogInOrder(result)  BY <1>3 DEF LogGood, LogInOrder
<1>5. LogPast(result, last)  BY <1>3 DEF LogGood, LogPast
<1>6. LogGood(result, last)  BY <1>2, <1>4, <1>5 DEF LogGood
<1> QED  BY <1>6 DEF result

(* A row is no worse for a line that goes elsewhere.                       *)
LEMMA LogOlderRow ==
  ASSUME NEW row, NEW last \in Nat, LogGood(row, last)
  PROVE  LogGood(row, last + 1)
<1>1. \A k \in Log!Numbers : \A line \in row[k] : line \in Nat /\ line <= last
  BY DEF LogGood, LogPast, LogRows
<1> QED  BY <1>1 DEF LogGood, LogPast

(* One row changes, or none.                                               *)
LEMMA LogOneRow ==
  ASSUME NEW newer, NEW n \in Names, LogFilesInv, LogGood(newer, lines),
         file' = [file EXCEPT ![n] = newer], UNCHANGED lines
  PROVE  LogFilesInv'
<1>1. newer \in LogRows  BY DEF LogGood
<1>2. file' \in [Names -> LogRows]  BY <1>1 DEF LogFilesInv
<1>3. \A m \in Names : file'[m] = IF m = n THEN newer ELSE file[m]  BY DEF LogFilesInv
<1>4. \A m \in Names : LogGood(file'[m], lines)  BY <1>3 DEF LogFilesInv
<1> QED  BY <1>2, <1>4 DEF LogFilesInv

(* The constructor counts no more files than may exist.                    *)
LEMMA LogCountedInNumbers ==
  ASSUME Log!LogAssumption, LogRotationInv
  PROVE  Log!Counted \in Log!Numbers
<1> DEFINE S == {k \in 1 .. _max_logfiles - 1 : \A j \in 1 .. k : file[Configured][j] # Log!Absent}
           top == _max_logfiles - 1
<1>1. top \in Nat /\ top <= MostFiles  BY DEF Log!LogAssumption, LogRotationInv, Log!Maxima
<1>2. IsFiniteSet(1 .. top) /\ Cardinality(1 .. top) = IF 1 > top THEN 0 ELSE top - 1 + 1
  BY <1>1, FS_Interval
<1>3. S \in SUBSET (1 .. top)  OBVIOUS
<1> HIDE DEF S, top
<1>4. IsFiniteSet(S) /\ Cardinality(S) <= Cardinality(1 .. top)  BY <1>2, <1>3, FS_Subset
<1>5. Cardinality(S) \in Nat  BY <1>4, FS_CardinalityType
<1>6. Cardinality(S) \in 0 .. MostFiles  BY <1>1, <1>2, <1>4, <1>5 DEF Log!LogAssumption
<1>7. Log!Counted = Cardinality(S)  BY LogCounts DEF Log!Counted, S
<1> QED  BY <1>6, <1>7 DEF Log!Numbers

-----------------------------------------------------------------------------
(* The steps *)

(* A rename keeps the rows good.                                           *)
LEMMA LogRenameGood ==
  ASSUME Log!LogAssumption, LogFilesInv, _logfile_name \in Names, NEW k \in Log!Numbers, k + 1 \in Log!Numbers,
         file' = Log!Renamed(k, k + 1), UNCHANGED lines
  PROVE  LogFilesInv'
<1>1. CASE file[_logfile_name][k] = Log!Absent
  <2>1. file' = file  BY <1>1 DEF Log!Renamed
  <2> QED  BY <2>1 DEF LogFilesInv
<1>2. CASE file[_logfile_name][k] # Log!Absent
  <2> DEFINE row == file[_logfile_name]
             newer == [row EXCEPT ![k + 1] = row[k], ![k] = Log!Absent]
  <2>1. file' = [file EXCEPT ![_logfile_name] = newer]  BY <1>2 DEF Log!Renamed, LogFilesInv
  <2>2. LogGood(row, lines) /\ lines \in Nat  BY DEF LogFilesInv
  <2> HIDE DEF row
  <2>3. LogGood(newer, lines)  BY <2>2, LogRenamedRow DEF Log!LogAssumption
  <2> HIDE DEF newer
  <2> QED  BY <2>1, <2>3, LogOneRow
<1> QED  BY <1>1, <1>2

(* All is well at the start: there are no files.                           *)
LEMMA LogInitInv == ASSUME Log!LogAssumption PROVE Log!Init => LogIInv
<1> SUFFICES ASSUME Log!Init PROVE LogIInv  OBVIOUS
<1> DEFINE empty == [k \in Log!Numbers |-> Log!Absent]
<1>1. empty \in LogRows /\ LogInOrder(empty) /\ LogPast(empty, 0)
  BY DEF LogRows, LogInOrder, LogPast, Log!Absent
<1>2. LogGood(empty, 0)  BY <1>1 DEF LogGood
<1>3. \A n \in Names : file[n] = empty  BY DEF Log!Init
<1>4. file \in [Names -> LogRows]  BY <1>1 DEF Log!Init
<1> HIDE DEF empty
<1>5. LogFilesInv  BY <1>2, <1>3, <1>4 DEF Log!Init, LogFilesInv
<1>6. LogRotationInv  BY DEF Log!Init, LogRotationInv, Log!LogAssumption, Log!Numbers
<1> QED  BY <1>5, <1>6 DEF LogIInv

(* log puts the next line, which is the newest, into the file that is      *)
(* written, or elsewhere.                                                  *)
LEMMA LogStepLog == ASSUME Log!LogAssumption, LogIInv, Log!log PROVE LogFilesInv'
<1>1. lines \in Nat /\ lines' = lines + 1  BY DEF Log!log, LogIInv, LogFilesInv
<1>2. CASE _curr_logfile = "file" /\ _logfile_name \in Names
  <2> DEFINE row == file[_logfile_name]
             newer == [row EXCEPT ![0] = @ \cup {lines + 1}]
  <2>1. file' = [file EXCEPT ![_logfile_name] = newer]  BY <1>1, <1>2 DEF Log!log
  <2>2. LogGood(row, lines)  BY <1>2 DEF LogIInv, LogFilesInv
  <2> HIDE DEF row
  <2>3. LogGood(newer, lines + 1)  BY <1>1, <2>2, LogLoggedRow DEF Log!LogAssumption
  <2> HIDE DEF newer
  <2>4. newer \in LogRows  BY <2>3 DEF LogGood
  <2>5. file' \in [Names -> LogRows]  BY <2>1, <2>4 DEF LogIInv, LogFilesInv
  <2>6. \A n \in Names : file'[n] = IF n = _logfile_name THEN newer ELSE file[n]
    BY <2>1 DEF LogIInv, LogFilesInv
  <2>7. \A n \in Names : LogGood(file[n], lines + 1)  BY <1>1, LogOlderRow DEF LogIInv, LogFilesInv
  <2>8. \A n \in Names : LogGood(file'[n], lines')  BY <1>1, <2>3, <2>6, <2>7
  <2> QED  BY <1>1, <2>5, <2>8 DEF LogFilesInv
<1>3. CASE ~(_curr_logfile = "file" /\ _logfile_name \in Names)
  <2>1. file' = file
    <3>1. CASE _curr_logfile = "file"  BY <1>3, <3>1 DEF Log!log, LogIInv, LogFilesInv
    <3>2. CASE _curr_logfile # "file"  BY <3>2 DEF Log!log
    <3> QED  BY <3>1, <3>2
  <2>2. \A n \in Names : LogGood(file[n], lines + 1)  BY <1>1, LogOlderRow DEF LogIInv, LogFilesInv
  <2> QED  BY <1>1, <2>1, <2>2 DEF LogIInv, LogFilesInv
<1> QED  BY <1>2, <1>3

(* A rotation, at any of its steps.                                        *)
LEMMA LogStepRotate ==
  ASSUME Log!LogAssumption, LogIInv, Log!Remove \/ Log!Shift \/ Log!Move
  PROVE  LogFilesInv'
<1> USE DEF LogIInv
<1>1. _logfile_name \in Names  BY DEF Log!Remove, Log!Shift, Log!Move, LogRotationInv
<1>2. MostFiles \in Nat /\ 0 \in Log!Numbers /\ 1 \in Log!Numbers
  BY DEF Log!LogAssumption, LogRotationInv, Log!Maxima, Log!Numbers
<1>3. CASE Log!Remove
  <2> DEFINE row == file[_logfile_name]
             newer == [row EXCEPT ![_curr_logfiles] = Log!Absent]
  <2>1. file' = [file EXCEPT ![_logfile_name] = newer] /\ UNCHANGED lines  BY <1>3 DEF Log!Remove
  <2>2. LogGood(row, lines) /\ lines \in Nat /\ _curr_logfiles \in Log!Numbers
    BY <1>1 DEF LogFilesInv, LogRotationInv
  <2> HIDE DEF row
  <2>3. LogGood(newer, lines)  BY <2>2, LogRemovedRow
  <2> HIDE DEF newer
  <2> QED  BY <1>1, <2>1, <2>3, LogOneRow
<1>4. CASE Log!Shift
  <2>1. i \in Log!Numbers /\ i + 1 \in Log!Numbers
    BY <1>2, <1>4 DEF Log!Shift, LogRotationInv, Log!Numbers
  <2>2. file' = Log!Renamed(i, i + 1) /\ UNCHANGED lines  BY <1>4 DEF Log!Shift
  <2> QED  BY <1>1, <2>1, <2>2, LogRenameGood
<1>5. CASE Log!Move
  <2>1. file' = Log!Renamed(0, 0 + 1) /\ UNCHANGED lines  BY <1>5 DEF Log!Move
  <2> QED  BY <1>1, <1>2, <2>1, LogRenameGood
<1> QED  BY <1>3, <1>4, <1>5

(* The other steps leave the files alone, except that open creates one.    *)
LEMMA LogStepOpen == ASSUME Log!LogAssumption, LogIInv, Log!Open PROVE LogFilesInv'
<1> DEFINE row == file[_logfile_name]
           newer == [row EXCEPT ![0] = row[0] \ Log!Absent]
<1>1. UNCHANGED lines  BY DEF Log!Open
<1>2. CASE file' = file  BY <1>1, <1>2 DEF LogIInv, LogFilesInv
<1>3. CASE file' # file
  <2>1. file' = [file EXCEPT ![_logfile_name] = newer] /\ _logfile_name # "stdout"
    BY <1>3 DEF Log!Open
  <2>2. _logfile_name \in Names  BY <2>1 DEF LogIInv, LogRotationInv
  <2>3. LogGood(row, lines) /\ lines \in Nat  BY <2>2 DEF LogIInv, LogFilesInv
  <2> HIDE DEF row
  <2>4. LogGood(newer, lines)  BY <2>3, LogOpenedRow DEF Log!LogAssumption
  <2> HIDE DEF newer
  <2> QED  BY <1>1, <2>1, <2>2, <2>4, LogOneRow DEF LogIInv
<1> QED  BY <1>2, <1>3

(* The calls stay within the range of what may be counted and named.       *)
LEMMA LogStepRotation == ASSUME Log!LogAssumption, LogIInv, Log!Next PROVE LogRotationInv'
<1> USE DEF LogIInv, LogRotationInv
<1>1. MostFiles \in Nat /\ _max_logfiles \in 1 .. MostFiles /\ _curr_logfiles \in 0 .. MostFiles
  BY DEF Log!LogAssumption, Log!Maxima, Log!Numbers
<1>2. CASE Log!log
  <2>1. _curr_logfiles' \in Log!Numbers
    BY <1>1, <1>2 DEF Log!log, Log!Numbers
  <2>2. doing' = "remove" => _logfile_name # "stdout"  BY <1>2 DEF Log!log
  <2>3. doing' # "shift"  BY <1>2 DEF Log!log
  <2> QED  BY <1>2, <2>1, <2>2, <2>3 DEF Log!log
<1>3. CASE Log!Remove
  BY <1>1, <1>3 DEF Log!Remove
<1>4. CASE Log!Shift  BY <1>1, <1>4 DEF Log!Shift
<1>5. CASE Log!Move  BY <1>5 DEF Log!Move
<1>6. CASE Log!Open  BY <1>6 DEF Log!Open
<1>7. CASE Log!FailToOpen  BY <1>7 DEF Log!FailToOpen
<1>8. CASE Log!Restart
  <2>1. _curr_logfiles' \in Log!Numbers  BY <1>8, LogCountedInNumbers DEF Log!Restart
  <2> QED  BY <1>8, <2>1 DEF Log!Restart, Log!LogAssumption
<1>9. CASE \E n \in Names \cup {"stdout"} : Log!set_logfile_name(n)
  BY <1>9 DEF Log!set_logfile_name
<1>10. CASE \E amount \in Log!Maxima : Log!set_max_logfiles(amount)
  BY <1>10 DEF Log!set_max_logfiles
<1> QED  BY <1>2, <1>3, <1>4, <1>5, <1>6, <1>7, <1>8, <1>9, <1>10 DEF Log!Next

(* Every step keeps the invariant.                                         *)
LEMMA LogNextInv == ASSUME Log!LogAssumption, LogIInv, [Log!Next]_(Log!vars) PROVE LogIInv'
<1>1. CASE Log!Next
  <2>1. LogRotationInv'  BY <1>1, LogStepRotation
  <2>2. CASE Log!log  BY <2>1, <2>2, LogStepLog DEF LogIInv
  <2>3. CASE Log!Remove \/ Log!Shift \/ Log!Move  BY <2>1, <2>3, LogStepRotate DEF LogIInv
  <2>4. CASE Log!Open  BY <2>1, <2>4, LogStepOpen DEF LogIInv
  <2>5. CASE \/ Log!FailToOpen \/ Log!Restart
             \/ \E n \in Names \cup {"stdout"} : Log!set_logfile_name(n)
             \/ \E amount \in Log!Maxima : Log!set_max_logfiles(amount)
    <3>1. UNCHANGED <<file, lines>>
      BY <2>5 DEF Log!FailToOpen, Log!Restart, Log!set_logfile_name, Log!set_max_logfiles
    <3> QED  BY <2>1, <3>1 DEF LogIInv, LogFilesInv
  <2> QED  BY <1>1, <2>2, <2>3, <2>4, <2>5 DEF Log!Next
<1>2. CASE UNCHANGED Log!vars
  BY <1>2 DEF Log!vars, LogIInv, LogFilesInv, LogRotationInv
<1> QED  BY <1>1, <1>2

(* The invariant holds of every behaviour.                                 *)
THEOREM LogInvariant == ASSUME Log!LogAssumption PROVE Log!Spec => []LogIInv
<1>1. Log!Init => LogIInv  BY LogInitInv
<1>2. LogIInv /\ [Log!Next]_(Log!vars) => LogIInv'  BY LogNextInv
<1> QED  BY <1>1, <1>2, PTL DEF Log!Spec

(* The smaller the number of a file, the newer its lines, for any number   *)
(* of files and names, at every step of a rotation (log_file_writer.h:151),*)
(* with restarts, failures to open and changes of name and number.         *)
THEOREM LogFilesOrdered == ASSUME Log!LogAssumption PROVE Log!Spec => []Log!Ordered
<1>1. LogIInv => Log!Ordered  BY DEF LogIInv, LogFilesInv, LogGood, LogInOrder, Log!Ordered
<1> QED  BY <1>1, LogInvariant, PTL

-----------------------------------------------------------------------------
(* Types *)

LogContents == Log!Lines \cup {Log!Absent}

(* A line is logged only if there is room for it, and into a file only if  *)
(* that has been opened, which creates it.                                 *)
LogSizesInv ==
  /\ lines \in 0 .. MaxLines
  /\ doing = "log" => _curr_size < _size_per_logfile
  /\ doing = "log" /\ _curr_logfile = "file" =>
       _logfile_name \in Names /\ file[_logfile_name][0] # Log!Absent
  /\ doing = "remove" => _curr_logfiles > 0

LogTypeInv == Log!TypeOK /\ LogSizesInv

(* A file of the row is removed, renamed or written.                       *)
LEMMA LogFileTyped ==
  ASSUME NEW n \in Names, NEW k \in Log!Numbers, NEW newer \in LogContents,
         NEW files \in [Names -> [Log!Numbers -> LogContents]]
  PROVE  [files EXCEPT ![n][k] = newer] \in [Names -> [Log!Numbers -> LogContents]]
OBVIOUS

LEMMA LogRenamedTyped ==
  ASSUME Log!TypeOK, _logfile_name \in Names, NEW j \in Log!Numbers, NEW k \in Log!Numbers
  PROVE  Log!Renamed(j, k) \in [Names -> [Log!Numbers -> LogContents]]
<1> DEFINE row == file[_logfile_name]
<1>1. file \in [Names -> [Log!Numbers -> LogContents]]  BY DEF Log!TypeOK, LogContents
<1>2. row \in [Log!Numbers -> LogContents] /\ Log!Absent \in LogContents  BY <1>1 DEF LogContents
<1>3. row[j] \in LogContents  BY <1>2
<1> QED  BY <1>1, <1>2, <1>3 DEF Log!Renamed

LEMMA LogInitTypes == ASSUME Log!LogAssumption PROVE Log!Init => LogTypeInv
<1> SUFFICES ASSUME Log!Init PROVE LogTypeInv  OBVIOUS
<1>1. 0 \in Log!Numbers  BY DEF Log!LogAssumption, Log!Init, Log!Maxima, Log!Numbers
<1>2. Log!TypeOK  BY <1>1 DEF Log!Init, Log!TypeOK, Log!LogAssumption
<1>3. LogSizesInv  BY DEF Log!Init, LogSizesInv, Log!LogAssumption
<1> QED  BY <1>2, <1>3 DEF LogTypeInv

LEMMA LogTypesOfLog == ASSUME Log!LogAssumption, LogTypeInv, Log!log PROVE LogTypeInv'
<1> USE DEF LogTypeInv
<1>1. MostFiles \in Nat /\ _max_logfiles \in 1 .. MostFiles /\ _curr_logfiles \in 0 .. MostFiles
  BY DEF Log!LogAssumption, Log!TypeOK, Log!Maxima, Log!Numbers
<1>2. lines \in Nat /\ lines' = lines + 1 /\ lines' \in 1 .. MaxLines
  BY DEF Log!log, Log!LogAssumption, LogSizesInv
<1>3. /\ doing = "log" /\ doing' \in {"log", "remove"} /\ UNCHANGED _curr_logfile
      /\ UNCHANGED <<_logfile_name, _max_logfiles, i>>
  BY DEF Log!log
<1>4. /\ file' \in [Names -> [Log!Numbers -> LogContents]]
      /\ _curr_logfile = "file" =>
           _logfile_name \in Names /\ file'[_logfile_name][0] # Log!Absent
  <2>1. CASE _curr_logfile = "file"
    <3> DEFINE n == _logfile_name
               text == file[n][0] \cup {lines'}
    <3>1. n \in Names /\ file[n][0] # Log!Absent  BY <1>3, <2>1 DEF LogSizesInv
    <3>2. 0 \in Log!Numbers  BY <1>1 DEF Log!Numbers
    <3>3. file[n][0] \in LogContents \ {Log!Absent}  BY <3>1, <3>2 DEF Log!TypeOK, LogContents
    <3>4. text \in LogContents /\ text # Log!Absent
      BY <1>2, <3>3 DEF LogContents, Log!Lines, Log!Absent
    <3>5. file' = [file EXCEPT ![n][0] = text]  BY <2>1 DEF Log!log
    <3>6. file \in [Names -> [Log!Numbers -> LogContents]]  BY DEF Log!TypeOK, LogContents
    <3> HIDE DEF n, text
    <3>7. file'[n][0] = text  BY <3>1, <3>2, <3>5, <3>6
    <3>8. file' \in [Names -> [Log!Numbers -> LogContents]]
      BY <3>1, <3>2, <3>4, <3>5, <3>6
    <3> QED  BY <3>1, <3>4, <3>7, <3>8 DEF n
  <2>2. CASE _curr_logfile # "file"
    BY <2>2 DEF Log!log, Log!TypeOK, LogContents
  <2> QED  BY <2>1, <2>2
<1>5. /\ _curr_size' \in 0 .. _size_per_logfile
      /\ doing' = "log" => _curr_size' < _size_per_logfile
  BY <1>3 DEF Log!log, Log!TypeOK, LogSizesInv, Log!LogAssumption
<1>6. _curr_logfiles' \in Log!Numbers /\ (doing' = "remove" => _curr_logfiles' > 0)
  BY <1>1, <1>3 DEF Log!log, Log!Numbers
<1>7. Log!TypeOK'  BY <1>3, <1>4, <1>5, <1>6 DEF Log!TypeOK, LogContents
<1>8. LogSizesInv'  BY <1>2, <1>3, <1>4, <1>5, <1>6 DEF LogSizesInv
<1> QED  BY <1>7, <1>8

LEMMA LogTypesOfRotate ==
  ASSUME Log!LogAssumption, LogIInv, LogTypeInv, Log!Remove \/ Log!Shift \/ Log!Move
  PROVE  LogTypeInv'
<1> USE DEF LogTypeInv
<1>1. _logfile_name \in Names  BY DEF LogIInv, Log!Remove, Log!Shift, Log!Move, LogRotationInv
<1>2. MostFiles \in Nat /\ _curr_logfiles \in 0 .. MostFiles /\ 0 \in Log!Numbers /\ 1 \in Log!Numbers
  BY DEF Log!LogAssumption, Log!TypeOK, Log!Maxima, Log!Numbers
<1>3. file \in [Names -> [Log!Numbers -> LogContents]]  BY DEF Log!TypeOK, LogContents
<1>4. CASE Log!Remove
  <2>1. file' \in [Names -> [Log!Numbers -> LogContents]]
    BY <1>1, <1>2, <1>3, <1>4, LogFileTyped DEF Log!Remove, LogContents, Log!Numbers
  <2>2. i' \in Log!Numbers  BY <1>2, <1>4 DEF Log!Remove, LogSizesInv, Log!Numbers
  <2> QED  BY <1>4, <2>1, <2>2 DEF Log!Remove, Log!TypeOK, LogSizesInv, LogContents
<1>5. CASE Log!Shift
  <2>1. i \in Log!Numbers /\ i + 1 \in Log!Numbers /\ i - 1 \in Log!Numbers
    BY <1>2, <1>5 DEF LogIInv, LogRotationInv, Log!Shift, Log!TypeOK, Log!Numbers
  <2>2. file' \in [Names -> [Log!Numbers -> LogContents]]
    BY <1>1, <1>5, <2>1, LogRenamedTyped DEF Log!Shift
  <2> QED  BY <1>5, <2>1, <2>2 DEF Log!Shift, Log!TypeOK, LogSizesInv, LogContents
<1>6. CASE Log!Move
  <2>1. file' \in [Names -> [Log!Numbers -> LogContents]]
    BY <1>1, <1>2, <1>6, LogRenamedTyped DEF Log!Move
  <2>2. _curr_logfile' \in {"file", "stdout", "NULL"}
    BY <1>6 DEF Log!Move, Log!Close, Log!TypeOK
  <2> QED  BY <1>6, <2>1, <2>2 DEF Log!Move, Log!TypeOK, LogSizesInv, LogContents
<1> QED  BY <1>4, <1>5, <1>6

LEMMA LogTypesOfOpen == ASSUME Log!LogAssumption, LogTypeInv, Log!Open PROVE LogTypeInv'
<1> USE DEF LogTypeInv
<1>1. MostFiles \in Nat /\ 0 \in Log!Numbers
  BY DEF Log!LogAssumption, Log!TypeOK, Log!Maxima, Log!Numbers
<1>2. file \in [Names -> [Log!Numbers -> LogContents]]  BY DEF Log!TypeOK, LogContents
<1>3. CASE _logfile_name = "stdout"
  BY <1>3 DEF Log!Open, Log!TypeOK, LogSizesInv, Log!LogAssumption
<1>4. CASE _logfile_name # "stdout"
  <2> DEFINE n == _logfile_name
             there == file[n][0] \ Log!Absent
  <2>1. n \in Names  BY <1>4 DEF Log!TypeOK
  <2>2. file[n][0] \in LogContents  BY <1>1, <1>2, <2>1
  <2>3. there \in Log!Lines /\ there # Log!Absent
    BY <2>2 DEF LogContents, Log!Lines, Log!Absent
  <2>4. Cardinality(there) \in Nat
    <3>1. IsFiniteSet(1 .. MaxLines)  BY FS_Interval DEF Log!LogAssumption
    <3> QED  BY <2>3, <3>1, FS_Subset, FS_CardinalityType DEF Log!Lines
  <2>5. /\ file' = [file EXCEPT ![n][0] = there]
        /\ _curr_size' = Log!AtMost(_size_per_logfile - 1, Log!Cardinality(there))
        /\ _curr_logfile' = "file" /\ doing' = "log"
        /\ UNCHANGED <<_logfile_name, _max_logfiles, _curr_logfiles, i, lines>>
    BY <1>4 DEF Log!Open
  <2> HIDE DEF there, n
  <2>6. file' \in [Names -> [Log!Numbers -> LogContents]] /\ file'[n][0] = there
    BY <1>1, <1>2, <2>1, <2>3, <2>5 DEF LogContents
  <2>7. _curr_size' \in 0 .. _size_per_logfile /\ _curr_size' < _size_per_logfile
    BY <2>4, <2>5, LogCounts DEF Log!AtMost, Log!LogAssumption
  <2>8. Log!TypeOK'  BY <2>5, <2>6, <2>7 DEF Log!TypeOK, LogContents
  <2>9. LogSizesInv'  BY <2>1, <2>3, <2>5, <2>6, <2>7 DEF LogSizesInv, n
  <2> QED  BY <2>8, <2>9
<1> QED  BY <1>3, <1>4

LEMMA LogNextTypes ==
  ASSUME Log!LogAssumption, LogIInv, LogTypeInv, [Log!Next]_(Log!vars)
  PROVE  LogTypeInv'
<1> USE DEF LogTypeInv
<1>1. MostFiles \in Nat /\ 0 \in Log!Numbers
  BY DEF Log!LogAssumption, Log!TypeOK, Log!Maxima, Log!Numbers
<1>2. CASE Log!Restart
  <2>1. _curr_logfiles' \in Log!Numbers  BY <1>1, <1>2, LogCountedInNumbers DEF Log!Restart, LogIInv
  <2> QED  BY <1>1, <1>2, <2>1 DEF Log!Restart, Log!TypeOK, LogSizesInv, Log!LogAssumption
<1>3. CASE Log!FailToOpen  BY <1>3 DEF Log!FailToOpen, Log!TypeOK, LogSizesInv, Log!LogAssumption
<1>4. CASE \E n \in Names \cup {"stdout"} : Log!set_logfile_name(n)
  BY <1>4 DEF Log!set_logfile_name, Log!Close, Log!TypeOK, LogSizesInv
<1>5. CASE \E amount \in Log!Maxima : Log!set_max_logfiles(amount)
  BY <1>5 DEF Log!set_max_logfiles, Log!TypeOK, LogSizesInv
<1>6. CASE UNCHANGED Log!vars  BY <1>6 DEF Log!vars, Log!TypeOK, LogSizesInv
<1> QED
  BY <1>2, <1>3, <1>4, <1>5, <1>6, LogTypesOfLog, LogTypesOfRotate, LogTypesOfOpen DEF Log!Next

(* Sizes, counts and the numbers of files stay in their ranges, and a line *)
(* is never put into a file that is not there (log_file_writer.h:105).     *)
THEOREM LogTyped == ASSUME Log!LogAssumption PROVE Log!Spec => []Log!TypeOK
<1>1. Log!Init => LogTypeInv  BY LogInitTypes
<1>2. LogIInv /\ LogTypeInv /\ [Log!Next]_(Log!vars) => LogTypeInv'  BY LogNextTypes
<1>3. LogTypeInv => Log!TypeOK  BY DEF LogTypeInv
<1> QED  BY <1>1, <1>2, <1>3, LogInvariant, PTL DEF Log!Spec

-----------------------------------------------------------------------------
(* Only the oldest are dropped *)

(* A row of files, whose lines are all those that are newer than some.     *)
LogKept(row) == UNION {row[k] \ Log!Absent : k \in Log!Numbers}
LogWhole(row, last) == \A line \in LogKept(row) : line .. last \subseteq LogKept(row)

(* The files behind the first are those with the numbers 1, 2 ... p; and   *)
(* while a rotation moves them up, all but the one after p, up to c.       *)
LogStanding(row, p) == \A k \in Log!Numbers \ {0} : row[k] # Log!Absent <=> k <= p
LogParted(row, p, c) ==
  \A k \in Log!Numbers \ {0} : row[k] # Log!Absent <=> k <= p \/ (p + 2 <= k /\ k <= c)

(* Which files there are when nothing has happened that they may be        *)
(* miscounted for.  One more than is counted may be there: the constructor *)
(* does not count the last that may exist.                                 *)
LogRowInv ==
  /\ _curr_logfiles <= _max_logfiles
  /\ doing # "open" => file[Configured][0] # Log!Absent
  /\ doing \in {"log", "open"} =>
       \/ LogStanding(file[Configured], _curr_logfiles)
       \/ _curr_logfiles < _max_logfiles /\ LogStanding(file[Configured], _curr_logfiles + 1)
  /\ doing = "remove" =>
       \/ LogStanding(file[Configured], _curr_logfiles - 1)
       \/ LogStanding(file[Configured], _curr_logfiles)
  /\ doing = "shift" =>
       /\ i \in 0 .. _curr_logfiles - 1
       /\ LogParted(file[Configured], i, _curr_logfiles)

LogKeptInv ==
  clean =>
    /\ _logfile_name = Configured
    /\ doing = "log" => _curr_logfile = "file"
    /\ LogWhole(file[Configured], lines)
    /\ LogRowInv

(* What is removed is the oldest.                                          *)
LEMMA LogWholeRemoved ==
  ASSUME NEW row, NEW last \in Nat, LogGood(row, last), LogWhole(row, last), MostFiles \in Nat,
         NEW k \in Log!Numbers, \A j \in Log!Numbers : j > k => row[j] = Log!Absent
  PROVE  LogWhole([row EXCEPT ![k] = Log!Absent], last)
<1> DEFINE result == [row EXCEPT ![k] = Log!Absent]
<1>1. row \in LogRows  BY DEF LogGood
<1>2. \A j \in Log!Numbers : result[j] = IF j = k THEN Log!Absent ELSE row[j]  BY <1>1 DEF LogRows
<1> HIDE DEF result
<1> SUFFICES ASSUME NEW line \in LogKept(result), NEW m \in line .. last
             PROVE  m \in LogKept(result)
  BY DEF LogWhole, result
<1>3. PICK j \in Log!Numbers : line \in result[j] \ Log!Absent  BY DEF LogKept
<1>4. j # k /\ line \in row[j] \ Log!Absent  BY <1>2, <1>3
<1>5. j < k  BY <1>4 DEF Log!Numbers
<1>6. line \in Nat /\ line \in LogKept(row)  BY <1>1, <1>4 DEF LogRows, LogKept
<1>7. m \in LogKept(row)  BY <1>6 DEF LogWhole
<1>8. PICK l \in Log!Numbers : m \in row[l] \ Log!Absent  BY <1>7 DEF LogKept
<1>9. l # k
  <2> SUFFICES ASSUME l = k PROVE FALSE  OBVIOUS
  <2>1. m < line  BY <1>4, <1>5, <1>8 DEF LogGood, LogInOrder
  <2> QED  BY <1>6, <2>1
<1> QED  BY <1>2, <1>8, <1>9 DEF LogKept

(* A row that keeps the same lines stays whole.                            *)
LEMMA LogWholeRenamed ==
  ASSUME NEW row \in LogRows, NEW k \in Log!Numbers, k + 1 \in Log!Numbers, row[k + 1] = Log!Absent
  PROVE  LogKept([row EXCEPT ![k + 1] = row[k], ![k] = Log!Absent]) = LogKept(row)
<1> DEFINE result == [row EXCEPT ![k + 1] = row[k], ![k] = Log!Absent]
<1>1. k \in Int /\ k # k + 1  BY DEF Log!Numbers
<1>2. \A j \in Log!Numbers : result[j] = IF j = k THEN Log!Absent
                                     ELSE IF j = k + 1 THEN row[k] ELSE row[j]
  BY <1>1 DEF LogRows
<1> HIDE DEF result
<1>3. ASSUME NEW line, line \in LogKept(result) PROVE line \in LogKept(row)
  <2>1. PICK j \in Log!Numbers : line \in result[j] \ Log!Absent  BY <1>3 DEF LogKept
  <2> QED  BY <1>2, <2>1 DEF LogKept
<1>4. ASSUME NEW line, line \in LogKept(row) PROVE line \in LogKept(result)
  <2>1. PICK j \in Log!Numbers : line \in row[j] \ Log!Absent  BY <1>4 DEF LogKept
  <2>2. CASE j = k
    <3>1. line \in result[k + 1] \ Log!Absent  BY <1>1, <1>2, <2>1, <2>2
    <3> QED  BY <3>1 DEF LogKept
  <2>3. CASE j # k
    <3>1. j # k + 1  BY <2>1
    <3>2. line \in result[j] \ Log!Absent  BY <1>2, <2>1, <2>3, <3>1
    <3> QED  BY <3>2 DEF LogKept
  <2> QED  BY <2>2, <2>3
<1>5. LogKept(result) = LogKept(row)  BY <1>3, <1>4
<1> QED  BY <1>5 DEF result

(* The constructor counts the files that are there, but for the last that  *)
(* may exist.                                                              *)
LEMMA LogCountedStanding ==
  ASSUME Log!LogAssumption, LogRotationInv, NEW p \in Nat, p <= _max_logfiles,
         LogStanding(file[Configured], p)
  PROVE  /\ p < _max_logfiles => Log!Counted = p
         /\ p = _max_logfiles => Log!Counted = p - 1
<1> DEFINE top == IF p < _max_logfiles THEN p ELSE p - 1
           S == {k \in 1 .. _max_logfiles - 1 : \A j \in 1 .. k : file[Configured][j] # Log!Absent}
<1>1. MostFiles \in Nat /\ _max_logfiles \in 1 .. MostFiles
  BY DEF Log!LogAssumption, LogRotationInv, Log!Maxima
<1>2. top \in Nat /\ top <= _max_logfiles - 1 /\ top <= p  BY <1>1
<1>3. \A j \in 1 .. _max_logfiles : file[Configured][j] # Log!Absent <=> j <= p
  BY <1>1 DEF LogStanding, Log!Numbers
<1>4. \A k \in 1 .. _max_logfiles - 1 : k <= p <=> k <= top  BY <1>1
<1>5. S = 1 .. top
  <2>1. ASSUME NEW k \in S PROVE k \in 1 .. top
    <3>1. file[Configured][k] # Log!Absent /\ k \in 1 .. _max_logfiles - 1  BY <1>1
    <3>2. k <= p  BY <1>1, <1>3, <3>1
    <3> QED  BY <1>2, <1>4, <3>1, <3>2
  <2>2. ASSUME NEW k \in 1 .. top PROVE k \in S
    <3>1. k \in 1 .. _max_logfiles - 1  BY <1>1, <1>2
    <3>2. \A j \in 1 .. k : file[Configured][j] # Log!Absent  BY <1>1, <1>2, <1>3
    <3> QED  BY <3>1, <3>2
  <2> QED  BY <2>1, <2>2
<1> HIDE DEF top
<1>6. Cardinality(1 .. top) = top  BY <1>2, FS_Interval
<1>7. Log!Counted = Cardinality(S)  BY LogCounts DEF Log!Counted
<1>8. Log!Counted = top  BY <1>5, <1>6, <1>7
<1> QED  BY <1>8, <1>1 DEF top

LEMMA LogInitKept == ASSUME Log!ToAFile PROVE Log!Init => LogKeptInv
<1> SUFFICES ASSUME Log!Init PROVE LogKeptInv  OBVIOUS
<1> DEFINE row == file[Configured]
<1>1. \A k \in Log!Numbers : row[k] = Log!Absent  BY DEF Log!Init, Log!ToAFile
<1>2. LogKept(row) = {}  BY <1>1 DEF LogKept
<1>3. LogStanding(row, 0)  BY <1>1 DEF LogStanding, Log!Numbers
<1>4. 0 <= _max_logfiles  BY DEF Log!Init, Log!Maxima, Log!ToAFile, Log!LogAssumption
<1> QED  BY <1>2, <1>3, <1>4 DEF Log!Init, LogKeptInv, LogRowInv, LogWhole

(* The new line is newer than those that are kept.                         *)
LEMMA LogKeptByLog == ASSUME Log!ToAFile, LogIInv, LogTypeInv, LogKeptInv, Log!log PROVE LogKeptInv'
<1> SUFFICES ASSUME clean PROVE LogKeptInv'
  BY DEF Log!log, LogKeptInv
<1> DEFINE row == file[Configured]
           newer == [row EXCEPT ![0] = @ \cup {lines + 1}]
<1>1. /\ _logfile_name = Configured /\ _curr_logfile = "file" /\ doing = "log"
      /\ LogWhole(row, lines) /\ LogRowInv
  BY DEF LogKeptInv, Log!log
<1>2. lines \in Nat /\ lines' = lines + 1  BY DEF Log!log, LogIInv, LogFilesInv
<1>3. row \in LogRows /\ Configured \in Names  BY DEF LogIInv, LogFilesInv, Log!ToAFile
<1>4. file' = [file EXCEPT ![Configured] = newer]  BY <1>1, <1>2 DEF Log!log
<1>5. file'[Configured] = newer  BY <1>3, <1>4 DEF LogIInv, LogFilesInv
<1>6. /\ MostFiles \in Nat /\ _max_logfiles \in 1 .. MostFiles
      /\ _curr_logfiles \in 0 .. MostFiles /\ 0 \in Log!Numbers
  BY DEF LogTypeInv, Log!TypeOK, Log!Maxima, Log!Numbers, Log!ToAFile, Log!LogAssumption
<1>7. \A k \in Log!Numbers : newer[k] = IF k = 0 THEN row[0] \cup {lines + 1} ELSE row[k]
  BY <1>3, <1>6 DEF LogRows
<1>8. LogWhole(row, lines)  BY <1>1
<1>9. \A k \in Log!Numbers \ {0} : newer[k] = row[k]  BY <1>7
<1>10. newer[0] # Log!Absent  BY <1>2, <1>6, <1>7 DEF Log!Absent
<1>11. \A p : LogStanding(row, p) <=> LogStanding(newer, p)  BY <1>9 DEF LogStanding
<1>12. \A line \in LogKept(row) : line \in Nat  BY <1>3 DEF LogKept, LogRows
<1> HIDE DEF newer, row
<1>13. LogKept(newer) = LogKept(row) \cup {lines + 1}
  <2>1. lines + 1 \in newer[0] \ Log!Absent  BY <1>2, <1>6, <1>7 DEF Log!Absent
  <2>2. ASSUME NEW line, line \in LogKept(newer) PROVE line \in LogKept(row) \cup {lines + 1}
    <3>1. PICK k \in Log!Numbers : line \in newer[k] \ Log!Absent  BY <2>2 DEF LogKept
    <3> QED  BY <1>7, <3>1 DEF LogKept
  <2>3. ASSUME NEW line, line \in LogKept(row) PROVE line \in LogKept(newer)
    <3>1. PICK k \in Log!Numbers : line \in row[k] \ Log!Absent  BY <2>3 DEF LogKept
    <3>2. line \in newer[k] \ Log!Absent  BY <1>7, <3>1
    <3> QED  BY <3>2 DEF LogKept
  <2>4. lines + 1 \in LogKept(newer)  BY <1>6, <2>1 DEF LogKept
  <2> QED  BY <2>2, <2>3, <2>4
<1>14. LogWhole(newer, lines + 1)
  <2> SUFFICES ASSUME NEW line \in LogKept(newer), NEW m \in line .. lines + 1
               PROVE  m \in LogKept(newer)
    BY DEF LogWhole
  <2>1. CASE line = lines + 1  BY <1>2, <1>13, <2>1
  <2>2. CASE line \in LogKept(row)
    <3>1. m = lines + 1 \/ m \in line .. lines  BY <1>2, <1>12, <2>2
    <3> QED  BY <1>8, <1>13, <2>2, <3>1 DEF LogWhole
  <2> QED  BY <1>13, <2>1, <2>2
<1>15. LogRowInv'
  <2> DEFINE c == _curr_logfiles
             max == _max_logfiles
  <2>1. LogStanding(row, c) \/ (c < max /\ LogStanding(row, c + 1))
    BY <1>1 DEF LogRowInv, row
  <2>2. LogStanding(newer, c) \/ (c < max /\ LogStanding(newer, c + 1))  BY <1>11, <2>1
  <2>3. c <= max /\ c \in Int /\ max \in Int  BY <1>1, <1>6 DEF LogRowInv
  <2>4. /\ doing' \in {"log", "remove"} /\ max' = max
        /\ doing' = "log" => c' = c
        /\ doing' = "remove" => c' = IF c < max THEN c + 1 ELSE c
    BY <1>1 DEF Log!log, Log!ToAFile
  <2> HIDE DEF c, max
  <2>5. CASE doing' = "log"
    <3>1. /\ c' <= max'
          /\ LogStanding(newer, c') \/ (c' < max' /\ LogStanding(newer, c' + 1))
      BY <2>2, <2>3, <2>4, <2>5
    <3> QED  BY <1>5, <1>10, <2>5, <3>1 DEF LogRowInv, c, max
  <2>6. CASE doing' = "remove"
    <3>1. c' <= max' /\ (LogStanding(newer, c' - 1) \/ LogStanding(newer, c'))
      <4>1. CASE c < max
        <5>1. c' = c + 1 /\ c' - 1 = c  BY <2>3, <2>4, <2>6, <4>1
        <5> QED  BY <2>2, <2>3, <2>4, <4>1, <5>1
      <4>2. CASE ~(c < max)
        <5>1. c' = c  BY <2>4, <2>6, <4>2
        <5> QED  BY <2>2, <2>3, <2>4, <4>2, <5>1
      <4> QED  BY <4>1, <4>2
    <3> QED  BY <1>5, <1>10, <2>6, <3>1 DEF LogRowInv, c, max
  <2> QED  BY <2>4, <2>5, <2>6
<1>16. /\ _logfile_name' = _logfile_name /\ _curr_logfile' = _curr_logfile
  BY DEF Log!log
<1> QED  BY <1>1, <1>2, <1>5, <1>14, <1>15, <1>16 DEF LogKeptInv

(* Every file is moved up into the place that has become free, so that     *)
(* nothing is lost but the file that is removed at first, and none is      *)
(* newer than it.                                                          *)
LEMMA LogKeptByRotate ==
  ASSUME Log!ToAFile, LogIInv, LogTypeInv, LogKeptInv, Log!Remove \/ Log!Shift \/ Log!Move
  PROVE  LogKeptInv'
<1> SUFFICES ASSUME clean PROVE LogKeptInv'
  BY DEF Log!Remove, Log!Shift, Log!Move, LogKeptInv
<1> DEFINE row == file[Configured]
           c == _curr_logfiles
<1>1. _logfile_name = Configured /\ LogWhole(row, lines) /\ LogRowInv
  BY DEF LogKeptInv
<1>2. /\ LogGood(row, lines) /\ lines \in Nat /\ row \in LogRows /\ Configured \in Names
      /\ file \in [Names -> LogRows]
  BY DEF LogIInv, LogFilesInv, Log!ToAFile, LogGood
<1>3. /\ MostFiles \in Nat /\ _max_logfiles \in 1 .. MostFiles /\ c \in 0 .. MostFiles
      /\ c <= _max_logfiles /\ 0 \in Log!Numbers /\ 1 \in Log!Numbers /\ c \in Log!Numbers
  BY <1>1 DEF LogTypeInv, Log!TypeOK, Log!Maxima, Log!Numbers, LogRowInv, Log!ToAFile, Log!LogAssumption
<1>4. /\ UNCHANGED <<lines, clean, _logfile_name, _max_logfiles, _curr_logfiles>>
      /\ doing # "log" /\ doing # "open" /\ doing' # "log"
  BY DEF Log!Remove, Log!Shift, Log!Move
<1>5. row[0] # Log!Absent  BY <1>1, <1>4 DEF LogRowInv
<1>6. CASE Log!Remove
  <2> DEFINE newer == [row EXCEPT ![c] = Log!Absent]
  <2>1. doing = "remove" /\ doing' = "shift" /\ i' = c - 1
        /\ file' = [file EXCEPT ![Configured] = newer]
    BY <1>1, <1>6 DEF Log!Remove
  <2>2. file'[Configured] = newer  BY <1>2, <2>1
  <2>3. c > 0  BY <2>1 DEF LogTypeInv, LogSizesInv
  <2>4. LogStanding(row, c - 1) \/ LogStanding(row, c)  BY <1>1, <2>1 DEF LogRowInv
  <2>5. \A k \in Log!Numbers : newer[k] = IF k = c THEN Log!Absent ELSE row[k]  BY <1>2 DEF LogRows
  <2> HIDE DEF row
  <2>6. \A k \in Log!Numbers : k > c => row[k] = Log!Absent
    BY <1>3, <2>4 DEF LogStanding, Log!Numbers
  <2>7. LogWhole(newer, lines)  BY <1>1, <1>2, <1>3, <2>6, LogWholeRemoved
  <2> HIDE DEF newer
  <2>8. LogParted(newer, c - 1, c)
    BY <1>3, <2>4, <2>5 DEF LogStanding, LogParted, Log!Numbers
  <2>9. newer[0] # Log!Absent  BY <1>3, <1>5, <2>3, <2>5
  <2>10. c - 1 \in 0 .. c - 1  BY <1>3, <2>3
  <2>11. LogRowInv'
    BY <1>3, <1>4, <2>1, <2>2, <2>8, <2>9, <2>10 DEF LogRowInv
  <2> QED  BY <1>1, <1>4, <2>1, <2>2, <2>7, <2>11 DEF LogKeptInv
<1>7. CASE Log!Shift
  <2> DEFINE newer == [row EXCEPT ![i + 1] = row[i], ![i] = Log!Absent]
  <2>1. doing = "shift" /\ doing' = "shift" /\ i > 0 /\ i' = i - 1
        /\ file' = Log!Renamed(i, i + 1)
    BY <1>7 DEF Log!Shift
  <2>2. i \in 0 .. c - 1 /\ LogParted(row, i, c)  BY <1>1, <2>1 DEF LogRowInv
  <2>3. /\ i \in Log!Numbers /\ i + 1 \in Log!Numbers /\ i # 0 /\ i + 1 # 0 /\ i \in Int
        /\ i # i + 1
    BY <1>3, <2>1, <2>2 DEF Log!Numbers
  <2>4. row[i] # Log!Absent /\ row[i + 1] = Log!Absent
    BY <2>2, <2>3 DEF LogParted
  <2>5. file' = [file EXCEPT ![Configured] = newer]
    BY <1>1, <1>2, <2>1, <2>4 DEF Log!Renamed
  <2>6. file'[Configured] = newer  BY <1>2, <2>5
  <2>7. \A k \in Log!Numbers : newer[k] = IF k = i THEN Log!Absent
                                    ELSE IF k = i + 1 THEN row[i] ELSE row[k]
    BY <1>2, <2>3 DEF LogRows
  <2> HIDE DEF row
  <2>8. LogWhole(newer, lines)
    <3>1. LogKept(newer) = LogKept(row)  BY <1>2, <2>3, <2>4, LogWholeRenamed
    <3> QED  BY <1>1, <3>1 DEF LogWhole
  <2> HIDE DEF newer
  <2>9. LogParted(newer, i - 1, c)
    <3> SUFFICES ASSUME NEW k \in Log!Numbers \ {0}
                 PROVE  newer[k] # Log!Absent <=> k <= i - 1 \/ (i - 1 + 2 <= k /\ k <= c)
      BY DEF LogParted
    <3>1. row[k] # Log!Absent <=> k <= i \/ (i + 2 <= k /\ k <= c)  BY <2>2 DEF LogParted
    <3>2. k \in Int /\ c \in Int  BY <1>3 DEF Log!Numbers
    <3>3. CASE k = i  BY <2>3, <2>7, <3>2, <3>3
    <3>4. CASE k = i + 1  BY <2>2, <2>3, <2>4, <2>7, <3>2, <3>4
    <3>5. CASE k # i /\ k # i + 1  BY <2>3, <2>7, <3>1, <3>2, <3>5
    <3> QED  BY <3>3, <3>4, <3>5
  <2>10. newer[0] # Log!Absent  BY <1>3, <1>5, <2>3, <2>7
  <2>11. i - 1 \in 0 .. c - 1  BY <1>3, <2>1, <2>2
  <2>12. LogRowInv'
    BY <1>3, <1>4, <2>1, <2>6, <2>9, <2>10, <2>11 DEF LogRowInv
  <2> QED  BY <1>1, <1>4, <2>1, <2>6, <2>8, <2>12 DEF LogKeptInv
<1>8. CASE Log!Move
  <2> DEFINE newer == [row EXCEPT ![0 + 1] = row[0], ![0] = Log!Absent]
  <2>1. doing = "shift" /\ doing' = "open" /\ i = 0 /\ file' = Log!Renamed(0, 0 + 1)
    BY <1>8 DEF Log!Move
  <2>2. i \in 0 .. c - 1 /\ LogParted(row, 0, c)  BY <1>1, <2>1 DEF LogRowInv
  <2>3. 1 \in Log!Numbers \ {0} /\ row[1] = Log!Absent  BY <1>3, <2>2 DEF LogParted
  <2>4. file' = [file EXCEPT ![Configured] = newer]
    BY <1>1, <1>2, <1>5, <2>1 DEF Log!Renamed
  <2>5. file'[Configured] = newer  BY <1>2, <2>4
  <2>6. \A k \in Log!Numbers : newer[k] = IF k = 0 THEN Log!Absent
                                    ELSE IF k = 1 THEN row[0] ELSE row[k]
    BY <1>2, <1>3 DEF LogRows
  <2> HIDE DEF row
  <2>7. LogWhole(newer, lines)
    <3>1. 0 + 1 \in Log!Numbers /\ row[0 + 1] = Log!Absent  BY <2>3
    <3>2. LogKept(newer) = LogKept(row)  BY <1>2, <1>3, <3>1, LogWholeRenamed
    <3> QED  BY <1>1, <3>2 DEF LogWhole
  <2> HIDE DEF newer
  <2>8. LogStanding(newer, c)
    <3> SUFFICES ASSUME NEW k \in Log!Numbers \ {0} PROVE newer[k] # Log!Absent <=> k <= c
      BY DEF LogStanding
    <3>1. k \in Nat /\ k # 0 /\ c \in Int  BY <1>3 DEF Log!Numbers
    <3>2. row[k] # Log!Absent <=> k <= 0 \/ (2 <= k /\ k <= c)  BY <2>2 DEF LogParted
    <3>3. CASE k = 1  BY <1>5, <2>2, <2>6, <3>1, <3>3
    <3>4. CASE k # 1  BY <2>6, <3>1, <3>2, <3>4
    <3> QED  BY <3>3, <3>4
  <2>9. LogRowInv'  BY <1>3, <1>4, <2>1, <2>5, <2>8 DEF LogRowInv
  <2> QED  BY <1>1, <1>4, <2>1, <2>5, <2>7, <2>9 DEF LogKeptInv
<1> QED  BY <1>6, <1>7, <1>8

(* The file that is written is there from then on.                         *)
LEMMA LogKeptByOpen ==
  ASSUME Log!ToAFile, LogIInv, LogTypeInv, LogKeptInv, Log!Open
  PROVE  LogKeptInv'
<1> SUFFICES ASSUME clean PROVE LogKeptInv'
  BY DEF Log!Open, LogKeptInv
<1> DEFINE row == file[Configured]
           newer == [row EXCEPT ![0] = row[0] \ Log!Absent]
<1>1. _logfile_name = Configured /\ LogWhole(row, lines) /\ LogRowInv /\ doing = "open"
  BY DEF LogKeptInv, Log!Open
<1>2. row \in LogRows /\ Configured \in Names /\ file \in [Names -> LogRows]
  BY DEF LogIInv, LogFilesInv, Log!ToAFile
<1>3. 0 \in Log!Numbers
  BY DEF LogTypeInv, Log!TypeOK, Log!Maxima, Log!Numbers, Log!ToAFile, Log!LogAssumption
<1>4. /\ file' = [file EXCEPT ![Configured] = newer] /\ _curr_logfile' = "file"
      /\ doing' = "log"
      /\ UNCHANGED <<lines, clean, _logfile_name, _max_logfiles, _curr_logfiles>>
  BY <1>1, <1>2 DEF Log!Open, Log!ToAFile
<1>5. file'[Configured] = newer  BY <1>2, <1>4
<1>6. \A k \in Log!Numbers : newer[k] = IF k = 0 THEN row[0] \ Log!Absent ELSE row[k]
  BY <1>2 DEF LogRows
<1> HIDE DEF newer, row
<1>7. LogKept(newer) = LogKept(row)
  <2>1. \A k \in Log!Numbers : newer[k] \ Log!Absent = row[k] \ Log!Absent  BY <1>6
  <2> QED  BY <2>1 DEF LogKept
<1>8. LogWhole(newer, lines)  BY <1>1, <1>7 DEF LogWhole
<1>9. \A p : LogStanding(row, p) <=> LogStanding(newer, p)  BY <1>6 DEF LogStanding
<1>10. newer[0] # Log!Absent  BY <1>3, <1>6 DEF Log!Absent
<1>11. LogRowInv'  BY <1>1, <1>4, <1>5, <1>9, <1>10 DEF LogRowInv, row
<1> QED  BY <1>1, <1>4, <1>5, <1>8, <1>11 DEF LogKeptInv

(* A process that is started again counts what is there, except after a    *)
(* rotation that was cut off with a gap in the row.                        *)
LEMMA LogKeptByRestart ==
  ASSUME Log!ToAFile, LogIInv, LogTypeInv, LogKeptInv, Log!Restart
  PROVE  LogKeptInv'
<1> SUFFICES ASSUME clean, ~(doing = "shift" /\ i < _curr_logfiles - 1) PROVE LogKeptInv'
  BY DEF Log!Restart, LogKeptInv
<1> DEFINE row == file[Configured]
           c == _curr_logfiles
           max == _max_logfiles
<1>1. LogWhole(row, lines) /\ LogRowInv  BY DEF LogKeptInv
<1>2. /\ MostFiles \in Nat /\ max \in 1 .. MostFiles /\ c \in 0 .. MostFiles /\ c <= max
      /\ doing \in {"log", "remove", "shift", "open"}
      /\ doing = "remove" => c > 0
  BY <1>1 DEF LogTypeInv, Log!TypeOK, LogSizesInv, Log!Maxima, Log!Numbers, LogRowInv, Log!ToAFile, Log!LogAssumption
<1>3. /\ file' = file /\ lines' = lines /\ max' = max /\ c' = Log!Counted
      /\ doing' = "open" /\ _logfile_name' = Configured
  BY DEF Log!Restart
<1>4. PICK p \in Nat : p <= max /\ LogStanding(row, p)
  <2>1. CASE doing \in {"log", "open"}
    <3>1. LogStanding(row, c) \/ (c < max /\ LogStanding(row, c + 1))  BY <1>1, <2>1 DEF LogRowInv
    <3>2. c \in Nat /\ c + 1 \in Nat /\ (c < max => c + 1 <= max)  BY <1>2
    <3> QED  BY <1>2, <3>1, <3>2
  <2>2. CASE doing = "remove"
    <3>1. LogStanding(row, c) \/ LogStanding(row, c - 1)  BY <1>1, <2>2 DEF LogRowInv
    <3>2. c \in Nat /\ c - 1 \in Nat /\ c - 1 <= max  BY <1>2, <2>2
    <3> QED  BY <1>2, <3>1, <3>2
  <2>3. CASE doing = "shift"
    <3>1. i \in 0 .. c - 1 /\ LogParted(row, i, c)  BY <1>1, <2>3 DEF LogRowInv
    <3>2. i = c - 1  BY <1>2, <2>3, <3>1
    <3>3. c - 1 \in Nat /\ c - 1 <= max  BY <1>2, <3>1
    <3>4. LogStanding(row, c - 1)
      <4> HIDE DEF row
      <4> SUFFICES ASSUME NEW k \in Log!Numbers \ {0} PROVE row[k] # Log!Absent <=> k <= c - 1
        BY DEF LogStanding
      <4>1. k \in Int /\ c \in Int  BY <1>2 DEF Log!Numbers
      <4>2. ~(c - 1 + 2 <= k /\ k <= c)  BY <4>1
      <4> QED  BY <3>1, <3>2, <4>2 DEF LogParted
    <3> QED  BY <3>3, <3>4
  <2> QED  BY <1>2, <2>1, <2>2, <2>3
<1>5. (p < max => Log!Counted = p) /\ (p = max => Log!Counted = p - 1)
  BY <1>4, LogCountedStanding DEF LogIInv, Log!ToAFile, Log!LogAssumption
<1>6. /\ Log!Counted <= max
      /\ LogStanding(row, Log!Counted) \/ (Log!Counted < max /\ LogStanding(row, Log!Counted + 1))
  <2> HIDE DEF row, max
  <2>1. CASE p < max  BY <1>4, <1>5, <2>1
  <2>2. CASE p = max
    <3>1. Log!Counted < max /\ Log!Counted + 1 = p  BY <1>2, <1>4, <1>5, <2>2
    <3> QED  BY <1>2, <1>4, <3>1, <2>2, <1>5
  <2> QED  BY <1>2, <1>4, <2>1, <2>2
<1>7. LogRowInv'  BY <1>3, <1>6 DEF LogRowInv
<1> QED  BY <1>1, <1>3, <1>7 DEF LogKeptInv

(* More files may be allowed than before.                                  *)
LEMMA LogKeptByMaximum ==
  ASSUME Log!ToAFile, LogTypeInv, LogKeptInv, NEW amount \in Log!Maxima, Log!set_max_logfiles(amount)
  PROVE  LogKeptInv'
<1> SUFFICES ASSUME clean, amount >= _max_logfiles PROVE LogKeptInv'
  BY DEF Log!set_max_logfiles, LogKeptInv
<1> DEFINE row == file[Configured]
           c == _curr_logfiles
           max == _max_logfiles
<1>1. max \in Int /\ amount \in Int /\ c \in Int
  BY DEF LogTypeInv, Log!TypeOK, Log!Maxima, Log!Numbers
<1>2. /\ doing = "log" /\ c <= max /\ row[0] # Log!Absent
      /\ LogStanding(row, c) \/ (c < max /\ LogStanding(row, c + 1))
      /\ LogWhole(row, lines) /\ _logfile_name = Configured /\ _curr_logfile = "file"
  BY DEF Log!set_max_logfiles, LogKeptInv, LogRowInv
<1>3. /\ max' = amount /\ doing' = "log"
      /\ UNCHANGED <<file, lines, _curr_logfiles, _logfile_name, _curr_logfile>>
  BY <1>2 DEF Log!set_max_logfiles
<1>4. c <= amount /\ (c < max => c < amount)  BY <1>1, <1>2
<1>5. LogStanding(row, c) \/ (c < amount /\ LogStanding(row, c + 1))  BY <1>2, <1>4
<1>6. LogRowInv'  BY <1>2, <1>3, <1>4, <1>5 DEF LogRowInv
<1> QED  BY <1>2, <1>3, <1>6 DEF LogKeptInv

LEMMA LogNextKept ==
  ASSUME Log!ToAFile, LogIInv, LogTypeInv, LogKeptInv, [Log!Next]_(Log!vars)
  PROVE  LogKeptInv'
<1>1. CASE \/ Log!FailToOpen
           \/ \E n \in Names \cup {"stdout"} : Log!set_logfile_name(n)
  BY <1>1 DEF Log!FailToOpen, Log!set_logfile_name, LogKeptInv
<1>2. CASE UNCHANGED Log!vars
  BY <1>2 DEF Log!vars, LogKeptInv, LogRowInv
<1> QED
  BY <1>1, <1>2, LogKeptByLog, LogKeptByRotate, LogKeptByOpen, LogKeptByRestart, LogKeptByMaximum DEF Log!Next

(* As long as rotations run through, files open, and neither the name nor  *)
(* a smaller number of files is set, what is on disk is all that has been  *)
(* logged since some line: rotate drops only the oldest                    *)
(* (log_file_writer.h:151), for any number of files and any size.          *)
THEOREM OnlyOldestDropped == ASSUME Log!ToAFile PROVE Log!Spec => [](Log!TypeOK /\ Log!DropsOldest)
<1>1. Log!LogAssumption  BY DEF Log!ToAFile
<1>2. Log!Init => LogKeptInv  BY LogInitKept
<1>3. Log!Init => LogTypeInv  BY <1>1, LogInitTypes
<1>4. LogIInv /\ LogTypeInv /\ [Log!Next]_(Log!vars) => LogTypeInv'  BY <1>1, LogNextTypes
<1>5. LogIInv /\ LogTypeInv /\ LogKeptInv /\ [Log!Next]_(Log!vars) => LogKeptInv'  BY LogNextKept
<1>6. LogTypeInv /\ LogKeptInv => Log!TypeOK /\ Log!DropsOldest
  BY DEF LogTypeInv, LogKeptInv, LogWhole, LogKept, Log!DropsOldest
<1> QED  BY <1>1, <1>2, <1>3, <1>4, <1>5, <1>6, LogInvariant, PTL DEF Log!Spec

-----------------------------------------------------------------------------
(* The other parts.  What their own modules prove of them holds when they  *)
(* stand beside each other: a step of MCNext is one of theirs, or leaves   *)
(* them alone.                                                             *)

SlabProved == INSTANCE SlabPoolProofs

(* The log files of the runs behave as LogFileWriter does alone.           *)
LEMMA LogFilesAlone == MCSpec => Log!Spec
<1>1. MCInit => Log!Init  BY DEF MCInit
<1>2. [MCNext]_<<part, vars, fifo, fsb, slab, log, links, piece>> => [Log!Next]_(Log!vars)
  BY DEF MCNext, log, Log!vars
<1> QED  BY <1>1, <1>2, PTL DEF MCSpec, Log!Spec

(* The smaller the number of a log file, the newer its lines               *)
(* (log_file_writer.h:151), as the runs check it.                          *)
THEOREM LogFilesInOrder == MCSpec => []Ordered
<1>1. Log!LogAssumption  BY PartsAssumption DEF Log!ToAFile
<1>2. Log!Spec => []Log!Ordered  BY <1>1, LogFilesOrdered
<1> QED  BY <1>2, LogFilesAlone, PTL DEF Ordered

(* rotate drops only the oldest lines (log_file_writer.h:151), as the runs *)
(* check it.                                                               *)
THEOREM LogFilesDropOldest == MCSpec => []DropsOldest
<1>1. Log!ToAFile  BY PartsAssumption
<1>2. Log!Spec => [](Log!TypeOK /\ Log!DropsOldest)  BY <1>1, OnlyOldestDropped
<1> QED  BY <1>2, LogFilesAlone, PTL DEF DropsOldest

(* The fifo of the runs behaves as Fifo does alone.                        *)
LEMMA FifoAlone == MCSpec => Fifo!Spec
<1>1. MCInit => Fifo!Init  BY DEF MCInit
<1>2. [MCNext]_<<part, vars, fifo, fsb, slab, log, links, piece>> => [Fifo!Next]_(Fifo!vars)
  BY DEF MCNext, fifo, Fifo!vars
<1> QED  BY <1>1, <1>2, PTL DEF MCSpec, Fifo!Spec

(* Items come out of the fifo in the order they went in and no permit is   *)
(* lost (fifo.h:31), as the runs check it.                                 *)
THEOREM FifoStaysIntact == MCSpec => []FifoIntact
<1>1. Fifo!FifoAssumption  BY PartsAssumption
<1>2. Fifo!Spec => []Fifo!TypeOK  BY <1>1, FifoTyped
<1>3. Fifo!Spec => []Fifo!TakesInOrder  BY <1>1, FirstInFirstOut
<1>4. Fifo!Spec => []Fifo!PermitsAddUp  BY <1>1, NoPermitLost
<1> QED  BY <1>2, <1>3, <1>4, FifoAlone, PTL DEF FifoIntact

(* The pool of blocks of the runs behaves as FsbPool does alone.           *)
LEMMA FsbAlone == MCSpec => Fsb!Spec
<1>1. MCInit => Fsb!Init  BY DEF MCInit
<1>2. [MCNext]_<<part, vars, fifo, fsb, slab, log, links, piece>> => [Fsb!Next]_(Fsb!vars)
  BY DEF MCNext, fsb, Fsb!vars
<1> QED  BY <1>1, <1>2, PTL DEF MCSpec, Fsb!Spec

(* No block of the pool is handed out twice or lost, and keys find the     *)
(* blocks they are of and no other (mempool.c:746), as the runs check it.  *)
THEOREM BlocksStayIntact == MCSpec => []BlocksIntact
BY FsbAlone, BlocksTyped, BlocksInOnePlace, NoStaleKeyFinds, LiveKeysFind, PTL
DEF BlocksIntact

(* Numbers, nodes and the minima, lists, runs and chunks of both instances *)
(* are the same.                                                           *)
LEMMA SlabSame ==
  /\ Slab!page_size = SlabProved!page_size /\ Slab!max_size = SlabProved!max_size
  /\ Slab!exact_shift = SlabProved!exact_shift
  /\ Slab!Pages = SlabProved!Pages /\ Slab!Nodes = SlabProved!Nodes
  /\ Slab!Free = SlabProved!Free /\ Slab!NULL = SlabProved!NULL
  /\ \A p : Slab!Slot(p) = SlabProved!Slot(p) /\ Slab!Chunks(p) = SlabProved!Chunks(p)
BY DEF Slab!Pages, SlabProved!Pages, Slab!Free, SlabProved!Free, Slab!NULL, SlabProved!NULL,
       Slab!Slots, SlabProved!Slots, Slab!Nodes, SlabProved!Nodes, Slab!Slot, SlabProved!Slot,
       Slab!page_size, SlabProved!page_size, Slab!max_size, SlabProved!max_size,
       Slab!exact_shift, SlabProved!exact_shift, Slab!Chunks, SlabProved!Chunks

LEMMA SlabCounts ==
  \A S : /\ Slab!Min(S) = SlabProved!Min(S) /\ Slab!Max(S) = SlabProved!Max(S)
         /\ Slab!Cardinality(S) = SlabProved!Cardinality(S)
BY DEF Slab!Min, SlabProved!Min, Slab!Max, SlabProved!Max, Slab!Cardinality, SlabProved!Cardinality

LEMMA SlabLists ==
  /\ \A e, p : Slab!InList(e, p) = SlabProved!InList(e, p)
  /\ \A e, k : Slab!FirstFit(e, k) = SlabProved!FirstFit(e, k)
<1>1. \A e, p : Slab!InList(e, p) = SlabProved!InList(e, p)
  BY DEF Slab!InList, SlabProved!InList
<1>2. \A e, k : Slab!FirstFit(e, k) = SlabProved!FirstFit(e, k)
  BY <1>1, SlabSame, SlabCounts DEF Slab!FirstFit, SlabProved!FirstFit
<1> QED  BY <1>1, <1>2

LEMMA SlabRuns ==
  /\ \A e, p : Slab!Unlinked(e, p) = SlabProved!Unlinked(e, p)
  /\ \A e, p, k : Slab!slab_alloc_pages(e, p, k) = SlabProved!slab_alloc_pages(e, p, k)
  /\ \A e, p, k : Slab!slab_free_pages(e, p, k) = SlabProved!slab_free_pages(e, p, k)
BY SMTT(60)
DEF Slab!slab_alloc_pages, SlabProved!slab_alloc_pages, Slab!slab_free_pages, SlabProved!slab_free_pages,
    Slab!Slab, SlabProved!Slab, Slab!Prev, SlabProved!Prev, Slab!Unlinked, SlabProved!Unlinked,
    Slab!Pages, SlabProved!Pages, Slab!Free, SlabProved!Free, Slab!NULL, SlabProved!NULL,
    Slab!Slots, SlabProved!Slots, Slab!Nodes, SlabProved!Nodes, Slab!Slot, SlabProved!Slot

LEMMA SlabChunks ==
  /\ \A p : /\ Slab!ShiftFor(p) = SlabProved!ShiftFor(p) /\ Slab!TypeFor(p) = SlabProved!TypeFor(p)
            /\ Slab!BitmapChunks(p) = SlabProved!BitmapChunks(p)
  /\ \A e, p : /\ Slab!ShiftOf(e, p) = SlabProved!ShiftOf(e, p)
               /\ Slab!Taken(e, p) = SlabProved!Taken(e, p)
  /\ \A p, k, c : Slab!Address(p, k, c) = SlabProved!Address(p, k, c)
  /\ \A p, k, c, n : Slab!Granted(p, k, c, n) = SlabProved!Granted(p, k, c, n)
BY SlabSame, SlabCounts
DEF Slab!ShiftFor, SlabProved!ShiftFor, Slab!TypeFor, SlabProved!TypeFor,
    Slab!BitmapChunks, SlabProved!BitmapChunks, Slab!ShiftOf, SlabProved!ShiftOf,
    Slab!Taken, SlabProved!Taken, Slab!Address, SlabProved!Address, Slab!Granted, SlabProved!Granted,
    Slab!page_size, SlabProved!page_size

LEMMA SlabRelinked ==
  \A e, p, k, c : Slab!Relinked(e, p, k, c) = SlabProved!Relinked(e, p, k, c)
BY SMTT(60)
DEF Slab!Relinked, SlabProved!Relinked, Slab!Prev, SlabProved!Prev, Slab!Slot, SlabProved!Slot

(* The steps that put a page into its slot or take it out.                 *)
LEMMA AllocChunkSame == \A n : Slab!AllocChunk(n) => SlabProved!AllocChunk(n)
<1> SUFFICES ASSUME NEW n, Slab!AllocChunk(n) PROVE SlabProved!AllocChunk(n)
  OBVIOUS
<1>1. PICK shift : shift = Slab!ShiftFor(n)  BY Zenon
<1>2. PICK slot : slot = Slab!Slot(shift)  BY Zenon
<1>3. PICK type : type = Slab!TypeFor(shift)  BY Zenon
<1>4. PICK page : page = entry.next[slot]  BY Zenon
<1>5. PICK chunks : chunks = Slab!Chunks(shift)  BY Zenon
<1>6. PICK map : map = Slab!Taken(entry, page)  BY Zenon
<1>7. PICK c : c = Slab!Min(chunks \ map)  BY Zenon
<1>8. PICK V : V = Slab!Unlinked(entry, page)  BY Zenon
<1> DEFINE U == IF map \cup {c} = chunks
                THEN [V EXCEPT !.next[page] = -1, !.prev[page] = [to |-> -1, type |-> type]]
                ELSE entry
           Takes == /\ n < Slab!max_size /\ page # slot
                    /\ entry' = IF type = "small" THEN U
                                ELSE [U EXCEPT !.slab[page].map = @ \cup {c}]
                    /\ bitmap' = IF type = "small" THEN [bitmap EXCEPT ![page] = @ \cup {c}]
                                 ELSE bitmap
                    /\ Slab!Granted(page, shift, c, n)
<1>9. Takes
  BY <1>1, <1>2, <1>3, <1>4, <1>5, <1>6, <1>7, <1>8 DEF Slab!AllocChunk, Slab!Prev, Slab!NULL
<1>10. /\ shift = SlabProved!ShiftFor(n) /\ slot = SlabProved!Slot(shift)
       /\ type = SlabProved!TypeFor(shift)
       /\ chunks = SlabProved!Chunks(shift) /\ map = SlabProved!Taken(entry, page)
       /\ c = SlabProved!Min(chunks \ map) /\ V = SlabProved!Unlinked(entry, page)
       /\ Slab!max_size = SlabProved!max_size
       /\ SlabProved!Granted(page, shift, c, n)
  BY <1>1, <1>2, <1>3, <1>4, <1>5, <1>6, <1>7, <1>8, <1>9,
     SlabSame, SlabCounts, SlabRuns, SlabChunks
<1> QED  BY <1>4, <1>9, <1>10 DEF SlabProved!AllocChunk, SlabProved!Prev, SlabProved!NULL

LEMMA AllocPageSame == \A n : Slab!AllocPage(n) => SlabProved!AllocPage(n)
<1> SUFFICES ASSUME NEW n, Slab!AllocPage(n) PROVE SlabProved!AllocPage(n)
  OBVIOUS
<1>1. PICK shift : shift = Slab!ShiftFor(n)  BY Zenon
<1>2. PICK slot : slot = Slab!Slot(shift)  BY Zenon
<1>3. PICK type : type = Slab!TypeFor(shift)  BY Zenon
<1>4. PICK page : page = Slab!FirstFit(entry, 1)  BY Zenon
<1>5. PICK U : U = Slab!slab_alloc_pages(entry, page, 1)  BY Zenon
<1>6. PICK c : c = IF type = "small" THEN Slab!BitmapChunks(shift) ELSE 0  BY Zenon
<1> DEFINE Takes == /\ n < Slab!max_size /\ entry.next[slot] = slot /\ page # -1
                    /\ entry' = [U EXCEPT
                         !.slab[page] = [n |-> IF type = "exact" THEN 0 ELSE shift, mark |-> "",
                                         map |-> IF type = "small" THEN {} ELSE {c}],
                         !.next[page] = slot, !.prev[page] = [to |-> slot, type |-> type],
                         !.next[slot] = page]
                    /\ bitmap' = IF type = "small" THEN [bitmap EXCEPT ![page] = 0 .. c] ELSE bitmap
                    /\ Slab!Granted(page, shift, c, n)
<1>7. Takes
  BY <1>1, <1>2, <1>3, <1>4, <1>5, <1>6 DEF Slab!AllocPage, Slab!Prev, Slab!NULL, Slab!Slab
<1>8. /\ shift = SlabProved!ShiftFor(n) /\ slot = SlabProved!Slot(shift)
      /\ type = SlabProved!TypeFor(shift)
      /\ page = SlabProved!FirstFit(entry, 1) /\ U = SlabProved!slab_alloc_pages(entry, page, 1)
      /\ c = IF type = "small" THEN SlabProved!BitmapChunks(shift) ELSE 0
      /\ Slab!max_size = SlabProved!max_size
      /\ SlabProved!Granted(page, shift, c, n)
  BY <1>1, <1>2, <1>3, <1>4, <1>5, <1>6, <1>7, SlabSame, SlabLists, SlabRuns, SlabChunks
<1> QED  BY <1>7, <1>8 DEF SlabProved!AllocPage, SlabProved!Prev, SlabProved!NULL, SlabProved!Slab

LEMMA FreeChunkSame == \A a : Slab!FreeChunk(a) => SlabProved!FreeChunk(a)
<1> SUFFICES ASSUME NEW a, Slab!FreeChunk(a) PROVE SlabProved!FreeChunk(a)
  OBVIOUS
<1>1. PICK page : page = a.at \div Slab!page_size  BY Zenon
<1>2. PICK type : type = entry.prev[page].type  BY Zenon
<1>3. PICK shift : shift = Slab!ShiftOf(entry, page)  BY Zenon
<1>4. PICK c : c = (a.at % Slab!page_size) \div 2 ^ shift  BY Zenon
<1>5. PICK map : map = Slab!Taken(entry, page)  BY Zenon
<1>6. PICK rest : rest = map \ {c}  BY Zenon
<1>7. PICK U : U = IF entry.next[page] = -1 THEN Slab!Relinked(entry, page, shift, type) ELSE entry
  OBVIOUS
<1>8. PICK V : V = IF type = "small" THEN U ELSE [U EXCEPT !.slab[page].map = rest]  BY Zenon
<1>9. PICK empty :
        empty <=> rest = IF type = "small" THEN 0 .. Slab!BitmapChunks(shift) - 1 ELSE {}
  OBVIOUS
<1> DEFINE Puts == /\ type # "page" /\ c \in map
                   /\ entry' = IF empty THEN Slab!slab_free_pages(V, page, 1) ELSE V
                   /\ bitmap' = IF type = "small"
                                THEN [bitmap EXCEPT ![page] = IF empty THEN {} ELSE rest]
                                ELSE bitmap
<1>10. Puts
  BY <1>1, <1>2, <1>3, <1>4, <1>5, <1>6, <1>7, <1>8, <1>9 DEF Slab!FreeChunk, Slab!NULL
<1>11. /\ page = a.at \div SlabProved!page_size /\ shift = SlabProved!ShiftOf(entry, page)
       /\ c = (a.at % SlabProved!page_size) \div 2 ^ shift /\ map = SlabProved!Taken(entry, page)
       /\ U = IF entry.next[page] = -1 THEN SlabProved!Relinked(entry, page, shift, type) ELSE entry
       /\ SlabProved!BitmapChunks(shift) = Slab!BitmapChunks(shift)
       /\ SlabProved!slab_free_pages(V, page, 1) = Slab!slab_free_pages(V, page, 1)
  BY <1>1, <1>3, <1>4, <1>5, <1>7, SlabSame, SlabRelinked, SlabRuns, SlabChunks
<1> QED  BY <1>2, <1>6, <1>8, <1>9, <1>10, <1>11 DEF SlabProved!FreeChunk, SlabProved!NULL

LEMMA SlabAsProved ==
  /\ Slab!Init => SlabProved!Init
  /\ Slab!Next => SlabProved!Next
<1>1. Slab!Init => SlabProved!Init
  BY DEF Slab!Init, SlabProved!Init, Slab!Slab, SlabProved!Slab, Slab!Prev, SlabProved!Prev,
         Slab!Pages, SlabProved!Pages, Slab!Free, SlabProved!Free, Slab!NULL, SlabProved!NULL,
         Slab!Slots, SlabProved!Slots, Slab!Nodes, SlabProved!Nodes, Slab!Slot, SlabProved!Slot
<1>2. \A n : Slab!AllocRun(n) => SlabProved!AllocRun(n)
  BY SlabSame, SlabLists, SlabRuns DEF Slab!AllocRun, SlabProved!AllocRun
<1>3. \A n : Slab!g_slab_alloc(n) => SlabProved!g_slab_alloc(n)
  BY <1>2, AllocChunkSame, AllocPageSame, SlabCounts DEF Slab!g_slab_alloc, SlabProved!g_slab_alloc
<1>4. \A a : Slab!FreeRun(a) => SlabProved!FreeRun(a)
  BY SlabSame, SlabRuns DEF Slab!FreeRun, SlabProved!FreeRun
<1>5. \A a : Slab!g_slab_free(a) => SlabProved!g_slab_free(a)
  BY <1>4, FreeChunkSame DEF Slab!g_slab_free, SlabProved!g_slab_free
<1>6. Slab!Next => SlabProved!Next  BY <1>3, <1>5 DEF Slab!Next, SlabProved!Next
<1> QED  BY <1>1, <1>6

(* The slab pool of the runs behaves as SlabPool does alone.               *)
LEMMA SlabAlone == MCSpec => SlabProved!Spec
<1>1. MCInit => SlabProved!Init  BY SlabAsProved DEF MCInit
<1>2. [MCNext]_<<part, vars, fifo, fsb, slab, log, links, piece>>
        => [SlabProved!Next]_(SlabProved!vars)
  BY SlabAsProved DEF MCNext, slab, SlabProved!vars
<1> QED  BY <1>1, <1>2, PTL DEF MCSpec, SlabProved!Spec

LEMMA SlabAssumed == SlabProved!SlabAssumption
BY PartsAssumption DEF Slab!SlabAssumption, SlabProved!SlabAssumption

(* The slab pool hands out no byte twice, loses no page and recognises     *)
(* what it is given back (mempool.c:218, :455), as the runs check it.      *)
THEOREM SlabStaysIntact == MCSpec => []SlabIntact
<1>1. SlabProved!AllocationsDisjoint => Slab!AllocationsDisjoint
  BY SlabSame, SlabCounts
  DEF Slab!AllocationsDisjoint, SlabProved!AllocationsDisjoint, Slab!Bytes, SlabProved!Bytes,
      Slab!BitmapBytes, SlabProved!BitmapBytes
<1>2. SlabProved!KnownToFree => Slab!KnownToFree
  BY SlabSame, SlabChunks
  DEF Slab!KnownToFree, SlabProved!KnownToFree, Slab!Slab, SlabProved!Slab
<1>3. SlabProved!NothingLost => Slab!NothingLost
  BY DEF Slab!NothingLost, SlabProved!NothingLost, Slab!FreePages, SlabProved!FreePages,
         Slab!InList, SlabProved!InList, Slab!Free, SlabProved!Free,
         Slab!MapThenSumSet, SlabProved!MapThenSumSet,
         Slab!MapThenFoldSet, SlabProved!MapThenFoldSet
<1>4. SlabProved!SlotsHaveRoom => Slab!SlotsHaveRoom
  BY SlabSame, SlabLists, SlabChunks
  DEF Slab!SlotsHaveRoom, SlabProved!SlotsHaveRoom, Slab!TypeOK, SlabProved!TypeOK,
      Slab!Types, SlabProved!Types
<1>5. SlabProved!Spec => []SlabProved!AllocationsDisjoint  BY SlabAssumed, SlabProved!HandedOutApart
<1>6. SlabProved!Spec => []SlabProved!KnownToFree  BY SlabAssumed, SlabProved!FreeRecognises
<1>7. SlabProved!Spec => []SlabProved!NothingLost  BY SlabAssumed, SlabProved!AllPagesReturn
<1>8. SlabProved!Spec => []SlabProved!SlotsHaveRoom  BY SlabAssumed, SlabProved!SlotsFindRoom
<1> QED
  BY <1>1, <1>2, <1>3, <1>4, <1>5, <1>6, <1>7, <1>8, SlabAlone, PTL DEF SlabIntact

-----------------------------------------------------------------------------
(* Numbers *)

(* A number is made of its quotient and its remainder, in one way only.    *)
LEMMA Quotient ==
  ASSUME NEW x \in Nat, NEW b \in Nat \ {0}
  PROVE  x \div b \in Nat /\ x % b \in 0 .. b - 1 /\ x = b * (x \div b) + (x % b)
OBVIOUS

(* No other quotient and remainder make it.                                *)
LEMMA Apart ==
  ASSUME NEW x \in Nat, NEW b \in Nat \ {0}, NEW q \in Int, NEW r \in 0 .. b - 1, x = b * q + r
  PROVE  q = x \div b /\ r = x % b
<1> DEFINE p == x \div b  s == x % b
<1>1. p \in Nat /\ s \in 0 .. b - 1 /\ x = b * p + s  BY Quotient
<1> HIDE DEF p, s
<1>2. b * (q - p) = s - r  BY <1>1
<1>3. ~(q - p >= 1)  BY <1>1, <1>2
<1>4. ~(q - p <= -1)  BY <1>1, <1>2
<1> QED  BY <1>1, <1>3, <1>4 DEF p, s

(* Enough blocks for size bytes, and not one too many.                     *)
LEMMA RoundedUp ==
  ASSUME NEW size \in Nat, NEW b \in Nat \ {0}
  PROVE  LET n == (size + b - 1) \div b IN n \in Nat /\ b * n \in Nat /\ size <= b * n /\ b * n < size + b
<1> DEFINE n == (size + b - 1) \div b
           r == (size + b - 1) % b
<1>1. size + b - 1 \in Nat  OBVIOUS
<1>2. n \in Nat /\ r \in 0 .. b - 1 /\ size + b - 1 = b * n + r  BY <1>1, Quotient
<1> HIDE DEF n, r
<1>3. b * n \in Nat  BY <1>2
<1> QED  BY <1>2, <1>3 DEF n

(* The largest of three.                                                   *)
LEMMA Largest ==
  ASSUME NEW x \in Int, NEW y \in Int, NEW z \in Int
  PROVE  LET m == CHOOSE u \in {x, y, z} : \A v \in {x, y, z} : u >= v
         IN m \in {x, y, z} /\ m >= x /\ m >= y /\ m >= z
<1>1. \E u \in {x, y, z} : \A v \in {x, y, z} : u >= v
  <2>1. CASE x >= y /\ x >= z  BY <2>1
  <2>2. CASE y >= x /\ y >= z  BY <2>2
  <2>3. CASE z >= x /\ z >= y  BY <2>3
  <2> QED  BY <2>1, <2>2, <2>3
<1> QED  BY <1>1

(* The bytes of both buffers.                                              *)
LEMMA BytesKnown ==
  /\ _block_size \in Nat \ {0} /\ Byte \subseteq Nat /\ 0 \in Byte /\ Lengths \subseteq Nat
<1>1. /\ _block_size \in Nat \ {0} /\ Lengths \subseteq Nat
      /\ Byte \subseteq Nat /\ \E n \in Byte : Byte = 0 .. n
  BY PartsAssumption DEF Chain!BufferAssumption
<1>2. PICK n \in Byte : Byte = 0 .. n  BY <1>1
<1>3. n \in Nat  BY <1>1, <1>2
<1> QED  BY <1>1, <1>2, <1>3

(* What is put.                                                            *)
LEMMA PayloadKnown ==
  ASSUME NEW bytes \in Piece!Payloads \cup Chain!Payloads
  PROVE  bytes \in Seq(Byte) /\ Len(bytes) \in Nat /\ DOMAIN bytes = 1 .. Len(bytes)
<1>1. PICK k \in Lengths, first \in Byte : bytes = [j \in 1 .. k |-> (first + j) % Piece!Cardinality(Byte)]
  <2>1. Piece!Cardinality(Byte) = Chain!Cardinality(Byte)
    BY DEF Piece!Cardinality, Chain!Cardinality
  <2>2. CASE bytes \in Piece!Payloads  BY <2>2 DEF Piece!Payloads
  <2>3. CASE bytes \in Chain!Payloads  BY <2>1, <2>3 DEF Chain!Payloads
  <2> QED  BY <2>2, <2>3
<1>2. PICK n \in Byte : Byte = 0 .. n  BY PartsAssumption DEF Chain!BufferAssumption
<1>3. n \in Nat /\ k \in Nat /\ first \in Nat  BY <1>2, BytesKnown
<1>4. Piece!Cardinality(Byte) = n + 1
  <2>1. Cardinality(0 .. n) = n + 1  BY <1>3, FS_Interval
  <2> QED  BY <1>2, <2>1 DEF Cardinality, Piece!Cardinality
<1>5. \A j \in 1 .. k : (first + j) % (n + 1) \in Byte  BY <1>2, <1>3, Quotient
<1>6. bytes = [j \in 1 .. k |-> (first + j) % (n + 1)]  BY <1>1, <1>4
<1>7. bytes \in Seq(Byte) /\ Len(bytes) = k  BY <1>3, <1>5, <1>6
<1> QED  BY <1>3, <1>6, <1>7

(* The numbers below the largest of three.                                 *)
LEMMA BelowLargest ==
  ASSUME NEW x \in Int, NEW y \in Int, NEW z \in Int
  PROVE  /\ \A j : j \in 0 .. PieceTape!Max({x, y, z}) - 1 <=> j \in Nat /\ (j < x \/ j < y \/ j < z)
         /\ PieceTape!Max({x, y, z}) \in {x, y, z}
         /\ PieceTape!Max({x, y, z}) >= x /\ PieceTape!Max({x, y, z}) >= y /\ PieceTape!Max({x, y, z}) >= z
<1> DEFINE m == PieceTape!Max({x, y, z})
<1>1. m \in {x, y, z} /\ m >= x /\ m >= y /\ m >= z
  BY Largest DEF PieceTape!Max
<1> HIDE DEF m
<1>2. \A j : j \in 0 .. m - 1 <=> j \in Nat /\ (j < x \/ j < y \/ j < z)
  BY <1>1
<1> QED  BY <1>1, <1>2 DEF m

-----------------------------------------------------------------------------
(* The buffer in one piece *)

(* The positions lie in the memory, and none is past the limit while there *)
(* is one.                                                                 *)
PieceInv ==
  /\ buf \in Seq(Byte)
  /\ current \in 0 .. Len(buf) /\ mark \in -1 .. Len(buf) /\ whole \in -1 .. Len(buf)
  /\ limit \in -1 .. whole /\ (limit = -1 <=> whole = -1)
  /\ limit # -1 => current <= limit /\ mark <= limit

(* The bytes somebody may still read or has read.                          *)
OnPiece(j) == j < current \/ j < mark \/ j < whole

(* What is on its tape.                                                    *)
PieceTapeIs ==
  /\ DOMAIN Piece!Tape = 0 .. PieceTape!Max({current, mark, whole}) - 1
  /\ \A j : j \in DOMAIN Piece!Tape <=> j \in Nat /\ OnPiece(j)
  /\ Piece!Tape = [j \in DOMAIN Piece!Tape |-> buf[j + 1]]
  /\ \A j \in DOMAIN Piece!Tape : Piece!Tape[j] = buf[j + 1] /\ Piece!Tape[j] \in Byte

(* Every byte of the tape is one of the memory.                            *)
LEMMA PieceEnd == PieceInv => PieceTapeIs
<1> SUFFICES ASSUME PieceInv PROVE PieceTapeIs
  OBVIOUS
<1> DEFINE m == PieceTape!Max({current, mark, whole})
<1>1. current \in Int /\ mark \in Int /\ whole \in Int /\ Len(buf) \in Nat  BY DEF PieceInv
<1>2. Piece!Max({current, mark, whole}) = m  BY DEF Piece!Max, PieceTape!Max
<1>3. \A j : j \in 0 .. m - 1 <=> j \in Nat /\ OnPiece(j)
  BY <1>1, BelowLargest DEF OnPiece
<1> HIDE DEF m
<1>4. Piece!Tape = [j \in 0 .. m - 1 |-> buf[j + 1]]  BY <1>2 DEF Piece!Tape
<1>5. \A j \in 0 .. m - 1 : j + 1 \in 1 .. Len(buf)  BY <1>3, <1>1 DEF PieceInv, OnPiece
<1>6. \A j \in 0 .. m - 1 : buf[j + 1] \in Byte  BY <1>5 DEF PieceInv
<1>7. DOMAIN Piece!Tape = 0 .. m - 1  BY <1>4
<1>8. \A j \in DOMAIN Piece!Tape : Piece!Tape[j] = buf[j + 1]  BY <1>4
<1> QED  BY <1>3, <1>4, <1>6, <1>7, <1>8 DEF m, PieceTapeIs

(* A step keeps the bytes on the tape but for some.                        *)
LEMMA PieceKept ==
  ASSUME PieceInv, PieceInv', NEW S,
         \A j \in Nat : OnPiece(j)' /\ j \notin S => OnPiece(j) /\ buf'[j + 1] = buf[j + 1]
  PROVE  PieceTape!KeptBut(S)
<1>1. PieceTapeIs' /\ PieceTapeIs
  <2>1. PieceInv' => PieceTapeIs'  BY PieceEnd, PTL
  <2> QED  BY <2>1, PieceEnd
<1>2. \A j \in DOMAIN Piece!Tape' : j \notin S => Piece!Tape'[j] = Piece!Tape[j]
  BY <1>1 DEF PieceTapeIs
<1> QED  BY <1>1, <1>2 DEF PieceTape!KeptBut, PieceTapeIs

(* A step that leaves the memory alone leaves the tape alone.              *)
LEMMA PieceSame ==
  ASSUME PieceInv, PieceInv', buf' = buf, \A j \in Nat : OnPiece(j)' <=> OnPiece(j)
  PROVE  Piece!Tape' = Piece!Tape
<1>1. PieceTapeIs' /\ PieceTapeIs
  <2>1. PieceInv' => PieceTapeIs'  BY PieceEnd, PTL
  <2> QED  BY <2>1, PieceEnd
<1>2. DOMAIN Piece!Tape' = DOMAIN Piece!Tape  BY <1>1 DEF PieceTapeIs
<1> QED  BY <1>1, <1>2 DEF PieceTapeIs

(* reserve() keeps what is before the position, and all if it is enough.   *)
LEMMA PieceReserved ==
  ASSUME PieceInv, NEW size \in Nat
  PROVE  /\ Piece!Reserved(size) \in Seq(Byte)
         /\ Len(Piece!Reserved(size)) >= size /\ Len(Piece!Reserved(size)) >= Len(buf)
         /\ \A j \in 1 .. current : Piece!Reserved(size)[j] = buf[j]
         /\ size <= Len(buf) => Piece!Reserved(size) = buf
<1> DEFINE pages == (size + _block_size - 1) \div _block_size
<1>1. buf \in Seq(Byte) /\ Len(buf) \in Nat /\ current \in 0 .. Len(buf)  BY DEF PieceInv
<1>2. CASE size <= Len(buf)
  <2>1. Piece!Reserved(size) = buf  BY <1>2 DEF Piece!Reserved, Piece!_capacity
  <2> QED  BY <1>1, <1>2, <2>1
<1>3. CASE ~(size <= Len(buf))
  <2>1. pages \in Nat /\ pages * _block_size \in Nat /\ size <= pages * _block_size
    <3>1. pages \in Nat /\ _block_size * pages \in Nat /\ size <= _block_size * pages
      BY RoundedUp, BytesKnown
    <3>2. pages * _block_size = _block_size * pages  BY <3>1, BytesKnown
    <3> QED  BY <3>1, <3>2
  <2> DEFINE long == pages * _block_size
  <2>2. Piece!Reserved(size) = [j \in 1 .. long |-> IF j <= current THEN buf[j] ELSE 0]
    BY <1>3 DEF Piece!Reserved, Piece!_capacity
  <2>3. long \in Nat /\ size <= long  BY <2>1
  <2> HIDE DEF pages, long
  <2>4. \A j \in 1 .. long : (IF j <= current THEN buf[j] ELSE 0) \in Byte
    BY <1>1, BytesKnown
  <2>5. Piece!Reserved(size) \in Seq(Byte) /\ Len(Piece!Reserved(size)) = long
    BY <2>2, <2>3, <2>4
  <2>6. \A j \in 1 .. current : j \in 1 .. long  BY <1>1, <1>3, <2>3
  <2> QED  BY <1>1, <1>3, <2>2, <2>3, <2>5, <2>6
<1> QED  BY <1>2, <1>3

(* Bytes that are copied to the position.                                  *)
LEMMA PieceCopied ==
  ASSUME PieceInv, NEW memory \in Seq(Byte), NEW bytes \in Seq(Byte),
         current + Len(bytes) <= Len(memory)
  PROVE  /\ Piece!Copied(memory, bytes) \in Seq(Byte)
         /\ Len(Piece!Copied(memory, bytes)) = Len(memory)
         /\ \A j \in 1 .. Len(bytes) : Piece!Copied(memory, bytes)[current + j] = bytes[j]
         /\ \A j \in 1 .. Len(memory) : j \notin current + 1 .. current + Len(bytes) =>
              Piece!Copied(memory, bytes)[j] = memory[j]
<1>1. DOMAIN bytes = 1 .. Len(bytes) /\ DOMAIN memory = 1 .. Len(memory)
      /\ Len(bytes) \in Nat /\ Len(memory) \in Nat /\ current \in Nat
  BY DEF PieceInv
<1>2. Piece!Copied(memory, bytes) =
        [j \in 1 .. Len(memory) |-> IF j - current \in 1 .. Len(bytes) THEN bytes[j - current] ELSE memory[j]]
  BY <1>1 DEF Piece!Copied
<1>3. \A j \in 1 .. Len(memory) :
        (IF j - current \in 1 .. Len(bytes) THEN bytes[j - current] ELSE memory[j]) \in Byte
  BY <1>1
<1>4. Piece!Copied(memory, bytes) \in Seq(Byte) /\ Len(Piece!Copied(memory, bytes)) = Len(memory)
  BY <1>1, <1>2, <1>3
<1>5. \A j \in 1 .. Len(bytes) : current + j \in 1 .. Len(memory) /\ (current + j) - current = j
  BY <1>1
<1>6. \A j \in 1 .. Len(memory) : j \notin current + 1 .. current + Len(bytes) => j - current \notin 1 .. Len(bytes)
  BY <1>1
<1> QED  BY <1>2, <1>4, <1>5, <1>6

-----------------------------------------------------------------------------
(* Its calls *)

(* put writes its bytes at the position and goes on behind them.           *)
LEMMA PieceWrites ==
  ASSUME PieceInv, NEW bytes \in Piece!Payloads, Piece!Put(bytes) \/ Piece!CommitPut(bytes)
  PROVE  PieceInv' /\ PieceTape!Put
<1>1. bytes \in Seq(Byte) /\ Len(bytes) \in Nat /\ current \in Nat
  BY PayloadKnown DEF PieceInv
<1>2. /\ limit = -1 /\ whole = -1 /\ limit' = -1 /\ whole' = -1
      /\ current' = current + Len(bytes) /\ mark' = mark /\ given' = bytes
  BY DEF PieceInv, Piece!Put, Piece!CommitPut, Piece!Reading, Piece!INVALID_VALUE
<1>3. PICK memory \in Seq(Byte) :
        /\ buf' = Piece!Copied(memory, bytes)
        /\ current + Len(bytes) <= Len(memory) /\ Len(memory) >= Len(buf)
        /\ \A j \in 1 .. current : memory[j] = buf[j]
        /\ current + Len(bytes) <= Len(buf) => memory = buf
  <2>1. CASE Piece!Put(bytes)
    <3>1. current + Len(bytes) \in Nat  BY <1>1
    <3> QED  BY <2>1, <3>1, PieceReserved DEF Piece!Put
  <2>2. CASE Piece!CommitPut(bytes)
    BY <2>2 DEF Piece!CommitPut, PieceInv, Piece!_capacity
  <2> QED  BY <2>1, <2>2
<1>4. /\ buf' \in Seq(Byte) /\ Len(buf') = Len(memory)
      /\ \A j \in 1 .. Len(bytes) : buf'[current + j] = bytes[j]
      /\ \A j \in 1 .. Len(memory) : j \notin current + 1 .. current + Len(bytes) => buf'[j] = memory[j]
  BY <1>1, <1>3, PieceCopied
<1>5. Len(memory) \in Nat /\ Len(buf) \in Nat /\ current \in 0 .. Len(buf) /\ mark \in -1 .. Len(buf)
  BY DEF PieceInv
<1>6. PieceInv'
  <2>1. /\ Len(buf') \in Nat /\ Len(buf') >= Len(buf) /\ current' \in 0 .. Len(buf')
        /\ mark' \in -1 .. Len(buf')
    BY <1>1, <1>2, <1>3, <1>4, <1>5
  <2>2. whole' \in -1 .. Len(buf') /\ limit' \in -1 .. whole' /\ limit' = -1  BY <1>2, <2>1
  <2> QED  BY <1>2, <1>4, <2>1, <2>2 DEF PieceInv
<1>7. PieceTape!KeptBut(current .. current' - 1)
  <2>1. ASSUME NEW j \in Nat, OnPiece(j)', j \notin current .. current' - 1
        PROVE  OnPiece(j) /\ buf'[j + 1] = buf[j + 1]
    <3>1. j < current + Len(bytes) \/ j < mark  BY <1>1, <1>2, <2>1 DEF OnPiece
    <3>2. CASE j < current
      <4>1. j + 1 \in 1 .. current /\ j + 1 \in 1 .. Len(memory)
            /\ j + 1 \notin current + 1 .. current + Len(bytes)
        BY <1>1, <1>3, <1>5, <3>2
      <4> QED  BY <1>3, <1>4, <3>2, <4>1 DEF OnPiece
    <3>3. CASE ~(j < current)
      <4>1. j >= current + Len(bytes) /\ j < mark  BY <1>1, <1>2, <2>1, <3>1, <3>3
      <4>2. memory = buf  BY <1>1, <1>3, <1>5, <4>1
      <4>3. j + 1 \in 1 .. Len(memory) /\ j + 1 \notin current + 1 .. current + Len(bytes)
        BY <1>1, <1>5, <4>1, <4>2
      <4> QED  BY <1>4, <4>1, <4>2, <4>3 DEF OnPiece
    <3> QED  BY <3>2, <3>3
  <2> QED  BY <1>6, <2>1, PieceKept
<1>8. \A j \in 1 .. Len(bytes) : Piece!Tape'[current + j - 1] = bytes[j]
  <2>1. PieceInv' => PieceTapeIs'  BY PieceEnd, PTL
  <2> SUFFICES ASSUME NEW j \in 1 .. Len(bytes)
               PROVE  Piece!Tape'[current + j - 1] = bytes[j]
    OBVIOUS
  <2> DEFINE n == current + j - 1
  <2>2. n \in Nat /\ n < current' /\ n + 1 = current + j  BY <1>1, <1>2
  <2> HIDE DEF n
  <2>3. n \in DOMAIN Piece!Tape'  BY <1>6, <2>1, <2>2 DEF PieceTapeIs, OnPiece
  <2>4. Piece!Tape'[n] = buf'[n + 1]  BY <1>6, <2>1, <2>3 DEF PieceTapeIs
  <2> QED  BY <1>4, <2>2, <2>4 DEF n
<1> QED
  BY <1>2, <1>6, <1>7, <1>8 DEF PieceTape!Put, PieceTape!Reading, PieceTape!None

(* direct_put makes room, and writes nothing.                              *)
LEMMA PiecePrepares ==
  ASSUME PieceInv, NEW k \in Lengths, Piece!DirectPut(k)
  PROVE  PieceInv' /\ PieceTape!DirectPut
<1>1. k \in Nat /\ current + k \in Nat  BY BytesKnown DEF PieceInv
<1>2. /\ limit = -1 /\ whole = -1 /\ UNCHANGED <<current, mark, limit, whole>> /\ given' = <<>>
      /\ buf' = Piece!Reserved(current + k)
  BY DEF PieceInv, Piece!DirectPut, Piece!Reading, Piece!INVALID_VALUE
<1>3. /\ buf' \in Seq(Byte) /\ Len(buf') >= Len(buf)
      /\ \A j \in 1 .. current : buf'[j] = buf[j]
  BY <1>1, <1>2, PieceReserved
<1>4. PieceInv'  BY <1>2, <1>3 DEF PieceInv
<1> DEFINE S == {j \in DOMAIN Piece!Tape : j >= current}
<1>5. PieceTape!KeptBut(S)
  <2>1. ASSUME NEW j \in Nat, OnPiece(j)', j \notin S
        PROVE  OnPiece(j) /\ buf'[j + 1] = buf[j + 1]
    <3>1. OnPiece(j)  BY <1>2, <2>1 DEF OnPiece
    <3>2. j \in DOMAIN Piece!Tape  BY <3>1, PieceEnd DEF PieceTapeIs
    <3>3. j < current  BY <2>1, <3>2 DEF PieceInv
    <3>4. j + 1 \in 1 .. current  BY <3>3 DEF PieceInv
    <3> QED  BY <1>3, <3>1, <3>4
  <2> HIDE DEF S
  <2> QED  BY <1>4, <2>1, PieceKept
<1> QED
  BY <1>2, <1>4, <1>5 DEF PieceTape!DirectPut, PieceTape!Reading, PieceTape!None

(* A part of a sequence.                                                   *)
LEMMA PartOf ==
  ASSUME NEW s \in Seq(Byte), NEW x \in Nat, NEW k \in Nat, x + k <= Len(s)
  PROVE  /\ Len(SubSeq(s, x + 1, x + k)) = k
         /\ \A j \in 1 .. k : SubSeq(s, x + 1, x + k)[j] = s[x + j]
<1>1. Len(SubSeq(s, x + 1, x + k)) = k  BY SMTT(30)
<1>2. ASSUME NEW j \in 1 .. k PROVE SubSeq(s, x + 1, x + k)[j] = s[x + j]
  <2>1. j \in Nat /\ x + 1 + j - 1 = x + j /\ j \in 1 .. ((x + k) - (x + 1) + 1)  OBVIOUS
  <2> QED  BY <2>1, SMTT(30)
<1> QED  BY <1>1, <1>2

(* get returns what was put at the position.                               *)
LEMMA PieceReads ==
  ASSUME PieceInv, NEW k \in Lengths, Piece!Get(k) \/ Piece!Peek(k)
  PROVE  PieceInv' /\ PieceTape!Get
<1>1. k \in Nat  BY BytesKnown
<1>2. /\ limit # -1 /\ limit - current >= k
      /\ given' = SubSeq(buf, current + 1, current + k)
      /\ current' \in {current, current + k} /\ UNCHANGED <<buf, mark, limit, whole>>
  BY DEF Piece!Get, Piece!Peek, Piece!Reading, Piece!INVALID_VALUE
<1>3. /\ buf \in Seq(Byte) /\ Len(buf) \in Nat
      /\ current \in Nat /\ mark \in Int /\ whole \in Int /\ whole <= Len(buf) /\ limit \in Int
      /\ limit <= whole /\ mark <= limit
  BY <1>2 DEF PieceInv
<1>4. PieceInv'  BY <1>1, <1>2, <1>3 DEF PieceInv
<1>5. Piece!Tape' = Piece!Tape
  <2>1. \A j \in Nat : OnPiece(j)' <=> OnPiece(j)  BY <1>1, <1>2, <1>3 DEF OnPiece
  <2> QED  BY <1>2, <1>4, <2>1, PieceSame
<1>6. Len(given') = k /\ \A j \in 1 .. k : given'[j] = buf[current + j]
  <2>1. limit - current >= k  BY <1>2
  <2>2. current + k <= Len(buf)  BY <1>1, <1>3, <2>1
  <2> QED  BY <1>1, <1>2, <1>3, <2>2, PartOf
<1>7. \A j \in 1 .. k : current + j <= limit /\ given'[j] = Piece!Tape[current + j - 1]
  <2> SUFFICES ASSUME NEW j \in 1 .. k
               PROVE  current + j <= limit /\ given'[j] = Piece!Tape[current + j - 1]
    OBVIOUS
  <2> DEFINE n == current + j - 1
  <2>1. n \in Nat /\ n < whole /\ n + 1 = current + j /\ current + j <= limit  BY <1>1, <1>2, <1>3
  <2> HIDE DEF n
  <2>2. Piece!Tape[n] = buf[n + 1]  BY <2>1, PieceEnd DEF PieceTapeIs, OnPiece
  <2> QED  BY <1>6, <2>1, <2>2 DEF n
<1>8. current' \in {current, current + Len(given')} /\ current' <= limit
  <2>1. current' \in {current, current + k} /\ limit - current >= k  BY <1>2
  <2>2. current' <= limit  BY <1>1, <1>3, <2>1
  <2> QED  BY <1>6, <2>1, <2>2
<1>9. UNCHANGED <<Piece!Tape, mark, limit, whole>>  BY <1>2, <1>5
<1>10. \A j \in 1 .. Len(given') : current + j <= limit /\ given'[j] = Piece!Tape[current + j - 1]
  BY <1>6, <1>7
<1> HIDE DEF PieceInv
<1> QED
  BY <1>2, <1>4, <1>8, <1>9, <1>10 DEF PieceTape!Get, PieceTape!Reading, PieceTape!None

(* commit_get goes on behind what direct_get has shown.                    *)
LEMMA PieceIsRead ==
  ASSUME PieceInv, NEW k \in Lengths, Piece!CommitGet(k)
  PROVE  PieceInv' /\ PieceTape!CommitGet
<1>1. k \in Nat  BY BytesKnown
<1>2. /\ limit # -1 /\ current + k <= limit /\ current' = current + k
      /\ given' = <<>> /\ UNCHANGED <<buf, mark, limit, whole>>
  BY DEF Piece!CommitGet, Piece!Reading, Piece!INVALID_VALUE
<1>3. /\ buf \in Seq(Byte) /\ Len(buf) \in Nat
      /\ current \in Nat /\ mark \in Int /\ whole \in Int /\ whole <= Len(buf) /\ limit \in Int
      /\ limit <= whole /\ mark <= limit
  BY <1>2 DEF PieceInv
<1>4. PieceInv'  BY <1>1, <1>2, <1>3 DEF PieceInv
<1>5. Piece!Tape' = Piece!Tape
  <2>1. \A j \in Nat : OnPiece(j)' <=> OnPiece(j)  BY <1>1, <1>2, <1>3 DEF OnPiece
  <2> QED  BY <1>2, <1>4, <2>1, PieceSame
<1> QED
  BY <1>1, <1>2, <1>3, <1>4, <1>5 DEF PieceTape!CommitGet, PieceTape!Reading, PieceTape!None

(* skip goes on, and leaves the rest of the tape alone.                    *)
LEMMA PieceSkips ==
  ASSUME PieceInv, NEW k \in Lengths, Piece!Skip(k)
  PROVE  PieceInv' /\ PieceTape!Skip
<1>1. k \in Nat /\ current + k \in Nat  BY BytesKnown DEF PieceInv
<1>2. /\ current' = current + k /\ mark' = current /\ given' = <<>> /\ UNCHANGED <<limit, whole>>
      /\ IF limit # -1 THEN limit - current >= k /\ buf' = buf ELSE buf' = Piece!Reserved(current + k)
  BY DEF Piece!Skip, Piece!Reading, Piece!INVALID_VALUE
<1>3. /\ buf \in Seq(Byte) /\ Len(buf) \in Nat
      /\ current \in Nat /\ current <= Len(buf) /\ mark \in Int /\ whole \in Int /\ whole <= Len(buf)
      /\ limit \in Int /\ limit <= whole /\ (limit = -1 => whole = -1)
  BY DEF PieceInv
<1>4. /\ buf' \in Seq(Byte) /\ Len(buf') >= Len(buf) /\ current' <= Len(buf')
      /\ \A j \in 1 .. Len(buf) : j \in 1 .. current \/ limit # -1 => buf'[j] = buf[j]
  <2>1. CASE limit # -1  BY <1>1, <1>2, <1>3, <2>1
  <2>2. CASE limit = -1
    <3>1. buf' = Piece!Reserved(current + k)  BY <1>2, <2>2
    <3>2. /\ buf' \in Seq(Byte) /\ Len(buf') >= current + k /\ Len(buf') >= Len(buf)
          /\ \A j \in 1 .. current : buf'[j] = buf[j]
      BY <1>1, <3>1, PieceReserved
    <3> QED  BY <1>2, <2>2, <3>2
  <2> QED  BY <2>1, <2>2
<1>5. PieceInv'
  <2>1. Len(buf') \in Nat  BY <1>4
  <2>2. limit' # -1 => current' <= limit' /\ mark' <= limit'  BY <1>1, <1>2, <1>3
  <2> QED  BY <1>1, <1>2, <1>3, <1>4, <2>1, <2>2 DEF PieceInv
<1> DEFINE S == IF PieceTape!Reading THEN {} ELSE current .. current' - 1
<1>6. PieceTape!KeptBut(S)
  <2>1. ASSUME NEW j \in Nat, OnPiece(j)', j \notin S
        PROVE  OnPiece(j) /\ buf'[j + 1] = buf[j + 1]
    <3>1. j < current + k \/ j < current \/ j < whole  BY <1>2, <2>1 DEF OnPiece
    <3>2. CASE limit = -1
      <4>1. ~(j >= current /\ j < current + k)
        BY <1>1, <1>2, <1>3, <2>1, <3>2 DEF PieceTape!Reading, PieceTape!None
      <4>2. j < current  BY <1>1, <1>3, <3>1, <3>2, <4>1
      <4>3. j + 1 \in 1 .. current /\ j + 1 \in 1 .. Len(buf)  BY <1>3, <4>2
      <4> QED  BY <1>4, <4>2, <4>3 DEF OnPiece
    <3>3. CASE limit # -1
      <4>1. j < whole  BY <1>1, <1>2, <1>3, <3>1, <3>3
      <4>2. j + 1 \in 1 .. Len(buf)  BY <1>3, <4>1
      <4> QED  BY <1>4, <3>3, <4>1, <4>2 DEF OnPiece
    <3> QED  BY <3>2, <3>3
  <2> HIDE DEF S
  <2> QED  BY <1>5, <2>1, PieceKept
<1>7. current' >= current /\ (PieceTape!Reading => current' <= limit)
  BY <1>1, <1>2, <1>3 DEF PieceTape!Reading, PieceTape!None
<1> HIDE DEF PieceInv
<1> QED  BY <1>2, <1>5, <1>6, <1>7 DEF PieceTape!Skip

(* The calls that only move the position.                                  *)
LEMMA PieceMoves ==
  ASSUME PieceInv, Piece!Mark \/ Piece!Reset \/ Piece!Rewind \/ Piece!Flip
  PROVE  PieceInv' /\ (PieceTape!Mark \/ PieceTape!Reset \/ PieceTape!Rewind \/ PieceTape!Flip)
<1>1. given' = <<>> /\ buf' = buf
  BY DEF Piece!Mark, Piece!Reset, Piece!Rewind, Piece!Flip, Piece!Moved
<1>2. /\ buf \in Seq(Byte) /\ Len(buf) \in Nat
      /\ current \in 0 .. Len(buf) /\ mark \in -1 .. Len(buf) /\ whole \in -1 .. Len(buf)
      /\ limit \in -1 .. whole /\ (limit = -1 <=> whole = -1)
      /\ limit # -1 => current <= limit /\ mark <= limit
  BY DEF PieceInv
<1>3. ASSUME PieceInv', \A j \in Nat : OnPiece(j)' => OnPiece(j)
      PROVE  PieceTape!KeptBut({})
  BY <1>1, <1>3, PieceKept
<1>4. CASE Piece!Mark
  <2>1. current' = current /\ mark' = current /\ UNCHANGED <<limit, whole>>
    BY <1>4 DEF Piece!Mark, Piece!Moved
  <2>2. PieceInv'  BY <1>1, <1>2, <2>1 DEF PieceInv
  <2>3. \A j \in Nat : OnPiece(j)' => OnPiece(j)  BY <1>2, <2>1 DEF OnPiece
  <2> QED  BY <1>1, <1>3, <2>1, <2>2, <2>3 DEF PieceTape!Mark, PieceTape!Moved
<1>5. CASE Piece!Reset
  <2>1. mark # -1 /\ current' = mark /\ mark' = current /\ UNCHANGED <<limit, whole>>
    BY <1>5 DEF Piece!Reset, Piece!Moved, Piece!INVALID_VALUE
  <2>2. PieceInv'  BY <1>1, <1>2, <2>1 DEF PieceInv
  <2>3. \A j \in Nat : OnPiece(j)' => OnPiece(j)  BY <1>2, <2>1 DEF OnPiece
  <2> QED  BY <1>1, <1>3, <2>1, <2>2, <2>3 DEF PieceTape!Reset, PieceTape!Moved, PieceTape!None
<1>6. CASE Piece!Rewind
  <2>1. current' = 0 /\ mark' = current /\ UNCHANGED <<limit, whole>>
    BY <1>6 DEF Piece!Rewind, Piece!Moved
  <2>2. PieceInv'  BY <1>1, <1>2, <2>1 DEF PieceInv
  <2>3. \A j \in Nat : OnPiece(j)' => OnPiece(j)  BY <1>2, <2>1 DEF OnPiece
  <2> QED  BY <1>1, <1>3, <2>1, <2>2, <2>3 DEF PieceTape!Rewind, PieceTape!Moved
<1>7. CASE Piece!Flip
  <2>1. limit = -1 /\ current' = 0 /\ mark' = -1 /\ limit' = current /\ whole' = current
    BY <1>7 DEF Piece!Flip, Piece!Moved, Piece!Reading, Piece!INVALID_VALUE
  <2>2. PieceInv'  BY <1>1, <1>2, <2>1 DEF PieceInv
  <2>3. \A j \in Nat : OnPiece(j)' => OnPiece(j)  BY <1>2, <2>1 DEF OnPiece
  <2> QED
    BY <1>1, <1>3, <2>1, <2>2, <2>3 DEF PieceTape!Flip, PieceTape!Reading, PieceTape!None
<1> QED  BY <1>4, <1>5, <1>6, <1>7

(* clear starts with an empty tape.                                        *)
LEMMA PieceClears ==
  ASSUME PieceInv, Piece!Clear
  PROVE  PieceInv' /\ PieceTape!Clear
<1>1. /\ current' = 0 /\ mark' = -1 /\ limit' = -1 /\ whole' = -1
      /\ given' = <<>> /\ buf' = buf
  BY DEF Piece!Clear, Piece!Moved, Piece!INVALID_VALUE
<1>2. PieceInv'  BY <1>1 DEF PieceInv
<1>3. Piece!Tape' \in PieceTape!Tapes(0)
  <2>1. PieceInv' => PieceTapeIs'  BY PieceEnd, PTL
  <2>2. \A j : j \notin DOMAIN Piece!Tape'  BY <1>1, <1>2, <2>1 DEF PieceTapeIs, OnPiece
  <2>3. DOMAIN Piece!Tape' = 0 .. 0 - 1  BY <2>2
  <2> QED  BY <1>2, <2>1, <2>2, <2>3 DEF PieceTapeIs, PieceTape!Tapes
<1> QED  BY <1>1, <1>2, <1>3 DEF PieceTape!Clear, PieceTape!None

(* limit narrows what is read, or widens it again.                         *)
LEMMA PieceIsLimited ==
  ASSUME PieceInv, NEW l \in 0 .. whole, Piece!SetLimit(l)
  PROVE  PieceInv' /\ PieceTape!SetLimit
<1>1. /\ limit # -1 /\ current <= l /\ mark <= l /\ l <= whole /\ limit' = l
      /\ given' = <<>> /\ UNCHANGED <<buf, current, mark, whole>>
  BY DEF Piece!SetLimit, Piece!Reading, Piece!INVALID_VALUE
<1>2. current \in Int /\ mark \in Int /\ whole \in Int /\ l \in Nat /\ whole # -1
  BY <1>1 DEF PieceInv
<1>3. PieceInv'  BY <1>1, <1>2 DEF PieceInv
<1>4. Piece!Tape' = Piece!Tape
  <2>1. \A j \in Nat : OnPiece(j)' <=> OnPiece(j)  BY <1>1 DEF OnPiece
  <2> QED  BY <1>1, <1>3, <2>1, PieceSame
<1>5. l \in PieceTape!Max({current, mark}) .. whole
  <2>1. {current, mark} = {current, mark, mark}  OBVIOUS
  <2>2. PieceTape!Max({current, mark}) \in {current, mark}  BY <1>2, <2>1, BelowLargest
  <2> QED  BY <1>1, <1>2, <2>2
<1> QED
  BY <1>1, <1>3, <1>4, <1>5 DEF PieceTape!SetLimit, PieceTape!Reading, PieceTape!None

(* compact moves what is unread to the start, and the positions with it.   *)
LEMMA PieceCompacts ==
  ASSUME PieceInv, Piece!Compact
  PROVE  PieceInv' /\ PieceTape!Compact
<1>1. /\ limit # -1 /\ current' = limit - current /\ mark' = -1 /\ limit' = -1 /\ whole' = -1
      /\ given' = <<>>
      /\ buf' = [j \in DOMAIN buf |-> IF j <= limit - current THEN buf[current + j] ELSE buf[j]]
  BY DEF Piece!Compact, Piece!Reading, Piece!INVALID_VALUE
<1>2. /\ buf \in Seq(Byte) /\ Len(buf) \in Nat /\ DOMAIN buf = 1 .. Len(buf)
      /\ current \in Nat /\ limit \in Nat /\ whole \in Nat
      /\ current <= limit /\ limit <= whole /\ whole <= Len(buf)
  BY <1>1 DEF PieceInv
<1>3. buf' \in Seq(Byte) /\ Len(buf') = Len(buf)
  <2>1. \A j \in 1 .. Len(buf) : (IF j <= limit - current THEN buf[current + j] ELSE buf[j]) \in Byte
    <3> SUFFICES ASSUME NEW j \in 1 .. Len(buf)
                 PROVE  (IF j <= limit - current THEN buf[current + j] ELSE buf[j]) \in Byte
      OBVIOUS
    <3>1. j <= limit - current => current + j \in 1 .. Len(buf)  BY <1>2
    <3> QED  BY <1>2, <3>1
  <2> QED  BY <1>1, <1>2, <2>1
<1>4. PieceInv'  BY <1>1, <1>2, <1>3 DEF PieceInv
<1>5. Piece!Tape' = [j \in 0 .. current' - 1 |-> Piece!Tape[current + j]]
  <2>1. PieceInv' => PieceTapeIs'  BY PieceEnd, PTL
  <2>2. DOMAIN Piece!Tape' = 0 .. current' - 1
    <3>1. \A j : j \in DOMAIN Piece!Tape' <=> j \in 0 .. current' - 1
      <4>1. \A j : j \in DOMAIN Piece!Tape' <=> j \in Nat /\ (j < current' \/ j < -1)
        BY <1>1, <1>4, <2>1 DEF PieceTapeIs, OnPiece
      <4>2. current' \in Nat  BY <1>1, <1>2
      <4> QED  BY <4>1, <4>2
    <3>2. DOMAIN Piece!Tape' = 0 .. PieceTape!Max({current', mark', whole'}) - 1
      BY <1>4, <2>1 DEF PieceTapeIs
    <3> QED  BY <3>1, <3>2
  <2>3. ASSUME NEW j \in 0 .. current' - 1
        PROVE  buf'[j + 1] = Piece!Tape[current + j]
    <3>1. j + 1 \in 1 .. Len(buf) /\ j + 1 <= limit - current  BY <1>1, <1>2
    <3>2. buf'[j + 1] = buf[current + (j + 1)]  BY <1>1, <1>2, <3>1
    <3> DEFINE n == current + j
    <3>3. n \in Nat /\ n < whole /\ n + 1 = current + (j + 1)  BY <1>2, <3>1
    <3> HIDE DEF n
    <3>4. Piece!Tape[n] = buf[n + 1]  BY <3>3, PieceEnd DEF PieceTapeIs, OnPiece
    <3> QED  BY <3>2, <3>3, <3>4 DEF n
  <2>4. Piece!Tape' = [j \in DOMAIN Piece!Tape' |-> buf'[j + 1]]  BY <1>4, <2>1 DEF PieceTapeIs
  <2> QED  BY <2>2, <2>3, <2>4
<1> QED
  BY <1>1, <1>4, <1>5 DEF PieceTape!Compact, PieceTape!Reading, PieceTape!None

(* The first state.                                                        *)
LEMMA PieceStarts ==
  ASSUME Piece!Init
  PROVE  PieceInv /\ PieceTape!Init
<1>1. /\ buf = [j \in 1 .. _block_size |-> 0] /\ current = 0 /\ mark = -1 /\ limit = -1 /\ whole = -1
      /\ given = <<>>
  BY DEF Piece!Init, Piece!INVALID_VALUE
<1>2. PieceInv  BY <1>1, BytesKnown DEF PieceInv
<1>3. Piece!Tape \in PieceTape!Tapes(0)
  <2>1. PieceTapeIs  BY <1>2, PieceEnd
  <2>2. \A j : j \notin DOMAIN Piece!Tape  BY <1>1, <2>1 DEF PieceTapeIs, OnPiece
  <2> DEFINE D == DOMAIN Piece!Tape
  <2>3. D = 0 .. 0 - 1
    <3>1. \A j : j \notin D  BY <2>2
    <3> HIDE DEF D
    <3> QED  BY <3>1
  <2> QED  BY <2>1, <2>2, <2>3 DEF PieceTapeIs, PieceTape!Tapes
<1> QED  BY <1>1, <1>2, <1>3 DEF PieceTape!Init, PieceTape!None

(* The other parts leave the buffer alone.                                 *)
LEMMA PieceStays ==
  ASSUME PieceInv, UNCHANGED piece
  PROVE  PieceInv' /\ UNCHANGED PieceTape!vars
<1>1. UNCHANGED <<buf, current, mark, limit, whole, given>>  BY DEF piece
<1>2. PieceInv'  BY <1>1 DEF PieceInv
<1>3. Piece!Tape' = Piece!Tape
  BY <1>1, <1>2, PieceSame DEF OnPiece
<1> QED  BY <1>1, <1>2, <1>3 DEF PieceTape!vars

(* Every call is one of the tape.                                          *)
LEMMA PieceSteps ==
  ASSUME PieceInv, Piece!Next
  PROVE  PieceInv' /\ PieceTape!Next
<1>1. CASE \E bytes \in Piece!Payloads : Piece!Put(bytes) \/ Piece!CommitPut(bytes)
  BY <1>1, PieceWrites DEF PieceTape!Next
<1>2. CASE \E k \in Lengths :
             Piece!DirectPut(k) \/ Piece!Get(k) \/ Piece!Peek(k) \/ Piece!CommitGet(k) \/ Piece!Skip(k)
  BY <1>2, PiecePrepares, PieceReads, PieceIsRead, PieceSkips DEF PieceTape!Next
<1>3. CASE \E l \in 0 .. whole : Piece!SetLimit(l)
  BY <1>3, PieceIsLimited DEF PieceTape!Next
<1>4. CASE Piece!Mark \/ Piece!Reset \/ Piece!Rewind \/ Piece!Flip
  BY <1>4, PieceMoves DEF PieceTape!Next
<1>5. CASE Piece!Clear  BY <1>5, PieceClears DEF PieceTape!Next
<1>6. CASE Piece!Compact  BY <1>6, PieceCompacts DEF PieceTape!Next
<1> QED  BY <1>1, <1>2, <1>3, <1>4, <1>5, <1>6 DEF Piece!Next

-----------------------------------------------------------------------------
(* The chain of blocks *)

(* The content of a block.                                                 *)
Blocks == [0 .. _block_size - 1 -> Byte]

(* The x-th byte of a chain. *)
Stored(c, x) == c[1 + x \div _block_size][x % _block_size]

(* A position is right in a chain of n blocks (PositionsAgree).            *)
Stands(p, n, zero) ==
  /\ p \in [block : Nat \ {0}, off : 0 .. _block_size, position : Nat]
  /\ p.block <= n
  /\ _block_size * (p.block - 1) + p.off = zero + p.position
  /\ zero + p.position < _block_size * n

(* It is right in the chain as it is.                                      *)
Agrees(p) == Stands(p, Len(chain), _zero.off)

(* Every position is right, none is past the limit while there is one.     *)
ChainInv ==
  /\ chain \in Seq(Blocks) /\ _usable = _block_size * Len(chain) - _zero.off
  /\ _zero = Chain!Pos(1, _zero.off, 0) /\ Agrees(_zero)
  /\ Agrees(_current)
  /\ _mark # Chain!Invalid => Agrees(_mark)
  /\ _limit # Chain!Invalid =>
       Agrees(_limit) /\ _current.position <= _limit.position /\ _mark.position <= _limit.position

(* The block and the place of a byte, which are in the chain.              *)
LEMMA InChain ==
  ASSUME NEW x \in Nat, NEW b \in Nat \ {0}, NEW n \in Nat, x < b * n
  PROVE  1 + x \div b \in 1 .. n /\ x % b \in 0 .. b - 1
<1> DEFINE q == x \div b  r == x % b
<1>1. q \in Nat /\ r \in 0 .. b - 1 /\ x = b * q + r  BY Quotient
<1> HIDE DEF q, r
<1>2. ~(q >= n)
  <2> SUFFICES ASSUME q >= n PROVE FALSE
    OBVIOUS
  <2>1. PICK d \in Nat : q = n + d
    <3>1. q - n \in Nat /\ q = n + (q - n)  BY <1>1
    <3> QED  BY <3>1
  <2>2. b * q = b * n + b * d /\ b * d >= 0  BY <2>1, <1>1
  <2>3. b * n \in Nat /\ b * d \in Nat /\ b * q \in Nat  BY <2>1, <1>1
  <2> QED  BY <1>1, <2>2, <2>3
<1> QED  BY <1>1, <1>2 DEF q, r

(* Counted from a block other than the first, they are the same.           *)
LEMMA FromBlock ==
  ASSUME NEW b \in Nat \ {0}, NEW block \in Nat \ {0}, NEW y \in Nat
  PROVE  /\ 1 + (b * (block - 1) + y) \div b = block + y \div b
         /\ (b * (block - 1) + y) % b = y % b
<1> DEFINE q == y \div b  r == y % b  x == b * (block - 1) + y
<1>1. q \in Nat /\ r \in 0 .. b - 1 /\ y = b * q + r  BY Quotient
<1> HIDE DEF q, r
<1>2. b * (block - 1) \in Nat  OBVIOUS
<1>3. x \in Nat  BY <1>2
<1>4. b * (block - 1 + q) = b * (block - 1) + b * q  BY <1>1
<1>5. b * q \in Nat /\ b * (block - 1 + q) \in Nat  BY <1>1
<1>6. x = b * (block - 1 + q) + r  BY <1>1, <1>2, <1>4, <1>5
<1> HIDE DEF x
<1>7. block - 1 + q \in Int  BY <1>1
<1>8. block - 1 + q = x \div b /\ r = x % b  BY <1>1, <1>3, <1>6, <1>7, Apart
<1>9. 1 + x \div b = block + q  BY <1>1, <1>7, <1>8
<1> QED  BY <1>8, <1>9 DEF q, r, x

(* What is at a position, and after it, is so many bytes after the start.  *)
LEMMA AtPosition ==
  ASSUME NEW p, Agrees(p), NEW j \in Nat, _zero.off \in Nat
  PROVE  Chain!At(p, j) = Stored(chain, _zero.off + p.position + j)
<1>1. _block_size \in Nat \ {0}  BY BytesKnown
<1>2. /\ p.block \in Nat \ {0} /\ p.off \in Nat /\ p.position \in Nat
      /\ _block_size * (p.block - 1) + p.off = _zero.off + p.position
  BY <1>1 DEF Agrees, Stands
<1> DEFINE block == p.block  off == p.off  place == _zero.off + p.position
<1>3. /\ block \in Nat \ {0} /\ off \in Nat /\ place \in Nat
      /\ _block_size * (block - 1) + off = place
  BY <1>2
<1> HIDE DEF block, off, place
<1>4. _block_size * (block - 1) + (off + j) = place + j
  <2>1. _block_size * (block - 1) \in Nat  BY <1>1, <1>3
  <2> QED  BY <1>3, <2>1
<1>5. off + j \in Nat  BY <1>3
<1>6. /\ 1 + (place + j) \div _block_size = block + (off + j) \div _block_size
      /\ (place + j) % _block_size = (off + j) % _block_size
  <2> DEFINE y == off + j
  <2>1. y \in Nat  BY <1>5
  <2> HIDE DEF y
  <2>2. /\ 1 + (_block_size * (block - 1) + y) \div _block_size = block + y \div _block_size
        /\ (_block_size * (block - 1) + y) % _block_size = y % _block_size
    BY <1>1, <1>3, <2>1, FromBlock
  <2> QED  BY <1>4, <2>2, Zenon DEF y
<1> QED  BY <1>6 DEF Chain!At, Stored, block, off, place

(* A byte that is in the chain is in one of its blocks.                    *)
LEMMA StoredByte ==
  ASSUME NEW c \in Seq(Blocks), NEW x \in Nat, x < _block_size * Len(c)
  PROVE  /\ 1 + x \div _block_size \in DOMAIN c /\ x % _block_size \in 0 .. _block_size - 1
         /\ Stored(c, x) \in Byte
<1>1. Len(c) \in Nat /\ DOMAIN c = 1 .. Len(c)  OBVIOUS
<1>2. 1 + x \div _block_size \in DOMAIN c /\ x % _block_size \in 0 .. _block_size - 1
  BY <1>1, BytesKnown, InChain
<1>3. c[1 + x \div _block_size] \in Blocks  BY <1>2
<1> QED  BY <1>2, <1>3 DEF Stored, Blocks

-----------------------------------------------------------------------------
(* Its tape *)

(* The bytes somebody may still read or has read.                          *)
OnChain(j) == j < _current.position \/ j < _mark.position \/ j < _limit.position

(* What is on its tape.                                                    *)
ChainTapeIs ==
  /\ DOMAIN Chain!Tape = 0 .. LinkedTape!Max({_current.position, _mark.position, _limit.position}) - 1
  /\ \A j : j \in DOMAIN Chain!Tape <=> j \in Nat /\ OnChain(j)
  /\ Chain!Tape = [j \in DOMAIN Chain!Tape |-> Stored(chain, _zero.off + j)]
  /\ \A j \in DOMAIN Chain!Tape :
       Chain!Tape[j] = Stored(chain, _zero.off + j) /\ Chain!Tape[j] \in Byte

(* The positions, as numbers.                                              *)
LEMMA ChainNumbers ==
  ASSUME ChainInv
  PROVE  /\ Len(chain) \in Nat /\ _usable \in Nat \ {0} /\ _zero.off \in Nat
         /\ _usable = _block_size * Len(chain) - _zero.off
         /\ _current.position \in Nat /\ _current.position < _usable
         /\ _mark.position \in Int /\ _mark.position >= -1 /\ _mark.position < _usable
         /\ _limit.position \in Int /\ _limit.position >= -1 /\ _limit.position < _usable
         /\ _mark = Chain!Invalid <=> _mark.position = -1
         /\ _limit = Chain!Invalid <=> _limit.position = -1
<1>1. _block_size \in Nat \ {0}  BY BytesKnown
<1>2. Chain!Invalid.position = -1  BY DEF Chain!Invalid, Chain!Pos
<1>7. Len(chain) \in Nat /\ _zero.off \in Nat /\ _usable = _block_size * Len(chain) - _zero.off
  BY <1>1 DEF ChainInv, Agrees, Stands
<1>8. _block_size * Len(chain) \in Nat  BY <1>1, <1>7
<1>9. ASSUME NEW p, Agrees(p)
       PROVE  p.position \in Nat /\ p.position < _usable
  <2>1. p.position \in Nat /\ _zero.off + p.position < _block_size * Len(chain)
    BY <1>9 DEF Agrees, Stands
  <2> QED  BY <1>7, <1>8, <2>1
<1>3. /\ _current.position \in Nat /\ _current.position < _usable
      /\ _mark # Chain!Invalid => _mark.position \in Nat /\ _mark.position < _usable
      /\ _limit # Chain!Invalid => _limit.position \in Nat /\ _limit.position < _usable
  BY <1>9 DEF ChainInv
<1>4. _usable \in Nat \ {0}
  BY <1>7, <1>8, <1>3
<1>5. /\ _mark.position \in Int /\ _mark.position >= -1 /\ _mark.position < _usable
      /\ _mark = Chain!Invalid <=> _mark.position = -1
  BY <1>2, <1>3, <1>4
<1>6. /\ _limit.position \in Int /\ _limit.position >= -1 /\ _limit.position < _usable
      /\ _limit = Chain!Invalid <=> _limit.position = -1
  BY <1>2, <1>3, <1>4
<1> QED  BY <1>7, <1>3, <1>4, <1>5, <1>6

(* Every byte of the tape is one of the chain.                             *)
LEMMA ChainEnd == ChainInv => ChainTapeIs
<1> SUFFICES ASSUME ChainInv PROVE ChainTapeIs
  OBVIOUS
<1> DEFINE m == LinkedTape!Max({_current.position, _mark.position, _limit.position})
<1>1. /\ _current.position \in Int /\ _mark.position \in Int /\ _limit.position \in Int
      /\ _zero.off \in Nat /\ Len(chain) \in Nat /\ _usable = _block_size * Len(chain) - _zero.off
      /\ _current.position < _usable /\ _mark.position < _usable /\ _limit.position < _usable
      /\ _block_size \in Nat
  BY ChainNumbers, BytesKnown
<1>2. /\ Chain!Max({_current.position, _mark.position, _limit.position}) = m
      /\ PieceTape!Max({_current.position, _mark.position, _limit.position}) = m
  BY DEF Chain!Max, LinkedTape!Max, PieceTape!Max
<1>3. \A j : j \in 0 .. m - 1 <=> j \in Nat /\ OnChain(j)
  <2> DEFINE x == _current.position  y == _mark.position  z == _limit.position
  <2>1. x \in Int /\ y \in Int /\ z \in Int /\ PieceTape!Max({x, y, z}) = m  BY <1>1, <1>2
  <2> HIDE DEF x, y, z, m
  <2>2. \A j : j \in 0 .. m - 1 <=> j \in Nat /\ (j < x \/ j < y \/ j < z)
    BY <2>1, BelowLargest
  <2> QED  BY <2>2 DEF OnChain, x, y, z
<1> HIDE DEF m
<1>4. Chain!Tape = [j \in 0 .. m - 1 |-> Stored(chain, _zero.off + j)]
  <2>1. _zero.block = 1  BY DEF ChainInv, Chain!Pos
  <2> QED  BY <1>2, <2>1 DEF Chain!Tape, Chain!At, Stored
<1>5. \A j \in 0 .. m - 1 : Stored(chain, _zero.off + j) \in Byte
  <2> SUFFICES ASSUME NEW j \in 0 .. m - 1 PROVE Stored(chain, _zero.off + j) \in Byte
    OBVIOUS
  <2>1. j \in Nat /\ j < _usable  BY <1>1, <1>3 DEF OnChain
  <2>2. _block_size * Len(chain) \in Nat  BY <1>1
  <2>3. _zero.off + j \in Nat /\ _zero.off + j < _block_size * Len(chain)  BY <1>1, <2>1, <2>2
  <2> QED  BY <2>3, StoredByte DEF ChainInv
<1>6. DOMAIN Chain!Tape = 0 .. m - 1  BY <1>4
<1>7. \A j \in DOMAIN Chain!Tape : Chain!Tape[j] = Stored(chain, _zero.off + j)  BY <1>4
<1> QED  BY <1>3, <1>4, <1>5, <1>6, <1>7 DEF m, ChainTapeIs

(* A step keeps the bytes on the tape but for some.                        *)
LEMMA ChainKept ==
  ASSUME ChainInv, ChainInv', NEW S,
         \A j \in Nat : OnChain(j)' /\ j \notin S =>
           OnChain(j) /\ Stored(chain', _zero'.off + j) = Stored(chain, _zero.off + j)
  PROVE  LinkedTape!KeptBut(S)
<1>1. ChainTapeIs' /\ ChainTapeIs
  <2>1. ChainInv' => ChainTapeIs'  BY ChainEnd, PTL
  <2> QED  BY <2>1, ChainEnd
<1>2. \A j \in DOMAIN Chain!Tape' : Chain!Tape'[j] = Stored(chain', _zero'.off + j)
  BY <1>1 DEF ChainTapeIs, Stored
<1>3. \A j \in DOMAIN Chain!Tape' : j \notin S => Chain!Tape'[j] = Chain!Tape[j]
  BY <1>1, <1>2 DEF ChainTapeIs
<1> QED  BY <1>1, <1>3 DEF LinkedTape!KeptBut, ChainTapeIs

(* A step that leaves the blocks alone leaves the tape alone.              *)
LEMMA ChainSame ==
  ASSUME ChainInv, ChainInv', chain' = chain, _zero' = _zero, \A j \in Nat : OnChain(j)' <=> OnChain(j)
  PROVE  Chain!Tape' = Chain!Tape
<1>1. ChainTapeIs' /\ ChainTapeIs
  <2>1. ChainInv' => ChainTapeIs'  BY ChainEnd, PTL
  <2> QED  BY <2>1, ChainEnd
<1>2. DOMAIN Chain!Tape' = DOMAIN Chain!Tape  BY <1>1 DEF ChainTapeIs
<1>3. Chain!Tape' = [j \in DOMAIN Chain!Tape' |-> Stored(chain', _zero'.off + j)]
  BY <1>1 DEF ChainTapeIs, Stored
<1> QED  BY <1>1, <1>2, <1>3 DEF ChainTapeIs

-----------------------------------------------------------------------------
(* Its operators *)

(* The bytes of all blocks.                                                *)
LEMMA Product ==
  ASSUME NEW x \in Nat, NEW y \in Nat
  PROVE  x * y \in Nat
OBVIOUS

(* A distance in blocks, in bytes.                                         *)
LEMMA Spread ==
  ASSUME NEW b \in Nat, NEW q \in Nat, NEW block \in Nat
  PROVE  ((1 + q) - block) * b = b * q - b * (block - 1)
<1>1. (1 + q) - block = q - (block - 1)  OBVIOUS
<1>2. (q - (block - 1)) * b = b * q - b * (block - 1)  BY SMTT(30)
<1> QED  BY <1>1, <1>2

(* A block of number block starts before the end of n blocks: it is one.   *)
LEMMA BlockBelow ==
  ASSUME NEW b \in Nat \ {0}, NEW block \in Nat, NEW n \in Nat, b * block < b * n
  PROVE  block < n
<1> SUFFICES ASSUME block >= n PROVE FALSE
  OBVIOUS
<1>1. block - n \in Nat /\ b * (block - n) = b * block - b * n  OBVIOUS
<1>2. b * (block - n) \in Nat  BY <1>1, Product
<1>3. b * block \in Nat /\ b * n \in Nat  BY Product
<1> QED  BY <1>1, <1>2, <1>3

(* The loop of put, get and skip comes to where the count of bytes says,   *)
(* which is in a block if there is a byte more behind it.                  *)
LEMMA AdvanceAgrees ==
  ASSUME NEW p, Agrees(p), NEW k \in Nat, NEW n \in Nat, _zero.off \in Nat,
         _zero.off + p.position + k < _block_size * n
  PROVE  /\ Stands(Chain!Advance(p, k), n, _zero.off)
         /\ Chain!Advance(p, k).position = p.position + k
<1> DEFINE b == _block_size  block == p.block  off == p.off  count == p.position  zero == _zero.off
           left == k - (b - off)
           hops == IF left = 0 THEN 1 ELSE (left + b - 1) \div b
<1>1. /\ b \in Nat \ {0} /\ block \in Nat \ {0} /\ off \in 0 .. b /\ count \in Nat /\ zero \in Nat
      /\ b * (block - 1) + off = zero + count /\ zero + count + k < b * n
  BY BytesKnown DEF Agrees, Stands
<1>2. /\ left < 0 => Chain!Advance(p, k) = [block |-> block, off |-> off + k, position |-> count + k]
      /\ ~(left < 0) => Chain!Advance(p, k) =
           [block |-> block + hops, off |-> left - (hops - 1) * b, position |-> count + k]
  BY DEF Chain!Advance, Chain!Pos, Chain!Remaining
<1>3. left \in Int /\ left = k - (b - off)  BY <1>1
<1>4. b * n \in Nat /\ block - 1 \in Nat /\ b * (block - 1) \in Nat /\ b * block = b * (block - 1) + b
      /\ b * block \in Nat
  BY <1>1, Product
<1> DEFINE There(q) ==
      /\ q \in [block : Nat \ {0}, off : 0 .. b, position : Nat]
      /\ q.block <= n /\ q.position = count + k /\ b * (q.block - 1) + q.off = zero + (count + k)
<1> HIDE DEF b, block, off, count, zero, left, hops
<1>0. ASSUME NEW x \in Nat \ {0}, NEW y \in 0 .. b, count + k \in Nat,
             x <= n, b * (x - 1) + y = zero + (count + k)
      PROVE  There([block |-> x, off |-> y, position |-> count + k])
  BY <1>0
<1> HIDE DEF There
<1>5. ASSUME left < 0  PROVE There(Chain!Advance(p, k))
  <2>1. off + k \in 0 .. b /\ count + k \in Nat  BY <1>1, <1>3, <1>5
  <2>2. b * (block - 1) < b * n  BY <1>1, <1>4
  <2>3. block - 1 < n  BY <1>1, <1>4, <2>2, BlockBelow
  <2>4. block <= n /\ b * (block - 1) + (off + k) = zero + (count + k)  BY <1>1, <1>4, <2>3
  <2> QED  BY <1>0, <1>1, <1>2, <1>5, <2>1, <2>4
<1>6. ASSUME left = 0  PROVE There(Chain!Advance(p, k))
  <2>1. count + k \in Nat /\ hops = 1 /\ left - (1 - 1) * b = 0  BY <1>1, <1>6 DEF hops
  <2>2. b * block = zero + count + k  BY <1>1, <1>3, <1>4, <1>6
  <2>3. b * block < b * n  BY <1>1, <2>2
  <2>4. block < n  BY <1>1, <2>3, BlockBelow
  <2>5. Chain!Advance(p, k) = [block |-> block + 1, off |-> 0, position |-> count + k]
    BY <1>2, <1>6, <2>1
  <2>6. /\ block + 1 \in Nat \ {0} /\ 0 \in 0 .. b /\ block + 1 <= n
        /\ b * ((block + 1) - 1) + 0 = zero + (count + k)
    BY <1>1, <1>4, <2>2, <2>4
  <2> DEFINE x == block + 1
  <2>7. x \in Nat \ {0} /\ x <= n /\ b * (x - 1) + 0 = zero + (count + k)  BY <2>6
  <2> HIDE DEF x
  <2>8. There([block |-> x, off |-> 0, position |-> count + k])  BY <1>0, <2>1, <2>6, <2>7
  <2> QED  BY <2>5, <2>8 DEF x
<1>7. ASSUME left > 0  PROVE There(Chain!Advance(p, k))
  <2>1. hops = (left + b - 1) \div b  BY <1>3, <1>7 DEF hops
  <2>2. left \in Nat  BY <1>3, <1>7
  <2>3. hops \in Nat /\ b * hops \in Nat /\ left <= b * hops /\ b * hops < left + b
    BY <1>1, <2>1, <2>2, RoundedUp
  <2>4. hops >= 1
    <3> SUFFICES ASSUME hops = 0 PROVE FALSE
      BY <2>3
    <3>1. b * hops = 0  BY <1>1
    <3> QED  BY <1>7, <2>2, <2>3, <3>1
  <2>5. hops - 1 \in Nat /\ b * (hops - 1) = b * hops - b /\ (hops - 1) * b = b * (hops - 1)
    BY <1>1, <2>3, <2>4
  <2> DEFINE rest == left - (hops - 1) * b
  <2>6. rest \in 1 .. b  BY <1>1, <2>2, <2>3, <2>5
  <2>7. rest = left - b * (hops - 1)  BY <2>5
  <2> HIDE DEF rest
  <2>8. b * ((block + hops) - 1) = b * block + b * (hops - 1)  BY <1>1, <2>3
  <2>9. b * (hops - 1) \in Nat  BY <1>1, <2>5, Product
  <2>10. b * ((block + hops) - 1) + rest = zero + (count + k)
    BY <1>1, <1>3, <1>4, <2>2, <2>6, <2>7, <2>8, <2>9
  <2>11. (block + hops) - 1 \in Nat /\ b * ((block + hops) - 1) \in Nat  BY <1>1, <2>3, <2>4, Product
  <2>12. b * ((block + hops) - 1) < b * n  BY <1>1, <2>6, <2>10, <2>11
  <2>13. (block + hops) - 1 < n  BY <1>1, <2>11, <2>12, BlockBelow
  <2>14. block + hops \in Nat \ {0} /\ rest \in 0 .. b /\ count + k \in Nat /\ block + hops <= n
    BY <1>1, <2>3, <2>6, <2>13
  <2>15. Chain!Advance(p, k) = [block |-> block + hops, off |-> rest, position |-> count + k]
    BY <1>2, <1>7, <2>2 DEF rest
  <2> DEFINE x == block + hops
  <2>16. x \in Nat \ {0} /\ x <= n /\ b * (x - 1) + rest = zero + (count + k)  BY <2>10, <2>14
  <2> HIDE DEF x
  <2>17. There([block |-> x, off |-> rest, position |-> count + k])  BY <1>0, <2>14, <2>16
  <2> QED  BY <2>15, <2>17 DEF x
<1>8. There(Chain!Advance(p, k))  BY <1>3, <1>5, <1>6, <1>7
<1> QED  BY <1>1, <1>8 DEF There, Stands, b, count, zero

(* reserve() asks for enough blocks.                                       *)
LEMMA MissingIsEnough ==
  ASSUME NEW size \in Nat, _usable \in Nat
  PROVE  /\ Chain!Missing(size) \in Nat /\ _block_size * Chain!Missing(size) \in Nat
         /\ size < _usable + _block_size * Chain!Missing(size)
<1> DEFINE b == _block_size  u == _usable  n == Chain!Missing(size)  lack == size + 1 - u
<1>1. b \in Nat \ {0} /\ u \in Nat  BY BytesKnown
<1>2. CASE u >= size + 1
  <2>1. n = 0  BY <1>2 DEF Chain!Missing
  <2>2. b * 0 = 0  BY <1>1
  <2> QED  BY <1>1, <1>2, <2>1, <2>2
<1>3. CASE ~(u >= size + 1)
  <2>1. n = (size + 1 - u + b - 1) \div b  BY <1>3 DEF Chain!Missing
  <2>2. lack \in Nat  BY <1>1, <1>3
  <2>3. n = (lack + b - 1) \div b  BY <2>1
  <2> HIDE DEF n, b, u
  <2>4. n \in Nat /\ b * n \in Nat /\ lack <= b * n
    <3> HIDE DEF lack
    <3> QED  BY <1>1, <2>2, <2>3, RoundedUp
  <2> QED  BY <1>1, <2>2, <2>4 DEF b, u, n
<1> QED  BY <1>2, <1>3

(* New blocks change nothing of the bytes that are there.                  *)
LEMMA GrownKeeps ==
  ASSUME chain \in Seq(Blocks), NEW n \in Nat
  PROVE  /\ Chain!Grown(n) \in Seq(Blocks) /\ Len(Chain!Grown(n)) = Len(chain) + n
         /\ \A x \in Nat : x < _block_size * Len(chain) => Stored(Chain!Grown(n), x) = Stored(chain, x)
<1>1. Chain!NewBlock \in Blocks  BY BytesKnown DEF Chain!NewBlock, Blocks
<1>2. [b \in 1 .. n |-> Chain!NewBlock] \in Seq(Blocks) /\ Len([b \in 1 .. n |-> Chain!NewBlock]) = n
  BY <1>1
<1>3. Chain!Grown(n) \in Seq(Blocks) /\ Len(Chain!Grown(n)) = Len(chain) + n
  BY <1>2 DEF Chain!Grown
<1>4. \A b \in 1 .. Len(chain) : Chain!Grown(n)[b] = chain[b]
  BY <1>2 DEF Chain!Grown
<1>5. ASSUME NEW x \in Nat, x < _block_size * Len(chain)
      PROVE  Stored(Chain!Grown(n), x) = Stored(chain, x)
  <2>1. 1 + x \div _block_size \in 1 .. Len(chain)  BY <1>5, StoredByte
  <2> QED  BY <1>4, <2>1 DEF Stored
<1> QED  BY <1>3, <1>5

(* Bytes that are copied from a position on are then there, and only there *)
(* something has changed.                                                  *)
LEMMA WrittenStores ==
  ASSUME NEW c \in Seq(Blocks), NEW p, Agrees(p), _zero.off \in Nat,
         NEW bytes \in Seq(Byte), DOMAIN bytes = 1 .. Len(bytes)
  PROVE  /\ Chain!Written(c, p, bytes) \in Seq(Blocks)
         /\ Len(Chain!Written(c, p, bytes)) = Len(c)
         /\ \A x \in Nat : x < _block_size * Len(c) =>
              Stored(Chain!Written(c, p, bytes), x) =
                IF x - (_zero.off + p.position) + 1 \in 1 .. Len(bytes)
                THEN bytes[x - (_zero.off + p.position) + 1] ELSE Stored(c, x)
<1> DEFINE b == _block_size  block == p.block  off == p.off  start == _zero.off + p.position
           place(bl, o) == (bl - block) * b + o - off + 1
           byte(bl, o) == IF place(bl, o) \in DOMAIN bytes THEN bytes[place(bl, o)] ELSE c[bl][o]
<1>1. _block_size \in Nat \ {0} /\ Len(c) \in Nat /\ DOMAIN c = 1 .. Len(c)  BY BytesKnown
<1>2. Chain!Written(c, p, bytes) = [bl \in 1 .. Len(c) |-> [o \in 0 .. _block_size - 1 |-> byte(bl, o)]]
  BY <1>1 DEF Chain!Written
<1>3. \A bl \in 1 .. Len(c) : \A o \in 0 .. _block_size - 1 : byte(bl, o) \in Byte
  BY <1>1 DEF Blocks
<1>4. Chain!Written(c, p, bytes) \in Seq(Blocks) /\ Len(Chain!Written(c, p, bytes)) = Len(c)
  <2> DEFINE blk(bl) == [o \in 0 .. _block_size - 1 |-> byte(bl, o)]
  <2>1. \A bl \in 1 .. Len(c) : blk(bl) \in Blocks
    <3> HIDE DEF byte
    <3> QED  BY <1>3 DEF Blocks
  <2>2. Chain!Written(c, p, bytes) = [bl \in 1 .. Len(c) |-> blk(bl)]  BY <1>2
  <2> HIDE DEF blk
  <2> QED  BY <1>1, <2>1, <2>2
<1>5. ASSUME NEW x \in Nat, x < _block_size * Len(c)
      PROVE  Stored(Chain!Written(c, p, bytes), x) =
               IF x - (_zero.off + p.position) + 1 \in 1 .. Len(bytes)
               THEN bytes[x - (_zero.off + p.position) + 1] ELSE Stored(c, x)
  <2> DEFINE q == x \div _block_size  r == x % _block_size
  <2>1. q \in Nat /\ r \in 0 .. b - 1 /\ x = b * q + r  BY <1>1, Quotient
  <2>2. 1 + q \in 1 .. Len(c) /\ r \in 0 .. _block_size - 1  BY <1>1, <1>5, StoredByte
  <2>3. /\ block \in Nat \ {0} /\ off \in Nat /\ start \in Nat
        /\ b * (block - 1) + off = start
    BY <1>1 DEF Agrees, Stands
  <2>4. Stored(Chain!Written(c, p, bytes), x) = byte(1 + q, r)
    <3> HIDE DEF byte, q, r
    <3>1. Chain!Written(c, p, bytes)[1 + q][r] = byte(1 + q, r)  BY <1>2, <2>2
    <3> QED  BY <3>1 DEF Stored, q, r
  <2>5. Stored(c, x) = c[1 + q][r]  BY DEF Stored
  <2>6. place(1 + q, r) = x - start + 1
    <3> HIDE DEF q, r, b, block, off, start
    <3>1. place(1 + q, r) = ((1 + q) - block) * b + r - off + 1  OBVIOUS
    <3> HIDE DEF place
    <3>2. ((1 + q) - block) * b = b * q - b * (block - 1)
      <4>1. b \in Nat /\ q \in Nat /\ block \in Nat  BY <1>1, <2>1, <2>3 DEF b
      <4> QED  BY <4>1, Spread
    <3>3. b * q \in Nat /\ b * (block - 1) \in Nat
      <4>1. b \in Nat /\ block - 1 \in Nat  BY <1>1, <2>3 DEF b
      <4>2. q \in Nat  BY <2>1
      <4> QED  BY <4>1, <4>2, Product
    <3> QED  BY <2>1, <2>3, <3>1, <3>2, <3>3
  <2>7. byte(1 + q, r) = IF x - start + 1 \in 1 .. Len(bytes) THEN bytes[x - start + 1] ELSE c[1 + q][r]
    <3> HIDE DEF place, q, r, start
    <3> QED  BY <2>6
  <2> QED  BY <2>4, <2>5, <2>7
<1> QED  BY <1>4, <1>5

(* A position stays right when blocks are added.                           *)
LEMMA StandsLonger ==
  ASSUME NEW p, NEW n \in Nat, NEW m \in Nat, n <= m, NEW zero \in Nat, Stands(p, n, zero)
  PROVE  Stands(p, m, zero)
<1>1. _block_size \in Nat \ {0}  BY BytesKnown
<1>2. PICK d \in Nat : m = n + d
  <2>1. m - n \in Nat /\ m = n + (m - n)  OBVIOUS
  <2> QED  BY <2>1
<1>3. _block_size * m = _block_size * n + _block_size * d /\ _block_size * d \in Nat /\ _block_size * n \in Nat
  <2>1. _block_size * m = _block_size * n + _block_size * d  BY <1>1, <1>2
  <2> QED  BY <1>1, <2>1, Product
<1>4. p.block \in Nat /\ p.position \in Nat /\ p.block <= n /\ zero + p.position < _block_size * n
  BY DEF Stands
<1>5. p.block <= m /\ zero + p.position < _block_size * m  BY <1>2, <1>3, <1>4
<1> QED  BY <1>5 DEF Stands

(* More blocks at the end: every position stays right.                     *)
LEMMA ChainGrows ==
  ASSUME ChainInv, NEW n \in Nat, chain' \in Seq(Blocks), Len(chain') = Len(chain) + n,
         _usable' = _usable + _block_size * n, _zero' = _zero
  PROVE  /\ _usable' = _block_size * Len(chain') - _zero'.off
         /\ \A p : Agrees(p) => Stands(p, Len(chain'), _zero'.off)
<1>1. _block_size \in Nat \ {0} /\ Len(chain) \in Nat /\ _zero.off \in Nat
      /\ _usable = _block_size * Len(chain) - _zero.off
  BY ChainNumbers, BytesKnown
<1>2. _block_size * (Len(chain) + n) = _block_size * Len(chain) + _block_size * n
      /\ _block_size * n \in Nat /\ _block_size * Len(chain) \in Nat
  <2>1. _block_size * (Len(chain) + n) = _block_size * Len(chain) + _block_size * n  BY <1>1
  <2> QED  BY <1>1, <2>1, Product
<1>3. _usable' = _block_size * Len(chain') - _zero'.off  BY <1>1, <1>2
<1>4. ASSUME NEW p, Agrees(p) PROVE Stands(p, Len(chain'), _zero'.off)
  <2>1. Len(chain) + n \in Nat /\ Len(chain) <= Len(chain) + n  BY <1>1
  <2>2. Stands(p, Len(chain), _zero.off)  BY <1>4 DEF Agrees
  <2> QED  BY <1>1, <2>1, <2>2, StandsLonger
<1> QED  BY <1>3, <1>4

-----------------------------------------------------------------------------
(* Its calls *)

(* The first state.                                                        *)
LEMMA ChainStarts ==
  ASSUME Chain!Init
  PROVE  ChainInv /\ LinkedTape!Init /\ Chain!PositionsAgree
<1>1. /\ chain = <<Chain!NewBlock>> /\ _usable = _block_size
      /\ _current = Chain!Pos(1, 0, 0) /\ _zero = Chain!Pos(1, 0, 0)
      /\ _mark = Chain!Invalid /\ _limit = Chain!Invalid /\ passed = <<>>
  BY DEF Chain!Init
<1>2. _block_size \in Nat \ {0}  BY BytesKnown
<1>3. chain \in Seq(Blocks) /\ Len(chain) = 1
  <2>1. Chain!NewBlock \in Blocks  BY BytesKnown DEF Chain!NewBlock, Blocks
  <2> QED  BY <1>1, <2>1
<1>4. Stands(Chain!Pos(1, 0, 0), 1, 0)  BY <1>2 DEF Stands, Chain!Pos
<1>5. _zero.off = 0 /\ _usable = _block_size * Len(chain) - _zero.off
  BY <1>1, <1>2, <1>3 DEF Chain!Pos
<1>6. ChainInv  BY <1>1, <1>3, <1>4, <1>5 DEF ChainInv, Agrees
<1>7. _current.position = 0 /\ _mark.position = -1 /\ _limit.position = -1
  BY <1>1 DEF Chain!Pos, Chain!Invalid
<1>8. Chain!Tape \in LinkedTape!Tapes(0)
  <2>1. ChainTapeIs  BY <1>6, ChainEnd
  <2>2. \A j : j \notin DOMAIN Chain!Tape  BY <1>7, <2>1 DEF ChainTapeIs, OnChain
  <2> DEFINE D == DOMAIN Chain!Tape
  <2>3. D = 0 .. 0 - 1
    <3>1. \A j : j \notin D  BY <2>2
    <3> HIDE DEF D
    <3> QED  BY <3>1
  <2> QED  BY <2>1, <2>2, <2>3 DEF ChainTapeIs, LinkedTape!Tapes
<1>9. LinkedTape!Init  BY <1>1, <1>7, <1>8 DEF LinkedTape!Init, LinkedTape!None
<1>10. Chain!PositionsAgree
  <2>1. \A p \in {_current, _mark, _limit} \ {Chain!Invalid} : p = Chain!Pos(1, 0, 0)  BY <1>1
  <2>2. _usable = Chain!_capacity - _zero.off  BY <1>5 DEF Chain!_capacity
  <2>3. LET p == Chain!Pos(1, 0, 0)
        IN /\ p.block \in 1 .. Len(chain) /\ p.off \in 0 .. _block_size
           /\ (p.block - 1) * _block_size + p.off = _zero.off + p.position /\ p.position < _usable
    BY <1>1, <1>2, <1>3, <1>5 DEF Chain!Pos
  <2> QED  BY <2>1, <2>2, <2>3 DEF Chain!PositionsAgree
<1> QED  BY <1>6, <1>9, <1>10

(* put adds the blocks it needs, writes at the position and goes on        *)
(* behind.                                                                 *)
LEMMA ChainWrites ==
  ASSUME ChainInv, NEW bytes \in Chain!Payloads, Chain!Put(bytes)
  PROVE  ChainInv' /\ LinkedTape!Put
<1> DEFINE pos == _current.position  k == Len(bytes)  zero == _zero.off
           n == Chain!Missing(pos + k)
<1>1. bytes \in Seq(Byte) /\ k \in Nat /\ DOMAIN bytes = 1 .. k  BY PayloadKnown
<1>2. /\ _limit = Chain!Invalid /\ _limit' = _limit /\ _mark' = _mark /\ _zero' = _zero
      /\ _current' = Chain!Advance(_current, k) /\ passed' = bytes
      /\ chain' = Chain!Written(Chain!Grown(n), _current, bytes)
      /\ _usable' = _usable + _block_size * n
  BY DEF Chain!Put, Chain!Reading, Chain!Reserve
<1>3. /\ Len(chain) \in Nat /\ _usable \in Nat /\ zero \in Nat /\ pos \in Nat /\ pos < _usable
      /\ _usable = _block_size * Len(chain) - zero
      /\ _mark.position \in Int /\ _mark.position < _usable
      /\ _limit.position = -1 /\ _limit'.position = -1
  BY <1>2, ChainNumbers
<1>4. n \in Nat /\ pos + k \in Nat /\ pos + k < _usable + _block_size * n
  <2>1. pos + k \in Nat  BY <1>1, <1>3
  <2> QED  BY <1>3, <2>1, MissingIsEnough
<1>5. /\ Chain!Grown(n) \in Seq(Blocks) /\ Len(Chain!Grown(n)) = Len(chain) + n
      /\ \A x \in Nat : x < _block_size * Len(chain) => Stored(Chain!Grown(n), x) = Stored(chain, x)
  <2> HIDE DEF n
  <2> QED  BY <1>4, GrownKeeps DEF ChainInv
<1> HIDE DEF n
<1>6. /\ chain' \in Seq(Blocks) /\ Len(chain') = Len(chain) + n
      /\ \A x \in Nat : x < _block_size * Len(chain') =>
           Stored(chain', x) = IF x - (zero + pos) + 1 \in 1 .. k
                               THEN bytes[x - (zero + pos) + 1] ELSE Stored(Chain!Grown(n), x)
  <2>1. Agrees(_current)  BY DEF ChainInv
  <2> QED  BY <1>1, <1>2, <1>3, <1>5, <2>1, WrittenStores
<1>7. /\ _usable' = _block_size * Len(chain') - _zero'.off
      /\ \A p : Agrees(p) => Stands(p, Len(chain'), _zero'.off)
  BY <1>2, <1>4, <1>6, ChainGrows
<1>8. zero + (pos + k) < _block_size * Len(chain') /\ _block_size * Len(chain') \in Nat
      /\ _block_size * Len(chain) \in Nat /\ _block_size * Len(chain') >= _block_size * Len(chain)
  <2>1. _block_size \in Nat /\ Len(chain') \in Nat  BY <1>6, BytesKnown
  <2> DEFINE room == _block_size * Len(chain')  before == _block_size * Len(chain)  more == _block_size * n
  <2>2. room \in Nat /\ before \in Nat /\ more \in Nat  BY <1>3, <1>4, <2>1, Product
  <2>3. /\ _usable' = room - zero /\ _usable' = _usable + more /\ _usable = before - zero
        /\ pos + k \in Nat /\ pos + k < _usable + more
    BY <1>2, <1>3, <1>4, <1>7
  <2> HIDE DEF room, before, more, pos, k, zero
  <2>4. zero + (pos + k) < room /\ room >= before  BY <1>3, <2>2, <2>3
  <2> QED  BY <2>2, <2>4 DEF room, before
<1>9. Agrees(_current)' /\ _current'.position = pos + k
  <2>1. Agrees(_current)  BY DEF ChainInv
  <2>2. zero + pos + k < _block_size * Len(chain') /\ Len(chain') \in Nat  BY <1>1, <1>3, <1>6, <1>8
  <2> QED  BY <1>1, <1>2, <1>3, <2>1, <2>2, AdvanceAgrees DEF Agrees
<1>10. ChainInv'
  BY <1>2, <1>6, <1>7, <1>9 DEF ChainInv, Agrees, Chain!Invalid
<1>11. LinkedTape!KeptBut(pos .. _current'.position - 1)
  <2> DEFINE S == pos .. _current'.position - 1
  <2>1. ASSUME NEW j \in Nat, OnChain(j)', j \notin S
        PROVE  OnChain(j) /\ Stored(chain', _zero'.off + j) = Stored(chain, _zero.off + j)
    <3>1. j < pos + k \/ j < _mark.position  BY <1>2, <1>3, <1>9, <2>1 DEF OnChain
    <3>2. ~(pos <= j /\ j < pos + k)  BY <1>4, <1>9, <2>1
    <3>3. OnChain(j)  BY <1>1, <1>3, <3>1, <3>2 DEF OnChain
    <3>4. j < _usable  BY <1>1, <1>3, <3>1, <3>2
    <3> DEFINE x == zero + j  room == _block_size * Len(chain')  before == _block_size * Len(chain)
    <3>n. /\ zero \in Nat /\ pos \in Nat /\ k \in Nat /\ _usable = before - zero /\ _usable \in Int
          /\ before \in Nat /\ room \in Nat /\ room >= before
      BY <1>1, <1>3, <1>8
    <3> HIDE DEF room, before, zero, pos, k
    <3>x. x \in Nat /\ x < before /\ x < room  BY <3>n, <3>4
    <3>5. x \in Nat /\ x < _block_size * Len(chain) /\ x < _block_size * Len(chain')
      BY <3>x DEF room, before
    <3>6. x - (zero + pos) + 1 \notin 1 .. k  BY <3>n, <3>2
    <3> HIDE DEF x
    <3>7. Stored(chain', x) = Stored(chain, x)  BY <1>5, <1>6, <3>5, <3>6
    <3> QED  BY <1>2, <3>3, <3>7 DEF x, zero
  <2> HIDE DEF S
  <2>2. LinkedTape!KeptBut(S)  BY <1>10, <2>1, ChainKept
  <2> QED  BY <2>2 DEF S
<1>12. \A j \in 1 .. k : Chain!Tape'[pos + j - 1] = bytes[j]
  <2>1. ChainTapeIs'
    <3>1. ChainInv' => ChainTapeIs'  BY ChainEnd, PTL
    <3> QED  BY <1>10, <3>1
  <2> SUFFICES ASSUME NEW j \in 1 .. k
               PROVE  Chain!Tape'[pos + j - 1] = bytes[j]
    OBVIOUS
  <2> DEFINE x == pos + j - 1  y == zero + x  room == _block_size * Len(chain')
  <2>2. x \in Nat /\ x < _current'.position  BY <1>1, <1>3, <1>9
  <2>3. y \in Nat /\ y - (zero + pos) + 1 = j /\ y < room
    <3>1. /\ zero + (pos + k) < room /\ room \in Nat /\ zero \in Nat /\ pos \in Nat /\ k \in Nat
          /\ j \in 1 .. k
      BY <1>1, <1>3, <1>8
    <3> HIDE DEF room, zero, pos, k
    <3> QED  BY <3>1
  <2> HIDE DEF x, y
  <2>4. x \in DOMAIN Chain!Tape'  BY <2>1, <2>2 DEF ChainTapeIs, OnChain
  <2>5. Chain!Tape'[x] = Stored(chain', y)  BY <1>2, <2>1, <2>4 DEF ChainTapeIs, Stored, y
  <2>6. Stored(chain', y) = bytes[j]  BY <1>6, <2>3
  <2> QED  BY <2>5, <2>6 DEF x
<1>13. ~LinkedTape!Reading  BY <1>3 DEF LinkedTape!Reading, LinkedTape!None
<1> QED
  BY <1>2, <1>9, <1>10, <1>11, <1>12, <1>13 DEF LinkedTape!Put

(* What is read at a position is what the tape holds there.                *)
LEMMA TapeAt ==
  ASSUME ChainInv, NEW p, Agrees(p), NEW j \in Nat, OnChain(p.position + j)
  PROVE  Chain!At(p, j) = Chain!Tape[p.position + j]
<1>1. _zero.off \in Nat /\ p.position \in Nat  BY ChainNumbers DEF Agrees, Stands
<1>2. Chain!At(p, j) = Stored(chain, _zero.off + p.position + j)  BY <1>1, AtPosition
<1> DEFINE x == p.position + j
<1>3. x \in Nat /\ _zero.off + p.position + j = _zero.off + x  BY <1>1
<1>4. OnChain(x)  OBVIOUS
<1> HIDE DEF x
<1>5. Chain!Tape[x] = Stored(chain, _zero.off + x)  BY <1>3, <1>4, ChainEnd DEF ChainTapeIs
<1> QED  BY <1>2, <1>3, <1>5 DEF x

(* While it is read.                                                       *)
LEMMA ChainReading ==
  ASSUME ChainInv, Chain!Reading
  PROVE  /\ Agrees(_limit) /\ _limit.position \in Nat /\ _limit.position # -1
         /\ _current.position <= _limit.position /\ _mark.position <= _limit.position
         /\ Chain!remaining \in Nat /\ Chain!remaining = _limit.position - _current.position
         /\ _zero.off + _limit.position < _block_size * Len(chain)
         /\ LinkedTape!Reading
<1>1. Agrees(_limit) /\ _current.position <= _limit.position /\ _mark.position <= _limit.position
  BY DEF ChainInv, Chain!Reading
<1>2. _limit.position \in Nat /\ _zero.off + _limit.position < _block_size * Len(chain)
  BY <1>1 DEF Agrees, Stands
<1>3. _current.position \in Nat  BY ChainNumbers
<1>4. LinkedTape!Reading  BY <1>2 DEF LinkedTape!Reading, LinkedTape!None
<1> QED  BY <1>1, <1>2, <1>3, <1>4 DEF Chain!remaining

(* A writer has no limit.                                                  *)
LEMMA NotReading ==
  ASSUME ChainInv, ~Chain!Reading
  PROVE  _limit = Chain!Invalid /\ _limit.position = -1 /\ ~LinkedTape!Reading
BY ChainNumbers DEF Chain!Reading, LinkedTape!Reading, LinkedTape!None

(* The position moves on by k bytes, or not, within what there is to read; *)
(* nothing else changes.                                                   *)
LEMMA ChainPasses ==
  ASSUME ChainInv, Chain!Reading, UNCHANGED <<chain, _usable, _zero, _mark, _limit>>,
         Agrees(_current)', _current'.position >= _current.position,
         _current'.position <= _limit.position
  PROVE  ChainInv' /\ Chain!Tape' = Chain!Tape
<1>1. ChainInv'  BY DEF ChainInv, Agrees, Chain!Invalid
<1>2. /\ _current.position \in Nat /\ _current'.position \in Nat /\ _limit.position \in Nat
      /\ _current.position <= _limit.position
  BY <1>1, ChainNumbers, ChainReading DEF Agrees, Stands
<1>3. \A j \in Nat : OnChain(j)' <=> OnChain(j)  BY <1>2 DEF OnChain
<1> QED  BY <1>1, <1>3, ChainSame

(* The bytes at a position are those of the tape.                          *)
LEMMA BytesAreRead ==
  ASSUME ChainInv, Chain!Reading, NEW k \in Nat, k <= Chain!remaining,
         passed' = Chain!Bytes(_current, k)
  PROVE  /\ Len(passed') = k
         /\ \A j \in 1 .. k : /\ _current.position + j <= _limit.position
                              /\ passed'[j] = Chain!Tape[_current.position + j - 1]
<1>1. passed' = [j \in 1 .. k |-> Chain!At(_current, j - 1)]  BY DEF Chain!Bytes
<1>2. Len(passed') = k  BY <1>1
<1>3. ASSUME NEW j \in 1 .. k
      PROVE  /\ _current.position + j <= _limit.position
             /\ passed'[j] = Chain!Tape[_current.position + j - 1]
  <2> DEFINE x == j - 1
  <2>1. /\ _current.position \in Nat /\ _limit.position \in Nat
        /\ k <= _limit.position - _current.position
    BY ChainNumbers, ChainReading
  <2>2. /\ x \in Nat /\ _current.position + x = _current.position + j - 1
        /\ _current.position + x < _limit.position /\ _current.position + j <= _limit.position
    BY <2>1
  <2>3. passed'[j] = Chain!At(_current, x)  BY <1>1
  <2> HIDE DEF x
  <2>4. OnChain(_current.position + x)  BY <2>2 DEF OnChain
  <2>5. Agrees(_current)  BY DEF ChainInv
  <2>6. Chain!At(_current, x) = Chain!Tape[_current.position + x]  BY <2>2, <2>4, <2>5, TapeAt
  <2> QED  BY <2>2, <2>3, <2>6
<1> QED  BY <1>2, <1>3

(* Advancing while it is read.                                             *)
LEMMA ReadOn ==
  ASSUME ChainInv, Chain!Reading, NEW k \in Nat, k <= Chain!remaining,
         UNCHANGED <<chain, _zero>>, _current' = Chain!Advance(_current, k)
  PROVE  /\ Agrees(_current)' /\ _current'.position = _current.position + k
         /\ _current'.position >= _current.position /\ _current'.position <= _limit.position
<1> DEFINE room == _block_size * Len(chain)
<1>1. /\ _current.position \in Nat /\ _limit.position \in Nat /\ _zero.off \in Nat /\ Len(chain) \in Nat
      /\ k <= _limit.position - _current.position /\ _zero.off + _limit.position < room
      /\ Agrees(_current)
  BY ChainNumbers, ChainReading DEF ChainInv
<1>2. room \in Nat  BY <1>1, BytesKnown, Product
<1> HIDE DEF room
<1>3. _zero.off + _current.position + k < room  BY <1>1, <1>2
<1>4. Stands(_current', Len(chain), _zero.off) /\ _current'.position = _current.position + k
  BY <1>1, <1>3, AdvanceAgrees DEF room
<1> QED  BY <1>1, <1>4 DEF Agrees

(* get returns what was put at the position.                               *)
LEMMA ChainReads ==
  ASSUME ChainInv, NEW k \in Lengths, Chain!Get(k) \/ Chain!Peek(k)
  PROVE  ChainInv' /\ LinkedTape!Get
<1>1. k \in Nat  BY BytesKnown
<1>2. /\ Chain!Reading /\ Chain!remaining >= k /\ passed' = Chain!Bytes(_current, k)
      /\ _current' = _current \/ _current' = Chain!Advance(_current, k)
      /\ UNCHANGED <<chain, _usable, _zero, _mark, _limit>>
  BY DEF Chain!Get, Chain!Peek
<1>3. /\ _current.position \in Nat /\ _limit.position \in Nat /\ Chain!remaining \in Nat
      /\ _current.position <= _limit.position /\ LinkedTape!Reading
  BY <1>2, ChainNumbers, ChainReading
<1>4. k <= Chain!remaining  BY <1>1, <1>2, <1>3
<1>5. /\ Agrees(_current)' /\ _current'.position \in {_current.position, _current.position + k}
      /\ _current'.position >= _current.position /\ _current'.position <= _limit.position
  <2>1. CASE _current' = _current
    <3>1. Agrees(_current)  BY DEF ChainInv
    <3> QED  BY <1>2, <1>3, <2>1, <3>1 DEF Agrees
  <2>2. CASE _current' = Chain!Advance(_current, k)
    BY <1>1, <1>2, <1>4, <2>2, ReadOn
  <2> QED  BY <1>2, <2>1, <2>2
<1>6. ChainInv' /\ Chain!Tape' = Chain!Tape  BY <1>2, <1>5, ChainPasses
<1>7. /\ Len(passed') = k
      /\ \A j \in 1 .. k : /\ _current.position + j <= _limit.position
                           /\ passed'[j] = Chain!Tape[_current.position + j - 1]
  BY <1>1, <1>2, <1>4, BytesAreRead
<1> QED  BY <1>2, <1>3, <1>5, <1>6, <1>7 DEF LinkedTape!Get

-----------------------------------------------------------------------------
(* A block further on is a whole block further.                            *)
LEMMA Further ==
  ASSUME NEW b \in Nat \ {0}, NEW x \in Nat, NEW y \in Nat, x < y
  PROVE  b * x + b <= b * y
<1>1. PICK d \in Nat : y = (x + 1) + d
  <2>1. y - (x + 1) \in Nat /\ y = (x + 1) + (y - (x + 1))  OBVIOUS
  <2> QED  BY <2>1
<1>2. b * y = b * (x + 1) + b * d  BY <1>1
<1>3. b * (x + 1) = b * x + b /\ b * d \in Nat /\ b * x \in Nat
  <2>1. b * (x + 1) = b * x + b  OBVIOUS
  <2> QED  BY <1>1, <2>1, Product
<1> QED  BY <1>2, <1>3

(* direct_get shows what is left of the block, or as much as there is to   *)
(* read: it is never more than that, and ends in the block.                *)
LEMMA ShownIsLeft ==
  ASSUME ChainInv, Chain!Reading, Chain!remaining > 0
  PROVE  /\ Chain!Shown \in Nat /\ Chain!Shown <= Chain!remaining
         /\ _current.off + Chain!Shown <= _block_size
         /\ _current.block # _limit.block => _current.block < _limit.block
<1> DEFINE b == _block_size  x == _current.block  u == _current.off  y == _limit.block  v == _limit.off
           c == _current.position  l == _limit.position  zero == _zero.off
<1>1. Agrees(_current) /\ Agrees(_limit) /\ Chain!remaining = l - c
  BY ChainReading DEF ChainInv
<1>2. /\ b \in Nat \ {0} /\ x \in Nat \ {0} /\ y \in Nat \ {0} /\ u \in 0 .. b /\ v \in 0 .. b
      /\ c \in Nat /\ l \in Nat /\ zero \in Nat
      /\ b * (x - 1) + u = zero + c /\ b * (y - 1) + v = zero + l
  BY <1>1, BytesKnown, ChainNumbers DEF Agrees, Stands
<1>3. l - c > 0  BY <1>1
<1>4. Chain!Shown = IF x = y THEN l - c ELSE b - u
  BY <1>1 DEF Chain!Shown, Chain!Remaining
<1> HIDE DEF b, x, u, y, v, c, l, zero
<1>5. b * (x - 1) \in Nat /\ b * (y - 1) \in Nat
  <2>1. x - 1 \in Nat /\ y - 1 \in Nat  BY <1>2
  <2> QED  BY <1>2, <2>1, Product
<1>6. ~(y < x)
  <2> SUFFICES ASSUME y < x PROVE FALSE
    OBVIOUS
  <2>1. x - 1 \in Nat /\ y - 1 \in Nat /\ y - 1 < x - 1  BY <1>2
  <2>2. b * (y - 1) + b <= b * (x - 1)  BY <1>2, <2>1, Further
  <2> QED  BY <1>2, <1>3, <1>5, <2>2
<1>7. CASE x = y
  <2>1. u + (l - c) = v  BY <1>2, <1>5, <1>7
  <2> QED  BY <1>1, <1>2, <1>3, <1>4, <1>7, <2>1 DEF b, x, y, u
<1>8. CASE x # y
  <2>1. x < y  BY <1>2, <1>6, <1>8
  <2>2. x - 1 \in Nat /\ y - 1 \in Nat /\ x - 1 < y - 1  BY <1>2, <2>1
  <2>3. b * (x - 1) + b <= b * (y - 1)  BY <1>2, <2>2, Further
  <2>4. b - u <= l - c /\ b - u \in Nat /\ u + (b - u) <= b  BY <1>2, <1>5, <2>3
  <2> QED  BY <1>1, <1>4, <1>8, <2>1, <2>4 DEF b, x, y, u
<1> QED  BY <1>7, <1>8

(* direct_get shows a part of the tape.                                    *)
LEMMA ChainShows ==
  ASSUME ChainInv, Chain!DirectGet
  PROVE  ChainInv' /\ LinkedTape!Get
<1>1. /\ Chain!Reading /\ Chain!remaining > 0 /\ passed' = Chain!Bytes(_current, Chain!Shown)
      /\ UNCHANGED <<chain, _usable, _current, _zero, _mark, _limit>>
  BY DEF Chain!DirectGet
<1>2. Chain!Shown \in Nat /\ Chain!Shown <= Chain!remaining  BY <1>1, ShownIsLeft
<1>3. /\ _current.position \in Nat /\ _limit.position \in Nat
      /\ _current.position <= _limit.position /\ LinkedTape!Reading
  BY <1>1, ChainNumbers, ChainReading
<1>4. Agrees(_current)'
  <2>1. Agrees(_current)  BY DEF ChainInv
  <2> QED  BY <1>1, <2>1 DEF Agrees
<1>5. ChainInv' /\ Chain!Tape' = Chain!Tape  BY <1>1, <1>3, <1>4, ChainPasses
<1>6. /\ Len(passed') = Chain!Shown
      /\ \A j \in 1 .. Chain!Shown : /\ _current.position + j <= _limit.position
                                     /\ passed'[j] = Chain!Tape[_current.position + j - 1]
  BY <1>1, <1>2, BytesAreRead
<1> QED  BY <1>1, <1>3, <1>5, <1>6 DEF LinkedTape!Get

(* commit_get goes on behind what direct_get has shown.                    *)
LEMMA ChainIsRead ==
  ASSUME ChainInv, NEW k \in Lengths, Chain!CommitGet(k)
  PROVE  ChainInv' /\ LinkedTape!CommitGet
<1> DEFINE b == _block_size  x == _current.block  u == _current.off
           c == _current.position  l == _limit.position  zero == _zero.off  n == Len(chain)
<1>1. /\ Chain!Reading /\ Chain!remaining > 0 /\ k <= Chain!Shown /\ passed' = <<>>
      /\ UNCHANGED <<chain, _usable, _zero, _mark, _limit>>
      /\ _current' = IF x # _limit.block /\ k = b - u
                     THEN [block |-> x + 1, off |-> 0, position |-> c + k]
                     ELSE [block |-> x, off |-> u + k, position |-> c + k]
  BY DEF Chain!CommitGet, Chain!Pos, Chain!Remaining
<1>2. /\ Chain!Shown \in Nat /\ Chain!Shown <= Chain!remaining /\ u + Chain!Shown <= b
      /\ x # _limit.block => x < _limit.block
  BY <1>1, ShownIsLeft
<1>3. Agrees(_current) /\ Agrees(_limit) /\ Chain!remaining = l - c /\ c <= l /\ LinkedTape!Reading
      /\ zero + l < b * n
  BY <1>1, ChainReading DEF ChainInv
<1>4. /\ b \in Nat \ {0} /\ k \in Nat /\ x \in Nat \ {0} /\ u \in 0 .. b /\ x <= n /\ n \in Nat
      /\ _limit.block \in Nat \ {0} /\ _limit.block <= n
      /\ c \in Nat /\ l \in Nat /\ zero \in Nat /\ b * (x - 1) + u = zero + c
  BY <1>3, BytesKnown, ChainNumbers DEF Agrees, Stands
<1> HIDE DEF b, x, u, c, l, zero, n
<1>5. b * (x - 1) \in Nat /\ b * x = b * (x - 1) + b /\ b * n \in Nat
  <2>1. x - 1 \in Nat  BY <1>4
  <2>2. b * x = b * (x - 1) + b  BY <1>4
  <2> QED  BY <1>4, <2>1, <2>2, Product
<1>6. c + k \in Nat /\ c + k <= l
  <2>1. k <= Chain!Shown /\ Chain!Shown \in Nat /\ Chain!Shown <= l - c  BY <1>1, <1>2, <1>3
  <2> QED  BY <1>4, <2>1
<1>7. Stands(_current', n, zero)
  <2>1. CASE x # _limit.block /\ k = b - u
    <3> DEFINE y == x + 1
    <3>1. _current' = [block |-> y, off |-> 0, position |-> c + k]  BY <1>1, <2>1
    <3>2. y \in Nat \ {0} /\ y <= n /\ y - 1 = x  BY <1>2, <1>4, <2>1
    <3> HIDE DEF y
    <3>3. b * (y - 1) + 0 = zero + (c + k) /\ zero + (c + k) < b * n /\ 0 \in 0 .. b
      BY <1>3, <1>4, <1>5, <1>6, <2>1, <3>2
    <3> QED  BY <1>6, <3>1, <3>2, <3>3 DEF Stands, b
  <2>2. CASE ~(x # _limit.block /\ k = b - u)
    <3>1. _current' = [block |-> x, off |-> u + k, position |-> c + k]  BY <1>1, <2>2
    <3>2. u + k \in 0 .. b  BY <1>1, <1>2, <1>4
    <3>3. b * (x - 1) + (u + k) = zero + (c + k) /\ zero + (c + k) < b * n
      BY <1>3, <1>4, <1>5, <1>6
    <3> QED  BY <1>4, <1>6, <3>1, <3>2, <3>3 DEF Stands, b
  <2> QED  BY <2>1, <2>2
<1>8. _current'.position = c + k  BY <1>1
<1> USE DEF b, x, u, c, l, zero, n
<1>9. ChainInv' /\ Chain!Tape' = Chain!Tape
  <2>1. Agrees(_current)'  BY <1>1, <1>7 DEF Agrees
  <2>2. c + k >= c  BY <1>4
  <2> QED  BY <1>1, <1>6, <1>8, <2>1, <2>2, ChainPasses
<1>10. c + k \in c .. l  BY <1>4, <1>6
<1> QED  BY <1>1, <1>3, <1>8, <1>9, <1>10 DEF LinkedTape!CommitGet

(* skip goes on, and leaves the rest of the tape alone.                    *)
LEMMA ChainSkips ==
  ASSUME ChainInv, NEW k \in Lengths, Chain!Skip(k)
  PROVE  ChainInv' /\ LinkedTape!Skip
<1>1. k \in Nat  BY BytesKnown
<1>2. /\ _mark' = _current /\ _current' = Chain!Advance(_current, k) /\ passed' = <<>>
      /\ _zero' = _zero /\ _limit' = _limit
      /\ IF Chain!Reading THEN Chain!remaining >= k /\ UNCHANGED <<chain, _usable>>
         ELSE /\ Chain!Reserve(_current.position + k)
              /\ chain' = Chain!Grown(Chain!Missing(_current.position + k))
  BY DEF Chain!Skip
<1>3. /\ _current.position \in Nat /\ _current.position < _usable /\ _usable \in Nat
      /\ _zero.off \in Nat /\ Len(chain) \in Nat
      /\ _usable = _block_size * Len(chain) - _zero.off
      /\ Agrees(_current)
  BY ChainNumbers DEF ChainInv
<1>4. CASE Chain!Reading
  <2>1. k <= Chain!remaining /\ UNCHANGED <<chain, _usable>>
    <3>1. Chain!remaining \in Nat /\ Chain!remaining >= k /\ UNCHANGED <<chain, _usable>>
      BY <1>2, <1>4, ChainReading
    <3> QED  BY <1>1, <3>1
  <2>2. /\ Agrees(_current)' /\ _current'.position >= _current.position
        /\ _current'.position <= _limit.position /\ _current'.position \in Nat
    <3>1. _current'.position = _current.position + k  BY <1>1, <1>2, <1>4, <2>1, ReadOn
    <3> QED  BY <1>1, <1>2, <1>3, <1>4, <2>1, <3>1, ReadOn
  <2>3. /\ _limit.position \in Nat /\ _current.position <= _limit.position /\ LinkedTape!Reading
        /\ Agrees(_limit)
    BY <1>4, ChainReading
  <2>4. ChainInv'
    BY <1>2, <1>3, <2>1, <2>2, <2>3 DEF ChainInv, Agrees
  <2>5. LinkedTape!KeptBut({})
    <3>1. \A j \in Nat : OnChain(j)' => OnChain(j)
      BY <1>2, <1>3, <2>2, <2>3 DEF OnChain
    <3> QED  BY <1>2, <2>1, <2>4, <3>1, ChainKept
  <2> QED  BY <1>2, <2>2, <2>3, <2>4, <2>5 DEF LinkedTape!Skip
<1>5. CASE ~Chain!Reading
  <2> DEFINE pos == _current.position  n == Chain!Missing(pos + k)  zero == _zero.off
             room == _block_size * Len(chain')  before == _block_size * Len(chain)
             more == _block_size * n
  <2>1. chain' = Chain!Grown(n) /\ _usable' = _usable + more
    BY <1>2, <1>5 DEF Chain!Reserve
  <2>2. pos + k \in Nat  BY <1>1, <1>3
  <2>3. n \in Nat /\ more \in Nat /\ pos + k < _usable + more
    BY <1>3, <2>2, MissingIsEnough
  <2>4. /\ chain' \in Seq(Blocks) /\ Len(chain') = Len(chain) + n
        /\ \A x \in Nat : x < before => Stored(chain', x) = Stored(chain, x)
    <3> HIDE DEF n
    <3> QED  BY <2>1, <2>3, GrownKeeps DEF ChainInv
  <2>5. /\ _usable' = room - zero
        /\ \A p : Agrees(p) => Stands(p, Len(chain'), _zero'.off)
    <3> HIDE DEF n
    <3> QED  BY <1>2, <2>1, <2>3, <2>4, ChainGrows
  <2>6. before \in Nat /\ room \in Nat
    <3>1. Len(chain') \in Nat  BY <2>4
    <3> QED  BY <1>3, <3>1, BytesKnown, Product
  <2>7. zero + pos + k < room
    <3>1. _usable + more = room - zero /\ zero \in Nat /\ pos \in Nat  BY <1>3, <2>1, <2>5
    <3> HIDE DEF zero, pos, room, more, n
    <3> QED  BY <1>1, <1>3, <2>3, <2>6, <3>1
  <2>8. Agrees(_current)' /\ _current'.position = pos + k
    <3>1. Len(chain') \in Nat  BY <2>4
    <3> QED  BY <1>1, <1>2, <1>3, <2>7, <3>1, AdvanceAgrees DEF Agrees
  <2>9. _limit = Chain!Invalid /\ _limit.position = -1 /\ ~LinkedTape!Reading
    BY <1>5, NotReading
  <2>10. ChainInv'
    <3> HIDE DEF n
    <3> QED  BY <1>2, <1>3, <2>4, <2>5, <2>8, <2>9 DEF ChainInv, Agrees, Chain!Invalid
  <2>11. LinkedTape!KeptBut(pos .. _current'.position - 1)
    <3>1. ASSUME NEW j \in Nat, OnChain(j)', j \notin pos .. _current'.position - 1
          PROVE  OnChain(j) /\ Stored(chain', _zero'.off + j) = Stored(chain, _zero.off + j)
      <4>1. j < pos + k \/ j < pos  BY <1>2, <2>8, <2>9, <3>1 DEF OnChain
      <4>2. j < pos
        <5>1. ~(pos <= j /\ j < pos + k)  BY <1>1, <1>3, <2>8, <3>1
        <5> QED  BY <1>1, <1>3, <4>1, <5>1
      <4> DEFINE x == zero + j
      <4>3. x \in Nat /\ x < before
        <5>1. zero \in Nat /\ pos \in Nat /\ _usable = before - zero /\ pos < _usable  BY <1>3
        <5> HIDE DEF zero, pos, before
        <5> QED  BY <1>3, <2>6, <4>2, <5>1
      <4> HIDE DEF x, before
      <4>4. Stored(chain', x) = Stored(chain, x)  BY <2>4, <4>3
      <4> QED  BY <1>2, <4>2, <4>4 DEF OnChain, x
    <3> QED  BY <2>10, <3>1, ChainKept
  <2>12. _current'.position >= pos  BY <1>1, <1>3, <2>8
  <2> QED  BY <1>2, <2>9, <2>10, <2>11, <2>12 DEF LinkedTape!Skip
<1> QED  BY <1>4, <1>5

(* reserve() that gets some blocks only: nothing that a caller can see.    *)
LEMMA ChainFails ==
  ASSUME ChainInv, Chain!FailToReserve
  PROVE  ChainInv' /\ UNCHANGED LinkedTape!vars
<1>1. PICK k \in Lengths : \E n \in 0 .. Chain!Missing(_current.position + k) - 1 :
        chain' = Chain!Grown(n) /\ _usable' = _usable + _block_size * n
  BY DEF Chain!FailToReserve
<1>2. UNCHANGED <<_current, _zero, _mark, _limit, passed>>  BY DEF Chain!FailToReserve
<1>3. PICK n \in 0 .. Chain!Missing(_current.position + k) - 1 :
        chain' = Chain!Grown(n) /\ _usable' = _usable + _block_size * n
  BY <1>1
<1>4. n \in Nat
  <2>1. _current.position + k \in Nat /\ _usable \in Nat  BY ChainNumbers, BytesKnown
  <2>2. Chain!Missing(_current.position + k) \in Nat  BY <2>1, MissingIsEnough
  <2> QED  BY <2>2
<1>5. /\ chain' \in Seq(Blocks) /\ Len(chain') = Len(chain) + n
      /\ \A x \in Nat : x < _block_size * Len(chain) => Stored(chain', x) = Stored(chain, x)
  BY <1>3, <1>4, GrownKeeps DEF ChainInv
<1>6. /\ _usable' = _block_size * Len(chain') - _zero'.off
      /\ \A p : Agrees(p) => Stands(p, Len(chain'), _zero'.off)
  BY <1>2, <1>3, <1>4, <1>5, ChainGrows
<1>7. ChainInv'  BY <1>2, <1>5, <1>6 DEF ChainInv, Agrees, Chain!Invalid
<1>8. ChainTapeIs' /\ ChainTapeIs
  <2>1. ChainInv' => ChainTapeIs'  BY ChainEnd, PTL
  <2> QED  BY <1>7, <2>1, ChainEnd
<1>9. \A j : OnChain(j)' <=> OnChain(j)  BY <1>2 DEF OnChain
<1>10. DOMAIN Chain!Tape' = DOMAIN Chain!Tape
  <2>1. \A j : j \in DOMAIN Chain!Tape' <=> j \in DOMAIN Chain!Tape  BY <1>8, <1>9 DEF ChainTapeIs
  <2> DEFINE D == DOMAIN Chain!Tape'  E == DOMAIN Chain!Tape
  <2>2. \A j : j \in D <=> j \in E  BY <2>1
  <2> HIDE DEF D, E
  <2>3. D = E  BY <2>2
  <2> QED  BY <2>3 DEF D, E
<1>11. ASSUME NEW j \in DOMAIN Chain!Tape
       PROVE  Stored(chain', _zero'.off + j) = Stored(chain, _zero.off + j)
  <2> DEFINE x == _zero.off + j  before == _block_size * Len(chain)
  <2>1. j \in Nat /\ OnChain(j)  BY <1>8, <1>11 DEF ChainTapeIs
  <2>2. j < _usable  BY <2>1, ChainNumbers DEF OnChain
  <2>3. x \in Nat /\ x < before
    <3>1. _zero.off \in Nat /\ _usable = before - _zero.off /\ before \in Nat /\ _usable \in Nat
      BY ChainNumbers, BytesKnown, Product
    <3> HIDE DEF before
    <3> QED  BY <2>1, <2>2, <3>1
  <2> HIDE DEF x, before
  <2>4. Stored(chain', x) = Stored(chain, x)  BY <1>5, <2>3 DEF before
  <2> QED  BY <1>2, <2>4 DEF x
<1>12. Chain!Tape' = Chain!Tape
  <2>1. Chain!Tape' = [j \in DOMAIN Chain!Tape' |-> Stored(chain', _zero'.off + j)]
    BY <1>8 DEF ChainTapeIs, Stored
  <2>2. Chain!Tape = [j \in DOMAIN Chain!Tape |-> Stored(chain, _zero.off + j)]
    BY <1>8 DEF ChainTapeIs
  <2> DEFINE E == DOMAIN Chain!Tape
  <2>3. Chain!Tape' = [j \in E |-> Stored(chain', _zero'.off + j)]  BY <1>10, <2>1
  <2>4. \A j \in E : Stored(chain', _zero'.off + j) = Stored(chain, _zero.off + j)  BY <1>11
  <2>5. Chain!Tape = [j \in E |-> Stored(chain, _zero.off + j)]  BY <2>2
  <2> HIDE DEF E
  <2>6. [j \in E |-> Stored(chain', _zero'.off + j)] = [j \in E |-> Stored(chain, _zero.off + j)]
    BY <2>4
  <2> QED  BY <2>3, <2>5, <2>6
<1> QED  BY <1>2, <1>7, <1>12 DEF LinkedTape!vars

(* The calls that only move the position.                                  *)
LEMMA ChainMoves ==
  ASSUME ChainInv, Chain!Mark \/ Chain!Reset \/ Chain!Rewind \/ Chain!Flip
  PROVE  ChainInv' /\ (LinkedTape!Mark \/ LinkedTape!Reset \/ LinkedTape!Rewind \/ LinkedTape!Flip)
<1>1. passed' = <<>> /\ UNCHANGED <<chain, _usable, _zero>>
  BY DEF Chain!Mark, Chain!Reset, Chain!Rewind, Chain!Flip, Chain!Moved
<1>2. /\ _current.position \in Nat /\ _mark.position \in Int /\ _limit.position \in Int
      /\ Agrees(_current) /\ Agrees(_zero) /\ _zero.position = 0
      /\ _limit # Chain!Invalid => _current.position <= _limit.position /\ _mark.position <= _limit.position
      /\ _limit # Chain!Invalid => 0 <= _limit.position
      /\ (_mark = Chain!Invalid <=> _mark.position = -1)
      /\ Chain!Invalid.position = -1
  BY ChainNumbers DEF ChainInv, Chain!Pos, Chain!Invalid
<1>3. ASSUME ChainInv', \A j \in Nat : OnChain(j)' => OnChain(j)
      PROVE  LinkedTape!KeptBut({})
  BY <1>1, <1>3, ChainKept
<1>4. \A p : Agrees(p) => Stands(p, Len(chain'), _zero'.off)  BY <1>1 DEF Agrees
<1>5. CASE Chain!Mark
  <2>1. _current' = _current /\ _mark' = _current /\ _limit' = _limit
    BY <1>5 DEF Chain!Mark, Chain!Moved
  <2>2. ChainInv'  BY <1>1, <1>2, <1>4, <2>1 DEF ChainInv, Agrees, Chain!Invalid
  <2>3. \A j \in Nat : OnChain(j)' => OnChain(j)  BY <1>2, <2>1 DEF OnChain
  <2> QED  BY <1>1, <1>3, <2>1, <2>2, <2>3 DEF LinkedTape!Mark, LinkedTape!Moved
<1>6. CASE Chain!Reset
  <2>1. _mark # Chain!Invalid /\ _current' = _mark /\ _mark' = _current /\ _limit' = _limit
    BY <1>6 DEF Chain!Reset, Chain!Moved
  <2>2. ChainInv'  BY <1>1, <1>2, <1>4, <2>1 DEF ChainInv, Agrees, Chain!Invalid
  <2>3. \A j \in Nat : OnChain(j)' => OnChain(j)  BY <1>2, <2>1 DEF OnChain
  <2>4. _mark.position # -1  BY <1>2, <2>1
  <2> QED
    BY <1>1, <1>3, <2>1, <2>2, <2>3, <2>4 DEF LinkedTape!Reset, LinkedTape!Moved, LinkedTape!None
<1>7. CASE Chain!Rewind
  <2>1. _current' = _zero /\ _mark' = _current /\ _limit' = _limit
    BY <1>7 DEF Chain!Rewind, Chain!Moved
  <2>2. ChainInv'  BY <1>1, <1>2, <1>4, <2>1 DEF ChainInv, Agrees, Chain!Invalid
  <2>3. \A j \in Nat : OnChain(j)' => OnChain(j)  BY <1>2, <2>1 DEF OnChain
  <2> QED  BY <1>1, <1>2, <1>3, <2>1, <2>2, <2>3 DEF LinkedTape!Rewind, LinkedTape!Moved
<1>8. CASE Chain!Flip
  <2>1. _limit = Chain!Invalid /\ _current' = _zero /\ _mark' = Chain!Invalid /\ _limit' = _current
    BY <1>8 DEF Chain!Flip, Chain!Moved, Chain!Reading
  <2>2. _mark'.position = -1 /\ _limit.position = -1  BY <1>2, <2>1
  <2>3. ChainInv'  BY <1>1, <1>2, <1>4, <2>1, <2>2 DEF ChainInv, Agrees, Chain!Invalid
  <2>4. \A j \in Nat : OnChain(j)' => OnChain(j)  BY <1>2, <2>1, <2>2 DEF OnChain
  <2> QED
    BY <1>1, <1>2, <1>3, <2>1, <2>2, <2>3, <2>4 DEF LinkedTape!Flip, LinkedTape!Reading, LinkedTape!None
<1> QED  BY <1>5, <1>6, <1>7, <1>8

(* Where nothing is on the tape.                                           *)
LEMMA ChainClears ==
  ASSUME ChainInv, Chain!Clear
  PROVE  ChainInv' /\ LinkedTape!Clear
<1>1. /\ chain' = <<chain[1]>> /\ _usable' = _block_size
      /\ _current' = Chain!Pos(1, 0, 0) /\ _zero' = Chain!Pos(1, 0, 0)
      /\ _mark' = Chain!Invalid /\ _limit' = Chain!Invalid /\ passed' = <<>>
  BY DEF Chain!Clear
<1>2. _block_size \in Nat \ {0}  BY BytesKnown
<1>3. chain' \in Seq(Blocks) /\ Len(chain') = 1
  <2>1. _current.block \in Nat \ {0} /\ _current.block <= Len(chain)
    BY DEF ChainInv, Agrees, Stands
  <2>2. chain \in Seq(Blocks) /\ Len(chain) \in Nat  BY DEF ChainInv
  <2>3. chain[1] \in Blocks  BY <2>1, <2>2
  <2> QED  BY <1>1, <2>3
<1>4. Stands(Chain!Pos(1, 0, 0), 1, 0)  BY <1>2 DEF Stands, Chain!Pos
<1>5. _zero'.off = 0 /\ _usable' = _block_size * Len(chain') - _zero'.off
  BY <1>1, <1>2, <1>3 DEF Chain!Pos
<1>6. ChainInv'
  <2>1. _zero' = Chain!Pos(1, _zero'.off, 0)  BY <1>1, <1>5
  <2>2. Agrees(_current)' /\ Agrees(_zero)'  BY <1>1, <1>3, <1>4, <1>5 DEF Agrees
  <2> QED  BY <1>1, <1>3, <1>5, <2>1, <2>2 DEF ChainInv, Chain!Invalid, Chain!Pos
<1>7. _current'.position = 0 /\ _mark'.position = -1 /\ _limit'.position = -1
  BY <1>1 DEF Chain!Pos, Chain!Invalid
<1>8. Chain!Tape' \in LinkedTape!Tapes(0)
  <2>1. ChainTapeIs'
    <3>1. ChainInv' => ChainTapeIs'  BY ChainEnd, PTL
    <3> QED  BY <1>6, <3>1
  <2>2. \A j : j \notin DOMAIN Chain!Tape'  BY <1>7, <2>1 DEF ChainTapeIs, OnChain
  <2> DEFINE D == DOMAIN Chain!Tape'
  <2>3. D = 0 .. 0 - 1
    <3>1. \A j : j \notin D  BY <2>2
    <3> HIDE DEF D
    <3> QED  BY <3>1
  <2>4. Chain!Tape' = [j \in DOMAIN Chain!Tape' |-> Stored(chain', _zero'.off + j)]
    BY <2>1 DEF ChainTapeIs, Stored
  <2> QED  BY <2>2, <2>3, <2>4 DEF LinkedTape!Tapes
<1> QED  BY <1>1, <1>6, <1>7, <1>8 DEF LinkedTape!Clear, LinkedTape!None

-----------------------------------------------------------------------------
(* What compact() leaves is what comes after the blocks it frees.          *)
LEMMA ChainShortened ==
  ASSUME ChainInv, NEW first \in 1 .. Len(chain), chain' = SubSeq(chain, first, Len(chain))
  PROVE  /\ chain' \in Seq(Blocks) /\ Len(chain') = Len(chain) - first + 1
         /\ _block_size * Len(chain) = _block_size * (first - 1) + _block_size * Len(chain')
         /\ \A x \in Nat : x < _block_size * Len(chain') =>
              Stored(chain', x) = Stored(chain, _block_size * (first - 1) + x)
<1>1. chain \in Seq(Blocks) /\ Len(chain) \in Nat /\ first \in Nat \ {0} /\ _block_size \in Nat \ {0}
  BY BytesKnown DEF ChainInv
<1>2. /\ chain' \in Seq(Blocks) /\ Len(chain') = Len(chain) - first + 1
      /\ \A b \in 1 .. Len(chain') : chain'[b] = chain[(first + b) - 1]
  BY <1>1
<1>3. _block_size * Len(chain) = _block_size * (first - 1) + _block_size * Len(chain')
  <2> DEFINE f == first - 1  m == Len(chain')
  <2>1. f \in Nat /\ m \in Nat /\ Len(chain) = f + m  BY <1>1, <1>2
  <2> HIDE DEF f, m
  <2>2. _block_size * (f + m) = _block_size * f + _block_size * m  BY <1>1, <2>1
  <2> QED  BY <2>1, <2>2 DEF f, m
<1>4. ASSUME NEW x \in Nat, x < _block_size * Len(chain')
      PROVE  Stored(chain', x) = Stored(chain, _block_size * (first - 1) + x)
  <2> DEFINE q == x \div _block_size
  <2>1. q \in Nat /\ 1 + q \in 1 .. Len(chain')
    <3>1. q \in Nat  BY <1>1, Quotient
    <3>2. Len(chain') \in Nat  BY <1>2
    <3>3. 1 + q \in 1 .. Len(chain')  BY <1>1, <1>4, <3>2, InChain
    <3> QED  BY <3>1, <3>3
  <2>2. /\ 1 + (_block_size * (first - 1) + x) \div _block_size = first + q
        /\ (_block_size * (first - 1) + x) % _block_size = x % _block_size
    BY <1>1, FromBlock
  <2> HIDE DEF q
  <2>3. chain'[1 + q] = chain[first + q]
    <3>1. (first + (1 + q)) - 1 = first + q  BY <1>1, <2>1
    <3> QED  BY <1>2, <2>1, <3>1
  <2> QED  BY <2>2, <2>3 DEF Stored, q
<1> QED  BY <1>2, <1>3, <1>4

(* compact drops the blocks that are read; the positions move with the     *)
(* rest.                                                                   *)
LEMMA ChainCompacts ==
  ASSUME ChainInv, Chain!Compact
  PROVE  ChainInv' /\ LinkedTape!Compact
<1> DEFINE b == _block_size  x == _current.block  u == _current.off  c == _current.position
           y == _limit.block  v == _limit.off  l == _limit.position  zero == _zero.off
           n == Len(chain)  m == Len(chain')  rest == Chain!remaining
<1>1. /\ Chain!Reading /\ _mark' = Chain!Invalid /\ _limit' = Chain!Invalid /\ passed' = <<>>
      /\ chain' = SubSeq(chain, x, n)
  BY DEF Chain!Compact
<1>2. /\ rest = 0 => /\ _zero' = [block |-> 1, off |-> 0, position |-> 0]
                     /\ _current' = [block |-> (x - x) + 1, off |-> 0, position |-> 0]
                     /\ _usable' = b * ((n - x) + 1) - 0
      /\ rest # 0 => /\ _zero' = [block |-> 1, off |-> u, position |-> 0]
                     /\ _current' = [block |-> (y - x) + 1, off |-> v, position |-> rest]
                     /\ _usable' = b * ((n - x) + 1) - u
  BY DEF Chain!Compact, Chain!Pos
<1>3. Agrees(_current) /\ Agrees(_limit) /\ rest = l - c /\ c <= l /\ LinkedTape!Reading
  BY <1>1, ChainReading DEF ChainInv
<1>4. /\ b \in Nat \ {0} /\ n \in Nat /\ x \in Nat \ {0} /\ x <= n /\ u \in 0 .. b
      /\ y \in Nat \ {0} /\ y <= n /\ v \in 0 .. b
      /\ c \in Nat /\ l \in Nat /\ zero \in Nat /\ zero + l < b * n
      /\ b * (x - 1) + u = zero + c /\ b * (y - 1) + v = zero + l
  BY <1>3, BytesKnown, ChainNumbers DEF Agrees, Stands
<1>5. /\ chain' \in Seq(Blocks) /\ m = (n - x) + 1 /\ b * n = b * (x - 1) + b * m
      /\ \A j \in Nat : j < b * m => Stored(chain', j) = Stored(chain, b * (x - 1) + j)
  <2>1. x \in 1 .. Len(chain)  BY <1>4
  <2> QED  BY <1>1, <2>1, ChainShortened
<1>6. rest # 0 => x <= y
  <2> SUFFICES ASSUME rest # 0 PROVE x <= y
    OBVIOUS
  <2>1. Chain!remaining > 0
    <3>1. Chain!remaining \in Nat  BY <1>1, ChainReading
    <3> QED  BY <3>1
  <2>2. x # y => x < y  BY <1>1, <2>1, ShownIsLeft
  <2> QED  BY <1>4, <2>2
<1> HIDE DEF b, x, u, c, y, v, l, zero, n, m, rest
<1>7. b * (x - 1) \in Nat /\ b * (y - 1) \in Nat /\ b * m \in Nat /\ m \in Nat /\ m >= 1
      /\ b * n \in Nat
  <2>1. m \in Nat /\ m >= 1 /\ x - 1 \in Nat /\ y - 1 \in Nat  BY <1>4, <1>5
  <2> QED  BY <1>4, <2>1, Product
<1>8. /\ _zero' = [block |-> 1, off |-> IF rest = 0 THEN 0 ELSE u, position |-> 0]
      /\ _usable' = b * m - _zero'.off /\ _current'.position = rest
      /\ Stands(_zero', m, _zero'.off) /\ Stands(_current', m, _zero'.off)
  <2>1. b * (1 - 1) = 0 /\ 1 \in Nat \ {0} /\ 0 \in 0 .. b /\ 0 \in Nat  BY <1>4
  <2>2. CASE rest = 0
    <3>1. b <= b * m
      <4>1. CASE m = 1
        <5>1. b * 1 = b  BY <1>4
        <5> QED  BY <1>4, <4>1, <5>1
      <4>2. CASE m # 1
        <5>1. b * 1 + b <= b * m  BY <1>4, <1>7, <4>2, Further
        <5>2. b * 1 = b  BY <1>4
        <5> QED  BY <1>4, <1>7, <5>1, <5>2
      <4> QED  BY <4>1, <4>2
    <3>2. 0 + 0 < b * m  BY <1>4, <1>7, <3>1
    <3>3. _zero' = [block |-> 1, off |-> 0, position |-> 0] /\ _current' = [block |-> 1, off |-> 0, position |-> 0]
          /\ _usable' = b * m - 0
      BY <1>2, <1>4, <1>5, <2>2
    <3>4. Stands([block |-> 1, off |-> 0, position |-> 0], m, 0)
      BY <1>4, <1>7, <2>1, <3>2 DEF Stands, b
    <3> QED  BY <2>2, <3>3, <3>4
  <2>3. CASE rest # 0
    <3>1. x <= y /\ rest \in Nat /\ rest = l - c  BY <1>3, <1>4, <1>6, <2>3
    <3> DEFINE z == (y - x) + 1
    <3>2. z \in Nat \ {0} /\ z <= m /\ z - 1 = y - x  BY <1>4, <1>5, <3>1
    <3>3. b * (y - 1) = b * (x - 1) + b * (z - 1)
      <4> DEFINE d == z - 1  f == x - 1
      <4>1. d \in Nat /\ f \in Nat /\ y - 1 = f + d  BY <1>4, <3>1
      <4> HIDE DEF d, f
      <4>2. b * (f + d) = b * f + b * d  BY <1>4, <4>1
      <4> QED  BY <4>1, <4>2 DEF d, f
    <3> HIDE DEF z
    <3>4. b * (z - 1) \in Nat
      <4>1. z - 1 \in Nat  BY <3>2
      <4> QED  BY <1>4, <4>1, Product
    <3>5. b * (z - 1) + v = u + rest  BY <1>4, <1>7, <3>1, <3>3, <3>4
    <3>6. u + rest < b * m /\ u + 0 < b * m  BY <1>4, <1>5, <1>7, <3>1
    <3>7. /\ _zero' = [block |-> 1, off |-> u, position |-> 0]
          /\ _current' = [block |-> z, off |-> v, position |-> rest] /\ _usable' = b * m - u
      BY <1>2, <1>5, <2>3 DEF z
    <3>8. Stands([block |-> 1, off |-> u, position |-> 0], m, u)
      <4>1. b * (1 - 1) + u = u + 0 /\ 1 <= m  BY <1>4, <1>7, <2>1
      <4> QED  BY <1>4, <2>1, <3>6, <4>1 DEF Stands, b
    <3>9. Stands([block |-> z, off |-> v, position |-> rest], m, u)
      BY <1>4, <3>1, <3>2, <3>5, <3>6 DEF Stands, b
    <3> QED  BY <2>3, <3>7, <3>8, <3>9
  <2> QED  BY <2>2, <2>3
<1>9. ChainInv'
  <2>1. _zero' = Chain!Pos(1, _zero'.off, 0)  BY <1>8 DEF Chain!Pos
  <2>2. Agrees(_zero)' /\ Agrees(_current)'  BY <1>8 DEF Agrees, m
  <2>3. _usable' = _block_size * Len(chain') - _zero'.off  BY <1>8 DEF b, m
  <2> QED  BY <1>1, <1>5, <2>1, <2>2, <2>3 DEF ChainInv, Chain!Invalid
<1>10. Chain!Tape' = [j \in 0 .. rest - 1 |-> Chain!Tape[c + j]]
  <2>1. ChainTapeIs' /\ ChainTapeIs
    <3>1. ChainInv' => ChainTapeIs'  BY ChainEnd, PTL
    <3> QED  BY <1>9, <3>1, ChainEnd
  <2>2. rest \in Nat /\ rest = l - c  BY <1>3, <1>4
  <2>3. _current'.position = rest /\ _mark'.position = -1 /\ _limit'.position = -1
    BY <1>1, <1>8 DEF Chain!Invalid, Chain!Pos
  <2>4. DOMAIN Chain!Tape' = 0 .. rest - 1
    <3> DEFINE D == DOMAIN Chain!Tape'
    <3>1. \A j : j \in D <=> j \in Nat /\ (j < rest \/ j < -1)
      BY <2>1, <2>3 DEF ChainTapeIs, OnChain
    <3>2. \A j : j \in D <=> j \in 0 .. rest - 1
      <4> HIDE DEF D
      <4> QED  BY <2>2, <3>1
    <3>3. D = 0 .. LinkedTape!Max({_current'.position, _mark'.position, _limit'.position}) - 1
      BY <2>1 DEF ChainTapeIs
    <3> HIDE DEF D
    <3>4. D = 0 .. rest - 1  BY <3>2, <3>3
    <3> QED  BY <3>4 DEF D
  <2>5. ASSUME NEW j \in 0 .. rest - 1
        PROVE  Stored(chain', _zero'.off + j) = Chain!Tape[c + j]
    <3>1. rest # 0 /\ j \in Nat /\ j < rest  BY <2>2
    <3>2. _zero'.off = u  BY <1>8, <3>1
    <3> DEFINE at_j == u + j  on == c + j
    <3>3. /\ at_j \in Nat /\ at_j < b * m /\ b * (x - 1) + at_j = zero + on
          /\ on \in Nat /\ on < l
      BY <1>4, <1>5, <1>7, <2>2, <3>1
    <3> HIDE DEF at_j, on
    <3>4. Stored(chain', at_j) = Stored(chain, zero + on)  BY <1>5, <3>3
    <3>5. Chain!Tape[on] = Stored(chain, zero + on)
      BY <2>1, <3>3 DEF ChainTapeIs, OnChain, l, zero
    <3> QED  BY <3>2, <3>4, <3>5 DEF at_j, on
  <2>6. Chain!Tape' = [j \in DOMAIN Chain!Tape' |-> Stored(chain', _zero'.off + j)]
    BY <2>1 DEF ChainTapeIs, Stored
  <2>7. Chain!Tape' = [j \in 0 .. rest - 1 |-> Stored(chain', _zero'.off + j)]  BY <2>4, <2>6
  <2>8. [j \in 0 .. rest - 1 |-> Stored(chain', _zero'.off + j)] = [j \in 0 .. rest - 1 |-> Chain!Tape[c + j]]
    BY <2>5
  <2> QED  BY <2>7, <2>8
<1>11. _current'.position = rest /\ rest = l - c /\ _mark'.position = -1 /\ _limit'.position = -1
  BY <1>1, <1>3, <1>8 DEF Chain!Invalid, Chain!Pos
<1> QED
  BY <1>1, <1>3, <1>9, <1>10, <1>11 DEF LinkedTape!Compact, LinkedTape!None, c, l

-----------------------------------------------------------------------------
(* All of them *)

(* Every call is one of the tape.                                          *)
LEMMA ChainSteps ==
  ASSUME ChainInv, Chain!Next
  PROVE  ChainInv' /\ (LinkedTape!Next \/ UNCHANGED LinkedTape!vars)
<1>1. CASE \E bytes \in Chain!Payloads : Chain!Put(bytes)
  BY <1>1, ChainWrites DEF LinkedTape!Next
<1>2. CASE \E k \in Lengths :
             Chain!Get(k) \/ Chain!Peek(k) \/ Chain!CommitGet(k) \/ Chain!Skip(k)
  BY <1>2, ChainReads, ChainIsRead, ChainSkips DEF LinkedTape!Next
<1>3. CASE Chain!FailToReserve  BY <1>3, ChainFails
<1>4. CASE Chain!DirectGet  BY <1>4, ChainShows DEF LinkedTape!Next
<1>5. CASE Chain!Mark \/ Chain!Reset \/ Chain!Rewind \/ Chain!Flip
  BY <1>5, ChainMoves DEF LinkedTape!Next
<1>6. CASE Chain!Clear  BY <1>6, ChainClears DEF LinkedTape!Next
<1>7. CASE Chain!Compact  BY <1>7, ChainCompacts DEF LinkedTape!Next
<1> QED  BY <1>1, <1>2, <1>3, <1>4, <1>5, <1>6, <1>7 DEF Chain!Next

(* The other parts leave the chain alone.                                  *)
LEMMA ChainStays ==
  ASSUME ChainInv, UNCHANGED links
  PROVE  ChainInv' /\ UNCHANGED LinkedTape!vars
<1>1. UNCHANGED <<chain, _usable, _current, _zero, _mark, _limit, passed>>  BY DEF links
<1>2. ChainInv'  BY <1>1 DEF ChainInv, Agrees, Chain!Invalid
<1>3. Chain!Tape' = Chain!Tape  BY <1>1, <1>2, ChainSame DEF OnChain
<1> QED  BY <1>1, <1>2, <1>3 DEF LinkedTape!vars

(* What the runs check of the positions.                                   *)
LEMMA ChainAgrees == ChainInv => Chain!PositionsAgree
<1> SUFFICES ASSUME ChainInv PROVE Chain!PositionsAgree
  OBVIOUS
<1>1. /\ Len(chain) \in Nat /\ _zero.off \in Nat /\ _usable = _block_size * Len(chain) - _zero.off
      /\ _block_size \in Nat \ {0}
  BY ChainNumbers, BytesKnown
<1>2. ASSUME NEW p, Agrees(p)
      PROVE  /\ p.block \in 1 .. Len(chain) /\ p.off \in 0 .. _block_size
             /\ (p.block - 1) * _block_size + p.off = _zero.off + p.position
             /\ p.position < _usable
  <2> DEFINE x == p.block  u == p.off  c == p.position  n == Len(chain)  room == _block_size * n
             zero == _zero.off
  <2>1. /\ x \in Nat \ {0} /\ x <= n /\ u \in 0 .. _block_size /\ c \in Nat
        /\ _block_size * (x - 1) + u = zero + c /\ zero + c < room
    BY <1>2 DEF Agrees, Stands
  <2>2. room \in Nat /\ zero \in Nat /\ n \in Nat /\ _usable = room - zero  BY <1>1, Product
  <2> HIDE DEF x, u, c, n, room, zero
  <2>3. _block_size * (x - 1) = (x - 1) * _block_size  BY <1>1, <2>1
  <2>4. x \in 1 .. n /\ c < _usable  BY <2>1, <2>2
  <2> QED  BY <2>1, <2>3, <2>4 DEF x, u, c, n, zero
<1>3. \A p \in {_current, _mark, _limit} \ {Chain!Invalid} : Agrees(p)  BY DEF ChainInv
<1>4. _usable = Chain!_capacity - _zero.off  BY <1>1 DEF Chain!_capacity
<1> QED  BY <1>2, <1>3, <1>4 DEF Chain!PositionsAgree

(* A step of the composition is one of each buffer, or none.               *)
LEMMA BuffersStep ==
  ASSUME ChainInv, PieceInv, [MCNext]_<<part, vars, fifo, fsb, slab, log, links, piece>>
  PROVE  /\ ChainInv' /\ [LinkedTape!Next]_(LinkedTape!vars)
         /\ PieceInv' /\ [PieceTape!Next]_(PieceTape!vars)
<1>1. Chain!Next \/ UNCHANGED links  BY DEF MCNext
<1>2. Piece!Next \/ UNCHANGED piece  BY DEF MCNext
<1>3. ChainInv' /\ [LinkedTape!Next]_(LinkedTape!vars)  BY <1>1, ChainSteps, ChainStays
<1>4. PieceInv' /\ [PieceTape!Next]_(PieceTape!vars)  BY <1>2, PieceSteps, PieceStays
<1> QED  BY <1>3, <1>4

(* Both buffers are tapes: get, skip and direct_get see what was put at    *)
(* the position (buffer.h:256, linked_buffer.h:386), whatever is reserved, *)
(* marked, flipped, cleared or compacted between; and the block, place and *)
(* count of each position of the chain agree.                              *)
THEOREM BuffersImplementTape == MCSpec => BuffersAreTapes
<1>1. MCInit => ChainInv /\ LinkedTape!Init /\ PieceInv /\ PieceTape!Init
  BY ChainStarts, PieceStarts DEF MCInit
<1>2. ChainInv /\ PieceInv /\ [MCNext]_<<part, vars, fifo, fsb, slab, log, links, piece>> =>
        /\ ChainInv' /\ [LinkedTape!Next]_(LinkedTape!vars)
        /\ PieceInv' /\ [PieceTape!Next]_(PieceTape!vars)
  BY BuffersStep
<1> QED
  BY <1>1, <1>2, ChainAgrees, PTL DEF MCSpec, BuffersAreTapes, LinkedTape!Spec, PieceTape!Spec
=============================================================================
