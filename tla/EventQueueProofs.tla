-------------------------- MODULE EventQueueProofs --------------------------
(***************************************************************************)
(* Proofs about EventQueue, for every set of producers, every capacity and *)
(* every set of block sizes.                                               *)
(*                                                                         *)
(* The inductive invariant says where the live blocks lie.  With           *)
(* _free_pos <= _alloc_pos they all lie between the two, in order.  With   *)
(* _alloc_pos < _free_pos the older ones lie at or above _free_pos and the *)
(* younger ones below _alloc_pos; the consumer finds its way from the last *)
(* of the former to the front by the SKIPPED marker or by the end of the   *)
(* buffer.  What it says of intervals of words is stated on numbers, so    *)
(* that the lemmas about it are plain arithmetic.                          *)
(***************************************************************************)
EXTENDS EventQueue, SequenceTheorems, TLAPS

(* [x, y) lies in the part of the ring in use, for _free_pos f and         *)
(* _alloc_pos a.                                                           *)
Placed(x, y, f, a) == \/ f <= a /\ f <= x /\ y <= a
                      \/ a < f /\ f <= x /\ y <= Cap
                      \/ a < f /\ y <= a

(* The consumer meets [x, y) before [u, v). *)
Before(x, y, u, v, f, a) ==
  \/ y <= u /\ (f <= a \/ f <= x \/ v <= a)
  \/ a < f /\ f <= x /\ v <= a

(* A block of n words may be made at q, after a skip when s holds. *)
Plan(q, n, s, f, a) ==
  \/ s /\ q = 0 /\ n < f /\ f <= a
  \/ ~s /\ q = a /\ a + n <= Cap /\ (f <= a \/ a + n < f)

(* From q the consumer goes to the front. *)
Jump(q) == Cap - q <= Hdr \/ mem[q] = SKIPPED

PlaceInv == \A i \in 1 .. Len(blocks) :
              Placed(blocks[i].pos, Until(blocks[i]), freePos, allocPos)

OrderInv == \A i, j \in 1 .. Len(blocks) : i < j =>
              Before(blocks[i].pos, Until(blocks[i]),
                     blocks[j].pos, Until(blocks[j]), freePos, allocPos)

(* The last block ends at _alloc_pos, and the first is where the consumer  *)
(* looks next.                                                             *)
EndsInv ==
  /\ blocks = <<>> => freePos = allocPos
  /\ blocks # <<>> =>
       /\ allocPos = Until(blocks[Len(blocks)])
       /\ \/ blocks[1].pos = freePos
          \/ blocks[1].pos = 0 /\ allocPos < freePos /\ Jump(freePos)

ChainInv ==
  \A i \in 1 .. Len(blocks) : i + 1 \in 1 .. Len(blocks) =>
    \/ blocks[i + 1].pos = Until(blocks[i])
    \/ blocks[i + 1].pos = 0 /\ Jump(Until(blocks[i]))

HeaderInv ==
  \A i \in 1 .. Len(blocks) :
    /\ blocks[i].committed => mem[blocks[i].pos] = COMMITTED
    /\ ~blocks[i].committed => mem[blocks[i].pos] = ALLOCATED
    /\ mem[blocks[i].pos + 1] = blocks[i].len

RingInv == PlaceInv /\ OrderInv /\ EndsInv /\ ChainInv /\ HeaderInv

CriticalPCs == {"load", "header", "marker", "publish", "leave"}
PlanPCs == {"header", "marker", "publish"}

LockInv == \A p \in Producers : pc[p] \in CriticalPCs <=> lock = p

(* What Load(p) concluded from a _free_pos that may have moved since. *)
PlanInv(p) ==
  pc[p] \in PlanPCs =>
    /\ Plan(ptr[p], len[p], skip[p], freePos, allocPos)
    /\ pc[p] # "header" => /\ mem[ptr[p]] = ALLOCATED
                           /\ mem[ptr[p] + 1] = len[p]
    /\ pc[p] = "publish" /\ skip[p] => Jump(allocPos)

(* The block that producer p may still write at q: live, its own, and not  *)
(* committed.                                                              *)
Owns(p, q, i) == blocks[i].pos = q /\ blocks[i].owner = p /\ ~blocks[i].committed

HoldInv(p) ==
  /\ pc[p] # "idle" => len[p] \in Lens
  /\ pc[p] \in {"idle", "enter", "load"} => ptr[p] = Nil
  /\ pc[p] \in PlanPCs \cup {"construct"} => ptr[p] # Nil
  /\ pc[p] \in {"leave", "construct"} /\ ptr[p] # Nil =>
       \E i \in 1 .. Len(blocks) : Owns(p, ptr[p], i) /\ blocks[i].len = len[p]
  /\ \A q \in held[p] : \E i \in 1 .. Len(blocks) : Owns(p, q, i)

ProducerInv == LockInv /\ \A p \in Producers : PlanInv(p) /\ HoldInv(p)

ConsumerInv ==
  /\ cpc # "pop" => blocks # <<>>
  /\ cpc = "state" => Cap - freePos > Hdr
  /\ cpc = "skipped" => blocks[1].pos = 0 /\ allocPos < freePos
  /\ cpc = "front" => blocks[1].pos = 0 /\ freePos = 0
  /\ cpc \in {"handle", "free"} =>
       blocks[1].pos = freePos /\ ev = freePos /\ blocks[1].committed

IInv == TypeOK /\ RingInv /\ ProducerInv /\ ConsumerInv

-----------------------------------------------------------------------------
(* Arithmetic of the ring. *)

USE CapAssumption DEF Hdr

(* Two blocks in use, one met before the other, have no word in common. *)
LEMMA PlacedDisjoint ==
  ASSUME NEW f \in 0 .. Cap, NEW a \in 0 .. Cap,
         NEW x \in Nat, NEW y \in Nat, NEW u \in Nat, NEW v \in Nat,
         Placed(x, y, f, a), Placed(u, v, f, a), Before(x, y, u, v, f, a)
  PROVE  y <= Cap /\ v <= Cap /\ (y <= u \/ v <= x)
BY DEF Placed, Before

(* allocate() only concludes that a block fits where Plan says so. *)
LEMMA AllocatedPlan ==
  ASSUME NEW f \in 0 .. Cap, NEW a \in 0 .. Cap, NEW n \in Nat, n > Hdr,
         Allocated(a, f, n)
  PROVE  /\ Plan(AllocAt(a, f, n), n, SkipFlag(a, f, n), f, a)
         /\ AllocAt(a, f, n) \in Words
BY DEF Allocated, AllocAt, SkipFlag, Unwrapped, RearFits, Plan, Words

(* Publishing the planned block leaves the others in place, behind which   *)
(* it comes.                                                               *)
LEMMA ExtendPlaced ==
  ASSUME NEW f \in 0 .. Cap, NEW a \in 0 .. Cap, NEW q \in Nat, NEW n \in Nat,
         NEW s, n > Hdr, Plan(q, n, s, f, a)
  PROVE  /\ q + n \in 0 .. Cap
         /\ Placed(q, q + n, f, q + n)
         /\ \A x, y \in Nat : Placed(x, y, f, a) =>
              Placed(x, y, f, q + n) /\ Before(x, y, q, q + n, f, q + n)
BY DEF Plan, Placed, Before

LEMMA ExtendBefore ==
  ASSUME NEW f \in 0 .. Cap, NEW a \in 0 .. Cap, NEW q \in Nat, NEW n \in Nat,
         NEW s, n > Hdr, Plan(q, n, s, f, a),
         NEW x \in Nat, NEW y \in Nat, NEW u \in Nat, NEW v \in Nat,
         x < y, u < v, Placed(x, y, f, a), Placed(u, v, f, a),
         Before(x, y, u, v, f, a)
  PROVE  Before(x, y, u, v, f, q + n)
BY DEF Plan, Placed, Before

(* Freeing the oldest block [f, g). *)
LEMMA ReleasePlaced ==
  ASSUME NEW f \in 0 .. Cap, NEW a \in 0 .. Cap, NEW g \in Nat, f < g,
         Placed(f, g, f, a)
  PROVE  /\ g \in 0 .. Cap
         /\ f <= a <=> g <= a
         /\ \A x, y \in Nat : Placed(x, y, f, a) /\ Before(f, g, x, y, f, a)
              => Placed(x, y, g, a)
         /\ \A q, n \in Nat, s \in BOOLEAN : n > Hdr /\ Plan(q, n, s, f, a)
              => Plan(q, n, s, g, a)
BY DEF Plan, Placed, Before

LEMMA ReleaseBefore ==
  ASSUME NEW f \in 0 .. Cap, NEW a \in 0 .. Cap, NEW g \in Nat, f < g,
         Placed(f, g, f, a),
         NEW x \in Nat, NEW y \in Nat, NEW u \in Nat, NEW v \in Nat,
         x < y, u < v, Placed(x, y, f, a), Placed(u, v, f, a),
         Before(f, g, x, y, f, a), Before(f, g, u, v, f, a),
         Before(x, y, u, v, f, a)
  PROVE  Before(x, y, u, v, g, a)
BY DEF Placed, Before

(* Going back to the front when the oldest block [0, h) is there. *)
LEMMA RewindPlaced ==
  ASSUME NEW f \in 0 .. Cap, NEW a \in 0 .. Cap, NEW h \in Nat, 0 < h, a < f,
         Placed(0, h, f, a)
  PROVE  /\ Placed(0, h, 0, a)
         /\ \A x, y \in Nat : Placed(x, y, f, a) /\ Before(0, h, x, y, f, a)
              => Placed(x, y, 0, a) /\ y <= a
         /\ \A q, n \in Nat, s \in BOOLEAN : n > Hdr /\ Plan(q, n, s, f, a)
              => Plan(q, n, s, 0, a)
BY DEF Plan, Placed, Before

-----------------------------------------------------------------------------
(* The live blocks. *)

LEMMA BlockFields ==
  ASSUME NEW b \in Block
  PROVE  /\ b.pos \in Words /\ b.pos \in Nat /\ b.len \in Lens
         /\ b.len \in Nat /\ b.len > Hdr /\ b.owner \in Producers
         /\ Until(b) \in Nat /\ b.pos + Hdr < Until(b)
         /\ Until(b) = b.pos + b.len
<1>1. b.pos \in Words /\ b.len \in Lens /\ b.owner \in Producers
  BY DEF Block
<1>2. b.pos \in Nat
  BY <1>1 DEF Words
<1>3. b.len \in Nat /\ b.len > Hdr
  BY <1>1, LensAssumption
<1> QED
  BY <1>1, <1>2, <1>3 DEF Until

LEMMA PosFacts ==
  ASSUME TypeOK
  PROVE  /\ allocPos \in 0 .. Cap /\ freePos \in 0 .. Cap
         /\ Len(blocks) \in Nat
         /\ \A i \in 1 .. Len(blocks) : blocks[i] \in Block
         /\ blocks # <<>> => 1 \in 1 .. Len(blocks)
BY DEF TypeOK

LEMMA BlockFacts ==
  ASSUME TypeOK, NEW i \in 1 .. Len(blocks)
  PROVE  /\ blocks[i].pos \in Words /\ blocks[i].pos \in Nat
         /\ blocks[i].len \in Lens /\ blocks[i].len \in Nat
         /\ blocks[i].len > Hdr /\ blocks[i].owner \in Producers
         /\ Until(blocks[i]) \in Nat /\ blocks[i].pos + Hdr < Until(blocks[i])
         /\ Until(blocks[i]) = blocks[i].pos + blocks[i].len
BY PosFacts, BlockFields

(* No two live blocks have a word in common, and all are in the buffer. *)
LEMMA Disjoint ==
  ASSUME TypeOK, PlaceInv, OrderInv,
         NEW i \in 1 .. Len(blocks), NEW j \in 1 .. Len(blocks), i # j
  PROVE  /\ Until(blocks[i]) <= Cap
         /\ \/ Until(blocks[i]) <= blocks[j].pos
            \/ Until(blocks[j]) <= blocks[i].pos
<1>1. CASE i < j
  BY <1>1, PosFacts, BlockFacts, PlacedDisjoint DEF PlaceInv, OrderInv
<1>2. CASE j < i
  BY <1>2, PosFacts, BlockFacts, PlacedDisjoint DEF PlaceInv, OrderInv
<1> QED
  BY <1>1, <1>2, PosFacts

LEMMA InCap ==
  ASSUME TypeOK, PlaceInv, NEW i \in 1 .. Len(blocks)
  PROVE  Until(blocks[i]) <= Cap /\ blocks[i].pos + 1 \in Words
<1>1. Until(blocks[i]) <= Cap
  BY PosFacts, BlockFacts DEF PlaceInv, Placed
<1> QED
  BY <1>1, BlockFacts DEF Words

(* A word that may carry a marker the consumer still has to see: the ring  *)
(* is wrapped, the word is at or above _free_pos and in no live block.     *)
Vacant(x) == /\ allocPos < freePos
             /\ freePos <= x
             /\ \A i \in 1 .. Len(blocks) :
                  x < blocks[i].pos \/ Until(blocks[i]) <= x

(* Where the oldest block is at the front and _free_pos is not yet, every  *)
(* live block is in the front part.                                        *)
LEMMA HeadInFront ==
  ASSUME TypeOK, PlaceInv, OrderInv, blocks # <<>>,
         blocks[1].pos = 0, allocPos < freePos
  PROVE  \A i \in 1 .. Len(blocks) : Until(blocks[i]) <= allocPos
<1>1. Until(blocks[1]) <= allocPos
  BY PosFacts, BlockFacts DEF PlaceInv, Placed
<1>2. ASSUME NEW i \in 1 .. Len(blocks), i # 1 PROVE Until(blocks[i]) <= allocPos
  BY <1>2, PosFacts, BlockFacts DEF OrderInv, Before
<1> QED
  BY <1>1, <1>2

LEMMA HeadJumpVacant ==
  ASSUME TypeOK, PlaceInv, OrderInv, blocks # <<>>,
         blocks[1].pos = 0, allocPos < freePos
  PROVE  Vacant(freePos)
BY HeadInFront, PosFacts, BlockFacts DEF Vacant

LEMMA ChainJumpVacant ==
  ASSUME TypeOK, PlaceInv, OrderInv,
         NEW i \in 1 .. Len(blocks), i + 1 \in 1 .. Len(blocks),
         blocks[i + 1].pos = 0
  PROVE  Vacant(Until(blocks[i]))
<1> DEFINE e == Until(blocks[i])
<1>1. /\ allocPos < freePos /\ freePos <= blocks[i].pos
      /\ Until(blocks[i + 1]) <= allocPos
  BY PosFacts, BlockFacts DEF OrderInv, Before
<1>t. /\ allocPos \in Nat /\ freePos \in Nat /\ Len(blocks) \in Nat
      /\ blocks[i].pos \in Nat /\ e \in Nat /\ blocks[i].pos < e
  BY PosFacts, BlockFacts
<1>2. ASSUME NEW k \in 1 .. Len(blocks), k < i PROVE Until(blocks[k]) <= e
  <2>1. Before(blocks[k].pos, Until(blocks[k]), blocks[i].pos, e, freePos, allocPos)
    BY <1>2 DEF OrderInv
  <2>2. blocks[k].pos \in Nat /\ Until(blocks[k]) \in Nat
    BY BlockFacts
  <2> HIDE DEF e
  <2> QED
    BY <1>1, <1>t, <2>1, <2>2 DEF Before
<1>3. ASSUME NEW k \in 1 .. Len(blocks), i + 1 < k PROVE Until(blocks[k]) <= e
  <2>1. Before(0, Until(blocks[i + 1]), blocks[k].pos, Until(blocks[k]),
               freePos, allocPos)
    BY <1>3 DEF OrderInv
  <2>2. Until(blocks[k]) \in Nat /\ Until(blocks[i + 1]) \in Nat
    BY BlockFacts
  <2> HIDE DEF e
  <2> QED
    BY <1>1, <1>t, <2>1, <2>2 DEF Before
<1>4. ASSUME NEW k \in 1 .. Len(blocks) PROVE Until(blocks[k]) <= e
  <2>1. k < i \/ k = i \/ k = i + 1 \/ i + 1 < k
    BY <1>t
  <2>2. Until(blocks[i + 1]) \in Nat
    BY BlockFacts
  <2> QED
    BY <1>1, <1>t, <1>2, <1>3, <2>1, <2>2
<1> QED
  BY <1>1, <1>4, PosFacts, BlockFacts DEF Vacant

(* A step that moves no position and no block, and that leaves the markers *)
(* the consumer still has to see, keeps the layout.                        *)
LEMMA LayoutKept ==
  ASSUME TypeOK, RingInv, UNCHANGED <<allocPos, freePos>>,
         Len(blocks') = Len(blocks), blocks' = <<>> <=> blocks = <<>>,
         \A i \in 1 .. Len(blocks) : /\ blocks'[i].pos = blocks[i].pos
                                     /\ blocks'[i].len = blocks[i].len,
         \A x \in Words : Vacant(x) /\ mem[x] = SKIPPED => mem'[x] = SKIPPED
  PROVE  PlaceInv' /\ OrderInv' /\ EndsInv' /\ ChainInv'
<1>u. \A i \in 1 .. Len(blocks) : Until(blocks'[i]) = Until(blocks[i])
  BY DEF Until
<1>p. PlaceInv /\ OrderInv /\ EndsInv /\ ChainInv
  BY DEF RingInv
<1>1. PlaceInv'
  BY <1>u, <1>p DEF PlaceInv
<1>2. OrderInv'
  BY <1>u, <1>p DEF OrderInv
<1>j. \A x \in Nat : Vacant(x) /\ Jump(x) => Jump(x)'
  BY DEF Jump, Words
<1>3. EndsInv'
  BY <1>u, <1>p, <1>j, PosFacts, HeadJumpVacant DEF EndsInv
<1>4. ChainInv'
  BY <1>u, <1>p, <1>j, PosFacts, BlockFacts, ChainJumpVacant DEF ChainInv
<1> QED
  BY <1>1, <1>2, <1>3, <1>4

(* Steps that change neither the ring nor the history keep RingInv. *)
LEMMA RingUnchanged ==
  ASSUME RingInv, UNCHANGED <<ring, blocks>>
  PROVE  RingInv'
BY DEF ring, RingInv, PlaceInv, OrderInv, EndsInv, ChainInv, HeaderInv, Jump

-----------------------------------------------------------------------------
(* The initial state, and frames for the producers and the consumer. *)

LEMMA InitIInv == Init => IInv
<1> SUFFICES ASSUME Init PROVE IInv
  OBVIOUS
<1>1. TypeOK
  BY DEF Init, TypeOK, PCs, CPCs, Nil
<1>2. RingInv
  BY DEF Init, RingInv, PlaceInv, OrderInv, EndsInv, ChainInv, HeaderInv
<1>3. ProducerInv
  BY ValuesAssumption
  DEF Init, ProducerInv, LockInv, PlanInv, HoldInv, CriticalPCs, PlanPCs
<1>4. ConsumerInv
  BY DEF Init, ConsumerInv
<1> QED
  BY <1>1, <1>2, <1>3, <1>4 DEF IInv

LEMMA ConsumerUnchanged ==
  ASSUME ConsumerInv, UNCHANGED <<allocPos, freePos, consumer, blocks>>
  PROVE  ConsumerInv'
BY DEF ConsumerInv, consumer

(* p holds the lock alone. *)
LEMMA OthersOutside ==
  ASSUME LockInv, NEW p \in Producers, pc[p] \in CriticalPCs,
         NEW r \in Producers, r # p
  PROVE  pc[r] \notin CriticalPCs /\ pc[r] \notin PlanPCs
BY DEF LockInv, CriticalPCs, PlanPCs

(* A producer that takes no step keeps its blocks as long as the ones it   *)
(* may still write stay in the history.                                    *)
LEMMA HoldKept ==
  ASSUME NEW r \in Producers, HoldInv(r), pc'[r] = pc[r], len'[r] = len[r],
         ptr'[r] = ptr[r], held'[r] = held[r],
         \A i \in 1 .. Len(blocks) :
           blocks[i].owner = r /\ ~blocks[i].committed =>
             \E j \in 1 .. Len(blocks') : blocks'[j] = blocks[i]
  PROVE  HoldInv(r)'
BY DEF HoldInv, Owns, PlanPCs

LEMMA HoldSame ==
  ASSUME NEW r \in Producers, HoldInv(r), pc'[r] = pc[r], len'[r] = len[r],
         ptr'[r] = ptr[r], held'[r] = held[r], UNCHANGED blocks
  PROVE  HoldInv(r)'
BY DEF HoldInv, Owns, PlanPCs

LEMMA PlanSame ==
  ASSUME NEW r \in Producers, PlanInv(r), pc'[r] = pc[r], len'[r] = len[r],
         ptr'[r] = ptr[r], skip'[r] = skip[r], UNCHANGED ring
  PROVE  PlanInv(r)'
BY DEF PlanInv, PlanPCs, Plan, Jump, ring

LEMMA PlanOutside ==
  ASSUME NEW r \in Producers, pc[r] \notin PlanPCs, pc'[r] = pc[r]
  PROVE  PlanInv(r)'
BY DEF PlanInv, PlanPCs

-----------------------------------------------------------------------------
(* Steps of a producer that leave the ring alone. *)

LEMMA StepCall ==
  ASSUME IInv, NEW p \in Producers, NEW n \in Lens, NEW w \in BOOLEAN, Call(p, n, w)
  PROVE  IInv'
<1> USE DEF IInv, Call
<1>1. TypeOK'
  BY DEF TypeOK, PCs, ring, consumer
<1>2. RingInv' /\ ConsumerInv'
  BY RingUnchanged, ConsumerUnchanged DEF ring
<1>3. LockInv'
  BY DEF ProducerInv, LockInv, CriticalPCs, TypeOK
<1>4. PlanInv(p)' /\ HoldInv(p)'
  BY DEF ProducerInv, PlanInv, HoldInv, Owns, PlanPCs, TypeOK
<1>5. ASSUME NEW r \in Producers, r # p PROVE PlanInv(r)' /\ HoldInv(r)'
  BY <1>5, PlanSame, HoldSame DEF ProducerInv, TypeOK
<1> QED
  BY <1>1, <1>2, <1>3, <1>4, <1>5 DEF ProducerInv

LEMMA StepEnter ==
  ASSUME IInv, NEW p \in Producers, Enter(p)
  PROVE  IInv'
<1> USE DEF IInv, Enter
<1>1. TypeOK'
  BY DEF TypeOK, PCs, ring, consumer
<1>2. RingInv' /\ ConsumerInv'
  BY RingUnchanged, ConsumerUnchanged DEF ring
<1>3. LockInv'
  BY ValuesAssumption DEF ProducerInv, LockInv, CriticalPCs, TypeOK
<1>4. PlanInv(p)' /\ HoldInv(p)'
  BY DEF ProducerInv, PlanInv, HoldInv, Owns, PlanPCs, TypeOK
<1>5. ASSUME NEW r \in Producers, r # p PROVE PlanInv(r)' /\ HoldInv(r)'
  BY <1>5, PlanSame, HoldSame DEF ProducerInv, TypeOK
<1> QED
  BY <1>1, <1>2, <1>3, <1>4, <1>5 DEF ProducerInv

LEMMA StepLeave ==
  ASSUME IInv, NEW p \in Producers, Leave(p) \/ GiveUp(p)
  PROVE  IInv'
<1> USE DEF IInv, Leave, GiveUp
<1>1. TypeOK'
  BY DEF TypeOK, PCs, ring, consumer
<1>2. RingInv' /\ ConsumerInv'
  BY RingUnchanged, ConsumerUnchanged DEF ring
<1>3. LockInv'
  BY ValuesAssumption DEF ProducerInv, LockInv, CriticalPCs, TypeOK
<1>4. PlanInv(p)' /\ HoldInv(p)'
  BY DEF ProducerInv, PlanInv, HoldInv, Owns, PlanPCs, TypeOK
<1>5. ASSUME NEW r \in Producers, r # p PROVE PlanInv(r)' /\ HoldInv(r)'
  BY <1>5, PlanSame, HoldSame DEF ProducerInv, TypeOK
<1> QED
  BY <1>1, <1>2, <1>3, <1>4, <1>5 DEF ProducerInv

LEMMA StepLoad ==
  ASSUME IInv, NEW p \in Producers, Load(p)
  PROVE  IInv'
<1> USE DEF IInv
<1>0. /\ len[p] \in Lens /\ len[p] \in Nat /\ len[p] > Hdr
      /\ pc[p] = "load" /\ ptr[p] = Nil
  BY LensAssumption DEF Load, ProducerInv, HoldInv
<1>a. Allocated(allocPos, freePos, len[p]) =>
        /\ Plan(AllocAt(allocPos, freePos, len[p]), len[p],
                SkipFlag(allocPos, freePos, len[p]), freePos, allocPos)
        /\ AllocAt(allocPos, freePos, len[p]) \in Words
  BY <1>0, PosFacts, AllocatedPlan
<1>b. SkipFlag(allocPos, freePos, len[p]) \in BOOLEAN
  BY DEF SkipFlag, Unwrapped
<1>1. TypeOK'
  BY <1>a, <1>b DEF Load, TypeOK, PCs, ring, consumer
<1>2. RingInv' /\ ConsumerInv'
  BY RingUnchanged, ConsumerUnchanged DEF Load, ring
<1>3. LockInv'
  BY DEF Load, ProducerInv, LockInv, CriticalPCs, TypeOK
<1>4. PlanInv(p)'
  BY <1>a DEF Load, PlanInv, PlanPCs, TypeOK, ring
<1>5. HoldInv(p)'
  <2>1. Nil \notin Words
    BY DEF Nil, Words
  <2> QED
    BY <1>0, <1>a, <2>1 DEF Load, ProducerInv, HoldInv, Owns, PlanPCs, TypeOK
<1>6. ASSUME NEW r \in Producers, r # p PROVE PlanInv(r)' /\ HoldInv(r)'
  BY <1>6, PlanSame, HoldSame DEF Load, ProducerInv, TypeOK
<1> QED
  BY <1>1, <1>2, <1>3, <1>4, <1>5, <1>6 DEF ProducerInv

-----------------------------------------------------------------------------
(* Steps of a producer that write the buffer. *)

(* The planned block meets no live block and no marker still needed. *)
LEMMA PlanFree ==
  ASSUME TypeOK, PlaceInv, NEW q \in Nat, NEW n \in Nat, NEW s, n > Hdr,
         Plan(q, n, s, freePos, allocPos)
  PROVE  /\ q \in Words /\ q + 1 \in Words
         /\ \A i \in 1 .. Len(blocks) :
              Until(blocks[i]) <= q \/ q + n <= blocks[i].pos
         /\ \A x \in Words : Vacant(x) => q + 1 < x
         /\ s => \A i \in 1 .. Len(blocks) : Until(blocks[i]) <= allocPos
<1>1. q \in Words /\ q + 1 \in Words
  BY PosFacts DEF Plan, Words
<1>2. ASSUME NEW i \in 1 .. Len(blocks)
      PROVE  /\ Until(blocks[i]) <= q \/ q + n <= blocks[i].pos
             /\ s => Until(blocks[i]) <= allocPos
  BY PosFacts, BlockFacts DEF Plan, PlaceInv, Placed
<1>3. ASSUME NEW x \in Words, Vacant(x) PROVE q + 1 < x
  BY <1>3, PosFacts DEF Plan, Vacant, Words
<1> QED
  BY <1>1, <1>2, <1>3

LEMMA PlanFacts ==
  ASSUME TypeOK, NEW p \in Producers, PlanInv(p), HoldInv(p), pc[p] \in PlanPCs
  PROVE  /\ Plan(ptr[p], len[p], skip[p], freePos, allocPos)
         /\ len[p] \in Lens /\ len[p] \in Nat /\ len[p] > Hdr /\ ptr[p] \in Nat
<1>1. ptr[p] \in Words /\ len[p] \in Lens
  BY DEF HoldInv, TypeOK, PlanPCs
<1>2. ptr[p] \in Nat
  BY <1>1 DEF Words
<1>3. len[p] \in Nat /\ len[p] > Hdr
  BY <1>1, LensAssumption
<1> QED
  BY <1>1, <1>2, <1>3 DEF PlanInv

LEMMA StepWriteHeader ==
  ASSUME IInv, NEW p \in Producers, WriteHeader(p)
  PROVE  IInv'
<1> DEFINE q == ptr[p]
           n == len[p]
<1> USE DEF IInv
<1>0. /\ pc[p] = "header" /\ pc[p] \in PlanPCs /\ pc[p] \in CriticalPCs
      /\ PlanInv(p) /\ HoldInv(p) /\ LockInv
      /\ PlaceInv /\ OrderInv /\ HeaderInv
  BY DEF WriteHeader, ProducerInv, PlanPCs, CriticalPCs, RingInv
<1>1. /\ q \in Words /\ q + 1 \in Words /\ q \in Nat /\ n \in Nat /\ n > Hdr
      /\ n \in Lens
      /\ \A i \in 1 .. Len(blocks) :
           Until(blocks[i]) <= q \/ q + n <= blocks[i].pos
      /\ \A x \in Words : Vacant(x) => q + 1 < x
  BY <1>0, PlanFacts, PlanFree
<1>2. /\ mem' = [mem EXCEPT ![q] = ALLOCATED, ![q + 1] = n]
      /\ UNCHANGED <<allocPos, freePos, lock, len, wait, ptr, skip, held,
                     cpc, ev, blocks>>
      /\ pc' = [pc EXCEPT ![p] = "marker"]
  BY DEF WriteHeader, WithHeader, consumer
<1>m. /\ mem'[q] = ALLOCATED /\ mem'[q + 1] = n
      /\ \A x \in Words : x # q /\ x # q + 1 => mem'[x] = mem[x]
  BY <1>1, <1>2 DEF TypeOK
<1>3. TypeOK'
  <2>1. mem' \in [Words -> States \cup Lens \cup Producers \cup {Junk}]
    BY <1>1, <1>2 DEF TypeOK, States
  <2> QED
    BY <2>1, <1>2 DEF TypeOK, PCs
<1> HIDE DEF q, n
<1>4. HeaderInv'
  <2> SUFFICES ASSUME NEW i \in 1 .. Len(blocks)
               PROVE /\ mem'[blocks[i].pos] = mem[blocks[i].pos]
                     /\ mem'[blocks[i].pos + 1] = mem[blocks[i].pos + 1]
    BY <1>0, <1>2 DEF HeaderInv
  <2>1. /\ blocks[i].pos \in Words /\ blocks[i].pos + 1 \in Words
        /\ blocks[i].pos \in Nat /\ Until(blocks[i]) \in Nat
        /\ blocks[i].pos + Hdr < Until(blocks[i])
    BY <1>0, BlockFacts, InCap
  <2>2. blocks[i].pos \notin {q, q + 1} /\ blocks[i].pos + 1 \notin {q, q + 1}
    BY <1>1, <2>1
  <2> QED
    BY <1>m, <2>1, <2>2
<1>5. RingInv'
  <2>1. \A x \in Words : Vacant(x) /\ mem[x] = SKIPPED => mem'[x] = SKIPPED
    BY <1>1, <1>m DEF Words
  <2> QED
    BY <1>2, <1>4, <2>1, LayoutKept DEF RingInv
<1>6. PlanInv(p)' /\ HoldInv(p)'
  BY <1>0, <1>2, <1>m DEF PlanInv, HoldInv, Owns, PlanPCs, TypeOK, q, n
<1>7. ASSUME NEW r \in Producers, r # p PROVE PlanInv(r)' /\ HoldInv(r)'
  BY <1>0, <1>2, <1>7, OthersOutside, PlanOutside, HoldSame DEF ProducerInv, TypeOK
<1>8. LockInv' /\ ConsumerInv'
  BY <1>0, <1>2, ConsumerUnchanged DEF LockInv, CriticalPCs, TypeOK, consumer
<1> QED
  BY <1>3, <1>5, <1>6, <1>7, <1>8 DEF ProducerInv

LEMMA StepWriteMarker ==
  ASSUME IInv, NEW p \in Producers, WriteMarker(p)
  PROVE  IInv'
<1> DEFINE q == ptr[p]
           n == len[p]
           put == skip[p] /\ NeedsMarker(allocPos)
<1> USE DEF IInv
<1>0. /\ pc[p] = "marker" /\ pc[p] \in PlanPCs /\ pc[p] \in CriticalPCs
      /\ PlanInv(p) /\ HoldInv(p) /\ LockInv
      /\ PlaceInv /\ OrderInv /\ HeaderInv
  BY DEF WriteMarker, ProducerInv, PlanPCs, CriticalPCs, RingInv
<1>1. /\ q \in Nat /\ n \in Nat /\ n > Hdr /\ q + 1 \in Words /\ q \in Words
      /\ Plan(q, n, skip[p], freePos, allocPos)
      /\ skip[p] => \A i \in 1 .. Len(blocks) : Until(blocks[i]) <= allocPos
      /\ allocPos \in 0 .. Cap /\ freePos \in 0 .. Cap
  BY <1>0, PlanFacts, PlanFree, PosFacts
<1>2. /\ mem' = IF put THEN [mem EXCEPT ![allocPos] = SKIPPED] ELSE mem
      /\ UNCHANGED <<allocPos, freePos, lock, len, wait, ptr, skip, held,
                     cpc, ev, blocks>>
      /\ pc' = [pc EXCEPT ![p] = "publish"]
  BY DEF WriteMarker, consumer
<1>m. /\ put => allocPos \in Words /\ mem'[allocPos] = SKIPPED
      /\ \A x \in Words : x # allocPos \/ ~put => mem'[x] = mem[x]
      /\ \A x \in Words : mem[x] = SKIPPED => mem'[x] = SKIPPED
  BY <1>1, <1>2 DEF TypeOK, NeedsMarker, Words
<1>j. skip[p] /\ ~put => Jump(allocPos)'
  BY <1>1, <1>2 DEF NeedsMarker, Jump
<1>k. put => skip[p]
  OBVIOUS
<1>3. TypeOK'
  <2>1. mem' \in [Words -> States \cup Lens \cup Producers \cup {Junk}]
    BY <1>2, <1>m DEF TypeOK, States
  <2> QED
    BY <2>1, <1>2 DEF TypeOK, PCs
<1> HIDE DEF q, n, put
<1>4. HeaderInv'
  <2> SUFFICES ASSUME NEW i \in 1 .. Len(blocks)
               PROVE /\ mem'[blocks[i].pos] = mem[blocks[i].pos]
                     /\ mem'[blocks[i].pos + 1] = mem[blocks[i].pos + 1]
    BY <1>0, <1>2 DEF HeaderInv
  <2>1. /\ blocks[i].pos \in Words /\ blocks[i].pos + 1 \in Words
        /\ blocks[i].pos \in Nat /\ Until(blocks[i]) \in Nat
        /\ blocks[i].pos + Hdr < Until(blocks[i])
    BY <1>0, BlockFacts, InCap
  <2>2. put => blocks[i].pos # allocPos /\ blocks[i].pos + 1 # allocPos
    BY <1>1, <1>k, <2>1
  <2> QED
    BY <1>m, <2>1, <2>2
<1>5. RingInv'
  BY <1>2, <1>4, <1>m, LayoutKept DEF RingInv
<1>6. PlanInv(p)'
  <2>1. put => q + 1 < allocPos
    BY <1>1, <1>k DEF Plan
  <2>2. mem'[q] = ALLOCATED /\ mem'[q + 1] = n
    BY <1>0, <1>1, <1>m, <2>1 DEF PlanInv, q, n
  <2>3. skip[p] => Jump(allocPos)'
    BY <1>2, <1>j, <1>m DEF Jump
  <2> QED
    BY <1>1, <1>2, <2>2, <2>3 DEF PlanInv, PlanPCs, q, n
<1>7. HoldInv(p)'
  BY <1>0, <1>2 DEF HoldInv, Owns, PlanPCs, TypeOK
<1>8. ASSUME NEW r \in Producers, r # p PROVE PlanInv(r)' /\ HoldInv(r)'
  BY <1>0, <1>2, <1>8, OthersOutside, PlanOutside, HoldSame DEF ProducerInv, TypeOK
<1>9. LockInv' /\ ConsumerInv'
  BY <1>0, <1>2, ConsumerUnchanged DEF LockInv, CriticalPCs, TypeOK, consumer
<1> QED
  BY <1>3, <1>5, <1>6, <1>7, <1>8, <1>9 DEF ProducerInv

(* A write inside live block i touches no other header, no marker still    *)
(* needed, and nothing a producer inside allocate() relies on.             *)
LEMMA WriteInside ==
  ASSUME TypeOK, PlaceInv, OrderInv, NEW i \in 1 .. Len(blocks),
         UNCHANGED <<allocPos, freePos>>,
         \A x \in Words : x < blocks[i].pos \/ Until(blocks[i]) <= x
                            => mem'[x] = mem[x]
  PROVE  /\ \A x \in Words : Vacant(x) => mem'[x] = mem[x]
         /\ \A j \in 1 .. Len(blocks) : j # i =>
              /\ mem'[blocks[j].pos] = mem[blocks[j].pos]
              /\ mem'[blocks[j].pos + 1] = mem[blocks[j].pos + 1]
         /\ \A r \in Producers :
              /\ PlanInv(r) /\ HoldInv(r)
              /\ pc'[r] = pc[r] /\ len'[r] = len[r]
              /\ ptr'[r] = ptr[r] /\ skip'[r] = skip[r]
              => PlanInv(r)'
<1>1. \A x \in Words : Vacant(x) => mem'[x] = mem[x]
  BY DEF Vacant
<1>2. ASSUME NEW j \in 1 .. Len(blocks), j # i
      PROVE  /\ mem'[blocks[j].pos] = mem[blocks[j].pos]
             /\ mem'[blocks[j].pos + 1] = mem[blocks[j].pos + 1]
  <2>1. /\ blocks[j].pos \in Words /\ blocks[j].pos + 1 \in Words
        /\ blocks[j].pos \in Nat /\ blocks[i].pos \in Nat
        /\ Until(blocks[j]) \in Nat /\ Until(blocks[i]) \in Nat
        /\ blocks[j].pos + Hdr < Until(blocks[j])
    BY BlockFacts, InCap
  <2>2. \/ Until(blocks[i]) <= blocks[j].pos
        \/ Until(blocks[j]) <= blocks[i].pos
    BY <1>2, Disjoint
  <2>3. /\ blocks[j].pos < blocks[i].pos \/ Until(blocks[i]) <= blocks[j].pos
        /\ \/ blocks[j].pos + 1 < blocks[i].pos
           \/ Until(blocks[i]) <= blocks[j].pos + 1
    BY <2>1, <2>2
  <2> QED
    BY <2>1, <2>3
<1>3. ASSUME NEW r \in Producers, PlanInv(r), HoldInv(r), pc'[r] = pc[r],
             len'[r] = len[r], ptr'[r] = ptr[r], skip'[r] = skip[r]
      PROVE  PlanInv(r)'
  <2> SUFFICES ASSUME pc[r] \in PlanPCs PROVE PlanInv(r)'
    BY <1>3, PlanOutside
  <2> DEFINE q == ptr[r]
             n == len[r]
  <2>1. /\ q \in Words /\ q + 1 \in Words /\ q \in Nat /\ n \in Nat /\ n > Hdr
        /\ Plan(q, n, skip[r], freePos, allocPos)
        /\ Until(blocks[i]) <= q \/ q + n <= blocks[i].pos
        /\ skip[r] => Until(blocks[i]) <= allocPos
    BY <1>3, PlanFacts, PlanFree
  <2>2. mem'[q] = mem[q] /\ mem'[q + 1] = mem[q + 1]
    <3> HIDE DEF q, n
    <3> QED
      BY <2>1, BlockFacts
  <2>3. skip[r] /\ Jump(allocPos) => Jump(allocPos)'
    BY <2>1, PosFacts DEF Jump, Words
  <2> QED
    BY <1>3, <2>1, <2>2, <2>3 DEF PlanInv
<1> QED
  BY <1>1, <1>2, <1>3

(* The words of the event in live block i are overwritten.  *)
LEMMA EventWritten ==
  ASSUME TypeOK, RingInv, NEW i \in 1 .. Len(blocks),
         NEW w \in Producers \cup {Junk},
         mem' = WithEvent(mem, blocks[i].pos, blocks[i].len, w),
         UNCHANGED <<allocPos, freePos, blocks>>
  PROVE  /\ RingInv'
         /\ mem' \in [Words -> States \cup Lens \cup Producers \cup {Junk}]
         /\ \A r \in Producers :
              /\ PlanInv(r) /\ HoldInv(r)
              /\ pc'[r] = pc[r] /\ len'[r] = len[r]
              /\ ptr'[r] = ptr[r] /\ skip'[r] = skip[r]
              => PlanInv(r)'
<1>0. PlaceInv /\ OrderInv /\ HeaderInv
  BY DEF RingInv
<1>1. /\ \A x \in Words : x < blocks[i].pos + Hdr \/ Until(blocks[i]) <= x
                            => mem'[x] = mem[x]
      /\ mem' \in [Words -> States \cup Lens \cup Producers \cup {Junk}]
  BY BlockFacts DEF WithEvent, TypeOK, Words
<1>2. \A x \in Words : x < blocks[i].pos \/ Until(blocks[i]) <= x => mem'[x] = mem[x]
  BY <1>1, BlockFacts DEF Words
<1>3. HeaderInv'
  <2> SUFFICES ASSUME NEW j \in 1 .. Len(blocks)
               PROVE /\ mem'[blocks[j].pos] = mem[blocks[j].pos]
                     /\ mem'[blocks[j].pos + 1] = mem[blocks[j].pos + 1]
    BY <1>0 DEF HeaderInv
  <2>1. CASE j = i
    <3>1. /\ blocks[i].pos \in Words /\ blocks[i].pos + 1 \in Words
          /\ blocks[i].pos \in Nat
      BY <1>0, BlockFacts, InCap
    <3> QED
      BY <1>1, <2>1, <3>1
  <2>2. CASE j # i
    BY <1>0, <1>2, <2>2, WriteInside
  <2> QED
    BY <2>1, <2>2
<1>4. RingInv'
  <2>1. \A x \in Words : Vacant(x) /\ mem[x] = SKIPPED => mem'[x] = SKIPPED
    BY <1>0, <1>2, WriteInside
  <2> QED
    BY <1>3, <2>1, LayoutKept DEF RingInv
<1> QED
  BY <1>0, <1>1, <1>2, <1>4, WriteInside

LEMMA StepConstruct ==
  ASSUME IInv, NEW p \in Producers, Construct(p)
  PROVE  IInv'
<1> USE DEF IInv
<1>0. /\ pc[p] = "construct" /\ pc[p] \notin PlanPCs /\ pc[p] \notin CriticalPCs
      /\ PlanInv(p) /\ HoldInv(p) /\ LockInv /\ ptr[p] # Nil
      /\ ptr[p] \in Words /\ len[p] \in Lens
  BY DEF Construct, ProducerInv, PlanPCs, CriticalPCs, HoldInv, TypeOK
<1>1. PICK i \in 1 .. Len(blocks) : Owns(p, ptr[p], i) /\ blocks[i].len = len[p]
  BY <1>0 DEF HoldInv
<1>2. /\ mem' = WithEvent(mem, ptr[p], len[p], p)
      /\ held' = [held EXCEPT ![p] = @ \cup {ptr[p]}]
      /\ ptr' = [ptr EXCEPT ![p] = Nil] /\ skip' = [skip EXCEPT ![p] = FALSE]
      /\ len' = [len EXCEPT ![p] = 0] /\ wait' = [wait EXCEPT ![p] = FALSE]
      /\ pc' = [pc EXCEPT ![p] = "idle"]
      /\ UNCHANGED <<allocPos, freePos, lock, cpc, ev, blocks>>
  BY DEF Construct, consumer
<1>m. mem' = WithEvent(mem, blocks[i].pos, blocks[i].len, p)
  BY <1>1, <1>2 DEF Owns
<1>3. RingInv' /\ TypeOK'
  BY <1>0, <1>2, <1>m, EventWritten DEF TypeOK, PCs, Nil
<1>4. PlanInv(p)' /\ HoldInv(p)'
  BY <1>0, <1>1, <1>2 DEF PlanInv, HoldInv, Owns, PlanPCs, TypeOK
<1>5. ASSUME NEW r \in Producers, r # p PROVE PlanInv(r)' /\ HoldInv(r)'
  <2>1. /\ PlanInv(r) /\ HoldInv(r) /\ pc'[r] = pc[r] /\ len'[r] = len[r]
        /\ ptr'[r] = ptr[r] /\ skip'[r] = skip[r] /\ held'[r] = held[r]
    BY <1>2, <1>5 DEF ProducerInv, TypeOK
  <2> QED
    BY <1>2, <1>m, <2>1, EventWritten, HoldSame
<1>6. LockInv' /\ ConsumerInv'
  BY <1>0, <1>2, ConsumerUnchanged DEF LockInv, CriticalPCs, TypeOK, consumer
<1> QED
  BY <1>3, <1>4, <1>5, <1>6 DEF ProducerInv

-----------------------------------------------------------------------------
(* Steps of a producer that change the history. *)

(* What commit_event does to the history: one block of p, not committed    *)
(* before, becomes committed.                                              *)
CommitOf(p, q, i) ==
  /\ Owns(p, q, i)
  /\ blocks' \in Seq(Block) /\ Len(blocks') = Len(blocks)
  /\ blocks' = <<>> <=> blocks = <<>>
  /\ \A j \in 1 .. Len(blocks) : j # i => blocks'[j] = blocks[j]
  /\ blocks'[i] = [blocks[i] EXCEPT !.committed = TRUE]

LEMMA CommitFacts ==
  ASSUME IInv, NEW p \in Producers, NEW q \in held[p], CommitEvent(p, q)
  PROVE  \E i \in 1 .. Len(blocks) : CommitOf(p, q, i)
<1> USE DEF IInv
<1>0. HoldInv(p) /\ PlaceInv /\ OrderInv
  BY DEF ProducerInv, RingInv
<1>1. PICK i \in 1 .. Len(blocks) : Owns(p, q, i)
  BY <1>0 DEF HoldInv
<1>2. blocks' = [j \in DOMAIN blocks |->
                   IF blocks[j].pos = q
                   THEN [blocks[j] EXCEPT !.committed = TRUE] ELSE blocks[j]]
  BY DEF CommitEvent
<1>b. /\ blocks' \in Seq(Block) /\ Len(blocks') = Len(blocks)
      /\ blocks' = <<>> <=> blocks = <<>>
      /\ \A j \in 1 .. Len(blocks) : j # i => blocks'[j] = blocks[j]
      /\ blocks'[i] = [blocks[i] EXCEPT !.committed = TRUE]
  <2>0. ASSUME NEW j \in 1 .. Len(blocks), j # i PROVE blocks[j].pos # blocks[i].pos
    <3>1. \/ Until(blocks[i]) <= blocks[j].pos
          \/ Until(blocks[j]) <= blocks[i].pos
      BY <1>0, <2>0, Disjoint
    <3> QED
      BY <3>1, BlockFacts
  <2>1. \A j \in 1 .. Len(blocks) : blocks[j].pos = q <=> j = i
    BY <1>1, <2>0 DEF Owns
  <2>2. DOMAIN blocks = 1 .. Len(blocks) /\ Len(blocks) \in Nat
    BY DEF TypeOK
  <2>3. \A j \in 1 .. Len(blocks) : [blocks[j] EXCEPT !.committed = TRUE] \in Block
    BY PosFacts DEF Block
  <2>4. blocks' = [j \in 1 .. Len(blocks) |->
                     IF blocks[j].pos = q
                     THEN [blocks[j] EXCEPT !.committed = TRUE] ELSE blocks[j]]
    BY <1>2, <2>2
  <2>5. blocks' \in [1 .. Len(blocks) -> Block]
    BY <2>3, <2>4, PosFacts
  <2>6. blocks' \in Seq(Block) /\ Len(blocks') = Len(blocks)
    BY <2>2, <2>5
  <2> QED
    BY <2>1, <2>2, <2>4, <2>6, PosFacts
<1> QED
  BY <1>1, <1>b DEF CommitOf

LEMMA StepCommitEvent ==
  ASSUME IInv, NEW p \in Producers, NEW q \in held[p], CommitEvent(p, q)
  PROVE  IInv'
<1> USE DEF IInv
<1>0. /\ pc[p] = "idle" /\ q \in Words
      /\ PlanInv(p) /\ HoldInv(p) /\ LockInv /\ ptr[p] = Nil
      /\ PlaceInv /\ OrderInv /\ HeaderInv
  BY DEF CommitEvent, ProducerInv, RingInv, HoldInv, TypeOK
<1>1. PICK i \in 1 .. Len(blocks) : CommitOf(p, q, i)
  BY CommitFacts
<1>b. /\ Owns(p, q, i)
      /\ blocks' \in Seq(Block) /\ Len(blocks') = Len(blocks)
      /\ blocks' = <<>> <=> blocks = <<>>
      /\ \A j \in 1 .. Len(blocks) : j # i => blocks'[j] = blocks[j]
      /\ blocks'[i] = [blocks[i] EXCEPT !.committed = TRUE]
  BY <1>1 DEF CommitOf
<1>2. /\ mem' = [mem EXCEPT ![q] = COMMITTED]
      /\ held' = [held EXCEPT ![p] = @ \ {q}]
      /\ UNCHANGED <<allocPos, freePos, lock, pc, len, wait, ptr, skip, cpc, ev>>
  BY DEF CommitEvent, consumer
<1>c. /\ blocks'[i].pos = blocks[i].pos /\ blocks'[i].len = blocks[i].len
      /\ blocks'[i].committed
  <2>1. blocks[i] \in Block
    BY PosFacts
  <2> QED
    BY <1>b, <2>1 DEF Block
<1>m. /\ mem'[q] = COMMITTED /\ \A x \in Words : x # q => mem'[x] = mem[x]
      /\ blocks[i].pos = q
  BY <1>0, <1>b, <1>2 DEF TypeOK, Owns
<1>n. \A x \in Words : x < blocks[i].pos \/ Until(blocks[i]) <= x => mem'[x] = mem[x]
  BY <1>m, BlockFacts DEF Words
<1>3. TypeOK'
  <2>1. mem' \in [Words -> States \cup Lens \cup Producers \cup {Junk}]
    BY <1>2 DEF TypeOK, States
  <2> QED
    BY <1>2, <1>b, <2>1 DEF TypeOK
<1>4. HeaderInv'
  <2> SUFFICES ASSUME NEW j \in 1 .. Len(blocks)
               PROVE (/\ blocks[j].committed => mem[blocks[j].pos] = COMMITTED
                      /\ ~blocks[j].committed => mem[blocks[j].pos] = ALLOCATED
                      /\ mem[blocks[j].pos + 1] = blocks[j].len)'
    BY <1>b DEF HeaderInv
  <2>1. CASE j = i
    <3>1. blocks[i].pos + 1 \in Words /\ blocks[i].pos + 1 # q
      BY <1>0, <1>m, BlockFacts, InCap
    <3>2. mem'[blocks[i].pos + 1] = blocks[i].len
      BY <1>0, <1>m, <3>1 DEF HeaderInv
    <3> QED
      BY <1>c, <1>m, <2>1, <3>2
  <2>2. CASE j # i
    <3>1. /\ mem'[blocks[j].pos] = mem[blocks[j].pos]
          /\ mem'[blocks[j].pos + 1] = mem[blocks[j].pos + 1]
      BY <1>0, <1>n, <1>2, <2>2, WriteInside
    <3> QED
      BY <1>0, <1>b, <2>2, <3>1 DEF HeaderInv
  <2> QED
    BY <2>1, <2>2
<1>5. RingInv'
  <2>1. \A x \in Words : Vacant(x) /\ mem[x] = SKIPPED => mem'[x] = SKIPPED
    BY <1>0, <1>2, <1>n, WriteInside
  <2>2. \A j \in 1 .. Len(blocks) : /\ blocks'[j].pos = blocks[j].pos
                                    /\ blocks'[j].len = blocks[j].len
    BY <1>b, <1>c
  <2> QED
    BY <1>2, <1>4, <1>b, <2>1, <2>2, LayoutKept DEF RingInv
<1>6. PlanInv(p)'
  BY <1>0, <1>2 DEF PlanInv, PlanPCs, TypeOK
<1>7. HoldInv(p)'
  <2>1. ASSUME NEW x \in held'[p] PROVE \E j \in 1 .. Len(blocks') : Owns(p, x, j)'
    <3>1. x \in held[p] /\ x # q
      BY <1>2, <2>1 DEF TypeOK
    <3>2. PICK j \in 1 .. Len(blocks) : Owns(p, x, j)
      BY <1>0, <3>1 DEF HoldInv
    <3>3. j # i
      BY <3>1, <3>2, <1>b DEF Owns
    <3> QED
      BY <3>2, <3>3, <1>b DEF Owns
  <2> QED
    BY <2>1, <1>0, <1>2 DEF HoldInv, PlanPCs, TypeOK
<1>8. ASSUME NEW r \in Producers, r # p PROVE PlanInv(r)' /\ HoldInv(r)'
  <2>1. /\ PlanInv(r) /\ HoldInv(r) /\ pc'[r] = pc[r] /\ len'[r] = len[r]
        /\ ptr'[r] = ptr[r] /\ skip'[r] = skip[r] /\ held'[r] = held[r]
    BY <1>2, <1>8 DEF ProducerInv, TypeOK
  <2>2. PlanInv(r)'
    BY <1>0, <1>2, <1>n, <2>1, WriteInside
  <2>3. \A j \in 1 .. Len(blocks) : blocks[j].owner = r => j # i
    BY <1>b, <1>8 DEF Owns
  <2> QED
    BY <1>b, <2>1, <2>2, <2>3, HoldKept
<1>9. LockInv'
  BY <1>0, <1>2 DEF LockInv
<1>10. ConsumerInv'
  <2>1. blocks # <<>> => blocks'[1].pos = blocks[1].pos
                         /\ (blocks[1].committed => blocks'[1].committed)
    BY <1>b, <1>c, PosFacts
  <2> QED
    BY <1>b, <1>2, <2>1 DEF ConsumerInv
<1> QED
  BY <1>3, <1>5, <1>6, <1>7, <1>8, <1>9, <1>10 DEF ProducerInv

LEMMA StepPublish ==
  ASSUME IInv, NEW p \in Producers, Publish(p)
  PROVE  IInv'
<1> DEFINE b == [pos |-> ptr[p], len |-> len[p], owner |-> p, committed |-> FALSE]
           N == Len(blocks)
<1> USE DEF IInv
<1>0. /\ pc[p] = "publish" /\ pc[p] \in PlanPCs /\ pc[p] \in CriticalPCs
      /\ PlanInv(p) /\ HoldInv(p) /\ LockInv /\ ptr[p] # Nil
      /\ PlaceInv /\ OrderInv /\ EndsInv /\ ChainInv /\ HeaderInv
  BY DEF Publish, ProducerInv, PlanPCs, CriticalPCs, RingInv, HoldInv
<1>1. /\ ptr[p] \in Words /\ ptr[p] \in Nat
      /\ len[p] \in Lens /\ len[p] \in Nat /\ len[p] > Hdr
      /\ Plan(ptr[p], len[p], skip[p], freePos, allocPos)
      /\ b \in Block
  <2>1. /\ ptr[p] \in Words /\ ptr[p] \in Nat
        /\ len[p] \in Lens /\ len[p] \in Nat /\ len[p] > Hdr
        /\ Plan(ptr[p], len[p], skip[p], freePos, allocPos)
    BY <1>0, PlanFacts, PlanFree
  <2> QED
    BY <2>1 DEF Block
<1>b. b.pos = ptr[p] /\ b.len = len[p] /\ b.owner = p /\ b.committed = FALSE
  OBVIOUS
<1>2. /\ blocks' = Append(blocks, b)
      /\ allocPos' = ptr[p] + len[p]
      /\ pc' = [pc EXCEPT ![p] = "leave"]
      /\ UNCHANGED <<freePos, mem, lock, len, wait, ptr, skip, held, cpc, ev>>
  BY DEF Publish, consumer
<1> HIDE DEF b
<1>3. /\ N \in Nat /\ Len(blocks') = N + 1 /\ blocks' \in Seq(Block)
      /\ \A i \in 1 .. N : blocks'[i] = blocks[i]
      /\ blocks'[N + 1] = b /\ blocks' # <<>>
  <2>1. blocks \in Seq(Block) /\ b \in Block /\ blocks' = Append(blocks, b)
    BY <1>1, <1>2 DEF TypeOK
  <2>2. N \in Nat /\ Len(blocks') = N + 1 /\ blocks' \in Seq(Block)
    BY <2>1
  <2>3. \A i \in 1 .. N : blocks'[i] = blocks[i]
    BY <2>1
  <2>4. blocks'[N + 1] = b
    BY <2>1
  <2> QED
    BY <2>2, <2>3, <2>4
<1>4. /\ freePos \in 0 .. Cap /\ allocPos \in 0 .. Cap /\ allocPos' \in 0 .. Cap
      /\ Until(b) = allocPos'
      /\ Placed(b.pos, Until(b), freePos, allocPos')
      /\ \A x, y \in Nat : Placed(x, y, freePos, allocPos) =>
           /\ Placed(x, y, freePos, allocPos')
           /\ Before(x, y, b.pos, Until(b), freePos, allocPos')
  BY <1>1, <1>2, <1>b, PosFacts, ExtendPlaced DEF Until
<1>5. TypeOK'
  BY <1>2, <1>3, <1>4 DEF TypeOK, PCs
<1>p. \A i \in 1 .. N : Placed(blocks[i].pos, Until(blocks[i]), freePos, allocPos)
  BY <1>0 DEF PlaceInv
<1>6. PlaceInv'
  <2> SUFFICES ASSUME NEW i \in 1 .. N + 1
               PROVE Placed(blocks'[i].pos, Until(blocks'[i]), freePos, allocPos')
    BY <1>2, <1>3 DEF PlaceInv
  <2>1. CASE i = N + 1
    BY <1>3, <1>4, <2>1
  <2>2. CASE i # N + 1
    <3>1. i \in 1 .. N
      BY <1>3, <2>2
    <3> QED
      BY <1>3, <1>4, <1>p, <3>1, BlockFacts
  <2> QED
    BY <2>1, <2>2
<1>7. OrderInv'
  <2> SUFFICES ASSUME NEW i \in 1 .. N + 1, NEW j \in 1 .. N + 1, i < j
               PROVE Before(blocks'[i].pos, Until(blocks'[i]), blocks'[j].pos,
                            Until(blocks'[j]), freePos, allocPos')
    BY <1>2, <1>3 DEF OrderInv
  <2>0. i \in 1 .. N
    BY <1>3
  <2>1. CASE j = N + 1
    BY <1>3, <1>4, <1>p, <2>0, <2>1, BlockFacts
  <2>2. CASE j # N + 1
    <3>1. j \in 1 .. N
      BY <1>3, <2>2
    <3>2. Before(blocks[i].pos, Until(blocks[i]), blocks[j].pos, Until(blocks[j]),
                 freePos, allocPos)
      BY <1>0, <2>0, <3>1 DEF OrderInv
    <3>3. /\ blocks[i].pos \in Nat /\ Until(blocks[i]) \in Nat
          /\ blocks[j].pos \in Nat /\ Until(blocks[j]) \in Nat
          /\ blocks[i].pos < Until(blocks[i]) /\ blocks[j].pos < Until(blocks[j])
      BY <2>0, <3>1, BlockFacts
    <3>4. /\ freePos \in 0 .. Cap /\ allocPos \in 0 .. Cap
          /\ Placed(blocks[i].pos, Until(blocks[i]), freePos, allocPos)
          /\ Placed(blocks[j].pos, Until(blocks[j]), freePos, allocPos)
      BY <1>4, <1>p, <2>0, <3>1
    <3>5. Before(blocks[i].pos, Until(blocks[i]), blocks[j].pos, Until(blocks[j]),
                 freePos, ptr[p] + len[p])
      BY <1>1, <3>2, <3>3, <3>4, ExtendBefore
    <3> QED
      BY <1>2, <1>3, <2>0, <3>1, <3>5
  <2> QED
    BY <2>1, <2>2
<1>8. EndsInv'
  <2>1. CASE blocks = <<>>
    <3>1. N = 0 /\ freePos = allocPos
      BY <1>0, <2>1 DEF EndsInv
    <3> QED
      BY <1>0, <1>1, <1>2, <1>3, <1>4, <1>b, <3>1 DEF EndsInv, PlanInv, Plan, Jump
  <2>2. CASE blocks # <<>>
    <3>1. blocks'[1] = blocks[1]
      BY <1>3, <2>2, PosFacts
    <3>2. allocPos < freePos => allocPos' < freePos
      BY <1>1, <1>2, <1>4 DEF Plan
    <3> QED
      BY <1>0, <1>2, <1>3, <1>4, <2>2, <3>1, <3>2 DEF EndsInv, Jump
  <2> QED
    BY <2>1, <2>2
<1>9. ChainInv'
  <2> SUFFICES ASSUME NEW i \in 1 .. N
               PROVE  \/ blocks'[i + 1].pos = Until(blocks[i])
                      \/ blocks'[i + 1].pos = 0 /\ Jump(Until(blocks[i]))'
    BY <1>3 DEF ChainInv
  <2>1. CASE i = N
    <3>1. allocPos = Until(blocks[i])
      BY <1>0, <2>1, PosFacts DEF EndsInv
    <3> QED
      BY <1>0, <1>1, <1>2, <1>3, <1>b, <2>1, <3>1 DEF PlanInv, Plan, Jump
  <2>2. CASE i # N
    <3>1. i + 1 \in 1 .. N
      BY <1>3, <2>2
    <3> QED
      BY <1>0, <1>2, <1>3, <3>1 DEF ChainInv, Jump
  <2> QED
    BY <2>1, <2>2
<1>10. HeaderInv'
  <2> SUFFICES ASSUME NEW i \in 1 .. N + 1
               PROVE (/\ blocks[i].committed => mem[blocks[i].pos] = COMMITTED
                      /\ ~blocks[i].committed => mem[blocks[i].pos] = ALLOCATED
                      /\ mem[blocks[i].pos + 1] = blocks[i].len)'
    BY <1>3 DEF HeaderInv
  <2>1. CASE i = N + 1
    BY <1>0, <1>2, <1>3, <1>b, <2>1 DEF PlanInv
  <2>2. CASE i # N + 1
    <3>1. i \in 1 .. N
      BY <1>3, <2>2
    <3> QED
      BY <1>0, <1>2, <1>3, <3>1 DEF HeaderInv
  <2> QED
    BY <2>1, <2>2
<1>11. PlanInv(p)'
  BY <1>2 DEF PlanInv, PlanPCs, TypeOK
<1>12. HoldInv(p)'
  <2>0. PICK k \in 1 .. Len(blocks') : blocks'[k] = b
    BY <1>3
  <2>1. Owns(p, ptr[p], k)' /\ blocks'[k].len = len'[p]
    BY <1>2, <1>b, <2>0 DEF Owns
  <2>2. ASSUME NEW x \in held'[p] PROVE \E j \in 1 .. Len(blocks') : Owns(p, x, j)'
    <3>1. PICK j \in 1 .. N : Owns(p, x, j)
      BY <1>0, <1>2, <2>2 DEF HoldInv
    <3> QED
      BY <1>3, <3>1 DEF Owns
  <2> QED
    <3>1. pc'[p] = "leave" /\ len'[p] \in Lens
      BY <1>1, <1>2 DEF TypeOK
    <3> QED
      BY <2>0, <2>1, <2>2, <3>1 DEF HoldInv, PlanPCs
<1>13. ASSUME NEW r \in Producers, r # p PROVE PlanInv(r)' /\ HoldInv(r)'
  <2>1. /\ PlanInv(r) /\ HoldInv(r) /\ pc'[r] = pc[r] /\ len'[r] = len[r]
        /\ ptr'[r] = ptr[r] /\ skip'[r] = skip[r] /\ held'[r] = held[r]
    BY <1>2, <1>13 DEF ProducerInv, TypeOK
  <2>2. PlanInv(r)'
    BY <1>0, <1>13, <2>1, OthersOutside, PlanOutside
  <2>3. \A i \in 1 .. Len(blocks) : \E j \in 1 .. Len(blocks') : blocks'[j] = blocks[i]
    BY <1>3
  <2> QED
    BY <2>1, <2>2, <2>3, HoldKept
<1>14. LockInv'
  BY <1>0, <1>2 DEF LockInv, CriticalPCs, TypeOK
<1>15. ConsumerInv'
  <2>1. blocks # <<>> => blocks'[1] = blocks[1]
    BY <1>3, PosFacts
  <2>2. allocPos < freePos => allocPos' < freePos
    BY <1>1, <1>2, <1>4 DEF Plan
  <2> QED
    BY <1>2, <1>3, <2>1, <2>2 DEF ConsumerInv
<1> QED
  BY <1>5, <1>6, <1>7, <1>8, <1>9, <1>10, <1>11, <1>12, <1>13, <1>14, <1>15
  DEF RingInv, ProducerInv

-----------------------------------------------------------------------------
(* Steps of the consumer. *)

(* Where no producer moves and the ring stays, neither do their parts.     *)
LEMMA ProducersKept ==
  ASSUME ProducerInv, UNCHANGED <<ring, lock, locals, blocks>>
  PROVE  ProducerInv'
<1>1. LockInv'
  BY DEF ProducerInv, LockInv, locals
<1>2. ASSUME NEW r \in Producers PROVE PlanInv(r)' /\ HoldInv(r)'
  BY PlanSame, HoldSame DEF ProducerInv, locals
<1> QED
  BY <1>1, <1>2 DEF ProducerInv

(* What the consumer finds at _free_pos when it is not at the end. *)
LEMMA HeadState ==
  ASSUME TypeOK, RingInv, blocks # <<>>, Cap - freePos > Hdr
  PROVE  /\ freePos \in Words /\ mem[freePos] \in States
         /\ mem[freePos] = COMMITTED => blocks[1].pos = freePos /\ blocks[1].committed
         /\ mem[freePos] = SKIPPED => blocks[1].pos = 0 /\ allocPos < freePos
         /\ mem[freePos] # SKIPPED => blocks[1].pos = freePos
<1>1. freePos \in Words
  BY PosFacts DEF Words
<1>2. CASE blocks[1].pos = freePos
  BY <1>1, <1>2, PosFacts DEF RingInv, HeaderInv, States, ALLOCATED, COMMITTED, SKIPPED
<1>3. CASE blocks[1].pos # freePos
  BY <1>1, <1>3, PosFacts DEF RingInv, EndsInv, Jump, States, COMMITTED, SKIPPED
<1> QED
  BY <1>1, <1>2, <1>3

LEMMA FrontState ==
  ASSUME TypeOK, RingInv, blocks # <<>>, blocks[1].pos = 0
  PROVE  /\ mem[0] \in States
         /\ mem[0] = COMMITTED => blocks[1].committed
BY PosFacts DEF RingInv, HeaderInv, States, ALLOCATED, COMMITTED, SKIPPED

(* _free_pos goes back to the front, where the oldest block is. *)
LEMMA Rewind ==
  ASSUME TypeOK, RingInv, ProducerInv, blocks # <<>>, blocks[1].pos = 0,
         allocPos < freePos, freePos' = 0,
         UNCHANGED <<allocPos, mem, lock, locals, blocks>>
  PROVE  RingInv' /\ ProducerInv'
<1>0. PlaceInv /\ OrderInv /\ EndsInv /\ ChainInv /\ HeaderInv
  BY DEF RingInv
<1>1. /\ freePos \in 0 .. Cap /\ allocPos \in 0 .. Cap
      /\ \A i \in 1 .. Len(blocks) :
           /\ Until(blocks[i]) <= allocPos
           /\ blocks[i].pos \in Nat /\ Until(blocks[i]) \in Nat
           /\ blocks[i].pos < Until(blocks[i])
  BY <1>0, PosFacts, HeadInFront, BlockFacts
<1>2. PlaceInv'
  BY <1>1 DEF PlaceInv, Placed
<1>3. OrderInv'
  <2> SUFFICES ASSUME NEW i \in 1 .. Len(blocks), NEW j \in 1 .. Len(blocks), i < j
               PROVE Before(blocks[i].pos, Until(blocks[i]), blocks[j].pos,
                            Until(blocks[j]), 0, allocPos)
    BY DEF OrderInv
  <2>1. Before(blocks[i].pos, Until(blocks[i]), blocks[j].pos, Until(blocks[j]),
               freePos, allocPos)
    BY <1>0 DEF OrderInv
  <2> QED
    BY <1>1, <2>1 DEF Before
<1>4. EndsInv' /\ ChainInv' /\ HeaderInv'
  BY <1>0 DEF EndsInv, ChainInv, HeaderInv, Jump
<1>5. LockInv'
  BY DEF ProducerInv, LockInv, locals
<1>6. ASSUME NEW r \in Producers PROVE PlanInv(r)' /\ HoldInv(r)'
  <2>1. PlanInv(r) /\ HoldInv(r)
    BY DEF ProducerInv
  <2>2. CASE pc[r] \in PlanPCs
    <3>1. /\ Plan(ptr[r], len[r], skip[r], freePos, allocPos)
          /\ len[r] \in Nat /\ len[r] > Hdr /\ ptr[r] \in Nat
      BY <2>1, <2>2, PlanFacts
    <3>2. Plan(ptr[r], len[r], skip[r], 0, allocPos)
      BY <1>1, <3>1 DEF Plan
    <3> QED
      BY <2>1, <3>2, HoldSame DEF PlanInv, Jump, locals
  <2>3. CASE pc[r] \notin PlanPCs
    BY <2>1, <2>3, PlanOutside, HoldSame DEF locals
  <2> QED
    BY <2>2, <2>3
<1> QED
  BY <1>2, <1>3, <1>4, <1>5, <1>6 DEF RingInv, ProducerInv

LEMMA StepRead ==
  ASSUME IInv, CheckEmpty \/ ReadState \/ ReadFront
  PROVE  IInv'
<1> USE DEF IInv
<1>1. UNCHANGED <<ring, lock, locals, blocks>>
  BY DEF CheckEmpty, ReadState, ReadFront
<1>2. RingInv' /\ ProducerInv'
  BY <1>1, RingUnchanged, ProducersKept
<1>3. CASE CheckEmpty
  <2>1. blocks # <<>> /\ cpc' = "wrap" /\ ev' = ev
    BY <1>3 DEF CheckEmpty, RingInv, EndsInv
  <2>2. ConsumerInv'
    BY <1>1, <2>1 DEF ConsumerInv
  <2>3. TypeOK'
    BY <1>1, <2>1 DEF TypeOK, CPCs, ring, locals
  <2> QED
    BY <1>2, <2>2, <2>3
<1>4. CASE ReadState
  <2>1. /\ freePos \in Words /\ StateAt(freePos) = {mem[freePos]}
        /\ mem[freePos] = COMMITTED => blocks[1].pos = freePos /\ blocks[1].committed
        /\ mem[freePos] = SKIPPED => blocks[1].pos = 0 /\ allocPos < freePos
    BY <1>4, HeadState DEF ReadState, ConsumerInv, StateAt
  <2>2. \/ cpc' = "handle" /\ ev' = freePos /\ mem[freePos] = COMMITTED
        \/ cpc' = "skipped" /\ ev' = ev /\ mem[freePos] = SKIPPED
        \/ cpc' = "pop" /\ ev' = ev
    BY <1>4, <2>1 DEF ReadState
  <2>3. blocks # <<>>
    BY <1>4 DEF ReadState, ConsumerInv
  <2> QED
    BY <1>1, <1>2, <2>1, <2>2, <2>3 DEF ConsumerInv, TypeOK, CPCs, ring, locals
<1>5. CASE ReadFront
  <2>1. blocks # <<>> /\ blocks[1].pos = 0 /\ freePos = 0
    BY <1>5 DEF ReadFront, ConsumerInv
  <2>2. StateAt(0) = {mem[0]} /\ (mem[0] = COMMITTED => blocks[1].committed)
    BY <2>1, FrontState DEF StateAt
  <2>3. \/ cpc' = "handle" /\ ev' = 0 /\ mem[0] = COMMITTED
        \/ cpc' = "pop" /\ ev' = ev
    BY <1>5, <2>2 DEF ReadFront
  <2>4. 0 \in Words
    BY DEF Words
  <2> QED
    BY <1>1, <1>2, <2>1, <2>2, <2>3, <2>4 DEF ConsumerInv, TypeOK, CPCs, ring, locals
<1> QED
  BY <1>3, <1>4, <1>5

LEMMA StepFollowMarker ==
  ASSUME IInv, FollowMarker
  PROVE  IInv'
<1> USE DEF IInv
<1>1. /\ cpc = "skipped" /\ cpc' = "front" /\ freePos' = 0
      /\ UNCHANGED <<allocPos, mem, lock, locals, ev, blocks>>
  BY DEF FollowMarker
<1>2. blocks # <<>> /\ blocks[1].pos = 0 /\ allocPos < freePos
  BY <1>1 DEF ConsumerInv
<1>3. RingInv' /\ ProducerInv'
  BY <1>1, <1>2, Rewind
<1>4. ConsumerInv'
  BY <1>1, <1>2 DEF ConsumerInv
<1>5. TypeOK'
  BY <1>1 DEF TypeOK, CPCs, locals
<1> QED
  BY <1>3, <1>4, <1>5

LEMMA StepWrapAtEnd ==
  ASSUME IInv, WrapAtEnd
  PROVE  IInv'
<1> USE DEF IInv
<1>1. /\ cpc = "wrap" /\ cpc' = "state" /\ blocks # <<>>
      /\ UNCHANGED <<allocPos, mem, lock, locals, ev, blocks>>
  BY DEF WrapAtEnd, ConsumerInv
<1>2. CASE Cap - freePos <= Hdr
  <2>1. freePos' = 0
    BY <1>2 DEF WrapAtEnd
  <2>2. blocks[1].pos # freePos
    <3>1. TypeOK /\ PlaceInv /\ 1 \in 1 .. Len(blocks)
      BY <1>1, PosFacts DEF RingInv
    <3>2. /\ Until(blocks[1]) <= Cap /\ blocks[1].pos + Hdr < Until(blocks[1])
          /\ blocks[1].pos \in Nat /\ Until(blocks[1]) \in Nat
      BY <3>1, BlockFacts, InCap
    <3>3. freePos \in Nat /\ Cap \in Nat /\ Hdr \in Nat
      BY <3>1, PosFacts, CapAssumption DEF Hdr
    <3> QED
      BY <1>2, <3>2, <3>3
  <2>3. blocks[1].pos = 0 /\ allocPos < freePos
    BY <1>1, <2>2 DEF RingInv, EndsInv
  <2>4. RingInv' /\ ProducerInv'
    BY <1>1, <2>1, <2>3, Rewind
  <2>5. ConsumerInv'
    BY <1>1, <2>1 DEF ConsumerInv
  <2>6. TypeOK'
    BY <1>1, <2>1 DEF TypeOK, CPCs, locals
  <2> QED
    BY <2>4, <2>5, <2>6
<1>3. CASE ~(Cap - freePos <= Hdr)
  <2>1. freePos' = freePos
    BY <1>3 DEF WrapAtEnd
  <2>2. RingInv' /\ ProducerInv'
    BY <1>1, <2>1, RingUnchanged, ProducersKept DEF ring
  <2>3. ConsumerInv'
    BY <1>1, <1>3, <2>1, PosFacts DEF ConsumerInv
  <2>4. TypeOK'
    BY <1>1, <2>1 DEF TypeOK, CPCs, locals
  <2> QED
    BY <2>2, <2>3, <2>4
<1> QED
  BY <1>2, <1>3

(* The size of the oldest block is read from its own header. *)
LEMMA HeadSize ==
  ASSUME TypeOK, RingInv, blocks # <<>>, ev = blocks[1].pos
  PROVE  SizeAt(ev) = {blocks[1].len}
BY PosFacts, BlockFacts DEF RingInv, HeaderInv, SizeAt

LEMMA StepHandleAndDestroy ==
  ASSUME IInv, HandleAndDestroy
  PROVE  IInv'
<1> USE DEF IInv
<1>1. /\ blocks # <<>> /\ blocks[1].pos = freePos /\ ev = freePos
      /\ blocks[1].committed /\ 1 \in 1 .. Len(blocks)
  BY PosFacts DEF HandleAndDestroy, ConsumerInv
<1>2. /\ mem' = WithEvent(mem, blocks[1].pos, blocks[1].len, Junk)
      /\ cpc' = "free"
      /\ UNCHANGED <<allocPos, freePos, lock, locals, ev, blocks>>
  BY <1>1, HeadSize DEF HandleAndDestroy
<1>3. RingInv' /\ TypeOK'
  BY <1>1, <1>2, EventWritten DEF TypeOK, CPCs, locals
<1>4. ASSUME NEW r \in Producers PROVE PlanInv(r)' /\ HoldInv(r)'
  <2>1. /\ PlanInv(r) /\ HoldInv(r) /\ pc'[r] = pc[r] /\ len'[r] = len[r]
        /\ ptr'[r] = ptr[r] /\ skip'[r] = skip[r] /\ held'[r] = held[r]
    BY <1>2 DEF ProducerInv, locals
  <2> QED
    BY <1>1, <1>2, <2>1, EventWritten, HoldSame
<1>5. LockInv' /\ ConsumerInv'
  BY <1>1, <1>2 DEF ProducerInv, LockInv, ConsumerInv, locals
<1> QED
  BY <1>3, <1>4, <1>5 DEF ProducerInv

LEMMA StepFree ==
  ASSUME IInv, Free
  PROVE  IInv'
<1> DEFINE g == Until(blocks[1])
           N == Len(blocks)
<1> USE DEF IInv
<1>0. /\ PlaceInv /\ OrderInv /\ EndsInv /\ ChainInv /\ HeaderInv
      /\ blocks # <<>> /\ blocks[1].pos = freePos /\ ev = freePos
      /\ blocks[1].committed /\ 1 \in 1 .. N
  BY PosFacts DEF Free, ConsumerInv, RingInv
<1>1. /\ freePos' = g /\ blocks' = Tail(blocks) /\ ev' = Nil /\ cpc' = "pop"
      /\ UNCHANGED <<allocPos, mem, lock, locals>>
  BY <1>0, HeadSize, BlockFacts DEF Free
<1>2. /\ N \in Nat /\ Len(blocks') = N - 1 /\ blocks' \in Seq(Block)
      /\ \A i \in 1 .. N - 1 : blocks'[i] = blocks[i + 1] /\ i + 1 \in 1 .. N
      /\ blocks' = <<>> <=> N = 1
  <2>1. blocks \in Seq(Block) /\ blocks # <<>> /\ blocks' = Tail(blocks)
    BY <1>0, <1>1 DEF TypeOK
  <2>2. N \in Nat /\ Len(blocks') = N - 1 /\ blocks' \in Seq(Block)
    BY <2>1
  <2>3. \A i \in 1 .. N - 1 : blocks'[i] = blocks[i + 1] /\ i + 1 \in 1 .. N
    BY <2>1, <2>2
  <2> QED
    BY <2>2, <2>3
<1>3. /\ freePos \in 0 .. Cap /\ allocPos \in 0 .. Cap /\ g \in Nat /\ freePos < g
      /\ Placed(freePos, g, freePos, allocPos)
  BY <1>0, PosFacts, BlockFacts DEF PlaceInv
<1>4. /\ g \in 0 .. Cap
      /\ freePos <= allocPos <=> g <= allocPos
      /\ \A x, y \in Nat : /\ Placed(x, y, freePos, allocPos)
                           /\ Before(freePos, g, x, y, freePos, allocPos)
                           => Placed(x, y, g, allocPos)
      /\ \A q, n \in Nat, s \in BOOLEAN : n > Hdr /\ Plan(q, n, s, freePos, allocPos)
                           => Plan(q, n, s, g, allocPos)
  BY <1>3, ReleasePlaced
<1>5. TypeOK'
  BY <1>1, <1>2, <1>4 DEF TypeOK, CPCs, locals
<1>6. \A i \in 2 .. N :
        /\ blocks[i].pos \in Nat /\ Until(blocks[i]) \in Nat
        /\ blocks[i].pos < Until(blocks[i])
        /\ Placed(blocks[i].pos, Until(blocks[i]), freePos, allocPos)
        /\ Before(freePos, g, blocks[i].pos, Until(blocks[i]), freePos, allocPos)
  BY <1>0, <1>2, BlockFacts DEF PlaceInv, OrderInv
<1> HIDE DEF g
<1>7. PlaceInv'
  <2> SUFFICES ASSUME NEW i \in 1 .. N - 1
               PROVE Placed(blocks[i + 1].pos, Until(blocks[i + 1]), g, allocPos)
    BY <1>1, <1>2 DEF PlaceInv
  <2> QED
    BY <1>2, <1>4, <1>6
<1>8. OrderInv'
  <2> SUFFICES ASSUME NEW i \in 2 .. N, NEW j \in 2 .. N, i < j
               PROVE Before(blocks[i].pos, Until(blocks[i]), blocks[j].pos,
                            Until(blocks[j]), g, allocPos)
    BY <1>1, <1>2 DEF OrderInv
  <2>1. Before(blocks[i].pos, Until(blocks[i]), blocks[j].pos, Until(blocks[j]),
               freePos, allocPos)
    BY <1>0, <1>2 DEF OrderInv
  <2> QED
    BY <1>3, <1>6, <2>1, ReleaseBefore
<1>9. EndsInv'
  <2>1. CASE N = 1
    BY <1>0, <1>1, <1>2, <2>1 DEF EndsInv, g
  <2>2. CASE N # 1
    <3>1. /\ 1 + 1 \in 1 .. N /\ blocks'[1] = blocks[2]
          /\ blocks'[Len(blocks')] = blocks[N] /\ blocks' # <<>>
      BY <1>0, <1>2, <2>2
    <3>2. \/ blocks[2].pos = g
          \/ blocks[2].pos = 0 /\ Jump(g) /\ Vacant(g)
      BY <1>0, <3>1, ChainJumpVacant DEF ChainInv, g
    <3>3. Vacant(g) => allocPos < g
      BY <1>3, <1>4 DEF Vacant
    <3> QED
      BY <1>0, <1>1, <3>1, <3>2, <3>3 DEF EndsInv, Jump
  <2> QED
    BY <2>1, <2>2
<1>10. ChainInv'
  <2> SUFFICES ASSUME NEW i \in 2 .. N, i + 1 \in 2 .. N
               PROVE  \/ blocks[i + 1].pos = Until(blocks[i])
                      \/ blocks[i + 1].pos = 0 /\ Jump(Until(blocks[i]))
    BY <1>1, <1>2 DEF ChainInv, Jump
  <2> QED
    BY <1>0, <1>2 DEF ChainInv
<1>11. HeaderInv'
  BY <1>0, <1>1, <1>2 DEF HeaderInv
<1>12. LockInv'
  BY <1>1 DEF ProducerInv, LockInv, locals
<1>13. ASSUME NEW r \in Producers PROVE PlanInv(r)' /\ HoldInv(r)'
  <2>1. PlanInv(r) /\ HoldInv(r)
    BY DEF ProducerInv
  <2>2. PlanInv(r)'
    <3>1. CASE pc[r] \in PlanPCs
      <4>1. /\ Plan(ptr[r], len[r], skip[r], freePos, allocPos)
            /\ len[r] \in Nat /\ len[r] > Hdr /\ ptr[r] \in Nat
        BY <2>1, <3>1, PlanFacts
      <4>2. skip[r] \in BOOLEAN
        BY DEF TypeOK
      <4>3. Plan(ptr[r], len[r], skip[r], g, allocPos)
        BY <1>4, <4>1, <4>2
      <4> QED
        BY <1>1, <2>1, <4>3 DEF PlanInv, Jump, locals
    <3>2. CASE pc[r] \notin PlanPCs
      BY <1>1, <3>2, PlanOutside DEF locals
    <3> QED
      BY <3>1, <3>2
  <2>3. HoldInv(r)'
    <3>1. ASSUME NEW i \in 1 .. N, ~blocks[i].committed
          PROVE  \E j \in 1 .. Len(blocks') : blocks'[j] = blocks[i]
      <4>1. i - 1 \in 1 .. N - 1 /\ (i - 1) + 1 = i
        BY <1>0, <1>2, <3>1
      <4> QED
        BY <1>2, <4>1
    <3> QED
      BY <1>1, <2>1, <3>1, HoldKept DEF locals
  <2> QED
    BY <2>2, <2>3
<1>14. ConsumerInv'
  BY <1>1 DEF ConsumerInv
<1> QED
  BY <1>5, <1>7, <1>8, <1>9, <1>10, <1>11, <1>12, <1>13, <1>14
  DEF RingInv, ProducerInv

-----------------------------------------------------------------------------
(* The theorems. *)

LEMMA NextIInv == IInv /\ [Next]_vars => IInv'
<1> SUFFICES ASSUME IInv, [Next]_vars PROVE IInv'
  OBVIOUS
<1>1. ASSUME NEW p \in Producers, Producer(p) PROVE IInv'
  BY <1>1, StepCall, StepEnter, StepLoad, StepWriteHeader, StepWriteMarker,
     StepPublish, StepLeave, StepConstruct, StepCommitEvent
  DEF Producer, Allocate
<1>2. CASE Consumer
  BY <1>2, StepRead, StepWrapAtEnd, StepFollowMarker, StepHandleAndDestroy,
     StepFree DEF Consumer
<1>3. CASE UNCHANGED vars
  <2>1. UNCHANGED <<ring, lock, locals, consumer, blocks>>
    BY <1>3 DEF vars, ring, locals, consumer
  <2>2. TypeOK'
    BY <1>3 DEF IInv, TypeOK, vars
  <2> QED
    BY <2>1, <2>2, RingUnchanged, ProducersKept, ConsumerUnchanged DEF IInv, ring
<1> QED
  BY <1>1, <1>2, <1>3 DEF Next

(* The layout of the ring described above holds in every reachable state,  *)
(* whatever the interleaving of the producers with the consumer.           *)
THEOREM Inductive == Spec => []IInv
<1>1. Init => IInv
  BY InitIInv
<1>2. IInv /\ [Next]_vars => IInv'
  BY NextIInv
<1> QED
  BY <1>1, <1>2, PTL DEF Spec

(* Every variable keeps its type; in particular _alloc_pos and _free_pos   *)
(* never leave the buffer, and every word written is inside it.            *)
THEOREM TypeCorrect == Spec => []TypeOK
<1>1. IInv => TypeOK
  BY DEF IInv
<1> QED
  BY <1>1, Inductive, PTL

(* allocate() never hands out a word that another live event occupies,     *)
(* although it reads _free_pos once and decides on it later.               *)
THEOREM LiveBlocksDisjoint == Spec => []NoOverlap
<1>1. IInv => NoOverlap
  <2> SUFFICES ASSUME IInv PROVE NoOverlap
    OBVIOUS
  <2>1. TypeOK /\ PlaceInv /\ OrderInv
    BY DEF IInv, RingInv
  <2>2. DOMAIN blocks = 1 .. Len(blocks)
    BY <2>1 DEF TypeOK
  <2> QED
    BY <2>1, <2>2, Disjoint, InCap DEF NoOverlap
<1> QED
  BY <1>1, Inductive, PTL

(* pop_event's test _free_pos == _alloc_pos never mistakes a full ring for *)
(* an empty one, nor an empty one for a full one.                          *)
THEOREM EqualOnlyWhenEmpty == Spec => []EqualMeansEmpty
<1>1. IInv => EqualMeansEmpty
  <2> SUFFICES ASSUME IInv PROVE EqualMeansEmpty
    OBVIOUS
  <2>1. TypeOK /\ PlaceInv /\ EndsInv
    BY DEF IInv, RingInv
  <2>2. CASE blocks = <<>>
    BY <2>1, <2>2 DEF EqualMeansEmpty, EndsInv
  <2>3. CASE blocks # <<>>
    BY <2>1, <2>3, PosFacts, BlockFacts DEF EqualMeansEmpty, PlaceInv, Placed
  <2> QED
    BY <2>2, <2>3
<1> QED
  BY <1>1, Inductive, PTL

(* pop_event never takes leftovers for a header: what it reads is the      *)
(* header of the oldest event or the marker that leads to it.              *)
THEOREM OnlyHeadersRead == Spec => []ReadsOnlyHeaders
<1>1. IInv => ReadsOnlyHeaders
  BY HeadState DEF IInv, ConsumerInv, ReadsOnlyHeaders
<1> QED
  BY <1>1, Inductive, PTL

(* free() gives back exactly the block of the event just handled.          *)
THEOREM HeadFreed == Spec => []FreesTheHead
<1>1. IInv => FreesTheHead
  BY PosFacts DEF IInv, RingInv, HeaderInv, ConsumerInv, FreesTheHead
<1> QED
  BY <1>1, Inductive, PTL

-----------------------------------------------------------------------------
(* What the blocks hold. *)

(* Every word of the event in block i is the one its owner constructed.    *)
Whole(i) == \A x \in Words : blocks[i].pos + Hdr <= x /\ x < Until(blocks[i])
                               => mem[x] = blocks[i].owner

(* The event in block i has been constructed, and not yet destroyed.       *)
Constructed(i) == \/ blocks[i].committed /\ ~(i = 1 /\ cpc = "free")
                  \/ blocks[i].pos \in held[blocks[i].owner]

EventInv == \A i \in 1 .. Len(blocks) : Constructed(i) => Whole(i)

(* A block is known by its place. *)
LEMMA SamePlace ==
  ASSUME TypeOK, PlaceInv, OrderInv, NEW i \in 1 .. Len(blocks), NEW j \in 1 .. Len(blocks),
         blocks[i].pos = blocks[j].pos
  PROVE  i = j
<1>1. /\ blocks[i].pos \in Nat /\ Until(blocks[i]) \in Nat /\ blocks[i].pos < Until(blocks[i])
      /\ blocks[j].pos < Until(blocks[j]) /\ Until(blocks[j]) \in Nat
  BY BlockFacts
<1> QED
  BY <1>1, Disjoint

(* A word of one event lies outside the other blocks.                      *)
LEMMA Apart ==
  ASSUME TypeOK, PlaceInv, OrderInv, NEW i \in 1 .. Len(blocks), NEW j \in 1 .. Len(blocks),
         i # j, NEW x \in Words, blocks[j].pos + Hdr <= x, x < Until(blocks[j])
  PROVE  x \in Nat /\ (x < blocks[i].pos \/ Until(blocks[i]) <= x)
<1>1. /\ blocks[i].pos \in Nat /\ Until(blocks[i]) \in Nat
      /\ blocks[j].pos \in Nat /\ Until(blocks[j]) \in Nat
  BY BlockFacts
<1>2. Until(blocks[i]) <= blocks[j].pos \/ Until(blocks[j]) <= blocks[i].pos
  BY Disjoint
<1> QED
  BY <1>1, <1>2 DEF Words

(* A step that constructs nothing and writes into no event.                *)
LEMMA EventsKept ==
  ASSUME EventInv, UNCHANGED blocks,
         \A i \in 1 .. Len(blocks) : Constructed(i)' => Constructed(i),
         \A i \in 1 .. Len(blocks) : \A x \in Words :
           blocks[i].pos + Hdr <= x /\ x < Until(blocks[i]) => mem'[x] = mem[x]
  PROVE  EventInv'
BY DEF EventInv, Whole

LEMMA WriteHeaderEvents ==
  ASSUME IInv, EventInv, NEW p \in Producers, WriteHeader(p)
  PROVE  EventInv'
<1>0. /\ pc[p] \in PlanPCs /\ PlanInv(p) /\ HoldInv(p) /\ TypeOK /\ PlaceInv
  BY DEF IInv, RingInv, WriteHeader, ProducerInv, PlanPCs
<1>1. /\ ptr[p] \in Nat /\ ptr[p] + 1 \in Words /\ len[p] \in Nat /\ len[p] > Hdr
      /\ \A i \in 1 .. Len(blocks) :
           Until(blocks[i]) <= ptr[p] \/ ptr[p] + len[p] <= blocks[i].pos
  BY <1>0, PlanFacts, PlanFree
<1>2. /\ mem' = [mem EXCEPT ![ptr[p]] = ALLOCATED, ![ptr[p] + 1] = len[p]]
      /\ UNCHANGED <<blocks, held, cpc>>
  BY DEF WriteHeader, WithHeader, consumer
<1>3. ASSUME NEW i \in 1 .. Len(blocks), NEW x \in Words,
             blocks[i].pos + Hdr <= x, x < Until(blocks[i])
      PROVE  mem'[x] = mem[x]
  <2>0. /\ blocks[i].pos \in Nat /\ Until(blocks[i]) \in Nat /\ x \in Nat
        /\ Until(blocks[i]) <= ptr[p] \/ ptr[p] + len[p] <= blocks[i].pos
    BY <1>0, <1>1, BlockFacts DEF Words
  <2>1. x # ptr[p] /\ x # ptr[p] + 1
    BY <1>1, <1>3, <2>0
  <2> QED
    BY <1>0, <1>2, <2>1 DEF TypeOK
<1> QED
  BY <1>2, <1>3, EventsKept DEF Constructed

LEMMA WriteMarkerEvents ==
  ASSUME IInv, EventInv, NEW p \in Producers, WriteMarker(p)
  PROVE  EventInv'
<1>0. /\ pc[p] \in PlanPCs /\ PlanInv(p) /\ HoldInv(p) /\ TypeOK /\ PlaceInv
  BY DEF IInv, RingInv, WriteMarker, ProducerInv, PlanPCs
<1>1. skip[p] => \A i \in 1 .. Len(blocks) : Until(blocks[i]) <= allocPos
  BY <1>0, PlanFacts, PlanFree
<1>2. /\ mem' = IF skip[p] /\ NeedsMarker(allocPos)
                THEN [mem EXCEPT ![allocPos] = SKIPPED] ELSE mem
      /\ UNCHANGED <<blocks, held, cpc>>
  BY DEF WriteMarker, consumer
<1>3. ASSUME NEW i \in 1 .. Len(blocks), NEW x \in Words,
             blocks[i].pos + Hdr <= x, x < Until(blocks[i])
      PROVE  mem'[x] = mem[x]
  <2>1. skip[p] => x # allocPos
    BY <1>0, <1>1, <1>3, BlockFacts, PosFacts DEF Words
  <2> QED
    BY <1>0, <1>2, <2>1 DEF TypeOK
<1> QED
  BY <1>2, <1>3, EventsKept DEF Constructed

(* The new block lies elsewhere than those p holds, so it counts as one    *)
(* whose event is still to be constructed.                                 *)
LEMMA PublishEvents ==
  ASSUME IInv, EventInv, NEW p \in Producers, Publish(p)
  PROVE  EventInv'
<1> DEFINE b == [pos |-> ptr[p], len |-> len[p], owner |-> p, committed |-> FALSE]
           N == Len(blocks)
<1>0. /\ pc[p] \in PlanPCs /\ PlanInv(p) /\ HoldInv(p) /\ TypeOK /\ PlaceInv /\ OrderInv
  BY DEF IInv, RingInv, Publish, ProducerInv, PlanPCs
<1>1. /\ ptr[p] \in Words /\ ptr[p] \in Nat /\ len[p] \in Lens /\ len[p] \in Nat /\ len[p] > Hdr
      /\ \A i \in 1 .. N : Until(blocks[i]) <= ptr[p] \/ ptr[p] + len[p] <= blocks[i].pos
  BY <1>0, PlanFacts, PlanFree
<1>2. blocks' = Append(blocks, b) /\ UNCHANGED <<mem, held, cpc>>
  BY DEF Publish, consumer
<1>3. /\ N \in Nat /\ Len(blocks') = N + 1
      /\ \A i \in 1 .. N : blocks'[i] = blocks[i]
      /\ blocks'[N + 1] = b
  BY <1>0, <1>1, <1>2 DEF TypeOK
<1>4. ptr[p] \notin held[p]
  <2> SUFFICES ASSUME ptr[p] \in held[p] PROVE FALSE
    OBVIOUS
  <2>1. PICK i \in 1 .. N : Owns(p, ptr[p], i)
    BY <1>0 DEF HoldInv
  <2> QED
    BY <1>0, <1>1, <2>1, BlockFacts DEF Owns
<1>5. ASSUME NEW i \in 1 .. N + 1, Constructed(i)' PROVE Whole(i)'
  <2>1. i # N + 1
    BY <1>2, <1>3, <1>4, <1>5 DEF Constructed
  <2>2. i \in 1 .. N /\ blocks'[i] = blocks[i]
    BY <1>3, <2>1
  <2> QED
    BY <1>2, <1>5, <2>2 DEF Constructed, Whole, EventInv
<1> QED
  BY <1>3, <1>5 DEF EventInv

LEMMA ConstructEvents ==
  ASSUME IInv, EventInv, NEW p \in Producers, Construct(p)
  PROVE  EventInv'
<1>0. /\ HoldInv(p) /\ TypeOK /\ PlaceInv /\ OrderInv /\ pc[p] = "construct"
  BY DEF IInv, RingInv, Construct, ProducerInv
<1>1. PICK i \in 1 .. Len(blocks) : Owns(p, ptr[p], i) /\ blocks[i].len = len[p]
  BY <1>0 DEF HoldInv
<1>2. /\ mem' = WithEvent(mem, blocks[i].pos, blocks[i].len, p)
      /\ held' = [held EXCEPT ![p] = @ \cup {blocks[i].pos}]
      /\ UNCHANGED <<blocks, cpc>>
  BY <1>1 DEF Construct, consumer, Owns
<1>3. Whole(i)'
  BY <1>0, <1>1, <1>2, BlockFacts DEF Whole, WithEvent, Owns
<1>4. ASSUME NEW j \in 1 .. Len(blocks), j # i, Constructed(j)' PROVE Whole(j)'
  <2>1. Constructed(j)
    BY <1>0, <1>1, <1>2, <1>4, SamePlace DEF Constructed, TypeOK
  <2>2. ASSUME NEW x \in Words, blocks[j].pos + Hdr <= x, x < Until(blocks[j])
        PROVE  mem'[x] = mem[x]
    <3>1. x \in Nat /\ (x < blocks[i].pos \/ Until(blocks[i]) <= x)
      BY <1>0, <1>4, <2>2, Apart
    <3> QED
      BY <1>0, <1>2, <3>1, BlockFacts DEF WithEvent
  <2> QED
    BY <1>2, <2>1, <2>2 DEF EventInv, Whole
<1> QED
  BY <1>2, <1>3, <1>4 DEF EventInv

LEMMA CommitEvents ==
  ASSUME IInv, EventInv, NEW p \in Producers, NEW q \in held[p], CommitEvent(p, q)
  PROVE  EventInv'
<1>0. TypeOK /\ PlaceInv /\ OrderInv /\ q \in Words
  BY DEF IInv, RingInv, TypeOK
<1>1. PICK i \in 1 .. Len(blocks) : CommitOf(p, q, i)
  BY CommitFacts
<1>2. /\ blocks[i].pos = q /\ blocks[i].owner = p
      /\ mem' = [mem EXCEPT ![q] = COMMITTED] /\ UNCHANGED cpc
      /\ held' = [held EXCEPT ![p] = @ \ {q}]
      /\ Len(blocks') = Len(blocks)
  BY <1>1 DEF CommitEvent, consumer, CommitOf, Owns
<1>3. ASSUME NEW j \in 1 .. Len(blocks), Constructed(j)' PROVE Whole(j)'
  <2>1. blocks'[j].pos = blocks[j].pos /\ blocks'[j].len = blocks[j].len
        /\ blocks'[j].owner = blocks[j].owner
    <3>1. blocks[i] \in Block
      BY <1>0, PosFacts
    <3> QED
      BY <1>1, <3>1 DEF CommitOf, Block
  <2>2. Constructed(j)
    <3>1. CASE j = i
      BY <1>2, <3>1 DEF Constructed
    <3>2. CASE j # i
      BY <1>0, <1>1, <1>2, <1>3, <3>2 DEF CommitOf, Constructed, TypeOK
    <3> QED
      BY <3>1, <3>2
  <2>3. ASSUME NEW x \in Words, blocks[j].pos + Hdr <= x, x < Until(blocks[j])
        PROVE  mem'[x] = mem[x]
    <3>1. x # q
      <4>1. CASE j = i
        BY <1>2, <2>3, <4>1 DEF Words
      <4>2. CASE j # i
        <5>1. x \in Nat /\ (x < blocks[i].pos \/ Until(blocks[i]) <= x)
          BY <1>0, <2>3, <4>2, Apart
        <5>2. blocks[i].pos \in Nat /\ blocks[i].pos < Until(blocks[i]) /\ Until(blocks[i]) \in Nat
          BY <1>0, BlockFacts
        <5> QED
          BY <1>2, <5>1, <5>2
      <4> QED
        BY <4>1, <4>2
    <3> QED
      BY <1>0, <1>2, <3>1 DEF TypeOK
  <2> QED
    BY <2>1, <2>2, <2>3 DEF EventInv, Whole, Until
<1> QED
  BY <1>2, <1>3 DEF EventInv

LEMMA HandleEvents ==
  ASSUME IInv, EventInv, HandleAndDestroy
  PROVE  EventInv'
<1>0. TypeOK /\ RingInv /\ PlaceInv /\ OrderInv
  BY DEF IInv, RingInv
<1>1. /\ blocks # <<>> /\ ev = blocks[1].pos /\ blocks[1].committed /\ 1 \in 1 .. Len(blocks)
  BY <1>0, PosFacts DEF IInv, HandleAndDestroy, ConsumerInv
<1>2. /\ mem' = WithEvent(mem, blocks[1].pos, blocks[1].len, Junk)
      /\ cpc' = "free" /\ UNCHANGED <<blocks, held>>
  BY <1>0, <1>1, HeadSize DEF HandleAndDestroy, locals
<1>3. ~Constructed(1)'
  <2> SUFFICES ASSUME blocks[1].pos \in held[blocks[1].owner] PROVE FALSE
    BY <1>2 DEF Constructed
  <2>1. PICK i \in 1 .. Len(blocks) : Owns(blocks[1].owner, blocks[1].pos, i)
    BY <1>0, <1>1, BlockFacts DEF IInv, ProducerInv, HoldInv
  <2> QED
    BY <1>0, <1>1, <2>1, SamePlace DEF Owns
<1>4. ASSUME NEW j \in 1 .. Len(blocks), j # 1, Constructed(j)' PROVE Whole(j)'
  <2>1. Constructed(j)
    BY <1>2, <1>4 DEF Constructed
  <2>2. ASSUME NEW x \in Words, blocks[j].pos + Hdr <= x, x < Until(blocks[j])
        PROVE  mem'[x] = mem[x]
    <3>1. x \in Nat /\ (x < blocks[1].pos \/ Until(blocks[1]) <= x)
      BY <1>0, <1>1, <1>4, <2>2, Apart
    <3> QED
      BY <1>1, <1>2, <3>1, BlockFacts, <1>0 DEF WithEvent
  <2> QED
    BY <1>2, <2>1, <2>2 DEF EventInv, Whole
<1> QED
  BY <1>2, <1>3, <1>4 DEF EventInv

LEMMA FreeEvents ==
  ASSUME IInv, EventInv, Free
  PROVE  EventInv'
<1>1. /\ blocks \in Seq(Block) /\ blocks # <<>> /\ blocks' = Tail(blocks)
      /\ cpc' = "pop" /\ UNCHANGED <<mem, held>>
  BY DEF IInv, TypeOK, ConsumerInv, Free, locals
<1>2. /\ Len(blocks') = Len(blocks) - 1
      /\ \A i \in 1 .. Len(blocks') : /\ blocks'[i] = blocks[i + 1]
                                      /\ i + 1 \in 1 .. Len(blocks) /\ i + 1 # 1
  BY <1>1
<1> QED
  BY <1>1, <1>2 DEF EventInv, Constructed, Whole

(* The event given to on_event is the oldest one, committed, and whole:    *)
(* neither an allocation in progress nor a later event has written to it,  *)
(* and its producer had finished it before commit_event.                   *)
THEOREM IntactEventHandled == Spec => []HandlesIntactEvent
<1>1. Init => EventInv
  BY DEF Init, EventInv
<1>2. IInv /\ EventInv /\ [Next]_vars => EventInv'
  <2> SUFFICES ASSUME IInv, EventInv, [Next]_vars PROVE EventInv'
    OBVIOUS
  <2>0. ASSUME UNCHANGED <<mem, blocks, held>>, cpc = "free" <=> cpc' = "free"
        PROVE  EventInv'
    BY <2>0, EventsKept DEF Constructed
  <2>1. ASSUME NEW p \in Producers, Producer(p) PROVE EventInv'
    <3>1. \/ UNCHANGED <<mem, blocks, held, cpc>>
          \/ WriteHeader(p) \/ WriteMarker(p) \/ Publish(p) \/ Construct(p)
          \/ \E q \in held[p] : CommitEvent(p, q)
      BY <2>1 DEF Producer, Allocate, Call, Enter, Load, Leave, GiveUp, ring, consumer
    <3> QED
      BY <2>0, <3>1, WriteHeaderEvents, WriteMarkerEvents, PublishEvents, ConstructEvents,
         CommitEvents
  <2>2. CASE Consumer
    <3>1. \/ UNCHANGED <<mem, blocks, held>> /\ cpc # "free" /\ cpc' # "free"
          \/ HandleAndDestroy \/ Free
      BY <2>2 DEF Consumer, CheckEmpty, WrapAtEnd, ReadState, FollowMarker, ReadFront,
                  ring, locals
    <3> QED
      BY <2>0, <3>1, HandleEvents, FreeEvents
  <2>3. CASE UNCHANGED vars
    BY <2>0, <2>3 DEF vars
  <2> QED
    BY <2>1, <2>2, <2>3 DEF Next
<1>3. IInv /\ EventInv => HandlesIntactEvent
  <2> SUFFICES ASSUME IInv, EventInv, cpc = "handle"
               PROVE  /\ blocks # <<>> /\ blocks[1].committed /\ blocks[1].pos = ev
                      /\ \A x \in Words : ev + Hdr <= x /\ x < ev + blocks[1].len
                                            => mem[x] = blocks[1].owner
    BY DEF HandlesIntactEvent
  <2>1. /\ blocks # <<>> /\ blocks[1].committed /\ blocks[1].pos = ev /\ 1 \in 1 .. Len(blocks)
    BY PosFacts DEF IInv, ConsumerInv
  <2>2. Whole(1)
    BY <2>1 DEF EventInv, Constructed
  <2> QED
    BY <2>1, <2>2 DEF Whole, Until
<1> QED
  BY <1>1, <1>2, <1>3, Inductive, PTL DEF Spec

-----------------------------------------------------------------------------
(* Refinement of EventChannel. *)

(* The channel's view of a block, and of the history. *)
SlotOf(b) == [owner |-> b.owner, len |-> b.len, committed |-> b.committed]
SlotsOf(s) == [i \in DOMAIN s |-> SlotOf(s[i])]

LEMMA SlotsSeq ==
  ASSUME NEW s \in Seq(Block)
  PROVE  /\ SlotsOf(s) \in Seq(Channel!Slot)
         /\ Len(SlotsOf(s)) = Len(s)
         /\ \A i \in 1 .. Len(s) : SlotsOf(s)[i] = SlotOf(s[i])
<1>1. \A b \in Block : SlotOf(b) \in Channel!Slot
  BY DEF SlotOf, Block, Channel!Slot
<1>2. DOMAIN s = 1 .. Len(s) /\ \A i \in 1 .. Len(s) : s[i] \in Block
  OBVIOUS
<1>3. SlotsOf(s) = [i \in 1 .. Len(s) |-> SlotOf(s[i])]
  BY <1>2 DEF SlotsOf
<1>4. SlotsOf(s) \in [1 .. Len(s) -> Channel!Slot]
  BY <1>1, <1>2, <1>3
<1> QED
  BY <1>3, <1>4

LEMMA SlotsAppend ==
  ASSUME NEW s \in Seq(Block), NEW b \in Block
  PROVE  SlotsOf(Append(s, b)) = Append(SlotsOf(s), SlotOf(b))
<1>1. Append(s, b) \in Seq(Block) /\ Len(Append(s, b)) = Len(s) + 1
  OBVIOUS
<1>2. \A i \in 1 .. Len(s) : Append(s, b)[i] = s[i]
  OBVIOUS
<1>3. Append(s, b)[Len(s) + 1] = b
  OBVIOUS
<1>4. /\ Append(SlotsOf(s), SlotOf(b)) \in Seq(Channel!Slot)
      /\ Len(Append(SlotsOf(s), SlotOf(b))) = Len(s) + 1
      /\ \A i \in 1 .. Len(s) : Append(SlotsOf(s), SlotOf(b))[i] = SlotOf(s[i])
      /\ Append(SlotsOf(s), SlotOf(b))[Len(s) + 1] = SlotOf(b)
  <2>1. SlotOf(b) \in Channel!Slot
    BY DEF SlotOf, Block, Channel!Slot
  <2> QED
    BY <2>1, SlotsSeq
<1>5. ASSUME NEW i \in 1 .. Len(s) + 1
      PROVE  SlotsOf(Append(s, b))[i] = Append(SlotsOf(s), SlotOf(b))[i]
  <2>1. SlotsOf(Append(s, b))[i] = SlotOf(Append(s, b)[i])
    BY <1>1, SlotsSeq
  <2>2. CASE i = Len(s) + 1
    BY <1>3, <1>4, <2>1, <2>2
  <2>3. CASE i \in 1 .. Len(s)
    BY <1>2, <1>4, <2>1, <2>3
  <2>4. i = Len(s) + 1 \/ i \in 1 .. Len(s)
    OBVIOUS
  <2> QED
    BY <2>2, <2>3, <2>4
<1> QED
  BY <1>1, <1>4, <1>5, SlotsSeq, SeqEqual

LEMMA SlotsExcept ==
  ASSUME NEW s \in Seq(Block), NEW t \in Seq(Block), Len(t) = Len(s),
         NEW i \in 1 .. Len(s),
         \A j \in 1 .. Len(s) : j # i => t[j] = s[j],
         t[i] = [s[i] EXCEPT !.committed = TRUE]
  PROVE  SlotsOf(t) = [SlotsOf(s) EXCEPT ![i].committed = TRUE]
<1>1. s[i] \in Block /\ SlotOf(s[i]) \in Channel!Slot
  <2>1. s[i] \in Block
    OBVIOUS
  <2> QED
    BY <2>1 DEF SlotOf, Block, Channel!Slot
<1> DEFINE e == [owner |-> s[i].owner, len |-> s[i].len, committed |-> TRUE]
<1>2. SlotOf(t[i]) = e
  <2>1. /\ t[i].owner = s[i].owner /\ t[i].len = s[i].len
        /\ t[i].committed = TRUE
    BY <1>1 DEF Block
  <2> QED
    BY <2>1 DEF SlotOf
<1>3. e \in Channel!Slot
  BY <1>1 DEF Block, Channel!Slot
<1>4. [SlotOf(s[i]) EXCEPT !.committed = TRUE] = e
  <2>1. ASSUME NEW r \in Channel!Slot
        PROVE  [r EXCEPT !.committed = TRUE]
                 = [owner |-> r.owner, len |-> r.len, committed |-> TRUE]
    <3> DEFINE x == [r EXCEPT !.committed = TRUE]
               y == [owner |-> r.owner, len |-> r.len, committed |-> TRUE]
    <3>1. x \in Channel!Slot /\ x.owner = r.owner /\ x.len = r.len
      BY DEF Channel!Slot
    <3>2. x.committed = TRUE
      BY DEF Channel!Slot
    <3>3. y \in Channel!Slot /\ y.owner = r.owner /\ y.len = r.len
      BY DEF Channel!Slot
    <3>4. y.committed = TRUE
      OBVIOUS
    <3> HIDE DEF x, y
    <3>5. x = y
      BY <3>1, <3>2, <3>3, <3>4 DEF Channel!Slot
    <3> QED
      BY <3>5 DEF x, y
  <2>2. SlotOf(s[i]).owner = s[i].owner /\ SlotOf(s[i]).len = s[i].len
    BY DEF SlotOf
  <2> QED
    BY <1>1, <2>1, <2>2
<1> HIDE DEF e
<1>5. [SlotsOf(s) EXCEPT ![i].committed = TRUE] = [SlotsOf(s) EXCEPT ![i] = e]
  BY <1>4, SlotsSeq
<1>6. /\ [SlotsOf(s) EXCEPT ![i] = e] \in Seq(Channel!Slot)
      /\ Len([SlotsOf(s) EXCEPT ![i] = e]) = Len(s)
      /\ \A j \in 1 .. Len(s) :
           [SlotsOf(s) EXCEPT ![i] = e][j] = IF j = i THEN e ELSE SlotsOf(s)[j]
  <2>1. SlotsOf(s) \in Seq(Channel!Slot) /\ Len(SlotsOf(s)) = Len(s)
    BY SlotsSeq
  <2> QED
    BY <1>3, <2>1, ExceptSeq
<1>7. ASSUME NEW j \in 1 .. Len(s)
      PROVE  SlotsOf(t)[j] = [SlotsOf(s) EXCEPT ![i] = e][j]
  BY <1>2, <1>6, SlotsSeq
<1>8. SlotsOf(t) = [SlotsOf(s) EXCEPT ![i] = e]
  <2> DEFINE u == SlotsOf(t)
             v == [SlotsOf(s) EXCEPT ![i] = e]
  <2>1. u \in Seq(Channel!Slot) /\ Len(u) = Len(s)
    BY SlotsSeq
  <2>2. v \in Seq(Channel!Slot) /\ Len(v) = Len(s)
    BY <1>6
  <2>3. \A j \in 1 .. Len(u) : u[j] = v[j]
    BY <1>7, <2>1
  <2> HIDE DEF u, v
  <2>4. u = v
    BY <2>1, <2>2, <2>3, SeqEqual
  <2> QED
    BY <2>4 DEF u, v
<1> QED
  BY <1>5, <1>8

LEMMA SlotsTail ==
  ASSUME NEW s \in Seq(Block), s # <<>>
  PROVE  SlotsOf(Tail(s)) = Tail(SlotsOf(s))
<1>1. /\ Tail(s) \in Seq(Block) /\ Len(Tail(s)) = Len(s) - 1
      /\ \A i \in 1 .. Len(s) - 1 : Tail(s)[i] = s[i + 1]
  OBVIOUS
<1>2. SlotsOf(s) \in Seq(Channel!Slot) /\ SlotsOf(s) # <<>>
  BY SlotsSeq
<1>3. /\ Tail(SlotsOf(s)) \in Seq(Channel!Slot)
      /\ Len(Tail(SlotsOf(s))) = Len(s) - 1
      /\ \A i \in 1 .. Len(s) - 1 : Tail(SlotsOf(s))[i] = SlotsOf(s)[i + 1]
  BY <1>2, SlotsSeq
<1>4. ASSUME NEW i \in 1 .. Len(s) - 1
      PROVE  SlotsOf(Tail(s))[i] = Tail(SlotsOf(s))[i]
  <2>1. SlotsOf(Tail(s))[i] = SlotOf(Tail(s)[i])
    BY <1>1, SlotsSeq
  <2>2. i + 1 \in 1 .. Len(s)
    OBVIOUS
  <2> QED
    BY <1>1, <1>3, <2>1, <2>2, SlotsSeq
<1> QED
  BY <1>1, <1>3, <1>4, SlotsSeq, SeqEqual

(* The ring delivers the events as the channel does: in the order of their *)
(* allocation, each once, and only when its producer has committed it.     *)
THEOREM RingImplementsChannel == Spec => ImplementsChannel
<1>1. Init => Channel!ChanInit
  BY DEF Init, Channel!ChanInit
<1>2. IInv /\ [Next]_vars => [Channel!ChanNext]_(Channel!chanVars)
  <2> SUFFICES ASSUME IInv, [Next]_vars
               PROVE  [Channel!ChanNext]_(Channel!chanVars)
    OBVIOUS
  <2> DEFINE slots == SlotsOf(blocks)
             handling == cpc \in {"handle", "free"}
  <2>s. /\ Channel!chanVars = <<slots, handling>>
        /\ Channel!chanVars' = <<slots', handling'>>
    BY DEF SlotsOf, SlotOf, Channel!chanVars
  <2>t. blocks \in Seq(Block) /\ DOMAIN blocks = 1 .. Len(blocks)
    BY DEF IInv, TypeOK
  <2>0. ASSUME UNCHANGED blocks, handling' = handling
        PROVE  UNCHANGED Channel!chanVars
    BY <2>0, <2>s DEF SlotsOf
  <2>1. ASSUME NEW p \in Producers, Producer(p)
        PROVE  [Channel!ChanNext]_(Channel!chanVars)
    <3>1. ASSUME Publish(p) PROVE \E n \in Lens : Channel!Reserve(p, n)
      <4> DEFINE b == [pos |-> ptr[p], len |-> len[p], owner |-> p,
                       committed |-> FALSE]
      <4>1. PlanInv(p) /\ HoldInv(p) /\ TypeOK /\ pc[p] \in PlanPCs
        BY <3>1 DEF Publish, IInv, ProducerInv, PlanPCs
      <4>2. ptr[p] \in Words /\ len[p] \in Lens
        BY <4>1 DEF HoldInv, TypeOK, PlanPCs
      <4>3. b \in Block
        BY <4>2 DEF Block
      <4>4. blocks' = Append(blocks, b) /\ UNCHANGED cpc
        BY <3>1 DEF Publish, consumer
      <4>5. slots' = Append(slots, SlotOf(b))
        BY <2>t, <4>3, <4>4, SlotsAppend
      <4>6. PICK n \in Lens : n = len[p]
        BY <4>2
      <4>7. Channel!Reserve(p, n)
        BY <4>4, <4>5, <4>6 DEF Channel!Reserve, SlotsOf, SlotOf
      <4> QED
        BY <4>7
    <3>2. ASSUME NEW q \in held[p], CommitEvent(p, q)
          PROVE  \E i \in DOMAIN slots : Channel!Commit(i)
      <4>1. PICK i \in 1 .. Len(blocks) : CommitOf(p, q, i)
        BY <3>2, CommitFacts
      <4>2. UNCHANGED cpc
        BY <3>2 DEF CommitEvent, consumer
      <4>3. slots' = [slots EXCEPT ![i].committed = TRUE]
        BY <2>t, <4>1, SlotsExcept DEF CommitOf
      <4>4. ~slots[i].committed /\ i \in DOMAIN slots
        BY <2>t, <4>1 DEF CommitOf, Owns, SlotsOf, SlotOf
      <4> QED
        BY <4>2, <4>3, <4>4 DEF Channel!Commit, SlotsOf, SlotOf
    <3>3. ASSUME UNCHANGED <<blocks, consumer>>
          PROVE  UNCHANGED Channel!chanVars
      BY <2>0, <3>3 DEF consumer
    <3>4. \/ Publish(p)
          \/ \E q \in held[p] : CommitEvent(p, q)
          \/ UNCHANGED <<blocks, consumer>>
      BY <2>1 DEF Producer, Allocate, Call, Enter, Load, WriteHeader, WriteMarker,
                  Leave, GiveUp, Construct
    <3>5. CASE Publish(p)
      BY <3>1, <3>5 DEF Channel!ChanNext
    <3>6. ASSUME NEW q \in held[p], CommitEvent(p, q)
          PROVE  [Channel!ChanNext]_(Channel!chanVars)
      BY <3>2, <3>6 DEF Channel!ChanNext, SlotsOf, SlotOf
    <3> QED
      BY <3>3, <3>4, <3>5, <3>6
  <2>2. ASSUME Consumer PROVE [Channel!ChanNext]_(Channel!chanVars)
    <3>1. ASSUME ReadState \/ ReadFront, cpc' = "handle" PROVE Channel!Take
      <4>1. IInv'
        BY <3>1, StepRead
      <4>2. blocks' = blocks /\ blocks # <<>> /\ blocks[1].committed /\ ~handling
        BY <3>1, <4>1 DEF IInv, ConsumerInv, ReadState, ReadFront
      <4>3. slots # <<>> /\ Head(slots).committed
        BY <2>t, <4>2 DEF SlotsOf, SlotOf
      <4> QED
        BY <3>1, <4>2, <4>3 DEF Channel!Take, SlotsOf, SlotOf
    <3>2. ASSUME Free PROVE Channel!Release
      <4>1. blocks # <<>> /\ blocks' = Tail(blocks) /\ handling /\ ~handling'
        BY <3>2 DEF Free, IInv, ConsumerInv
      <4>2. slots' = Tail(slots)
        BY <2>t, <4>1, SlotsTail
      <4> QED
        BY <4>1, <4>2 DEF Channel!Release, SlotsOf, SlotOf
    <3>3. \/ Free
          \/ (ReadState \/ ReadFront) /\ cpc' = "handle"
          \/ UNCHANGED blocks /\ handling' = handling
      BY <2>2 DEF Consumer, CheckEmpty, WrapAtEnd, ReadState, FollowMarker,
                  ReadFront, HandleAndDestroy, Free
    <3> QED
      BY <2>0, <3>1, <3>2, <3>3 DEF Channel!ChanNext
  <2>3. CASE UNCHANGED vars
    BY <2>0, <2>3 DEF vars
  <2> QED
    BY <2>1, <2>2, <2>3 DEF Next
<1> QED
  BY <1>1, <1>2, Inductive, PTL DEF Spec, ImplementsChannel, Channel!ChanSpec
=============================================================================
