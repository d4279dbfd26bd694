------------------------------ MODULE FsbPool ------------------------------
(***************************************************************************)
(* The pool of fixed-size blocks of sax/mempool.c (fsb_pool_t): a ring of  *)
(* the ids of the free blocks, from which one thread allocates and into    *)
(* which another frees, without a lock.  A block has a key, its id and a   *)
(* magic number that changes with every allocation, by which it can be     *)
(* looked up for as long as it is allocated.                               *)
(*                                                                         *)
(* One step per access that the other thread may notice.                   *)
(***************************************************************************)
EXTENDS Integers, FiniteSets

CONSTANTS block_count,
          Magics        \* magic numbers are counted modulo this: 2^32

FsbAssumption == block_count \in Nat \ {0} /\ Magics \in Nat /\ Magics >= 2

Blocks == 0 .. block_count - 1

VARIABLES begin, end, ids, next_magic,
          header,   \* the key of each block
          apc, new, \* the allocating thread, and the block it works on
          fpc, old, \* the same for the freeing thread
          live,     \* the blocks that have been handed out
          stale     \* the keys of freed blocks, with the number of allocations
                    \* since theirs; only while no later key can be the same

vars == <<begin, end, ids, next_magic, header, apc, new, fpc, old, live, stale>>

NoKey == [id |-> 0, magic |-> 0]
Key == [id : Blocks, magic : 0 .. Magics - 1]

TypeOK ==
  /\ begin \in 0 .. block_count /\ end \in 0 .. block_count
  /\ ids \in [0 .. block_count -> Blocks]
  /\ next_magic \in 0 .. Magics - 1
  /\ header \in [Blocks -> Key]
  /\ apc \in {"idle", "take", "magic", "id"} /\ new \in Blocks
  /\ fpc \in {"idle", "put", "publish"} /\ old \in Blocks
  /\ live \subseteq Blocks
  /\ stale \subseteq [key : Key, age : 0 .. Magics - 2]

(* g_fsb_init; ids[block_count] is left as it was. *)
Init ==
  /\ begin = 0 /\ end = block_count
  /\ \E junk \in Blocks : ids = [i \in 0 .. block_count |-> IF i \in Blocks THEN i ELSE junk]
  /\ next_magic = 0
  /\ header = [b \in Blocks |-> NoKey]
  /\ apc = "idle" /\ new = 0 /\ fpc = "idle" /\ old = 0
  /\ live = {} /\ stale = {}

(* A slip: a ring without a place to spare, in which full looks like empty. *)
AfterShort(i) == IF i + 1 >= block_count THEN 0 ELSE i + 1

After(i) == IF i + 1 = block_count + 1 THEN 0 ELSE i + 1

-----------------------------------------------------------------------------
(* g_fsb_alloc; a pool found empty returns NULL.                           *)

AllocLook ==
  /\ apc = "idle"
  /\ begin # end
  /\ apc' = "take"
  /\ UNCHANGED <<begin, end, ids, next_magic, header, new, fpc, old, live, stale>>

AllocTake ==
  /\ apc = "take"
  /\ new' = ids[begin]
  /\ begin' = After(begin)
  /\ next_magic' = IF next_magic + 1 = Magics THEN 1 ELSE next_magic + 1
  /\ stale' = {[k EXCEPT !.age = @ + 1] : k \in {l \in stale : l.age < Magics - 2}}
  /\ apc' = "magic"
  /\ UNCHANGED <<end, ids, header, fpc, old, live>>

AllocMagic ==
  /\ apc = "magic"
  /\ header' = [header EXCEPT ![new].magic = next_magic]
  /\ apc' = "id"
  /\ UNCHANGED <<begin, end, ids, next_magic, new, fpc, old, live, stale>>

AllocId ==
  /\ apc = "id"
  /\ header' = [header EXCEPT ![new].id = new]
  /\ live' = live \cup {new}
  /\ apc' = "idle"
  /\ UNCHANGED <<begin, end, ids, next_magic, new, fpc, old, stale>>

-----------------------------------------------------------------------------
(* g_fsb_free *)

(* The number of allocations since that of a block. *)
Age(b) == (next_magic - header[b].magic + Magics - 1) % (Magics - 1)

(* The user gives back a block, whose header is as alloc left it.          *)
Free(b) ==
  /\ fpc = "idle" /\ b \in live
  /\ header[b].id = b /\ header[b].magic # 0
  /\ stale' = stale \cup {[key |-> header[b], age |-> Age(b)]}
  /\ header' = [header EXCEPT ![b] = NoKey]
  /\ live' = live \ {b}
  /\ old' = b
  /\ fpc' = "put"
  /\ UNCHANGED <<begin, end, ids, next_magic, apc, new>>

FreePut ==
  /\ fpc = "put"
  /\ ids' = [ids EXCEPT ![end] = old]
  /\ fpc' = "publish"
  /\ UNCHANGED <<begin, end, next_magic, header, apc, new, old, live, stale>>

FreePublish ==
  /\ fpc = "publish"
  /\ end' = After(end)
  /\ fpc' = "idle"
  /\ UNCHANGED <<begin, ids, next_magic, header, apc, new, old, live, stale>>

Next == AllocLook \/ AllocTake \/ AllocMagic \/ AllocId
        \/ (\E b \in Blocks : Free(b)) \/ FreePut \/ FreePublish

Spec == Init /\ [][Next]_vars

-----------------------------------------------------------------------------

(* g_fsb_getblock, as far as it finds a block *)
Finds(key) == key.magic # 0 /\ header[key.id] = key

(* g_fsb_used *)
Used == IF begin - end > 0 THEN begin - end - 1 ELSE block_count + begin - end

(* The ids in the ring, each of which stands there once. *)
InRing == {i \in 0 .. block_count :
             IF begin <= end THEN begin <= i /\ i < end ELSE i >= begin \/ i < end}
FreeBlocks == {ids[i] : i \in InRing}

(* Every block is in one place: free, handed out, or in the hands of one   *)
(* of the two threads; no block is handed out twice or lost, whatever the  *)
(* other thread does between the accesses.                                 *)
EveryBlockInOnePlace ==
  LET mine == IF apc \in {"magic", "id"} THEN {new} ELSE {}
      yours == IF fpc # "idle" THEN {old} ELSE {} IN
  /\ FreeBlocks \cup live \cup mine \cup yours = Blocks
  /\ Cardinality(InRing) + Cardinality(live) + Cardinality(mine) + Cardinality(yours)
       = block_count

(* A key never finds a block that has been freed since, nor the one that   *)
(* is allocated in its place, until 2^32 - 1 allocations later.            *)
StaleKeysFindNothing == \A k \in stale : ~Finds(k.key)

(* A live block is found by its key, and the count of used blocks is right *)
(* while nothing is under way.                                             *)
LiveBlocksAreFound ==
  /\ \A b \in live : header[b].id = b /\ Finds(header[b])
  /\ apc = "idle" /\ fpc = "idle" => Used = Cardinality(live)
=============================================================================
