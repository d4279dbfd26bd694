---------------------------- MODULE LinkedBuffer ----------------------------
(***************************************************************************)
(* sax::linked_buffer (sax/net/linked_buffer.h): bytes in a chain of       *)
(* blocks, which grows at its end and is freed from its front.  A position *)
(* holds a block, a place in it and the bytes since _zero.                 *)
(*                                                                         *)
(* Blocks are numbered as they stand in the chain: no position outlives    *)
(* the freeing of a block.  What is in a new block does not matter.        *)
(***************************************************************************)
EXTENDS Integers, Sequences, FiniteSetsExt

CONSTANTS _block_size,
          MaxBlocks,   \* bound: the blocks that can be had
          Byte,
          Lengths      \* the lengths that are put, got and skipped

BufferAssumption ==
  /\ _block_size \in Nat \ {0} /\ MaxBlocks \in Nat \ {0} /\ Lengths \subseteq Nat
  /\ Byte \subseteq Nat /\ \E n \in Byte : Byte = 0 .. n

VARIABLES chain,       \* _buf_list: the blocks with their bytes
          _usable, _current, _zero, _mark, _limit,
          passed       \* the bytes that the last call has taken or given

vars == <<chain, _usable, _current, _zero, _mark, _limit, passed>>

(* struct pos; its remaining is what is left of the block. *)
Pos(block, off, position) == [block |-> block, off |-> off, position |-> position]
Invalid == Pos(0, 0, -1)
Remaining(p) == _block_size - p.off

Reading == _limit # Invalid
remaining == _limit.position - _current.position

NewBlock == [o \in 0 .. _block_size - 1 |-> 0]
_capacity == _block_size * Len(chain)

Init ==
  /\ chain = <<NewBlock>>
  /\ _usable = _block_size
  /\ _current = Pos(1, 0, 0) /\ _zero = Pos(1, 0, 0)
  /\ _mark = Invalid /\ _limit = Invalid
  /\ passed = <<>>

-----------------------------------------------------------------------------
(* Moving and copying *)

(* The loop of put, get and skip: a block that is filled by the first      *)
(* bytes is left at once, one that is filled by later bytes is not.        *)
Advance(p, k) ==
  LET left == k - Remaining(p)
      hops == IF left = 0 THEN 1 ELSE (left + _block_size - 1) \div _block_size
  IN IF left < 0 THEN Pos(p.block, p.off + k, p.position + k)
     ELSE Pos(p.block + hops, left - (hops - 1) * _block_size, p.position + k)

(* The i-th byte from p on, as the loop comes by it.                       *)
At(p, i) == chain[p.block + (p.off + i) \div _block_size][(p.off + i) % _block_size]

Bytes(p, k) == [i \in 1 .. k |-> At(p, i - 1)]

(* The chain with bytes copied into it from p on. *)
Written(c, p, bytes) ==
  [b \in DOMAIN c |-> [o \in 0 .. _block_size - 1 |->
     LET i == (b - p.block) * _block_size + o - p.off + 1
     IN IF i \in DOMAIN bytes THEN bytes[i] ELSE c[b][o]]]

(* The blocks that reserve(size) adds, and put and skip do not ask for     *)
(* them if there are none.                                                 *)
Missing(size) ==
  IF _usable >= size + 1 THEN 0 ELSE (size + 1 - _usable + _block_size - 1) \div _block_size

Grown(n) == chain \o [i \in 1 .. n |-> NewBlock]

(* reserve(size), when all blocks can be had ...                           *)
Reserve(size) ==
  /\ Len(chain) + Missing(size) <= MaxBlocks
  /\ _usable' = _usable + _block_size * Missing(size)

(* ... and when one cannot: those before it stay.                          *)
FailToReserve ==
  /\ ~Reading
  /\ \E k \in Lengths : \E n \in 0 .. Missing(_current.position + k) - 1 :
       /\ Len(chain) + n <= MaxBlocks
       /\ chain' = Grown(n)
       /\ _usable' = _usable + _block_size * n
  /\ UNCHANGED <<_current, _zero, _mark, _limit, passed>>

-----------------------------------------------------------------------------
(* The calls; one that is refused changes nothing.                         *)

Put(bytes) ==
  /\ ~Reading
  /\ Reserve(_current.position + Len(bytes))
  /\ chain' = Written(Grown(Missing(_current.position + Len(bytes))), _current, bytes)
  /\ _current' = Advance(_current, Len(bytes))
  /\ passed' = bytes
  /\ UNCHANGED <<_zero, _mark, _limit>>

Get(k) ==
  /\ Reading /\ remaining >= k
  /\ passed' = Bytes(_current, k)
  /\ _current' = Advance(_current, k)
  /\ UNCHANGED <<chain, _usable, _zero, _mark, _limit>>

Peek(k) ==
  /\ Reading /\ remaining >= k
  /\ passed' = Bytes(_current, k)
  /\ UNCHANGED <<chain, _usable, _current, _zero, _mark, _limit>>

(* limit_length of direct_get *)
Shown == IF _current.block = _limit.block THEN remaining ELSE Remaining(_current)

(* Callers ask for remaining() first, as those in the repository do.       *)
DirectGet ==
  /\ Reading /\ remaining > 0
  /\ passed' = Bytes(_current, Shown)
  /\ UNCHANGED <<chain, _usable, _current, _zero, _mark, _limit>>

(* commit_get, with the pointer that direct_get has given. *)
CommitGet(k) ==
  /\ Reading /\ remaining > 0
  /\ k <= Shown
  /\ _current' =
       IF _current.block # _limit.block /\ k = Remaining(_current)
       THEN Pos(_current.block + 1, 0, _current.position + k)
       ELSE Pos(_current.block, _current.off + k, _current.position + k)
  /\ passed' = <<>>
  /\ UNCHANGED <<chain, _usable, _zero, _mark, _limit>>

Skip(k) ==
  /\ IF Reading THEN remaining >= k /\ UNCHANGED <<chain, _usable>>
     ELSE /\ Reserve(_current.position + k)
          /\ chain' = Grown(Missing(_current.position + k))
  /\ _mark' = _current
  /\ _current' = Advance(_current, k)
  /\ passed' = <<>>
  /\ UNCHANGED <<_zero, _limit>>

Moved(current, mark) ==
  /\ _current' = current /\ _mark' = mark
  /\ passed' = <<>>
  /\ UNCHANGED <<chain, _usable, _zero>>

Mark == Moved(_current, _current) /\ UNCHANGED _limit
Reset == _mark # Invalid /\ Moved(_mark, _current) /\ UNCHANGED _limit
Rewind == Moved(_zero, _current) /\ UNCHANGED _limit
Flip == ~Reading /\ Moved(_zero, Invalid) /\ _limit' = _current

Clear ==
  /\ chain' = <<chain[1]>>
  /\ _usable' = _block_size
  /\ _current' = Pos(1, 0, 0) /\ _zero' = Pos(1, 0, 0)
  /\ _mark' = Invalid /\ _limit' = Invalid
  /\ passed' = <<>>

(* The blocks before the position are freed; when all has been read, its   *)
(* block is used from the start again.                                     *)
Compact ==
  /\ Reading
  /\ LET first == _current.block
         off == IF remaining = 0 THEN 0 ELSE _current.off
         last == IF remaining = 0 THEN Pos(first, 0, 0) ELSE _limit IN
       /\ _zero' = Pos(1, off, 0)
       /\ _current' = Pos(last.block - first + 1, last.off,
                          IF remaining = 0 THEN 0 ELSE remaining)
       /\ chain' = SubSeq(chain, first, Len(chain))
       /\ _usable' = _block_size * (Len(chain) - first + 1) - off
  /\ _mark' = Invalid /\ _limit' = Invalid
  /\ passed' = <<>>

(* The payloads: enough to tell bytes apart that stand side by side. *)
Payloads == {[i \in 1 .. k |-> (first + i) % Cardinality(Byte)] : k \in Lengths, first \in Byte}

Next ==
  \/ \E bytes \in Payloads : Put(bytes)
  \/ \E k \in Lengths : Get(k) \/ Peek(k) \/ CommitGet(k) \/ Skip(k)
  \/ FailToReserve \/ DirectGet \/ Mark \/ Reset \/ Rewind \/ Flip \/ Clear \/ Compact

-----------------------------------------------------------------------------
(* Properties *)

(* ByteTape's tape *)
Tape ==
  [i \in 0 .. Max({_current.position, _mark.position, _limit.position}) - 1 |-> At(_zero, i)]

(* Every position stands in a block of the chain, where its count of bytes *)
(* says, and there is a byte more behind it: the next block that put, get  *)
(* and skip go to is there.                                                *)
PositionsAgree ==
  /\ _usable = _capacity - _zero.off
  /\ \A p \in {_current, _mark, _limit} \ {Invalid} :
       /\ p.block \in 1 .. Len(chain) /\ p.off \in 0 .. _block_size
       /\ (p.block - 1) * _block_size + p.off = _zero.off + p.position
       /\ p.position < _usable

(* At the limit direct_get has nothing more to show, as a test expects.    *)
DirectGetEnds == Reading /\ remaining = 0 => Shown = 0
=============================================================================
