------------------------------- MODULE Buffer -------------------------------
(***************************************************************************)
(* sax::buffer (sax/net/buffer.h): bytes in one piece of memory, which is  *)
(* replaced by a larger one when it is too small.  Only what is before the *)
(* position comes along.                                                   *)
(***************************************************************************)
EXTENDS Integers, Sequences, FiniteSetsExt

CONSTANTS _block_size,
          MaxBlocks,   \* bound: the blocks that can be had in one piece
          Byte,
          Lengths      \* the lengths that are put, got, skipped and prepared

VARIABLES _buf,        \* the memory, _capacity bytes of it
          _current, _mark, _limit,
          whole,       \* the limit that flip has set
          passed       \* the bytes that the last call has taken or given

vars == <<_buf, _current, _mark, _limit, whole, passed>>

INVALID_VALUE == -1
Reading == _limit # INVALID_VALUE
_capacity == Len(_buf)

(* New memory holds anything, here always the same. *)
Init ==
  /\ _buf = [i \in 1 .. _block_size |-> 0]
  /\ _current = 0 /\ _mark = INVALID_VALUE /\ _limit = INVALID_VALUE
  /\ whole = INVALID_VALUE
  /\ passed = <<>>

(* reserve(size): the memory after it, if it can be had. *)
Reserved(size) ==
  LET pages == (size + _block_size - 1) \div _block_size
  IN IF size <= _capacity THEN _buf
     ELSE [i \in 1 .. pages * _block_size |-> IF i <= _current THEN _buf[i] ELSE 0]

Enough(size) == size <= MaxBlocks * _block_size

(* What has been copied to the position. *)
Copied(buf, bytes) ==
  [i \in DOMAIN buf |-> IF i - _current \in DOMAIN bytes THEN bytes[i - _current] ELSE buf[i]]

-----------------------------------------------------------------------------
(* The calls; one that is refused, or for which there is no memory,        *)
(* changes nothing.                                                        *)

Put(bytes) ==
  /\ ~Reading
  /\ Enough(_current + Len(bytes))
  /\ _buf' = Copied(Reserved(_current + Len(bytes)), bytes)
  /\ _current' = _current + Len(bytes)
  /\ passed' = bytes
  /\ UNCHANGED <<_mark, _limit, whole>>

DirectPut(k) ==
  /\ ~Reading
  /\ Enough(_current + k)
  /\ _buf' = Reserved(_current + k)
  /\ passed' = <<>>
  /\ UNCHANGED <<_current, _mark, _limit, whole>>

(* commit_put: the caller has written to where direct_put has pointed.     *)
CommitPut(bytes) ==
  /\ ~Reading
  /\ _current + Len(bytes) <= _capacity
  /\ _buf' = Copied(_buf, bytes)
  /\ _current' = _current + Len(bytes)
  /\ passed' = bytes
  /\ UNCHANGED <<_mark, _limit, whole>>

Get(k) ==
  /\ Reading /\ _limit - _current >= k
  /\ passed' = SubSeq(_buf, _current + 1, _current + k)
  /\ _current' = _current + k
  /\ UNCHANGED <<_buf, _mark, _limit, whole>>

Peek(k) ==
  /\ Reading /\ _limit - _current >= k
  /\ passed' = SubSeq(_buf, _current + 1, _current + k)
  /\ UNCHANGED <<_buf, _current, _mark, _limit, whole>>

CommitGet(k) ==
  /\ Reading /\ _current + k <= _limit
  /\ _current' = _current + k
  /\ passed' = <<>>
  /\ UNCHANGED <<_buf, _mark, _limit, whole>>

Skip(k) ==
  /\ IF Reading THEN _limit - _current >= k /\ UNCHANGED _buf
     ELSE Enough(_current + k) /\ _buf' = Reserved(_current + k)
  /\ _mark' = _current
  /\ _current' = _current + k
  /\ passed' = <<>>
  /\ UNCHANGED <<_limit, whole>>

Moved(current, mark) ==
  /\ _current' = current /\ _mark' = mark
  /\ passed' = <<>>
  /\ UNCHANGED _buf

Mark == Moved(_current, _current) /\ UNCHANGED <<_limit, whole>>
Reset == _mark # INVALID_VALUE /\ Moved(_mark, _current) /\ UNCHANGED <<_limit, whole>>
Rewind == Moved(0, _current) /\ UNCHANGED <<_limit, whole>>
Flip == ~Reading /\ Moved(0, INVALID_VALUE) /\ _limit' = _current /\ whole' = _current

Clear == Moved(0, INVALID_VALUE) /\ _limit' = INVALID_VALUE /\ whole' = INVALID_VALUE

(* limit(): callers keep it within what was written, and put back the old  *)
(* one after a frame; the position and the mark are in the frame.          *)
SetLimit(l) ==
  /\ Reading
  /\ _current <= l /\ _mark <= l /\ l <= whole
  /\ _limit' = l
  /\ passed' = <<>>
  /\ UNCHANGED <<_buf, _current, _mark, whole>>

(* A slip: the position is not made less. *)
CompactKeepingPosition ==
  /\ Reading
  /\ _buf' = [i \in DOMAIN _buf |-> IF i <= _limit - _current THEN _buf[_current + i] ELSE _buf[i]]
  /\ _current' = _limit
  /\ _mark' = INVALID_VALUE /\ _limit' = INVALID_VALUE /\ whole' = INVALID_VALUE
  /\ passed' = <<>>

Compact ==
  /\ Reading
  /\ _buf' = [i \in DOMAIN _buf |-> IF i <= _limit - _current THEN _buf[_current + i] ELSE _buf[i]]
  /\ _current' = _limit - _current
  /\ _mark' = INVALID_VALUE /\ _limit' = INVALID_VALUE /\ whole' = INVALID_VALUE
  /\ passed' = <<>>

(* The payloads: enough to tell bytes apart that stand side by side. *)
Payloads == {[i \in 1 .. k |-> (first + i) % Cardinality(Byte)] : k \in Lengths, first \in Byte}

Next ==
  \/ \E bytes \in Payloads : Put(bytes) \/ CommitPut(bytes)
  \/ \E k \in Lengths : DirectPut(k) \/ Get(k) \/ Peek(k) \/ CommitGet(k) \/ Skip(k)
  \/ \E l \in 0 .. whole : SetLimit(l)
  \/ Mark \/ Reset \/ Rewind \/ Flip \/ Clear \/ Compact

-----------------------------------------------------------------------------

(* ByteTape's tape *)
Tape == [i \in 0 .. Max({_current, _mark, whole}) - 1 |-> _buf[i + 1]]
=============================================================================
