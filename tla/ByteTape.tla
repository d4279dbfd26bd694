------------------------------ MODULE ByteTape ------------------------------
(***************************************************************************)
(* What the two buffers of sax/net promise: a tape of bytes with a         *)
(* position.  It is written from the position on, flipped, read up to the  *)
(* limit, and compacted, which drops what has been read.  One place may be *)
(* marked, to come back to.  A call that fails changes nothing.            *)
(*                                                                         *)
(* The tape ends behind the position, the mark and what the flip has set   *)
(* for a limit: nothing else can be read any more.                         *)
(***************************************************************************)
EXTENDS Integers, Sequences, FiniteSetsExt

CONSTANT Byte

VARIABLES tape, pos, mark, limit,
          whole,  \* the limit that the flip set, whatever limit() made of it
          passed  \* the bytes that the last call has taken or given

vars == <<tape, pos, mark, limit, whole, passed>>

None == -1
Reading == limit # None
Tapes(n) == [0 .. n - 1 -> Byte]

(* The tape has its new extent, and its bytes but for those in S. *)
KeptBut(S) ==
  /\ DOMAIN tape' = 0 .. Max({pos, mark, whole})' - 1
  /\ \A i \in DOMAIN tape' : tape'[i] \in Byte /\ (i \notin S => tape'[i] = tape[i])

Init ==
  /\ tape \in Tapes(0)
  /\ pos = 0 /\ mark = None /\ limit = None /\ whole = None
  /\ passed = <<>>

Put ==
  /\ ~Reading
  /\ pos' = pos + Len(passed')
  /\ KeptBut(pos .. pos' - 1)
  /\ \A i \in 1 .. Len(passed') : tape'[pos + i - 1] = passed'[i]
  /\ UNCHANGED <<mark, limit, whole>>

(* Room is made for a put: what is behind the position may be lost. *)
DirectPut ==
  /\ ~Reading
  /\ passed' = <<>>
  /\ UNCHANGED <<pos, mark, limit, whole>>
  /\ KeptBut({i \in DOMAIN tape : i >= pos})

(* Bytes are read, and passed by or not. *)
Get ==
  /\ Reading
  /\ pos' \in {pos, pos + Len(passed')} /\ pos' <= limit
  /\ \A i \in 1 .. Len(passed') : pos + i <= limit /\ passed'[i] = tape[pos + i - 1]
  /\ UNCHANGED <<tape, mark, limit, whole>>

CommitGet ==
  /\ Reading
  /\ pos' \in pos .. limit
  /\ passed' = <<>>
  /\ UNCHANGED <<tape, mark, limit, whole>>

(* What is skipped when writing may hold anything. *)
Skip ==
  /\ pos' >= pos
  /\ Reading => pos' <= limit
  /\ mark' = pos
  /\ passed' = <<>>
  /\ UNCHANGED <<limit, whole>>
  /\ KeptBut(IF Reading THEN {} ELSE pos .. pos' - 1)

Moved(newpos, newmark) ==
  /\ pos' = newpos /\ mark' = newmark
  /\ passed' = <<>>
  /\ UNCHANGED <<limit, whole>>
  /\ KeptBut({})

Mark == Moved(pos, pos)
Reset == mark # None /\ Moved(mark, pos)
Rewind == Moved(0, pos)

Clear ==
  /\ tape' \in Tapes(0)
  /\ pos' = 0 /\ mark' = None /\ limit' = None /\ whole' = None
  /\ passed' = <<>>

Flip ==
  /\ ~Reading
  /\ limit' = pos /\ whole' = pos
  /\ pos' = 0 /\ mark' = None
  /\ passed' = <<>>
  /\ KeptBut({})

(* limit(), which protects what follows a frame. *)
SetLimit ==
  /\ Reading
  /\ limit' \in Max({pos, mark}) .. whole
  /\ passed' = <<>>
  /\ UNCHANGED <<tape, pos, mark, whole>>

(* What has not been read comes to the front. *)
Compact ==
  /\ Reading
  /\ pos' = limit - pos
  /\ tape' = [i \in 0 .. pos' - 1 |-> tape[pos + i]]
  /\ mark' = None /\ limit' = None /\ whole' = None
  /\ passed' = <<>>

Next ==
  \/ Put \/ DirectPut \/ Get \/ CommitGet \/ Skip
  \/ Mark \/ Reset \/ Rewind \/ Clear \/ Flip \/ SetLimit \/ Compact

Spec == Init /\ [][Next]_vars
=============================================================================
