------------------------------ MODULE MCParts ------------------------------
(***************************************************************************)
(* The small parts of the library that know nothing of each other: the     *)
(* reader-writer spin lock, the fifo, the two pools, the log files and the *)
(* two buffers.                                                            *)
(* Every behaviour is one of a single part, which is chosen at its start;  *)
(* the others stay as they are initially.                                  *)
(***************************************************************************)
EXTENDS SpinRW

CONSTANTS
  Pushers, Poppers, _cap, ItemNumbers,                             \* Fifo
  block_count, Magics,                                             \* FsbPool
  N, page_shift, min_shift, word_bits, Sizes, MaxLive,             \* SlabPool
  Names, Configured, MostFiles, _size_per_logfile, MaxLines,       \* LogFileWriter
  _block_size, MaxBlocks, MaxPieces, Byte, Lengths                 \* LinkedBuffer, Buffer

VARIABLES
  part,
  _queue, _head, _tail, _tsem, _hsem, _tlock, _hlock, at, pushed, popped, taken,
  begin, end, ids, next_magic, header, apc, new, fpc, old, blocks, stale,
  entry, bitmap, live,
  file, _logfile_name, _max_logfiles, _curr_logfiles, _curr_size, _curr_logfile,
  stdout_open, doing, i, lines, printed, clean,
  chain, _usable, _current, _zero, _mark, _limit, passed,
  buf, current, mark, limit, whole, given

fifo == <<_queue, _head, _tail, _tsem, _hsem, _tlock, _hlock, at, pushed, popped, taken>>
fsb == <<begin, end, ids, next_magic, header, apc, new, fpc, old, blocks, stale>>
slab == <<entry, bitmap, live>>
log == <<file, _logfile_name, _max_logfiles, _curr_logfiles, _curr_size, _curr_logfile,
         stdout_open, doing, i, lines, printed, clean>>
links == <<chain, _usable, _current, _zero, _mark, _limit, passed>>
piece == <<buf, current, mark, limit, whole, given>>

Fifo == INSTANCE Fifo
Fsb == INSTANCE FsbPool WITH live <- blocks
Slab == INSTANCE SlabPool
Log == INSTANCE LogFileWriter
Chain == INSTANCE LinkedBuffer
Piece == INSTANCE Buffer WITH
  MaxBlocks <- MaxPieces,
  _buf <- buf, _current <- current, _mark <- mark, _limit <- limit, passed <- given

ASSUME PartsAssumption ==
  /\ Fifo!FifoAssumption /\ Fsb!FsbAssumption /\ Slab!SlabAssumption
  /\ Log!ToAFile /\ Chain!BufferAssumption

MCInit ==
  /\ part \in {"lock", "fifo", "fsb", "slab", "log", "chain", "piece"}
  /\ Init /\ Fifo!Init /\ Fsb!Init /\ Slab!Init /\ Log!Init /\ Chain!Init /\ Piece!Init
  /\ part # "fsb" => ids[block_count] = 0
  /\ part # "log" => _max_logfiles = 1

MCNext ==
  /\ UNCHANGED part
  /\ IF part = "lock" THEN Next ELSE UNCHANGED vars
  /\ IF part = "fifo" THEN Fifo!Next ELSE UNCHANGED fifo
  /\ IF part = "fsb" THEN Fsb!Next ELSE UNCHANGED fsb
  /\ IF part = "slab" THEN Slab!Next ELSE UNCHANGED slab
  /\ IF part = "log" THEN Log!Next ELSE UNCHANGED log
  /\ IF part = "chain" THEN Chain!Next ELSE UNCHANGED links
  /\ IF part = "piece" THEN Piece!Next ELSE UNCHANGED piece

MCSpec ==
  MCInit /\ [][MCNext]_<<part, vars, fifo, fsb, slab, log, links, piece>> /\ Fairness

(* Fifo: items come out in the order they went in, each once, and the two  *)
(* semaphores account for every place.                                     *)
FifoIntact == Fifo!TypeOK /\ Fifo!TakesInOrder /\ Fifo!PermitsAddUp

(* FsbPool: no block is handed out twice or lost while one thread          *)
(* allocates and another frees, and a key finds its block for as long as   *)
(* that is allocated.                                                      *)
BlocksIntact ==
  /\ Fsb!TypeOK
  /\ Fsb!EveryBlockInOnePlace /\ Fsb!StaleKeysFindNothing /\ Fsb!LiveBlocksAreFound

(* SlabPool: what is handed out is large enough and apart from all else;   *)
(* no page gets lost between the lists, and each is in the list in which   *)
(* g_slab_alloc looks for it; g_slab_free recognises what it is given.     *)
SlabIntact ==
  /\ Slab!AllocationsDisjoint /\ Slab!KnownToFree
  /\ Slab!NothingLost /\ Slab!SlotsHaveRoom

(* LogFileWriter: files with smaller numbers have newer lines.             *)
Ordered == Log!Ordered

(* LogFileWriter: a rotation drops the oldest lines.                       *)
DropsOldest == Log!TypeOK /\ Log!DropsOldest

LinkedTape == INSTANCE ByteTape WITH
  tape <- Chain!Tape, pos <- _current.position, mark <- _mark.position,
  limit <- _limit.position, whole <- _limit.position
PieceTape == INSTANCE ByteTape WITH
  tape <- Piece!Tape, pos <- current, passed <- given

(* Both buffers are tapes: what is read is what was written there, through *)
(* blocks that come and go, memory that moves, marks, flips and compacts.  *)
(* In the chain block, place and count of every position agree, and there  *)
(* is a next block whenever put, get or skip goes to it.                   *)
BuffersAreTapes == LinkedTape!Spec /\ PieceTape!Spec /\ []Chain!PositionsAgree

(* LinkedBuffer: a reader that has read all is shown nothing.              *)
DirectGetEnds == Chain!DirectGetEnds
=============================================================================
