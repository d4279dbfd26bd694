SPECIFICATION MCSpec
CONSTANTS
  Procs = {p1, p2, p3, p4}
  prefer_writer = TRUE
  Pushers = {a1, a2}
  Poppers = {b1, b2}
  _cap = 3
  ItemNumbers = 8
  block_count = 3
  Magics = 4
  N = 2
  page_shift = 4
  min_shift = 1
  word_bits = 4
  Sizes = {1, 4, 6, 9, 20}
  MaxLive = 8
  Names = {"log"}
  Configured = "log"
  MostFiles = 2
  _size_per_logfile = 2
  MaxLines = 6
  _block_size = 2
  MaxBlocks = 3
  MaxPieces = 2
  Byte = {0, 1}
  Lengths = {0, 1, 2, 3}
INVARIANTS
  WriterIsAlone
  CountsReturn
  FifoIntact
  BlocksIntact
  SlabIntact
  Ordered
  DropsOldest
PROPERTIES
  BuffersAreTapes
  WritersGetIn
