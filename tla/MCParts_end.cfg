SPECIFICATION MCSpec
CONSTANTS
  Procs = {p1, p2}
  prefer_writer = TRUE
  Pushers = {a1}
  Poppers = {b1}
  _cap = 2
  ItemNumbers = 4
  block_count = 3
  Magics = 2
  N = 2
  page_shift = 4
  min_shift = 1
  word_bits = 4
  Sizes = {1, 20}
  MaxLive = 2
  Names = {"log"}
  Configured = "log"
  MostFiles = 2
  _size_per_logfile = 2
  MaxLines = 2
  _block_size = 2
  MaxBlocks = 3
  MaxPieces = 2
  Byte = {0, 1}
  Lengths = {0, 1, 2, 3}
INVARIANTS
  DirectGetEnds
