SPECIFICATION Spec
CONSTANTS
  t1 = t1
  t2 = t2
  Trans <- OneTrans
  MaxFds = 2
  Fds <- TwoFds
  SeqLimit = 16
  Opens = {"TCP_CONNECTION"}
  CloseFrom = {}
  UserCloses = {}
  MayRunOut = FALSE
  MaxOpens = 2
  MaxBytes = 2
INVARIANT CallbacksFindTheirs
