SPECIFICATION Spec
CONSTANTS
  t1 = t1
  t2 = t2
  Trans <- TwoTrans
  MaxFds = 2
  Fds <- TwoFds
  SeqLimit = 16
  Opens = {"UDP_BIND", "TCP_LISTEN", "TCP_CONNECTION"}
  CloseFrom = {"accepted", "sent", "received"}
  UserCloses = {"TCP_CONNECTION"}
  MayRunOut = TRUE
  MaxOpens = 2
  MaxBytes = 3
INVARIANTS
  ContextsMatchSockets
  StreamIntact
  WaitingIsWatched
CONSTRAINT Together
SYMMETRY Symmetry
PROPERTIES
  ClosesItsOwn
