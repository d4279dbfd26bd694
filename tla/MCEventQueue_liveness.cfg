SPECIFICATION FairSpec
CONSTANTS
  p1 = p1
  p2 = p2
  Producers <- MCProducers
  Lens <- MCLens
  Cap = 12
  MaxHeld = 0
  Nobody = Nobody
  Junk = Junk
PROPERTIES
  WaitingIsServed
  EveryBlockIsFreed
