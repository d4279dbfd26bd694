SPECIFICATION Spec
CONSTANTS
  p1 = p1
  p2 = p2
  Producers <- MCProducers
  Lens <- MCLens
  Cap = 13
  MaxHeld = 1
  Nobody = Nobody
  Junk = Junk
INVARIANTS
  TypeOK
  NoOverlap
  EqualMeansEmpty
  ReadsOnlyHeaders
  HandlesIntactEvent
  FreesTheHead
PROPERTIES
  ImplementsChannel
