SPECIFICATION FairSpec
CONSTANTS
  Size = 3
  ASDUs = {a, b}
  NoASDU = none
  Timestamps = {1, 2}
  K = 4
INVARIANT TypeOK
INVARIANT RingInv
PROPERTY ImplementsEventBuffer
PROPERTY Drains
