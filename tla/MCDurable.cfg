SPECIFICATION DurableSpec
CONSTANTS
  WordBits = 8
  Half = 128
  Radix = 16
  RingLimit = 2
  MaxSteps = 6
  MaxFrames = 2
  MaxBoots = 2
  Images <- MCImages
  HostValues <- MCHostValues
  Noise <- MCNoise
INVARIANTS
  TypeOK
  OwnSnapshotAccepted
  RestorableIssuedNothing
  ResumesAlike
  MemorySound
PROPERTIES
  RestoredHandlesInside
