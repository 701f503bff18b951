SPECIFICATION Spec
CONSTANTS
  WordBits = 8
  Half = 128
  Radix = 16
  RingLimit = 2
  MaxSteps = 12
  MaxFrames = 3
  Images <- CommitImages
  HostValues <- MCHostValues
PROPERTY CommitKeepsWrites
