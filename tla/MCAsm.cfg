SPECIFICATION Spec
CONSTANTS
  Units = 16
  Sources <- MCSources
  Insns <- MCInsns
  MaxCalls = 5
INVARIANTS
  TypeOK
  RoundTrip
  ImmediateKept
  BranchesMeant
  NamesMeant
  WindowsTile
PROPERTIES
  Assembles
