SPECIFICATION Spec
CONSTANTS
  Units = 16
  Sources <- TwoFunctions
  Insns <- MCInsns
  MaxCalls = 0
INVARIANT FunctionsAssemble
