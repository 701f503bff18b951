SPECIFICATION Spec
CONSTANTS
  WordBits = 4
  Half = 8
  Radix = 4
  Basis = 5
  Prime = 3
  Mix <- MCMix
  MaxAsks = 3
  Answers <- MCAnswers
  Noise <- MCNoise
INVARIANTS
  TypeOK
  FileTellsRun
  DamageRefused
  ReplayExact
  NoFalseAlarm
  KindDamageCaught
  AnswersFromRecords
PROPERTIES
  ReplayEnds
