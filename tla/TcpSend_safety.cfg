SPECIFICATION Spec
CONSTANTS
  BUFFSIZE = 64
  Modulus = 1024
  Headers <- HeaderLengths
  Payloads <- PayloadLengths
  MaxSends = 2
INVARIANTS
  TypeOK
  NoOverlap
  FinishesOnlyByChance
