SPECIFICATION Spec
CONSTANTS
  Fn <- MCFn
  RtlFn <- MCRtlFn
  Setups <- MCSetups
  TestNum = 3
  Uint = 128
  Long = 1024
  NameOrder <- MCNameOrder
  CNames <- MCCNames
INVARIANTS
  ReadAsWritten
  TestsDecode
  VerdictRight
PROPERTY
  ImplementsIla
