SPECIFICATION FairSpec
CONSTANTS
  a = a  b = b  c = c  d = d  s = s  bc = bc
  Asvs = {a, b, c, d, s}
  Vecs = {bc}
  NumInstrs = 2
  Delays = {1, 2}
  UpdateFn <- MCUpdateFn
  TopArgs = {a, b, c, d, s}
  TornArgs = {{}}
  FileBase <- MCFileBase
  PushNewTarget = TRUE
  Overwrite = FALSE
  OptMayFail = FALSE
  MaxCrashes = 1
  NoFile = NoFile  Broken = Broken  NoAsv = NoAsv  NoTarget = NoTarget
  Torn = Torn  Smashed = Smashed  NoInstr = NoInstr
  TopOutputs = {a, s}
  FifoOutputs = {s}
  FifoRegs = {}
  AddedLines = {}
  Allowed <- MCAllowed
  AllowedVecs <- MCAllowedVecs
  VecRegs <- MCVecRegs
  VecDelay <- MCVecDelay
  InstrDelay <- MCInstrDelay
  DelayException <- MCDelayException
  Skipped = {s}
INVARIANTS
  NoArgLost
  FirstDelayRecorded
  VisitedIsClosure
  LinkedExactlyOnce
PROPERTIES
  Terminates
  ImplementsClosure
CHECK_DEADLOCK FALSE
