SPECIFICATION FairSpec
CONSTANTS
  a = a  b = b  c = c  s = s
  Asvs = {a, b, c, s}
  Vecs = {}
  NumInstrs = 2
  Delays = {1}
  UpdateFn <- MCUpdateFn
  TopArgs = {a, b, c, s}
  TornArgs = {{}, {b}}
  FileBase <- MCFileBase
  PushNewTarget = TRUE
  Overwrite = TRUE
  OptMayFail = FALSE
  MaxCrashes = 0
  NoFile = NoFile  Broken = Broken  NoAsv = NoAsv
  Torn = Torn  Smashed = Smashed  NoInstr = NoInstr
  TopOutputs = {a, c, s}
  FifoOutputs = {}
  FifoRegs = {}
  AddedLines = {}
  Allowed <- MCAllowed
  AllowedVecs <- MCAllowedVecs
  VecRegs <- MCVecRegs
  VecDelay <- MCVecDelay
  InstrDelay <- MCInstrDelay
  DelayException <- MCDelayException
  Skipped = {s}
INVARIANTS
  NeverForeignInstr
  NoArgLost
  VisitedIsClosure
PROPERTIES
  Terminates
  ImplementsClosure
CHECK_DEADLOCK FALSE
