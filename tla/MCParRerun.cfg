SPECIFICATION FairSpec
CONSTANTS
  a = a  b = b  c = c  bc = bc
  Asvs = {a, b, c}
  Vecs = {bc}
  NumInstrs = 1
  Delays = {1, 2}
  UpdateFn <- MCUpdateFn
  TopArgs = {a, b, c}
  TornArgs = {{}}
  FileBase <- MCFileBase
  PushNewTarget = TRUE
  Overwrite = FALSE
  OptMayFail = TRUE
  MaxCrashes = 1
  NoFile = NoFile  Broken = Broken  NoAsv = NoAsv
  Torn = Torn  Smashed = Smashed  NoInstr = NoInstr
  TopOutputs = {a}
  FifoOutputs = {}
  FifoRegs = {}
  AddedLines = {}
  Allowed <- MCAllowed
  AllowedVecs <- MCAllowedVecs
  VecRegs <- MCVecRegs
  VecDelay <- MCVecDelay
  InstrDelay <- MCInstrDelay
  DelayException <- MCDelayException
  Skipped = {}
INVARIANTS
  LinkedExactlyOnce
  VisitedIsRecorded
PROPERTIES
  ArtefactsKept
CHECK_DEADLOCK FALSE
