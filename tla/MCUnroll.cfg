SPECIFICATION FairSpec
CONSTANTS
  Top = "top"
  Node <- MCNode
  Inputs <- MCInputs
  Regs <- MCRegs
  InsMod <- MCInsMod
  MemOuts <- MCMemOuts
  Parent <- MCParent
  Conn <- MCConn
  FirstWire <- MCFirstWire
  Rst <- MCRst
  FlatMods = {"sole"}
  RstValue <- MCRst0
  Jobs <- MCJobs
  Bounds = {0, 1, 2}
  Instrs <- MCInstrs
  Nop <- MCNop
  DelayMax = 99
  Samples = 16
INVARIANTS
  TypeOK
  NoCircularElaboration
  ZeroedInputsUnused
PROPERTIES
  MemoIsRTL
  Terminates
CHECK_DEADLOCK FALSE
