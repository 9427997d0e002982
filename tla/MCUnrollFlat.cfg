SPECIFICATION FairSpec
CONSTANTS
  Top = "top"
  Node <- MCNode
  Inputs <- MCInputs
  Regs <- MCRegs
  InsMod <- MCInsMod
  MemOuts <- MCMemOuts
  Parent <- MCParent
  Conn <- MCConn
  FirstWire <- MCFirstWire
  Rst <- MCRst
  FlatMods = {"cell"}
  RstValue <- MCRst0
  Jobs <- FlatJob
  Bounds = {0, 1, 2}
  Instrs <- MCInstrs
  Nop <- MCNop
  DelayMax = 99
  Samples = 16
INVARIANTS
  OwnArgumentsOnly
CHECK_DEADLOCK FALSE
