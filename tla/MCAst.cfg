SPECIFICATION Spec
CONSTANTS
  Top = "top"
  Reset = "rst"
  Assign <- MCAssign
  Whole <- MCWhole
  Ports <- MCPorts
  InsMod <- MCInsMod
  Conn <- MCConn
  Clock <- MCClock
  BlackBox = {"box"}
  Mems = {"ram"}
  Outputs <- MCOutputs
  Files <- MCFiles
  Skipped <- MCSkipped
INVARIANTS
  TypeOK
  NodesFaithful
  NothingMissing
  AllowedAsWritten
  NoReentry
