SPECIFICATION Spec
CONSTANTS
  top = top
  mid = mid
  cell = cell
  x = x
  y = y
  Modules <- MCModules
  Top = top
  Child <- MCChild
  Regs <- MCRegs
  Outs <- MCOuts
  Vars <- MCVars
  Width <- MCWidth
  SigWidth = 3
  MaxReads = 4
CHECK_DEADLOCK FALSE
INVARIANTS
  DrivenOnce
  ChildrenFirst
  SigUnique
