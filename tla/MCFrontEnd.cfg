SPECIFICATION Spec
CONSTANTS
  Texts <- MCTexts
  Clk <- MCClk
  MaxRuns = 2
  MaxEdits = 1
  MaxKills = 1
INVARIANTS
  MeaningKept
  TablesCurrent
