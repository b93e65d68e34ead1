SPECIFICATION Spec
CONSTANTS
  Solutions = {"flan", "cali", "weav"}
  Order <- TwoPods
  SolutionOf <- Prefix
  Samples = 3
  MaxRx = 1
  Width = 3
  Missing = Missing
  Short = Short
INVARIANT TypeOK
INVARIANT RankedByLastGrowth
INVARIANT NegativeAfterReset
CHECK_DEADLOCK FALSE
