CONSTANTS
  BlockSizes = {0, 2, 3}
  FirstSizes = {0, 4, 6, 8}
  FirstWays = {0, 1, 2, 3}
  SecondSizes <- MCSecondSizes
  SecondWays = {0, 2, 3}
  Distances = {0, 1, 2}
  SweepValues = {0, 4, 16}
  Leftovers = {0, 5}
  JsonLines <- MCJsonLines
  MaxFileLines = 5
  Nothing = Nothing
SPECIFICATION ConfigSpec
INVARIANTS JsonFollowsNesting
CHECK_DEADLOCK FALSE
