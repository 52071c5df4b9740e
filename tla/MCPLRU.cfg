CONSTANTS
  Ways = 4
  Policies = {"PLRU"}
  MaxInstalls = 7
SPECIFICATION PolicySpec
INVARIANTS PLRUSparesLastUsed
