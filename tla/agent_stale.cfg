SPECIFICATION Spec
CONSTANTS
  MaxIterations = 1
  MaxClarifications = 1
  MaxSearches = 2
INVARIANTS NoDraftNoVersion
