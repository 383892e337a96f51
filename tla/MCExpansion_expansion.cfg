SPECIFICATION Spec
CHECK_DEADLOCK FALSE
CONSTANTS MaxReps = 3
  Files <- MCFiles
  Listing <- MCListing
  Bits = 4
  MAX_ARITH_DEPTH = 9
  MAX_EXPAND_DEPTH = 5
  MAX_BRACE_ITEMS = 8
  MAX_GLOB_RESULTS = 5
  MaxSize = 3
  MaxOps = 4
  Shell <- ShellDoes
  Means <- TreeMeans
INVARIANT PatternsFaithful
INVARIANT BuiltinsFaithful
INVARIANT ExpansionsFaithful
PROPERTY ReadonlyKept
