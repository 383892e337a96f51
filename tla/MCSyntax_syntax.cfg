SPECIFICATION Spec
CHECK_DEADLOCK FALSE
CONSTANTS
    MAX_LEX_DEPTH = 2
    MAX_NESTING_DEPTH = 2
    MaxSteps = 3
    MaxParts = 3
    Writer <- Written
    Reader <- Program
    Scanner <- FirstToken
    Splitter <- WordParts
    Lowerer <- Lowered
INVARIANT RoundTrip
INVARIANT ScannersAgree
INVARIANT LoweredFaithfully
