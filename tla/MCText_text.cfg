SPECIFICATION Spec
CONSTANTS
    MaxPiece = 2
    Stager <- Stage
    NextLineOf <- NextLine
    EndOf <- OnEnd
    Command <- RunUtility
    Comparer <- SortCompare
    Sorter <- SortLines
INVARIANT Streamed
INVARIANT LinesKept
