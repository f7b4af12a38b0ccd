\* All pairs of texts of up to six lines, of two kinds; pairs with more than 24 cells go
\* through simpleDiff.  A decided change is the end.
CONSTANTS
    Lines = {a, b}
    MaxLines = 6
    CONTEXT_LINES = 1
    MaxCells = 24
    LookAhead = 2
    MaxFailures = 1
SPECIFICATION Spec
SYMMETRY Symmetry
CHECK_DEADLOCK FALSE
INVARIANTS DiffIsMinimal SelectedHunksApplied
