\* Two changes of two files, alone or in a composer session, and two calls at a time, with one
\* checkpoint; one change with two checkpoints; three checkpoints, one more than the list holds.
\* Two calls run beside two changes or beside a change and a checkpoint, one beside a revert.
\* When every change is decided and the checkpoints are taken nothing may be left to do.
CONSTANTS
    Files = {f1, f2}
    Changes = {c1, c2}
    Sessions = {s1}
    Calls = {k1, k2}
    None = None
    MaxCheckpoints = 2
    MaxStarted = 3
    MaxBusy = 4
SPECIFICATION Spec
SYMMETRY Symmetry
CHECK_DEADLOCK FALSE
INVARIANTS TypeOK NothingUnreviewed
PROPERTIES AppliedIsFinal RevertRestores
