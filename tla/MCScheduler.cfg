\* The last hour of a day of two hours and both of the next, two overlapping passes, two faults, a
\* task of each kind and a last one that always fails.
CONSTANTS
    Schedule <- Four
    HoursPerDay = 2
    Broken = {4}
    Passes = {p1, p2}
    None = None
    MinTime = 1
    MaxTime = 3
    MaxFaults = 2
SPECIFICATION FairSpec
INVARIANTS RecordedMeansRan
PROPERTIES DailyTasksRun
