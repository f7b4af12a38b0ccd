\* Three agents, four executions: two overlapping starts and a lost handle. After dispose() the agents end and nothing is left to do.
CONSTANTS
    Agents = {a1, a2, a3}
    Tasks = {t1, t2, t3, t4}
    NoTask = NoTask
SPECIFICATION GuardSpec
SYMMETRY Symmetry
CHECK_DEADLOCK FALSE
INVARIANTS GuardTypeOK CountMatchesAgents
PROPERTIES GuardOutlivesOthers
