\* Three recycled callers, three ids, a limit that moves between 1 and 2: one
\* caller can wait while the other two overtake it for ever.
CONSTANTS
    Calls = {c1, c2, c3}
    Ids = {a, b, d}
    None = None
    Limits = {1, 2}
    DepthMultiplier = 2
    StarvationAge = 1
    MaxAge = 2
SPECIFICATION FairSpec
INVARIANTS TypeOK IndexInSync SlotAccounting QueueSorted
PROPERTIES GrantsInOrder ImplementsSlotPool QueuedCallsSettle DeadlineHonoured
