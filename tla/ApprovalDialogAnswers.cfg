CONSTANTS
    Waits = {w1, w2}
    Threads = {t}
    None = None
    MaxRuns = 1
    MaxRequests = 1
    MaxClicks = 2
SPECIFICATION Spec
CHECK_DEADLOCK FALSE
PROPERTIES AnswersTheirPrompt
