SPECIFICATION Spec
CONSTANTS
    Processes <- MCProcesses
    MAX_LOG_LINES = 2
    Retry = 2
    Wrap = 4
    Room = 3
    Absent = Absent
INVARIANT
    Capped
