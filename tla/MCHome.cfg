SPECIFICATION Spec
CONSTANTS
    Devices = {lamp}
    Settings = {on, off}
    CallLimit = 1
    EventLimit = 3
    MaxCalls = 2
    MaxLinks = 2
    MaxChanges = 1
    MaxBreaks = 1
    MaxRestarts = 2
PROPERTY NeverReplayed
CHECK_DEADLOCK FALSE
