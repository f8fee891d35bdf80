SPECIFICATION Spec
CONSTANTS
    Callers = {r1}
    Addresses = {"a", "b"}
    Dead = {"b"}
    FirstChannels <- TwoChannels
    FirstRule = {1, 2}
    MaxChannels = 3
    MaxEdits = 2
    MaxId = 1
    MaxTime = 1
    MaxCopies = 1
    MaxFaults = 0
INVARIANTS NoteInv AskedAsConfigured NobodyLeftOut
