SPECIFICATION FairSpec
CONSTANTS
    Callers = {r1}
    Addresses = {"a", "b"}
    Dead = {"a"}
    FirstChannels <- BothEnabled
    FirstRule = {1, 2}
    MaxChannels = 2
    MaxEdits = 0
    MaxId = 1
    MaxTime = 1
    MaxCopies = 1
    MaxFaults = 0
PROPERTY OthersNotBlocked
