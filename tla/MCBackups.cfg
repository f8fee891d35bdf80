SPECIFICATION Spec
CONSTANTS
    Callers = {r1, r2}
    Addresses = {"a"}
    Dead = {}
    FirstChannels <- OneChannel
    FirstRule = {1}
    MaxChannels = 1
    MaxEdits = 0
    MaxId = 3
    MaxTime = 2
    MaxCopies = 3
    MaxFaults = 1
SYMMETRY Symmetry
INVARIANTS IInv BackupsIntact OrphansExplained ActsOnWhatItNamed
