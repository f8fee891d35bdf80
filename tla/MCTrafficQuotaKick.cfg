SPECIFICATION Spec
CONSTANTS
    Nodes = {n1}
    NoNode = NoNode
    Silent = {}
    Names = {alice}
    NoName = NoName
    Twins = {}
    Loop = loop
    Requests = {}
    Admins = {a1, a2}
    NoRow = NoRow
    Quotas = {0, 1}
    MaxTraffic = 1
    MaxEdits = 2
    MaxFaults = 0
INVARIANT KickSticks
