SPECIFICATION Spec
CONSTANTS
    Nodes = {n1}
    NoNode = NoNode
    Silent = {}
    Names = {alice, bob}
    NoName = NoName
    Twins = {bob}
    Loop = loop
    Requests = {r1}
    Admins = {a1}
    NoRow = NoRow
    Quotas = {0, 1, 2}
    MaxTraffic = 2
    MaxEdits = 2
    MaxFaults = 1
INVARIANTS TypeOK BytesAccounted OverQuotaIsCut
