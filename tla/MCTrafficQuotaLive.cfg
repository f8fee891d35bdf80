SPECIFICATION FairSpec
CONSTANTS
    Nodes = {n1, n2}
    NoNode = NoNode
    Silent = {n2}
    Names = {alice}
    NoName = NoName
    Twins = {}
    Loop = loop
    Requests = {r1}
    Admins = {a1}
    NoRow = NoRow
    Quotas = {1}
    MaxTraffic = 2
    MaxEdits = 1
    MaxFaults = 1
PROPERTIES QuotaEnforced 
