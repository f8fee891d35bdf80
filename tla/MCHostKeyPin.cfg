SPECIFICATION Spec
CONSTANTS
    Keys = {k1, k2}
    NoKey = NoKey
    Worker = worker
    Probes = {p1, p2}
    MaxTasks = 3
    MaxChanges = 2
SYMMETRY Symmetry
INVARIANTS IInv TrustWindow
PROPERTY PinIsStable
