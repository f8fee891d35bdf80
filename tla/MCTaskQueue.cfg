SPECIFICATION FairSpec
CONSTANTS
    Nodes = {n1, n2}
    Handlers = {h1, h2}
    NoNode = NoNode
    MaxTasks = 3
    MaxBoots = 2
    MaxFaults = 2
INVARIANTS IInv RunningAccounted NoOvertaking OncePerBoot
PROPERTIES ResultIsFinal ImplementsDurableQueue EventuallySettled
