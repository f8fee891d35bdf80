SPECIFICATION Spec
CONSTANTS
    Listeners = {l1, l2}
    Users = {u1}
    Chained = {l1}
    Rejected = {l2}
    FirstDatabases <- MCFirstDatabases
    NoConfig = NoConfig
    LateCommands = TRUE
    MaxWrites = 2
    MaxTasks = 2
INVARIANTS IInv SuccessIsFresh QuietApplyConverges ProvisionSurvivesRestart
