SPECIFICATION Spec
CONSTANTS
    Users = {u1, u2}
    Tokens = {t1, t2}
    Requests = {r1, r2}
    Null = Null
    MaxChanges = 2
SYMMETRY Symmetry
INVARIANTS IInv OnlyLateSurvive AuditNamesAuthor
PROPERTY EndsForGood
