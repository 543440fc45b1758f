CONSTANTS
    ann = ann
    fred = fred
    ada = ada
    lines1 = lines1
    lines2 = lines2
    r1 = r1
    r2 = r2
    Nobody = Nobody
    NoContent = NoContent
    Users = {ann, fred, ada}
    RoleOf <- MCRoleOf
    Requests = {r1, r2}
    Contents <- OverlapContents
    MaxFiles = 0
    MaxInstructions = 1
SPECIFICATION Spec
SYMMETRY RequestSymmetry
INVARIANTS
    PostedIffBookedOnce
    ReleasedByAnother
