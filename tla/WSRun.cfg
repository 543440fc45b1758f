SPECIFICATION WorkspaceSpec
CONSTANTS
    None = None
    u1 = u1
    c1 = c1
    c2 = c2
    i1 = i1
    i2 = i2
    i3 = i3
    Users = {u1}
    Addresses = {}
    Roles = {"Administrator"}
    Requests = {i1, i2, i3}
    Companies = {c1, c2}
    BranchesOf <- MCBranchesOf
    Shows = {"shell", "page"}
    MaxFailed = 1
    MaxTokens = 4
    MaxPasswords = 1
    MaxSecrets = 1
    MaxAttempts = 1
    MaxCrashes = 0
CHECK_DEADLOCK FALSE
CONSTRAINT Bounded
INVARIANTS
    BranchOfCompany
    SignedOutStaysOut
PROPERTIES
    LoadingEnds
