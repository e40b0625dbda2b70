\* Two requests of one browser and one account, up to four tokens.
SPECIFICATION Spec
CONSTANTS
    Users = {u1}
    Roles = {user, admin}
    Browsers = {b1}
    Requests = {r1, r2}
    Calls <- MCCalls
    Environments <- MCEnvironments
    AccessTTL = 1
    RefreshTTL = 2
    VerifyTTL = 2
    None = None
    MaxNow = 2
    MaxTokens = 4
SYMMETRY MCSymmetry
INVARIANTS TypeOK  SessionEnds RoleOfSession
PROPERTIES LogoutSticks ImplementsStore
