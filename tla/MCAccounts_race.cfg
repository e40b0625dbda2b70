\* Two requests for one email, and a second account id for the second of them.
SPECIFICATION Spec
CONSTANTS
    Accounts = {u1, u2}
    Emails = {e1}
    Requests = {r1, r2}
    Cooldown = 2
    LinkLife = 1
    MaxNow = 2
    None = None
SYMMETRY MCSymmetry
INVARIANTS
    TypeOK
    OneAccountPerEmail
    VerifiedByProof
    LoginNeedsProof
    ResendRate
PROPERTIES ImplementsRegistry
