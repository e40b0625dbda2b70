\* Two requests for one email.
SPECIFICATION Spec
CONSTANTS
    Accounts = {u1}
    Emails = {e1}
    Requests = {r1, r2}
    Cooldown = 1
    LinkLife = 1
    MaxNow = 0
    None = None
PROPERTIES ContactOnly
