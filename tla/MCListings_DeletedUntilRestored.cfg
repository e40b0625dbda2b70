\* Two overlapping requests of an owner on one listing.
SPECIFICATION Spec
CONSTANTS
    Properties = {p1}
    Users = {owner}
    Requests = {r1, r2}
    Contents = {a}
    Days = {1}
    MaxNow = 0
    None = None
PROPERTIES DeletedUntilRestored
