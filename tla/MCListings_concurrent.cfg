\* Two requests of an owner or a stranger on one listing.
SPECIFICATION Spec
CONSTANTS
    Properties = {p1}
    Users = {owner, stranger}
    Requests = {r1, r2}
    Contents = {a, b}
    Days = {1, 2}
    MaxNow = 1
    None = None
SYMMETRY MCSymmetry
INVARIANTS TypeOK ExpiryInWindow
PROPERTIES OnlyOwnerChanges AtomicUnlessOvertaken DeleteOnce ImplementsLateBook
