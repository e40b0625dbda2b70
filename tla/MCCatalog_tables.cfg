\* Two requests, or a request and a walk, on one listing, its address and two
\* features.
SPECIFICATION Spec
CONSTANTS
    p1 = p1
    owner = owner
    stranger = stranger
    Properties = {p1}
    Users = {owner, stranger}
    Owner <- MCOwner
    Features = {1, 2}
    Addresses = {a1}
    Contents = {x, y}
    Limits = {0, 1}
    Requests = {r1, r2}
    None = None
    Gone = Gone
SYMMETRY MCSymmetry
INVARIANTS TypeOK NoDanglingLinks WalkComplete
PROPERTIES OnlyOwnerChanges WrittenWhileLive RemovedOnce ImplementsCatalog
