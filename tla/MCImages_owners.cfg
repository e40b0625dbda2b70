\* Two requests by anyone on two listings of different owners.
SPECIFICATION Spec
CONSTANTS
    p1 = p1
    owner = owner
    stranger = stranger
    Properties = {p1, p2}
    Users = {owner, stranger}
    Owner <- MCOwner
    Images = {i1, i2, i3}
    Positions = {0}
    Requests = {r1, r2}
    maxPropertyImages = 2
    NoRow = NoRow
    Same = Same
    None = None
SYMMETRY MCSymmetry
INVARIANTS StrangersLearnNothing
PROPERTIES OnlyOwnerChanges ImplementsGallery
