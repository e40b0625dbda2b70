\* Two requests on one listing whose gallery holds three images.
SPECIFICATION Spec
CONSTANTS
    p1 = p1
    owner = owner
    stranger = stranger
    Properties = {p1}
    Users = {owner}
    Owner <- MCOwner
    Images = {i1, i2, i3, i4}
    Positions = {0, 1}
    Requests = {r1, r2}
    maxPropertyImages = 3
    NoRow = NoRow
    Same = Same
    None = None
SYMMETRY MCSymmetry
INVARIANTS TypeOK GalleryOK OneMainIndexHolds
PROPERTIES MainSuccession DeletedGalleryFrozen
