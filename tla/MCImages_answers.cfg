\* Two requests under fairness; no symmetry, and more image ids than the
\* gallery and an open insert can use at once.
SPECIFICATION FairSpec
CONSTANTS
    p1 = p1
    owner = owner
    stranger = stranger
    Properties = {p1}
    Users = {owner, stranger}
    Owner <- MCOwner
    Images = {i1, i2, i3}
    Positions = {0}
    Requests = {r1, r2}
    maxPropertyImages = 2
    NoRow = NoRow
    Same = Same
    None = None
PROPERTIES AllAnswered
