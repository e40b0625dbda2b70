\* One request at a time on two listings, while one reader lists them.
SPECIFICATION BrowseSpec
CONSTANTS
    Properties = {1, 2}
    Users = {owner}
    Requests = {r1}
    Contents = {a}
    Days = {1}
    MaxNow = 2
    None = None
    Readers = {b1}
    Limits = {1}
INVARIANTS BrowseTypeOK ListsComplete PageFresh
PROPERTIES DeletedUntilRestored RenewLeavesRented ImplementsBook
