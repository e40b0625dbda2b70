------------------------------- MODULE Browse -------------------------------
(***************************************************************************)
(* Reading listings while they change.  A visitor walks through the pages  *)
(* of GetPropertyList; an owner fetches GetMyPropertyList and then         *)
(* GetMyDeletedPropertyList, the two halves of a dashboard.  Readers write *)
(* nothing and wait for nobody: each page is a count, a page and a lookup  *)
(* of main images, each a statement of its own, and only then does         *)
(* mapToProto ask the clock for each listing's status.                     *)
(*                                                                         *)
(* The listings and their requests are those of PropertyListings.  Ids are *)
(* numbers in the order the database sorts them; the search is empty, so   *)
(* it filters nothing.                                                     *)
(***************************************************************************)
EXTENDS PropertyListings, Paging

CONSTANTS Readers,
          Limits        \* page limits that clients ask for

VARIABLES at,       \* the statement each reader issues next
          walk,     \* what it has read so far
          steady    \* history: listings it may expect to be shown

browseVars == <<at, walk, steady>>
allVars == <<vars, browseVars>>

Paged == {"count", "page", "images", "more", "walked"}
At    == Paged \cup {"idle", "deleted", "listed"}

Statuses == {"active", "expired", "rented"}

\* A row as mapToProto sees it, and what it makes of it.
Shown == [expires_at : Nat, is_rented : BOOLEAN, status : Statuses \cup {None}]

ASSUME BrowseAssumption ==
    /\ Properties \subseteq Nat \ {0}
    /\ Limits \subseteq Int
    /\ None \notin Shown

Walk == [again : SUBSET Properties, shown : SUBSET Properties, cursor : Nat,
         limit : Int, asOf : Nat, page : [Properties -> Shown \cup {None}],
         owner : Users \cup {None}]

Move(b, label, new) ==
    /\ at' = [at EXCEPT ![b] = label]
    /\ walk' = [walk EXCEPT ![b] = new]

Blank == [p \in Properties |-> None]

OnPage(page) == {p \in Properties : page[p] # None}

-----------------------------------------------------------------------------
Existing == {p \in Properties : row[p] # None}

\* WHERE is_rented = false AND expires_at > asOf, of the rows not deleted.
WithRented(asOf) ==                                                \* mutant
    {p \in Existing : ~row[p].deleted /\ row[p].expires_at > asOf}
Browsable(asOf) ==
    {p \in Existing : ~row[p].deleted /\ ~row[p].is_rented /\ row[p].expires_at > asOf}

OwnedBy(u) == {p \in Existing : row[p].owner = u}

MyPropertyList(u) == {p \in OwnedBy(u) : ~row[p].deleted}

\* Unscoped: the default scope would leave nothing of them.
ScopedList(u)            == {p \in MyPropertyList(u) : row[p].deleted}  \* mutant
MyDeletedPropertyList(u) == {p \in OwnedBy(u) : row[p].deleted}

UnlistedStatus(shown) == IF shown.is_rented THEN "rented" ELSE "unknown"   \* mutant
Status(shown) ==
    IF shown.is_rented THEN "rented"
    ELSE IF now > shown.expires_at THEN "expired" ELSE "active"

-----------------------------------------------------------------------------
(* A walk through the pages of GetPropertyList.                            *)

CallGetPropertyList(b) ==
    /\ at[b] = "idle"
    /\ \E limit \in Limits :
           Move(b, "count", [again |-> {}, shown |-> {}, cursor |-> 0,
                             limit |-> PageSize(limit), asOf |-> now, page |-> Blank,
                             owner |-> None])

CountProperties(b) == at[b] = "count" /\ Move(b, "page", walk[b])

\* The page is read by the clock the request began at.
PageProperties(b) ==
    /\ at[b] = "page"
    /\ \E ids \in SUBSET Properties :
           /\ IsPage(ids, Browsable(walk[b].asOf), walk[b].cursor, walk[b].limit)
           /\ Move(b, "images",
                   [walk[b] EXCEPT !.page =
                       [p \in Properties |->
                           IF p \in ids
                           THEN [expires_at |-> row[p].expires_at,
                                 is_rented |-> row[p].is_rented, status |-> None]
                           ELSE None]])

\* GetMainImageURLs, then the statuses and the next cursor.
MapPage(b) ==
    LET w     == walk[b]
        ids   == OnPage(w.page)
        told  == [p \in Properties |->
                     IF p \in ids THEN [w.page[p] EXCEPT !.status = Status(w.page[p])]
                     ELSE None]
        seen  == [w EXCEPT !.again = @ \cup (w.shown \cap ids), !.shown = @ \cup ids,
                           !.page = told]
    IN  /\ at[b] = "images"
        /\ \/ /\ Full(ids, w.limit)
              /\ \E last \in ids : IsLast(last, ids)
                                   /\ Move(b, "more", [seen EXCEPT !.cursor = last])
           \/ ~Full(ids, w.limit) /\ Move(b, "walked", seen)

\* The client asks for the page after the last cursor it was given.
NextPage(b) ==
    /\ at[b] = "more"
    /\ Move(b, "count", [walk[b] EXCEPT !.asOf = now, !.page = Blank])

-----------------------------------------------------------------------------
(* An owner's two lists.                                                   *)

GetMyPropertyList(b) ==
    /\ at[b] = "idle"
    /\ \E u \in Users :
           Move(b, "deleted", [again |-> {}, shown |-> MyPropertyList(u), cursor |-> 0,
                               limit |-> 0, asOf |-> now, page |-> Blank, owner |-> u])

GetMyDeletedPropertyList(b) ==
    /\ at[b] = "deleted"
    /\ Move(b, "listed", [walk[b] EXCEPT !.shown = @ \cup MyDeletedPropertyList(walk[b].owner)])

\* The reader is done, or has lost patience, or a statement has failed.
Leave(b) ==
    /\ at[b] # "idle"
    /\ Move(b, "idle", None)

Read(b) ==
    \/ CallGetPropertyList(b) \/ CountProperties(b) \/ PageProperties(b) \/ MapPage(b)
    \/ NextPage(b)
    \/ GetMyPropertyList(b) \/ GetMyDeletedPropertyList(b)
    \/ Leave(b)

-----------------------------------------------------------------------------
BrowseInit ==
    /\ Init
    /\ at = [b \in Readers |-> "idle"]
    /\ walk = [b \in Readers |-> None]
    /\ steady = [b \in Readers |-> {}]

\* A visitor may expect the listings that were on offer all along, an owner
\* those of his that have been neither deleted nor restored since.
Unmoved == {p \in Existing : row'[p].deleted = row[p].deleted}

History ==
    steady' = [b \in Readers |->
        CASE at'[b] \in Paged ->
                 IF at[b] = "idle" THEN Browsable(now)'
                 ELSE steady[b] \cap Browsable(now)'
          [] at'[b] \in {"deleted", "listed"} ->
                 IF at[b] = "idle" THEN OwnedBy(walk'[b].owner) ELSE steady[b] \cap Unmoved
          [] OTHER -> {}]

BrowseNext ==
    /\ \/ Next /\ UNCHANGED <<at, walk>>
       \/ (\E b \in Readers : Read(b)) /\ UNCHANGED vars
    /\ History

BrowseSpec == BrowseInit /\ [][BrowseNext]_allVars

-----------------------------------------------------------------------------
BrowseTypeOK ==
    /\ at \in [Readers -> At]
    /\ walk \in [Readers -> Walk \cup {None}]
    /\ steady \in [Readers -> SUBSET Properties]

\* Whatever is created, renewed, rented, deleted and restored meanwhile, a walk
\* through the pages shows every listing that was on offer all along, and none
\* twice (GetPropertyList); and an owner misses a listing in both lists only if
\* it was deleted or restored in between (GetMyPropertyList,
\* GetMyDeletedPropertyList).
ListsComplete ==
    \A b \in Readers :
        /\ at[b] \in Paged => walk[b].again = {}
        /\ at[b] \in {"walked", "listed"} => steady[b] \subseteq walk[b].shown

\* A page never shows a listing as rented, although rented listings may come
\* and go while it is put together; and it shows one as expired only when the
\* listing expired after the client had asked for the page (the clock is read
\* for the query and again by Status).
PageFresh ==
    \A b \in Readers :
        at[b] \in {"more", "walked"} =>
            \A p \in OnPage(walk[b].page) :
                LET shown == walk[b].page[p]
                IN  /\ shown.status # "rented"
                    /\ shown.status = "expired" =>
                           walk[b].asOf < shown.expires_at /\ shown.expires_at < now
=============================================================================
