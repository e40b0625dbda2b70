---------------------------- MODULE BrowseProofs ----------------------------
(***************************************************************************)
(* Why reading in pages misses nothing, although nothing is locked.  Up to *)
(* its cursor a walk has shown every listing that was on offer all along;  *)
(* a listing's id never changes, so it cannot slip from the pages to come  *)
(* to those already read.  An owner's listings stay his, so those that are *)
(* in neither state for good are found in one list or in the other.        *)
(***************************************************************************)
EXTENDS Browse, PropertyListingsProofs

Cleared(b) == \A p \in steady[b] : p <= walk[b].cursor => p \in walk[b].shown

WalkInv(b) ==
    at[b] \in Paged =>
        /\ walk[b] \in Walk
        /\ walk[b].again = {} /\ walk[b].asOf <= now
        /\ steady[b] \subseteq Browsable(now)
        /\ at[b] # "walked" => /\ \A p \in walk[b].shown : p <= walk[b].cursor
                               /\ Cleared(b)
        /\ at[b] = "walked" => steady[b] \subseteq walk[b].shown

\* The page that was read: it leaves out only what comes after it.
PageInv(b) ==
    at[b] = "images" =>
        LET ids == OnPage(walk[b].page)
        IN  /\ \A p \in ids : /\ walk[b].cursor < p
                              /\ ~walk[b].page[p].is_rented
                              /\ walk[b].asOf < walk[b].page[p].expires_at
            /\ \A p \in steady[b] \ ids :
                   walk[b].cursor < p => /\ Full(ids, walk[b].limit)
                                         /\ \A x \in ids : x < p

FreshInv(b) ==
    at[b] \in {"more", "walked"} =>
        \A p \in OnPage(walk[b].page) :
            /\ walk[b].page[p].status # "rented"
            /\ walk[b].page[p].status = "expired" =>
                   /\ walk[b].asOf < walk[b].page[p].expires_at
                   /\ walk[b].page[p].expires_at < now

OwnInv(b) ==
    /\ at[b] = "deleted" =>
           /\ walk[b] \in Walk /\ walk[b].owner \in Users
           /\ \A p \in steady[b] :
                  /\ row[p] # None /\ row[p].owner = walk[b].owner
                  /\ p \in walk[b].shown \/ row[p].deleted
    /\ at[b] = "listed" => walk[b] \in Walk /\ steady[b] \subseteq walk[b].shown

ReaderInv(b) == WalkInv(b) /\ PageInv(b) /\ FreshInv(b) /\ OwnInv(b)

BrowseInv ==
    /\ IInv
    /\ BrowseTypeOK
    /\ \A b \in Readers : ReaderInv(b)

-----------------------------------------------------------------------------
\* Readers write nothing, so all that is known of the listings still is.
LEMMA ListingsKnown == BrowseSpec => Spec
<1>1. BrowseInit => Init
  BY DEF BrowseInit
<1>2. [BrowseNext]_allVars => [Next]_vars
  BY DEF BrowseNext, allVars
<1> QED BY <1>1, <1>2, PTL DEF BrowseSpec, Spec

\* The clock does not go back, and a listing neither vanishes nor changes hands.
LEMMA ListingsStay ==
    ASSUME IInv, [Next]_vars
    PROVE  /\ now \in Nat /\ now' \in Nat /\ now <= now'
           /\ \A p \in Properties : row[p] # None =>
                  row'[p] # None /\ row'[p].owner = row[p].owner
<1>1. now \in Nat
  BY PropertyListingsAssumption DEF IInv, ProgramTypeOK
<1>2. now' = now \/ now' = now + 1
  BY DEF Next, Step, vars, CallCreate, CallUpdate, CallRenew, CallOther, CallUpdateMe, Call,
         UpdateContact, CheckProfile, InsertProperty, ReadProperty, SaveUpdate, SaveUpsert,
         DeleteProperty, RestoreProperty, Fail, Tick
<1>3. ASSUME NEW p \in Properties, row[p] # None
      PROVE  row'[p] # None /\ row'[p].owner = row[p].owner
  <2>1. CASE row'[p] = row[p]
    BY <1>3, <2>1
  <2>2. CASE row'[p] # row[p]
    <3>1. Next
      BY <2>2 DEF vars
    <3> QED BY <1>3, <2>2, <3>1, ChangedByOwner DEF ByOwner
  <2> QED BY <2>1, <2>2
<1> QED BY <1>1, <1>2, <1>3

\* What a reader may expect to be shown shrinks as long as it reads.
LEMMA SteadyFacts ==
    ASSUME BrowseInv, BrowseTypeOK', History, NEW b \in Readers
    PROVE  /\ at'[b] \in Paged =>
                  /\ steady'[b] \subseteq Browsable(now)'
                  /\ at[b] # "idle" => steady'[b] \subseteq steady[b]
           /\ at'[b] \in {"deleted", "listed"} /\ at[b] # "idle" =>
                  /\ steady'[b] \subseteq steady[b]
                  /\ \A p \in steady'[b] : row'[p].deleted = row[p].deleted
           /\ at'[b] \in {"deleted", "listed"} /\ at[b] = "idle" =>
                  steady'[b] = OwnedBy(walk'[b].owner)
<1>1. steady'[b] = CASE at'[b] \in Paged ->
                            IF at[b] = "idle" THEN Browsable(now)'
                            ELSE steady[b] \cap Browsable(now)'
                     [] at'[b] \in {"deleted", "listed"} ->
                            IF at[b] = "idle" THEN OwnedBy(walk'[b].owner)
                            ELSE steady[b] \cap Unmoved
                     [] OTHER -> {}
  BY DEF History
<1>2. Paged \cap {"deleted", "listed"} = {}
  BY DEF Paged
<1> QED BY <1>1, <1>2 DEF Unmoved

\* Whatever else happens, what a reader knows that does not move stays true.
LEMMA ReaderStays ==
    ASSUME BrowseInv, BrowseTypeOK', History, [Next]_vars,
           NEW b \in Readers, at'[b] = at[b], walk'[b] = walk[b]
    PROVE  ReaderInv(b)'
<1>1. /\ now \in Nat /\ now' \in Nat /\ now <= now'
      /\ \A p \in Properties : row[p] # None =>
             row'[p] # None /\ row'[p].owner = row[p].owner
  BY ListingsStay DEF BrowseInv
<1>2. ReaderInv(b) /\ steady[b] \subseteq Properties /\ steady'[b] \subseteq Properties
  BY DEF BrowseInv, BrowseTypeOK
<1>3. at[b] \in Paged => steady'[b] \subseteq steady[b] /\ steady'[b] \subseteq Browsable(now)'
  BY SteadyFacts DEF Paged
<1>4. at[b] \in {"deleted", "listed"} =>
          /\ steady'[b] \subseteq steady[b]
          /\ \A p \in steady'[b] : row'[p].deleted = row[p].deleted
  BY SteadyFacts
<1>5. WalkInv(b)'
  <2>1. walk[b] \in Walk => walk[b].asOf \in Nat
    BY DEF Walk
  <2> QED BY <1>1, <1>2, <1>3, <2>1 DEF ReaderInv, WalkInv, Cleared
<1>6. PageInv(b)'
  BY <1>2, <1>3 DEF ReaderInv, PageInv, OnPage, Paged
<1>7. FreshInv(b)'
  <2>1. CASE at[b] \notin {"more", "walked"}
    BY <2>1 DEF FreshInv
  <2>2. CASE at[b] \in {"more", "walked"}
    <3>1. walk[b] \in Walk
      BY <1>2, <2>2 DEF ReaderInv, WalkInv, Paged
    <3>2. \A p \in OnPage(walk[b].page) : walk[b].page[p].expires_at \in Nat
      BY <3>1 DEF Walk, OnPage, Shown
    <3> QED BY <1>1, <1>2, <3>2 DEF ReaderInv, FreshInv, OnPage
  <2> QED BY <2>1, <2>2
<1>8. OwnInv(b)'
  BY <1>1, <1>2, <1>4 DEF ReaderInv, OwnInv
<1> QED BY <1>5, <1>6, <1>7, <1>8 DEF ReaderInv

-----------------------------------------------------------------------------
\* A reader's step moves only that reader, and reads without writing.
LEMMA MoveFacts ==
    ASSUME BrowseTypeOK, NEW b \in Readers, NEW label \in At, NEW new \in Walk \cup {None},
           Move(b, label, new)
    PROVE  /\ at'[b] = label /\ walk'[b] = new
           /\ at' \in [Readers -> At] /\ walk' \in [Readers -> Walk \cup {None}]
           /\ \A o \in Readers \ {b} : at'[o] = at[o] /\ walk'[o] = walk[o]
  BY DEF BrowseTypeOK, Move

LEMMA SteadyType ==
    ASSUME BrowseTypeOK, History
    PROVE  steady' \in [Readers -> SUBSET Properties]
<1>1. /\ Browsable(now)' \subseteq Properties
      /\ \A u : OwnedBy(u) \subseteq Properties
      /\ \A b \in Readers : steady[b] \subseteq Properties
  BY DEF Browsable, OwnedBy, Existing, BrowseTypeOK
<1> QED BY <1>1 DEF History

\* So only the reader that moves has to account for what it knows.
LEMMA ReadStep ==
    ASSUME BrowseInv, History, UNCHANGED vars, NEW b \in Readers,
           NEW label \in At, NEW new \in Walk \cup {None}, Move(b, label, new),
           BrowseTypeOK' => ReaderInv(b)'
    PROVE  BrowseInv'
<1>1. BrowseTypeOK'
  BY MoveFacts, SteadyType DEF BrowseInv, BrowseTypeOK
<1>2. IInv'
  BY NextIInv DEF BrowseInv
<1>3. \A o \in Readers \ {b} : ReaderInv(o)'
  BY <1>1, MoveFacts, ReaderStays DEF BrowseInv
<1> QED BY <1>1, <1>2, <1>3 DEF BrowseInv

\* Facts of the reader at hand, and of its next history, for the lemmas below.
LEMMA ReaderFacts ==
    ASSUME BrowseInv, NEW b \in Readers
    PROVE  /\ now \in Nat /\ now <= now
           /\ at[b] \in Paged => WalkInv(b) /\ walk[b] \in Walk
           /\ at[b] = "deleted" => OwnInv(b) /\ walk[b] \in Walk
           /\ ReaderInv(b)
<1>1. now \in Nat
  BY PropertyListingsAssumption DEF BrowseInv, IInv, ProgramTypeOK
<1>2. ReaderInv(b)
  BY DEF BrowseInv
<1> QED BY <1>1, <1>2 DEF ReaderInv, WalkInv, OwnInv

LEMMA BlankPage == Blank \in [Properties -> Shown \cup {None}] /\ OnPage(Blank) = {}
  BY DEF Blank, OnPage

LEMMA CallGetPropertyListStep ==
    ASSUME BrowseInv, History, UNCHANGED vars, NEW b \in Readers, CallGetPropertyList(b)
    PROVE  BrowseInv'
<1>1. PICK limit \in Limits :
          Move(b, "count", [again |-> {}, shown |-> {}, cursor |-> 0,
                            limit |-> PageSize(limit), asOf |-> now, page |-> Blank,
                            owner |-> None])
  BY DEF CallGetPropertyList
<1>2. PICK new : new = [again |-> {}, shown |-> {}, cursor |-> 0,
                        limit |-> PageSize(limit), asOf |-> now, page |-> Blank,
                        owner |-> None]
  OBVIOUS
<1>3. PageSize(limit) \in Int
  BY BrowseAssumption DEF PageSize, DefaultLimit
<1>4. /\ new \in Walk /\ new.again = {} /\ new.shown = {} /\ new.cursor = 0
      /\ new.asOf = now
  BY <1>2, <1>3, BlankPage, ReaderFacts DEF Walk
<1>5. ASSUME BrowseTypeOK'
      PROVE  ReaderInv(b)'
  <2>1. at'[b] = "count" /\ walk'[b] = new
    BY <1>1, <1>2, <1>4, MoveFacts DEF BrowseInv, At, Paged
  <2>2. steady'[b] \subseteq Browsable(now)'
    BY <1>5, <2>1, SteadyFacts DEF Paged
  <2>3. \A p \in steady'[b] : p \in Nat \ {0}
    BY <1>5, BrowseAssumption DEF BrowseTypeOK
  <2>4. WalkInv(b)'
    BY <1>4, <2>1, <2>2, <2>3, ReaderFacts DEF WalkInv, Cleared, vars
  <2> QED BY <2>1, <2>4 DEF ReaderInv, PageInv, FreshInv, OwnInv
<1> QED BY <1>1, <1>2, <1>4, <1>5, ReadStep DEF At, Paged

LEMMA CountPropertiesStep ==
    ASSUME BrowseInv, History, UNCHANGED vars, NEW b \in Readers, CountProperties(b)
    PROVE  BrowseInv'
<1>1. at[b] = "count" /\ Move(b, "page", walk[b]) /\ walk[b] \in Walk /\ WalkInv(b)
  BY ReaderFacts DEF CountProperties, Paged
<1>2. ASSUME BrowseTypeOK'
      PROVE  ReaderInv(b)'
  <2>1. at'[b] = "page" /\ walk'[b] = walk[b]
    BY <1>1, MoveFacts DEF BrowseInv, At, Paged
  <2>2. steady'[b] \subseteq steady[b] /\ steady'[b] \subseteq Browsable(now)'
    BY <1>1, <1>2, <2>1, SteadyFacts DEF Paged
  <2>3. WalkInv(b)'
    BY <1>1, <2>1, <2>2, ReaderFacts DEF WalkInv, Cleared, vars, Paged
  <2> QED BY <2>1, <2>3 DEF ReaderInv, PageInv, FreshInv, OwnInv
<1> QED BY <1>1, <1>2, ReadStep DEF At, Paged

LEMMA PagePropertiesStep ==
    ASSUME BrowseInv, History, UNCHANGED vars, NEW b \in Readers, PageProperties(b)
    PROVE  BrowseInv'
<1>1. at[b] = "page" /\ walk[b] \in Walk /\ WalkInv(b)
  BY ReaderFacts DEF PageProperties, Paged
<1>2. PICK ids \in SUBSET Properties :
          /\ IsPage(ids, Browsable(walk[b].asOf), walk[b].cursor, walk[b].limit)
          /\ Move(b, "images",
                  [walk[b] EXCEPT !.page =
                      [p \in Properties |->
                          IF p \in ids
                          THEN [expires_at |-> row[p].expires_at,
                                is_rented |-> row[p].is_rented, status |-> None]
                          ELSE None]])
  BY DEF PageProperties
<1>3. PICK page : page = [p \in Properties |->
                             IF p \in ids
                             THEN [expires_at |-> row[p].expires_at,
                                   is_rented |-> row[p].is_rented, status |-> None]
                             ELSE None]
  OBVIOUS
<1>4. PICK new : new = [walk[b] EXCEPT !.page = page]
  OBVIOUS
<1>5. \A p \in ids : /\ row[p] \in Row /\ ~row[p].is_rented
                     /\ walk[b].asOf < row[p].expires_at /\ walk[b].cursor < p
  <2>1. ids \subseteq Browsable(walk[b].asOf) /\ \A p \in ids : p > walk[b].cursor
    BY <1>2 DEF IsPage, Above
  <2>2. \A p \in ids : row[p] # None
    BY <2>1 DEF Browsable, Existing
  <2>3. \A p \in ids : row[p] \in Row
    BY <2>2 DEF BrowseInv, IInv, ProgramTypeOK
  <2>4. walk[b].asOf \in Nat /\ walk[b].cursor \in Nat
    BY <1>1 DEF Walk
  <2>5. \A p \in ids : row[p].expires_at \in Nat /\ p \in Nat
    BY <2>3, BrowseAssumption DEF Row
  <2> QED BY <2>1, <2>3, <2>4, <2>5 DEF Browsable
<1>6. /\ page \in [Properties -> Shown \cup {None}] /\ OnPage(page) = ids
      /\ \A p \in ids : /\ ~page[p].is_rented
                        /\ walk[b].asOf < page[p].expires_at
  <2>1. \A p \in ids : page[p] = [expires_at |-> row[p].expires_at,
                                  is_rented |-> row[p].is_rented, status |-> None]
    BY <1>3
  <2>2. \A p \in Properties \ ids : page[p] = None
    BY <1>3
  <2>3. \A p \in ids : page[p] \in Shown
    <3>1. \A p \in ids : row[p].expires_at \in Nat /\ row[p].is_rented \in BOOLEAN
      BY <1>5 DEF Row
    <3>2. ASSUME NEW e \in Nat, NEW r \in BOOLEAN
          PROVE  [expires_at |-> e, is_rented |-> r, status |-> None] \in Shown
      BY DEF Shown
    <3> QED BY <2>1, <3>1, <3>2
  <2>4. \A p \in ids : page[p] # None
    BY <2>3, BrowseAssumption
  <2>5. page \in [Properties -> Shown \cup {None}]
    BY <1>3, <2>2, <2>3
  <2>6. OnPage(page) = ids
    BY <2>2, <2>4 DEF OnPage
  <2>7. \A p \in ids : /\ page[p].is_rented = row[p].is_rented
                       /\ page[p].expires_at = row[p].expires_at
    <3> TAKE p \in ids
    <3>1. page[p] = [expires_at |-> row[p].expires_at, is_rented |-> row[p].is_rented,
                     status |-> None]
      BY <2>1
    <3> QED BY <3>1
  <2>8. \A p \in ids : ~page[p].is_rented /\ walk[b].asOf < page[p].expires_at
    BY <1>5, <2>7
  <2> QED BY <2>5, <2>6, <2>8
<1>7. /\ new \in Walk /\ new.page = page /\ new.again = walk[b].again
      /\ new.shown = walk[b].shown /\ new.cursor = walk[b].cursor
      /\ new.limit = walk[b].limit /\ new.asOf = walk[b].asOf
  BY <1>1, <1>4, <1>6 DEF Walk
<1>8. \A p \in steady[b] \ ids :
          walk[b].cursor < p => Full(ids, walk[b].limit) /\ \A x \in ids : x < p
  <2>1. walk[b].asOf \in Nat /\ walk[b].cursor \in Nat /\ walk[b].asOf <= now
    BY <1>1 DEF Walk, WalkInv, Paged
  <2>2. \A p \in Browsable(now) : row[p].expires_at \in Nat
    BY DEF Browsable, Existing, BrowseInv, IInv, ProgramTypeOK, Row
  <2>3. Browsable(now) \subseteq Browsable(walk[b].asOf)
    BY <2>1, <2>2, ReaderFacts DEF Browsable
  <2>4. steady[b] \subseteq Browsable(walk[b].asOf)
    BY <1>1, <2>3 DEF WalkInv, Paged
  <2>5. \A p \in steady[b] : p \in Nat
    BY BrowseAssumption DEF BrowseInv, BrowseTypeOK
  <2>6. \A p \in steady[b] : walk[b].cursor < p =>
            p \in Above(Browsable(walk[b].asOf), walk[b].cursor)
    BY <2>1, <2>4, <2>5 DEF Above
  <2> QED BY <1>2, <2>6 DEF IsPage
<1>9. ASSUME BrowseTypeOK'
      PROVE  ReaderInv(b)'
  <2>1. at'[b] = "images" /\ walk'[b] = new
    BY <1>2, <1>3, <1>4, <1>7, MoveFacts DEF BrowseInv, At, Paged
  <2>2. steady'[b] \subseteq steady[b] /\ steady'[b] \subseteq Browsable(now)'
    BY <1>1, <1>9, <2>1, SteadyFacts DEF Paged
  <2>3. WalkInv(b)'
    BY <1>1, <1>7, <2>1, <2>2, ReaderFacts DEF WalkInv, Cleared, vars, Paged
  <2>4. PageInv(b)'
    BY <1>5, <1>6, <1>7, <1>8, <2>1, <2>2 DEF PageInv, OnPage
  <2> QED BY <2>1, <2>3, <2>4 DEF ReaderInv, FreshInv, OwnInv
<1> QED BY <1>2, <1>3, <1>4, <1>7, <1>9, ReadStep DEF At, Paged

\* mapToProto adds a status to each row of the page, and nothing else.
LEMMA ToldFacts ==
    ASSUME NEW page \in [Properties -> Shown \cup {None}], NEW told,
           told = [p \in Properties |->
                      IF p \in OnPage(page)
                      THEN [page[p] EXCEPT !.status = Status(page[p])] ELSE None]
    PROVE  /\ told \in [Properties -> Shown \cup {None}] /\ OnPage(told) = OnPage(page)
           /\ \A p \in OnPage(page) : /\ told[p].status = Status(page[p])
                                      /\ told[p].expires_at = page[p].expires_at
                                      /\ told[p].expires_at \in Nat
<1>1. \A p \in OnPage(page) : page[p] \in Shown
  BY DEF OnPage
<1>2. ASSUME NEW x \in Shown
      PROVE  /\ [x EXCEPT !.status = Status(x)] \in Shown
             /\ [x EXCEPT !.status = Status(x)].status = Status(x)
             /\ [x EXCEPT !.status = Status(x)].expires_at = x.expires_at
             /\ x.expires_at \in Nat
  <2>1. Status(x) \in Statuses
    BY DEF Status, Statuses
  <2> QED BY <2>1 DEF Shown
<1>3. ASSUME NEW p \in OnPage(page)
      PROVE  /\ told[p] \in Shown /\ told[p] # None /\ told[p].status = Status(page[p])
             /\ told[p].expires_at = page[p].expires_at /\ told[p].expires_at \in Nat
  <2>1. told[p] = [page[p] EXCEPT !.status = Status(page[p])]
    BY DEF OnPage
  <2>2. PICK x \in Shown : x = page[p]
    BY <1>1
  <2>3. told[p] = [x EXCEPT !.status = Status(x)]
    BY <2>1, <2>2
  <2>4. /\ told[p] \in Shown /\ told[p].status = Status(x)
        /\ told[p].expires_at = x.expires_at /\ x.expires_at \in Nat
    BY <1>2, <2>3
  <2> QED BY <2>2, <2>4, BrowseAssumption
<1>4. \A p \in Properties \ OnPage(page) : told[p] = None
  OBVIOUS
<1>5. told \in [Properties -> Shown \cup {None}]
  BY <1>3, <1>4
<1>6. OnPage(told) = OnPage(page)
  BY <1>3, <1>4 DEF OnPage
<1> QED BY <1>3, <1>5, <1>6

\* How a walk grows by a page: what it has shown stays below its cursor, and
\* nothing that was expected is passed over.
LEMMA WalkGrows ==
    ASSUME NEW shown \in SUBSET Nat, NEW ids \in SUBSET Nat, NEW expected \in SUBSET Nat,
           NEW cursor \in Nat, NEW full \in BOOLEAN,
           \A p \in shown : p <= cursor,
           \A p \in expected : p <= cursor => p \in shown,
           \A p \in ids : cursor < p,
           \A p \in expected \ ids : cursor < p => full /\ \A x \in ids : x < p
    PROVE  /\ shown \cap ids = {}
           /\ ~full => expected \subseteq shown \cup ids
           /\ \A last \in ids : (\A p \in ids : p <= last) =>
                  /\ \A p \in shown \cup ids : p <= last
                  /\ \A p \in expected : p <= last => p \in shown \cup ids
<1>1. shown \cap ids = {}
  OBVIOUS
<1>2. ~full => expected \subseteq shown \cup ids
  OBVIOUS
<1>3. ASSUME NEW last \in ids, \A p \in ids : p <= last
      PROVE  /\ \A p \in shown \cup ids : p <= last
             /\ \A p \in expected : p <= last => p \in shown \cup ids
  <2>1. \A p \in shown \cup ids : p <= last
    BY <1>3
  <2>2. ASSUME NEW p \in expected, p <= last, p \notin shown \cup ids PROVE FALSE
    BY <1>3, <2>2
  <2> QED BY <2>1, <2>2
<1> QED BY <1>1, <1>2, <1>3

LEMMA MapPageStep ==
    ASSUME BrowseInv, History, UNCHANGED vars, NEW b \in Readers, MapPage(b)
    PROVE  BrowseInv'
<1>1. /\ at[b] = "images" /\ walk[b] \in Walk /\ WalkInv(b) /\ PageInv(b)
      /\ now' = now /\ now \in Nat
  BY ReaderFacts DEF MapPage, Paged, ReaderInv, vars
<1>2. PICK w, ids, told, seen :
          /\ w = walk[b] /\ ids = OnPage(w.page)
          /\ told = [p \in Properties |->
                         IF p \in ids THEN [w.page[p] EXCEPT !.status = Status(w.page[p])]
                         ELSE None]
          /\ seen = [w EXCEPT !.again = @ \cup (w.shown \cap ids), !.shown = @ \cup ids,
                              !.page = told]
  OBVIOUS
<1>3. \/ /\ Full(ids, w.limit)
         /\ \E last \in ids : IsLast(last, ids)
                              /\ Move(b, "more", [seen EXCEPT !.cursor = last])
      \/ ~Full(ids, w.limit) /\ Move(b, "walked", seen)
  BY <1>2 DEF MapPage
<1>4. /\ w \in Walk /\ w.page \in [Properties -> Shown \cup {None}] /\ ids \subseteq Properties
      /\ w.again = {} /\ w.asOf <= now /\ w.asOf \in Nat /\ w.cursor \in Nat
      /\ \A p \in w.shown : p <= w.cursor
      /\ \A p \in steady[b] : p <= w.cursor => p \in w.shown
  BY <1>1, <1>2 DEF WalkInv, Cleared, Walk, Paged, OnPage
<1>5. /\ \A p \in ids : /\ w.cursor < p /\ ~w.page[p].is_rented
                        /\ w.asOf < w.page[p].expires_at
      /\ \A p \in steady[b] \ ids :
             w.cursor < p => Full(ids, w.limit) /\ \A x \in ids : x < p
  BY <1>1, <1>2 DEF PageInv
<1>6. /\ Properties \subseteq Nat /\ w.shown \subseteq Properties
      /\ steady[b] \subseteq Properties
  BY <1>4, BrowseAssumption DEF Walk, BrowseInv, BrowseTypeOK
<1>7. /\ w.shown \cap ids = {}
      /\ ~Full(ids, w.limit) => steady[b] \subseteq w.shown \cup ids
      /\ \A last \in ids : (\A p \in ids : p <= last) =>
             /\ \A p \in w.shown \cup ids : p <= last
             /\ \A p \in steady[b] : p <= last => p \in w.shown \cup ids
  <2>1. /\ w.shown \in SUBSET Nat /\ ids \in SUBSET Nat /\ steady[b] \in SUBSET Nat
        /\ Full(ids, w.limit) \in BOOLEAN
    BY <1>4, <1>6 DEF Full
  <2>2. /\ \A p \in ids : w.cursor < p
        /\ \A p \in steady[b] \ ids :
               w.cursor < p => Full(ids, w.limit) /\ \A x \in ids : x < p
    BY <1>5
  <2>3. PICK shown \in SUBSET Nat, expected \in SUBSET Nat, page \in SUBSET Nat,
             cursor \in Nat, full \in BOOLEAN :
            /\ shown = w.shown /\ expected = steady[b] /\ page = ids
            /\ cursor = w.cursor /\ full = Full(ids, w.limit)
    BY <1>4, <2>1
  <2>4. /\ \A p \in shown : p <= cursor
        /\ \A p \in expected : p <= cursor => p \in shown
        /\ \A p \in page : cursor < p
        /\ \A p \in expected \ page : cursor < p => full /\ \A x \in page : x < p
    BY <1>4, <2>2, <2>3
  <2>5. /\ shown \cap page = {}
        /\ ~full => expected \subseteq shown \cup page
        /\ \A last \in page : (\A p \in page : p <= last) =>
               /\ \A p \in shown \cup page : p <= last
               /\ \A p \in expected : p <= last => p \in shown \cup page
    BY <2>4, WalkGrows
  <2> QED BY <2>3, <2>5
<1>8. /\ told \in [Properties -> Shown \cup {None}] /\ OnPage(told) = ids
      /\ \A p \in ids : /\ told[p].status = Status(w.page[p])
                        /\ told[p].expires_at = w.page[p].expires_at
                        /\ told[p].expires_at \in Nat
  <2>1. PICK page \in [Properties -> Shown \cup {None}] : page = w.page
    BY <1>4
  <2>2. /\ ids = OnPage(page)
        /\ told = [p \in Properties |->
                      IF p \in OnPage(page)
                      THEN [page[p] EXCEPT !.status = Status(page[p])] ELSE None]
    BY <1>2, <2>1
  <2>3. /\ told \in [Properties -> Shown \cup {None}] /\ OnPage(told) = OnPage(page)
        /\ \A p \in OnPage(page) : /\ told[p].status = Status(page[p])
                                   /\ told[p].expires_at = page[p].expires_at
                                   /\ told[p].expires_at \in Nat
    BY <2>2, ToldFacts
  <2> QED BY <2>1, <2>2, <2>3
<1>9. \A p \in ids : /\ told[p].status # "rented"
                     /\ told[p].status = "expired" =>
                            w.asOf < told[p].expires_at /\ told[p].expires_at < now
  BY <1>1, <1>5, <1>8 DEF Status
<1>10. /\ seen \in Walk /\ seen.again = {} /\ seen.shown = w.shown \cup ids
       /\ seen.page = told /\ seen.asOf = w.asOf /\ seen.cursor = w.cursor
  <2>1. /\ seen = [w EXCEPT !.again = w.again \cup (w.shown \cap ids),
                            !.shown = w.shown \cup ids, !.page = told]
        /\ w.again \cup (w.shown \cap ids) = {} /\ w.shown \cup ids \in SUBSET Properties
        /\ told \in [Properties -> Shown \cup {None}]
    BY <1>2, <1>4, <1>6, <1>7, <1>8
  <2> QED BY <1>4, <2>1 DEF Walk
<1>11. ASSUME NEW label \in {"more", "walked"}, NEW new \in Walk, Move(b, label, new),
              new.again = {}, new.shown = w.shown \cup ids, new.page = told,
              new.asOf = w.asOf,
              label = "more" =>
                  /\ \A p \in w.shown \cup ids : p <= new.cursor
                  /\ \A p \in steady[b] : p <= new.cursor => p \in w.shown \cup ids,
              label = "walked" => steady[b] \subseteq w.shown \cup ids
       PROVE  BrowseInv'
  <2>1. label \in At /\ label \in Paged /\ label # "idle"
    BY DEF At, Paged
  <2>2. ASSUME BrowseTypeOK'
        PROVE  ReaderInv(b)'
    <3>1. at'[b] = label /\ walk'[b] = new
      BY <1>11, <2>1, MoveFacts DEF BrowseInv
    <3>2. steady'[b] \subseteq steady[b] /\ steady'[b] \subseteq Browsable(now)'
      BY <1>1, <2>1, <2>2, <3>1, SteadyFacts
    <3>3. WalkInv(b)'
      BY <1>1, <1>4, <1>11, <3>1, <3>2 DEF WalkInv, Cleared
    <3>4. FreshInv(b)'
      BY <1>1, <1>8, <1>9, <1>11, <3>1 DEF FreshInv
    <3> QED BY <1>11, <3>1, <3>3, <3>4 DEF ReaderInv, PageInv, OwnInv
  <2> QED BY <1>11, <2>1, <2>2, ReadStep
<1>12. CASE ~Full(ids, w.limit)
  <2>1. Move(b, "walked", seen)
    BY <1>3, <1>12
  <2>2. steady[b] \subseteq w.shown \cup ids
    BY <1>7, <1>12
  <2> QED BY <1>10, <1>11, <2>1, <2>2
<1>13. CASE Full(ids, w.limit)
  <2>1. PICK last \in ids : IsLast(last, ids) /\ Move(b, "more", [seen EXCEPT !.cursor = last])
    BY <1>3, <1>13
  <2>2. last \in Nat /\ w.cursor < last /\ \A p \in ids : p <= last
    BY <1>4, <1>5, <1>6, <2>1 DEF IsLast
  <2>3. PICK new : new = [seen EXCEPT !.cursor = last]
    OBVIOUS
  <2>4. /\ new \in Walk /\ new.again = {} /\ new.shown = w.shown \cup ids
        /\ new.page = told /\ new.asOf = w.asOf /\ new.cursor = last
    BY <1>10, <2>2, <2>3 DEF Walk
  <2>5. /\ \A p \in w.shown \cup ids : p <= last
        /\ \A p \in steady[b] : p <= last => p \in w.shown \cup ids
    BY <1>7, <2>2
  <2> QED BY <1>11, <2>1, <2>3, <2>4, <2>5
<1> QED BY <1>12, <1>13

LEMMA NextPageStep ==
    ASSUME BrowseInv, History, UNCHANGED vars, NEW b \in Readers, NextPage(b)
    PROVE  BrowseInv'
<1>1. PICK new : new = [walk[b] EXCEPT !.asOf = now, !.page = Blank]
  OBVIOUS
<1>2. /\ at[b] = "more" /\ walk[b] \in Walk /\ WalkInv(b) /\ now \in Nat /\ now <= now
      /\ Move(b, "count", new)
  BY <1>1, ReaderFacts DEF NextPage, Paged
<1>3. /\ new \in Walk /\ new.again = walk[b].again /\ new.shown = walk[b].shown
      /\ new.cursor = walk[b].cursor /\ new.asOf = now
  BY <1>1, <1>2, BlankPage DEF Walk
<1>4. ASSUME BrowseTypeOK'
      PROVE  ReaderInv(b)'
  <2>1. at'[b] = "count" /\ walk'[b] = new /\ now' = now
    BY <1>2, <1>3, MoveFacts DEF BrowseInv, At, Paged, vars
  <2>2. steady'[b] \subseteq steady[b] /\ steady'[b] \subseteq Browsable(now)'
    BY <1>2, <1>4, <2>1, SteadyFacts DEF Paged
  <2>3. WalkInv(b)'
    BY <1>2, <1>3, <2>1, <2>2 DEF WalkInv, Cleared, Paged
  <2> QED BY <2>1, <2>3 DEF ReaderInv, PageInv, FreshInv, OwnInv
<1> QED BY <1>2, <1>3, <1>4, ReadStep DEF At, Paged

LEMMA GetMyPropertyListStep ==
    ASSUME BrowseInv, History, UNCHANGED vars, NEW b \in Readers, GetMyPropertyList(b)
    PROVE  BrowseInv'
<1>1. PICK u \in Users :
          Move(b, "deleted", [again |-> {}, shown |-> MyPropertyList(u), cursor |-> 0,
                              limit |-> 0, asOf |-> now, page |-> Blank, owner |-> u])
  BY DEF GetMyPropertyList
<1>2. PICK new : new = [again |-> {}, shown |-> MyPropertyList(u), cursor |-> 0,
                        limit |-> 0, asOf |-> now, page |-> Blank, owner |-> u]
  OBVIOUS
<1>3. MyPropertyList(u) \subseteq Properties
  BY DEF MyPropertyList, OwnedBy, Existing
<1>4. new \in Walk /\ new.shown = MyPropertyList(u) /\ new.owner = u
  BY <1>2, <1>3, BlankPage, ReaderFacts DEF Walk
<1>5. ASSUME BrowseTypeOK'
      PROVE  ReaderInv(b)'
  <2>1. at'[b] = "deleted" /\ walk'[b] = new /\ at[b] = "idle"
    BY <1>1, <1>2, <1>4, MoveFacts DEF BrowseInv, At, GetMyPropertyList
  <2>2. steady'[b] = OwnedBy(u)
    BY <1>4, <1>5, <2>1, SteadyFacts
  <2>3. \A p \in OwnedBy(u) : /\ row[p] # None /\ row[p].owner = u
                              /\ p \in MyPropertyList(u) \/ row[p].deleted
    BY DEF OwnedBy, Existing, MyPropertyList
  <2>4. OwnInv(b)'
    BY <1>4, <2>1, <2>2, <2>3 DEF OwnInv, vars
  <2> QED BY <2>1, <2>4 DEF ReaderInv, WalkInv, PageInv, FreshInv, Paged
<1> QED BY <1>1, <1>2, <1>4, <1>5, ReadStep DEF At

LEMMA GetMyDeletedPropertyListStep ==
    ASSUME BrowseInv, History, UNCHANGED vars, NEW b \in Readers, GetMyDeletedPropertyList(b)
    PROVE  BrowseInv'
<1>1. PICK new : new = [walk[b] EXCEPT !.shown = @ \cup MyDeletedPropertyList(walk[b].owner)]
  OBVIOUS
<1>2. /\ at[b] = "deleted" /\ walk[b] \in Walk /\ OwnInv(b) /\ Move(b, "listed", new)
  BY <1>1, ReaderFacts DEF GetMyDeletedPropertyList
<1>3. MyDeletedPropertyList(walk[b].owner) \subseteq Properties
  BY DEF MyDeletedPropertyList, OwnedBy, Existing
<1>4. /\ new \in Walk
      /\ new.shown = walk[b].shown \cup MyDeletedPropertyList(walk[b].owner)
  BY <1>1, <1>2, <1>3 DEF Walk
<1>5. steady[b] \subseteq new.shown
  <2>1. steady[b] \subseteq Properties
    BY DEF BrowseInv, BrowseTypeOK
  <2> QED BY <1>2, <1>4, <2>1 DEF OwnInv, MyDeletedPropertyList, OwnedBy, Existing
<1>6. ASSUME BrowseTypeOK'
      PROVE  ReaderInv(b)'
  <2>1. at'[b] = "listed" /\ walk'[b] = new
    BY <1>2, <1>4, MoveFacts DEF BrowseInv, At
  <2>2. steady'[b] \subseteq steady[b]
    BY <1>2, <1>6, <2>1, SteadyFacts
  <2>3. OwnInv(b)'
    BY <1>4, <1>5, <2>1, <2>2 DEF OwnInv
  <2> QED BY <2>1, <2>3 DEF ReaderInv, WalkInv, PageInv, FreshInv, Paged
<1> QED BY <1>2, <1>4, <1>6, ReadStep DEF At

LEMMA LeaveStep ==
    ASSUME BrowseInv, History, UNCHANGED vars, NEW b \in Readers, Leave(b)
    PROVE  BrowseInv'
<1>1. ASSUME BrowseTypeOK'
      PROVE  ReaderInv(b)'
  <2>1. at'[b] = "idle"
    BY MoveFacts DEF Leave, BrowseInv, At
  <2> QED BY <2>1 DEF ReaderInv, WalkInv, PageInv, FreshInv, OwnInv, Paged
<1> QED BY <1>1, ReadStep DEF Leave, At

-----------------------------------------------------------------------------
LEMMA BrowseInitInv == BrowseInit => BrowseInv
<1> SUFFICES ASSUME BrowseInit PROVE BrowseInv
  OBVIOUS
<1>1. IInv
  BY InitIInv DEF BrowseInit
<1>2. BrowseTypeOK
  BY DEF BrowseInit, BrowseTypeOK, At
<1>3. \A b \in Readers : ReaderInv(b)
  BY DEF BrowseInit, ReaderInv, WalkInv, PageInv, FreshInv, OwnInv, Paged
<1> QED BY <1>1, <1>2, <1>3 DEF BrowseInv

LEMMA BrowseNextInv == BrowseInv /\ [BrowseNext]_allVars => BrowseInv'
<1>1. ASSUME BrowseInv, Next, UNCHANGED <<at, walk>>, History PROVE BrowseInv'
  <2>1. IInv'
    BY <1>1, NextIInv DEF BrowseInv
  <2>2. BrowseTypeOK'
    BY <1>1, SteadyType DEF BrowseInv, BrowseTypeOK
  <2>3. \A b \in Readers : ReaderInv(b)'
    BY <1>1, <2>2, ReaderStays
  <2> QED BY <2>1, <2>2, <2>3 DEF BrowseInv
<1>2. ASSUME BrowseInv, NEW b \in Readers, Read(b), UNCHANGED vars, History
      PROVE  BrowseInv'
  BY <1>2, CallGetPropertyListStep, CountPropertiesStep, PagePropertiesStep, MapPageStep,
     NextPageStep, GetMyPropertyListStep, GetMyDeletedPropertyListStep, LeaveStep DEF Read
<1>3. ASSUME BrowseInv, UNCHANGED allVars PROVE BrowseInv'
  <2>1. IInv'
    BY <1>3, NextIInv DEF BrowseInv, allVars
  <2>2. UNCHANGED <<at, walk, steady, now, row>>
    BY <1>3 DEF allVars, browseVars, vars
  <2> QED BY <1>3, <2>1, <2>2
          DEF BrowseInv, BrowseTypeOK, ReaderInv, WalkInv, PageInv, FreshInv, OwnInv, Cleared,
              Browsable, Existing
<1> QED BY <1>1, <1>2, <1>3 DEF BrowseNext

\* The strengthened invariant, from which the theorems below follow.
THEOREM BrowseInductive == BrowseSpec => []BrowseInv
  BY BrowseInitInv, BrowseNextInv, PTL DEF BrowseSpec

\* Every reader's state keeps its type.
THEOREM BrowseTypeCorrect == BrowseSpec => []BrowseTypeOK
<1>1. BrowseInv => BrowseTypeOK
  BY DEF BrowseInv
<1> QED BY <1>1, BrowseInductive, PTL

\* Walks and dashboards are complete for any number of listings, requests and
\* readers and any page size (GetPropertyList, GetMyPropertyList,
\* GetMyDeletedPropertyList).
THEOREM ListsTheorem == BrowseSpec => []ListsComplete
<1>1. BrowseInv => ListsComplete
  BY DEF BrowseInv, ReaderInv, WalkInv, OwnInv, Paged, ListsComplete
<1> QED BY <1>1, BrowseInductive, PTL

\* No page shows a rented listing, nor one that had expired when the page was
\* asked for (GetPropertyList, Status).
THEOREM FreshTheorem == BrowseSpec => []PageFresh
<1>1. BrowseInv => PageFresh
  BY DEF BrowseInv, ReaderInv, FreshInv, PageFresh
<1> QED BY <1>1, BrowseInductive, PTL

\* Readers beside them change nothing of what the listing requests promise: the
\* atomic ListingBook while none is overtaken, and LateSpec always.
THEOREM ReadersHarmless ==
    BrowseSpec => ImplementsLateBook /\ ([]NoneOvertaken => ImplementsBook)
  BY ListingsKnown, LateRefinement, SerialRefinement, PTL
=============================================================================
