--------------------------- MODULE PropertyImages ---------------------------
(***************************************************************************)
(* AddPropertyImage and RemovePropertyImage as the server runs them: many  *)
(* requests at once, each a READ COMMITTED transaction that locks the      *)
(* parent property row (SELECT ... FOR UPDATE), issues one statement at a  *)
(* time, and may fail before any of them.  One action per statement.       *)
(*                                                                         *)
(* A transaction's writes are private until it commits: writes[r] holds    *)
(* the rows request r has changed and Same elsewhere, and its statements   *)
(* read those laid over what other transactions have committed.            *)
(***************************************************************************)
EXTENDS ImageTable

CONSTANTS Users, Owner,   \* Owner[p] is the owner_id of listing p
          Requests,       \* RPCs that may be in flight at once
          Same,           \* a row the transaction has not written
          None            \* no value: nil, no lock holder, no reply yet

ASSUME PropertyImagesAssumption ==
    /\ Owner \in [Properties -> Users]
    /\ Same \notin Row \cup {NoRow}
    /\ None \notin Requests \cup Images

VARIABLES images,   \* the committed property_images table
          live,     \* the listings whose deleted_at is NULL
          lock,     \* the request holding each property row FOR UPDATE
          pc,       \* the statement each request issues next
          req,      \* its arguments and local variables
          writes,   \* its uncommitted writes
          reply     \* the code its handler answers with

vars == <<images, live, lock, pc, req, writes, reply>>

Req == [property : Properties, caller : Users, is_main : BOOLEAN,
        image : Images \cup {None}, position : Positions \cup {None},
        survivor : Images \cup {None}, op : {"add", "remove"}]

InTx == {"count", "demote", "insert", "fetch", "delete", "survivor", "promote", "commit"}
PC   == InTx \cup {"idle", "lock", "committed", "done"}

Codes == {"ok", "not_found", "failed_precondition", "internal"}

\* The wire code of a service error.
UnmappedCodeOf(err) == err                                    \* mutant
CodeOf(err) ==
    CASE err \in {"ErrNotOwner", "ErrRecordNotFound"} -> "not_found"
      [] err = "ErrMaxPropertyImages"                 -> "failed_precondition"
      [] OTHER                                        -> "internal"

Clean == [i \in Images |-> Same]

Overlay(table, w) == [i \in Images |-> IF w[i] = Same THEN table[i] ELSE w[i]]

\* The table as the statements of request r read it.
View(r) == Overlay(images, writes[r])

Goto(r, label) == pc' = [pc EXCEPT ![r] = label]

\* Row locks after SELECT ... FOR UPDATE, and after the transaction ends.
SelectedOnly(r) == lock                                       \* mutant
Locked(r) == [lock EXCEPT ![req[r].property] = r]

StillLocked(r) == lock                                        \* mutant
Unlocked(r) == [p \in Properties |-> IF lock[p] = r THEN None ELSE lock[p]]

AnyCaller(r) == TRUE                                          \* mutant
verifyOwner(r) == Owner[req[r].property] = req[r].caller

\* What the statements inside the transaction find in the listing's gallery.
Own(r) == ImagesOf(View(r), req[r].property)

OverFull(r) == Cardinality(Own(r)) > maxPropertyImages        \* mutant
Full(r) == Cardinality(Own(r)) >= maxPropertyImages

NoMains(r) == {}                                              \* mutant
CurrentMains(r) == Mains(View(r), req[r].property)

FoundById(r) == View(r)[req[r].image] # NoRow                 \* mutant
Found(r) == req[r].image \in Own(r)

AnyOf(r) == Own(r)                                            \* mutant
Survivors(r) == Lowest(View(r), Own(r))

\* The transaction function returned err: roll back and answer.
Abort(r, err) ==
    /\ Goto(r, "done")
    /\ reply' = [reply EXCEPT ![r] = CodeOf(err)]
    /\ writes' = [writes EXCEPT ![r] = Clean]
    /\ lock' = Unlocked(r)
    /\ UNCHANGED <<images, live, req>>

-----------------------------------------------------------------------------
Init == /\ images = [i \in Images |-> NoRow]
        /\ live = Properties
        /\ lock = [p \in Properties |-> None]
        /\ pc = [r \in Requests |-> "idle"]
        /\ req = [r \in Requests |-> None]
        /\ writes = [r \in Requests |-> Clean]
        /\ reply = [r \in Requests |-> None]

\* A handler has parsed its message and calls the service.
Call(r, args) ==
    /\ pc[r] = "idle"
    /\ Goto(r, "lock")
    /\ req' = [req EXCEPT ![r] = args]
    /\ UNCHANGED <<images, live, lock, writes, reply>>

CallAdd(r) ==
    \E p \in Properties, u \in Users, is_main \in BOOLEAN, position \in Positions :
        Call(r, [property |-> p, caller |-> u, is_main |-> is_main, image |-> None,
                 position |-> position, survivor |-> None, op |-> "add"])

CallRemove(r) ==
    \E p \in Properties, u \in Users, i \in Images :
        Call(r, [property |-> p, caller |-> u, is_main |-> FALSE, image |-> i,
                 position |-> None, survivor |-> None, op |-> "remove"])

\* SELECT ... FOR UPDATE, which waits for the row's lock and sees only live
\* listings, then verifyOwner.
LockProperty(r) ==
    LET p == req[r].property IN
    /\ pc[r] = "lock"
    /\ \/ p \notin live /\ Abort(r, "ErrRecordNotFound")
       \/ p \in live /\ lock[p] = None /\ ~verifyOwner(r) /\ Abort(r, "ErrNotOwner")
       \/ /\ p \in live /\ lock[p] = None /\ verifyOwner(r)
          /\ lock' = Locked(r)
          /\ Goto(r, IF req[r].op = "add" THEN "count" ELSE "fetch")
          /\ UNCHANGED <<images, live, req, writes, reply>>

\* AddPropertyImage: the limit, and the first image forced to be main.
CountImages(r) ==
    LET is_main == req[r].is_main \/ Own(r) = {} IN
    /\ pc[r] = "count"
    /\ \/ Full(r) /\ Abort(r, "ErrMaxPropertyImages")
       \/ /\ ~Full(r)
          /\ req' = [req EXCEPT ![r].is_main = is_main]
          /\ Goto(r, IF is_main THEN "demote" ELSE "insert")
          /\ UNCHANGED <<images, live, lock, writes, reply>>

DemoteMain(r) ==
    /\ pc[r] = "demote"
    /\ writes' = [writes EXCEPT ![r] = [i \in Images |->
                      IF i \in CurrentMains(r) THEN Demoted(View(r)[i]) ELSE writes[r][i]]]
    /\ Goto(r, "insert")
    /\ UNCHANGED <<images, live, lock, req, reply>>

\* The database draws an id no table row and no open transaction uses.
InsertImage(r) ==
    \E i \in Images :
        /\ pc[r] = "insert"
        /\ images[i] = NoRow
        /\ \A q \in Requests : writes[q][i] = Same
        /\ writes' = [writes EXCEPT ![r][i] =
                          NewRow(req[r].property, req[r].is_main, req[r].position)]
        /\ req' = [req EXCEPT ![r].image = i]
        /\ Goto(r, "commit")
        /\ UNCHANGED <<images, live, lock, reply>>

\* RemovePropertyImage: the image must belong to this listing.
FetchImage(r) ==
    /\ pc[r] = "fetch"
    /\ \/ ~Found(r) /\ Abort(r, "ErrRecordNotFound")
       \/ /\ Found(r)
          /\ req' = [req EXCEPT ![r].is_main = View(r)[req[r].image].is_main]
          /\ Goto(r, "delete")
          /\ UNCHANGED <<images, live, lock, writes, reply>>

DeleteImage(r) ==
    /\ pc[r] = "delete"
    /\ writes' = [writes EXCEPT ![r][req[r].image] = NoRow]
    /\ Goto(r, IF req[r].is_main THEN "survivor" ELSE "commit")
    /\ UNCHANGED <<images, live, lock, req, reply>>

FindSurvivor(r) ==
    /\ pc[r] = "survivor"
    /\ \/ Own(r) = {} /\ Goto(r, "commit") /\ UNCHANGED req
       \/ \E s \in Survivors(r) :
              Goto(r, "promote") /\ req' = [req EXCEPT ![r].survivor = s]
    /\ UNCHANGED <<images, live, lock, writes, reply>>

PromoteSurvivor(r) ==
    /\ pc[r] = "promote"
    /\ writes' = [writes EXCEPT ![r][req[r].survivor] = Promoted(View(r)[req[r].survivor])]
    /\ Goto(r, "commit")
    /\ UNCHANGED <<images, live, lock, req, reply>>

Commit(r) ==
    /\ pc[r] = "commit"
    /\ images' = View(r)
    /\ writes' = [writes EXCEPT ![r] = Clean]
    /\ lock' = Unlocked(r)
    /\ Goto(r, "committed")
    /\ UNCHANGED <<live, req, reply>>

\* The handler answers: an add first lists the gallery, outside the transaction.
Answer(r) ==
    /\ pc[r] = "committed"
    /\ Goto(r, "done")
    /\ reply' = [reply EXCEPT ![r] = "ok"]
    /\ UNCHANGED <<images, live, lock, req, writes>>

\* A statement fails, the connection drops or the server dies: the open
\* transaction, if any, rolls back; what is committed stays.
Fail(r) ==
    /\ pc[r] \in InTx \cup {"lock", "committed"}
    /\ Abort(r, "error")

Return(r) ==
    /\ pc[r] = "done"
    /\ Goto(r, "idle")
    /\ req' = [req EXCEPT ![r] = None]
    /\ reply' = [reply EXCEPT ![r] = None]
    /\ UNCHANGED <<images, live, lock, writes>>

\* DeletePropertyByID and RestoreProperty each end in an UPDATE of the
\* property row, which waits for its lock.
SoftDelete(p) ==
    /\ p \in live
    /\ lock[p] = None
    /\ live' = live \ {p}
    /\ UNCHANGED <<images, lock, pc, req, writes, reply>>

Restore(p) ==
    /\ p \notin live
    /\ lock[p] = None
    /\ live' = live \cup {p}
    /\ UNCHANGED <<images, lock, pc, req, writes, reply>>

Statement(r) ==
    \/ CountImages(r)
    \/ DemoteMain(r)
    \/ InsertImage(r)
    \/ FetchImage(r)
    \/ DeleteImage(r)
    \/ FindSurvivor(r)
    \/ PromoteSurvivor(r)
    \/ Commit(r)
    \/ Answer(r)

Next ==
    \/ \E r \in Requests :
           \/ CallAdd(r)
           \/ CallRemove(r)
           \/ LockProperty(r)
           \/ Statement(r)
           \/ Fail(r)
           \/ Return(r)
    \/ \E p \in Properties : SoftDelete(p) \/ Restore(p)

Spec == Init /\ [][Next]_vars

\* Postgres answers every statement, and grants a contended row lock to each
\* waiter in turn.
Fairness == \A r \in Requests : WF_vars(Statement(r)) /\ SF_vars(LockProperty(r))

FairSpec == Spec /\ Fairness
-----------------------------------------------------------------------------
TypeOK ==
    /\ images \in Tables
    /\ live \in SUBSET Properties
    /\ lock \in [Properties -> Requests \cup {None}]
    /\ pc \in [Requests -> PC]
    /\ req \in [Requests -> Req \cup {None}]
    /\ writes \in [Requests -> [Images -> Row \cup {NoRow, Same}]]
    /\ reply \in [Requests -> Codes \cup {None}]

\* Whatever requests interleave or fail, every committed gallery is within its
\* limit and has exactly one main image unless it is empty
\* (AddPropertyImage, RemovePropertyImage).
GalleryOK == WellFormed(images)

\* No statement of a transaction ever puts a second main image where the
\* partial unique index property_images_one_main_idx would refuse it.
OneMainIndexHolds ==
    \A r \in Requests, p \in Properties :
        \A i, j \in Mains(View(r), p) : i = j

\* The answer to a caller who does not own the listing never tells whether it
\* exists or how full its gallery is (ErrNotOwner, mapOwnershipError).
StrangersLearnNothing ==
    \A r \in Requests :
        pc[r] = "done" /\ Owner[req[r].property] # req[r].caller
            => reply[r] \in {"not_found", "internal"}

\* A main image stays main unless it leaves, and then the survivor of lowest
\* position succeeds it, or an image that has just joined takes its place.
SuccessionOK(p) ==
    LET before == ImagesOf(images, p)
        after  == ImagesOf(images', p)
    IN  \A m \in Mains(images, p) :
            \/ m \in Mains(images', p)
            \/ m \in after /\ \E s \in Mains(images', p) : s \notin before
            \/ m \notin after /\ after = {}
            \/ m \notin after /\ \E s \in Lowest(images, before \ {m}) :
                                   Mains(images', p) = {s}

MainSuccession == [][\A p \in Properties : SuccessionOK(p)]_vars

\* The gallery of a soft-deleted listing does not change, even when the
\* deletion lands while an image operation is under way: what a later Restore
\* brings back is what was deleted.
Frozen(p) ==
    \A i \in ImagesOf(images, p) \cup ImagesOf(images', p) : images'[i] = images[i]

DeletedGalleryFrozen ==
    [][\A p \in Properties : p \notin live \cap live' => Frozen(p)]_vars

\* Every row that appears, changes or disappears belongs to the listing named
\* by a request of that listing's owner (verifyOwner, and the property_id
\* condition on the image fetched for removal).
ByOwner(i) ==
    \E r \in Requests :
        /\ pc[r] = "commit" /\ pc'[r] = "committed"
        /\ Owner[req[r].property] = req[r].caller
        /\ \A row \in {images[i], images'[i]} \ {NoRow} : row.property = req[r].property

OnlyOwnerChanges ==
    [][\A i \in Images : images'[i] # images[i] => ByOwner(i)]_vars

\* Every request that reached the service is answered: no deadlock on the row
\* lock, and no lock outlives its request.
AllAnswered == \A r \in Requests : pc[r] = "lock" ~> pc[r] = "done"

\* The transactions implement the atomic operations of ImageGallery.
Gallery == INSTANCE ImageGallery WITH images <- images, live <- live

ImplementsGallery == Gallery!Spec
=============================================================================
