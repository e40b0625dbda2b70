----------------------------- MODULE ListingBook -----------------------------
(***************************************************************************)
(* What the listing operations promise: each one happens at a single       *)
(* instant, touches one listing and only the columns it is about, and      *)
(* finds the listing in the state the operation needs.  PropertyListings,  *)
(* whose requests read a row and write it later, implements this Spec as   *)
(* long as no two requests hold a copy of one listing at the same time,    *)
(* and LateSpec, which is all that is left of it, when they do.            *)
(***************************************************************************)
EXTENDS Integers

CONSTANTS Properties, Users, Contents, Days, None

VARIABLES row,        \* the properties table
          complete,   \* users with a name and a phone number on file
          now         \* the clock

vars == <<row, complete, now>>

Init == /\ row = [p \in Properties |-> None]
        /\ complete \in SUBSET Users
        /\ now = 0

\* The ends of the windows counted from a moment that has come.
Ends == {t + d : t \in 0 .. now, d \in Days}

Put(p, new) == row' = [row EXCEPT ![p] = new] /\ UNCHANGED <<complete, now>>

CreateFor(p, u) ==
    /\ row[p] = None
    /\ \E content \in Contents, expires_at \in Ends :
           Put(p, [owner |-> u, expires_at |-> expires_at, content |-> content,
                   is_rented |-> FALSE, deleted |-> FALSE])

\* Only for an owner with a complete profile, neither rented nor deleted.
Create(p) == \E u \in complete : CreateFor(p, u)

\* A listing on the books, and one that was taken off them.
Listed(p)    == row[p] # None /\ ~row[p].deleted
Withdrawn(p) == row[p] # None /\ row[p].deleted

Update(p) ==
    Listed(p) /\ \E content \in Contents : Put(p, [row[p] EXCEPT !.content = content])

Renew(p) ==
    Listed(p) /\ \E expires_at \in Ends : Put(p, [row[p] EXCEPT !.expires_at = expires_at])

MarkRented(p)    == Listed(p) /\ Put(p, [row[p] EXCEPT !.is_rented = TRUE])
MarkAvailable(p) == Listed(p) /\ Put(p, [row[p] EXCEPT !.is_rented = FALSE])

Delete(p)  == Listed(p)    /\ Put(p, [row[p] EXCEPT !.deleted = TRUE])
Restore(p) == Withdrawn(p) /\ Put(p, [row[p] EXCEPT !.deleted = FALSE])

UpdateContact(u) ==
    /\ complete' \in {complete \cup {u}, complete \ {u}}
    /\ UNCHANGED <<row, now>>

Tick == now' = now + 1 /\ UNCHANGED <<row, complete>>

Next ==
    \/ \E p \in Properties :
           \/ Create(p) \/ Update(p) \/ Renew(p) \/ MarkRented(p) \/ MarkAvailable(p)
           \/ Delete(p) \/ Restore(p)
    \/ \E u \in Users : UpdateContact(u)
    \/ Tick

Spec == Init /\ [][Next]_vars

-----------------------------------------------------------------------------
\* An edited copy of an earlier time takes the listing's place: it may undo what
\* happened meanwhile to any column but the owner, and ends a deletion.
Overwrite(p) ==
    /\ row[p] # None
    /\ \E content \in Contents, expires_at \in Ends, is_rented \in BOOLEAN :
           Put(p, [owner |-> row[p].owner, expires_at |-> expires_at, content |-> content,
                   is_rented |-> is_rented, deleted |-> FALSE])

\* The profile was complete when it was looked at.
CreateLate(p) == \E u \in Users : CreateFor(p, u)

LateNext == Next \/ \E p \in Properties : Overwrite(p) \/ CreateLate(p)

LateSpec == Init /\ [][LateNext]_vars
=============================================================================
