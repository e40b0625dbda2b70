-------------------------- MODULE PropertyListings --------------------------
(***************************************************************************)
(* The life of a listing: create, update, renew, mark rented or available, *)
(* delete and restore, with many requests in flight.  None of these reads  *)
(* inside the transaction it writes in: a request fetches the row, checks  *)
(* the owner, edits its copy, and writes later, so anything may happen in  *)
(* between.  One action per database statement.                            *)
(*                                                                         *)
(* Save, the write of update, renew and mark, stores every column of the   *)
(* copy.  It is an UPDATE ... WHERE deleted_at IS NULL and, when that      *)
(* matches no row, a second statement: INSERT ... ON CONFLICT (id) DO      *)
(* UPDATE, which stores the copy, deleted_at NULL included.                *)
(***************************************************************************)
EXTENDS Integers

CONSTANTS Properties,   \* listing ids
          Users,
          Requests,     \* RPCs that may be in flight at once
          Contents,     \* values of the columns an update sets
          Days,         \* the windows IsValidExpirationDays offers
          MaxNow,       \* bound on the clock, in days
          None          \* no row, no argument, no reply yet

Row == [owner : Users, expires_at : Nat, content : Contents, is_rented : BOOLEAN,
        deleted : BOOLEAN]

ASSUME PropertyListingsAssumption ==
    /\ Days \subseteq Nat
    /\ MaxNow \in Nat
    /\ None \notin Row \cup Properties \cup Contents \cup Days

VARIABLES row,        \* the properties table
          complete,   \* users with a name and a phone number on file
          now,        \* the clock
          pc,         \* the statement each request issues next
          req,        \* its arguments and the row it has fetched
          reply,      \* the code of its last answer
          overtaken   \* history: requests that will write on a reading that
                      \* others have meanwhile made out of date

vars == <<row, complete, now, pc, req, reply, overtaken>>

Saves == {"update", "renew", "rent", "unrent"}
Ops   == Saves \cup {"create", "delete", "restore", "profile"}
PC    == {"idle", "check", "insert", "read", "save", "upsert", "delete", "restore", "profile"}
Codes == {"ok", "not_found", "failed_precondition", "internal"}

Req == [caller : Users, copy : Row \cup {None}, property : Properties \cup {None},
        op : Ops, content : Contents \cup {None}, days : Days \cup {None},
        filled : BOOLEAN]

\* The wire code of a service error.
UnmappedCodeOf(err) == err                                         \* mutant
CodeOf(err) ==
    CASE err \in {"ErrNotOwner", "ErrRecordNotFound"} -> "not_found"
      [] err = "ErrIncompleteProfile"                 -> "failed_precondition"
      [] OTHER                                        -> "internal"

Answer(r, code) ==
    /\ pc' = [pc EXCEPT ![r] = "idle"]
    /\ req' = [req EXCEPT ![r] = None]
    /\ reply' = [reply EXCEPT ![r] = code]

\* A write is committed; what follows it (its acknowledgement, the main image
\* lookup of the handler) may still fail.
Wrote(r) == \E code \in {"ok", CodeOf("error")} : Answer(r, code)

Goto(r, label) == pc' = [pc EXCEPT ![r] = label] /\ UNCHANGED <<req, reply>>

Stored(r) == row[req[r].property]

Put(r, new) == row' = [row EXCEPT ![req[r].property] = new]

-----------------------------------------------------------------------------
Init == /\ row = [p \in Properties |-> None]
        /\ complete \in SUBSET Users
        /\ now = 0
        /\ pc = [r \in Requests |-> "idle"]
        /\ req = [r \in Requests |-> None]
        /\ reply = [r \in Requests |-> None]
        /\ overtaken = {}

\* A handler has validated its message and calls the service.
Call(r, label, args) ==
    /\ pc[r] = "idle"
    /\ pc' = [pc EXCEPT ![r] = label]
    /\ req' = [req EXCEPT ![r] = args]
    /\ reply' = [reply EXCEPT ![r] = None]
    /\ UNCHANGED <<row, complete, now>>

Args(op, p, u) ==
    [caller |-> u, copy |-> None, property |-> p, op |-> op, content |-> None,
     days |-> None, filled |-> FALSE]

CallCreate(r) ==
    \E u \in Users, content \in Contents, days \in Days :
        Call(r, "check", [Args("create", None, u) EXCEPT
            !.copy = [owner |-> u, expires_at |-> now + days, content |-> content,
                      is_rented |-> FALSE, deleted |-> FALSE]])

CallUpdate(r) ==
    \E p \in Properties, u \in Users, content \in Contents :
        Call(r, "read", [Args("update", p, u) EXCEPT !.content = content])

CallRenew(r) ==
    \E p \in Properties, u \in Users, days \in Days :
        Call(r, "read", [Args("renew", p, u) EXCEPT !.days = days])

CallOther(r) ==
    \E p \in Properties, u \in Users, op \in {"rent", "unrent", "delete", "restore"} :
        Call(r, "read", Args(op, p, u))

CallUpdateMe(r) ==
    \E u \in Users, filled \in BOOLEAN :
        Call(r, "profile", [Args("profile", None, u) EXCEPT !.filled = filled])

\* UpdateContact: name and phone become what the caller sent, blank or not.
UpdateContact(r) ==
    /\ pc[r] = "profile"
    /\ complete' = IF req[r].filled THEN complete \cup {req[r].caller}
                                    ELSE complete \ {req[r].caller}
    /\ Wrote(r)
    /\ UNCHANGED <<row, now>>

AnyProfile(r) == TRUE                                              \* mutant
ProfileOnFile(r) == req[r].caller \in complete

\* CreateProperty: the owner's profile is read first ...
CheckProfile(r) ==
    /\ pc[r] = "check"
    /\ \/ ~ProfileOnFile(r) /\ Answer(r, CodeOf("ErrIncompleteProfile"))
       \/ ProfileOnFile(r) /\ Goto(r, "insert")
    /\ UNCHANGED <<row, complete, now>>

\* ... and the listing inserted in a transaction of its own.
InsertProperty(r) ==
    /\ pc[r] = "insert"
    /\ \E p \in Properties : row[p] = None /\ row' = [row EXCEPT ![p] = req[r].copy]
    /\ Wrote(r)
    /\ UNCHANGED <<complete, now>>

\* First hides deleted rows; restore reads Unscoped.
Unscoped(r) == Stored(r) # None                                      \* mutant
Visible(r) == Stored(r) # None /\ (Stored(r).deleted => req[r].op = "restore")

AnyCaller(r) == TRUE                                               \* mutant
verifyOwner(r) == Stored(r).owner = req[r].caller

\* RenewProperty starts a fresh window now and leaves is_rented alone.
RenewedLater(old, days)  ==                                        \* mutant
    [old EXCEPT !.expires_at = @ + days]
RenewedVacant(old, days) ==                                        \* mutant
    [old EXCEPT !.expires_at = now + days, !.is_rented = FALSE]
Renewed(old, days) == [old EXCEPT !.expires_at = now + days]

\* The copy a request writes, made from the row it has fetched.
Edited(q, old) ==
    CASE q.op = "update" -> [old EXCEPT !.content = q.content]
      [] q.op = "renew"  -> Renewed(old, q.days)
      [] q.op = "rent"   -> [old EXCEPT !.is_rented = TRUE]
      [] q.op = "unrent" -> [old EXCEPT !.is_rented = FALSE]
      [] OTHER           -> old

ReadProperty(r) ==
    /\ pc[r] = "read"
    /\ \/ ~Visible(r) /\ Answer(r, CodeOf("ErrRecordNotFound"))
       \/ Visible(r) /\ ~verifyOwner(r) /\ Answer(r, CodeOf("ErrNotOwner"))
       \/ /\ Visible(r) /\ verifyOwner(r)
          /\ pc' = [pc EXCEPT ![r] = IF req[r].op \in Saves THEN "save" ELSE req[r].op]
          /\ req' = [req EXCEPT ![r].copy = Edited(req[r], Stored(r))]
          /\ UNCHANGED reply
    /\ UNCHANGED <<row, complete, now>>

\* Save, first statement.
SaveUpdate(r) ==
    /\ pc[r] = "save"
    /\ \/ ~Stored(r).deleted /\ Put(r, req[r].copy) /\ Wrote(r)
       \/ Stored(r).deleted /\ Goto(r, "upsert") /\ UNCHANGED row
    /\ UNCHANGED <<complete, now>>

\* Save, second statement.
SaveUpsert(r) ==
    /\ pc[r] = "upsert"
    /\ Put(r, [req[r].copy EXCEPT !.deleted = FALSE])
    /\ Wrote(r)
    /\ UNCHANGED <<complete, now>>

\* DeletePropertyByID writes deleted_at where it is NULL, and reports not found
\* when RowsAffected is 0.
NoRowsAffectedCheck(r) == TRUE                                     \* mutant
Affected(r) == ~Stored(r).deleted

DeleteProperty(r) ==
    /\ pc[r] = "delete"
    /\ Put(r, [Stored(r) EXCEPT !.deleted = TRUE])
    /\ \/ Affected(r) /\ Wrote(r)
       \/ ~Affected(r) /\ Answer(r, CodeOf("ErrRecordNotFound"))
    /\ UNCHANGED <<complete, now>>

\* RestoreProperty updates one column of whatever the row holds by now.
RestoredCopy(r) == [req[r].copy EXCEPT !.deleted = FALSE]          \* mutant
Restored(r) == [Stored(r) EXCEPT !.deleted = FALSE]

RestoreProperty(r) ==
    /\ pc[r] = "restore"
    /\ Put(r, Restored(r))
    /\ Wrote(r)
    /\ UNCHANGED <<complete, now>>

\* A statement fails, the connection drops or the server dies before a write.
Fail(r) ==
    /\ pc[r] # "idle"
    /\ Answer(r, CodeOf("error"))
    /\ UNCHANGED <<row, complete, now>>

Tick ==
    /\ now < MaxNow
    /\ now' = now + 1
    /\ UNCHANGED <<row, complete, pc, req, reply>>

\* From its reading to its write a request holds a copy, or the knowledge that
\* the owner's profile is complete.
Holding(r) == pc[r] \in {"save", "upsert", "delete", "restore"}
AtWrite(r) == Holding(r) \/ pc[r] = "insert"

\* The present step changes what r has read.
OutOfDate(r) ==
    \/ Holding(r) /\ row'[req[r].property] # Stored(r)
    \/ pc[r] = "insert" /\ req[r].caller \notin complete'

\* It matters until the request has written.
Overtake ==
    overtaken' = {r \in Requests : /\ AtWrite(r) /\ pc'[r] # "idle"
                                   /\ r \in overtaken \/ OutOfDate(r)}

Step ==
    \/ \E r \in Requests :
           \/ CallCreate(r)
           \/ CallUpdate(r)
           \/ CallRenew(r)
           \/ CallOther(r)
           \/ CallUpdateMe(r)
           \/ UpdateContact(r)
           \/ CheckProfile(r)
           \/ InsertProperty(r)
           \/ ReadProperty(r)
           \/ SaveUpdate(r)
           \/ SaveUpsert(r)
           \/ DeleteProperty(r)
           \/ RestoreProperty(r)
           \/ Fail(r)
    \/ Tick

Next == Step /\ Overtake

Spec == Init /\ [][Next]_vars

-----------------------------------------------------------------------------
ProgramTypeOK ==
    /\ row \in [Properties -> Row \cup {None}]
    /\ complete \in SUBSET Users
    /\ now \in 0 .. MaxNow
    /\ pc \in [Requests -> PC]
    /\ req \in [Requests -> Req \cup {None}]
    /\ reply \in [Requests -> Codes \cup {None}]

TypeOK == ProgramTypeOK /\ overtaken \in SUBSET Requests

\* No listing is ever advertised beyond an allowed window counted from a moment
\* that has already come, however often and concurrently it is renewed.
Window(expires_at) == \E t \in 0 .. now, d \in Days : expires_at = t + d

ExpiryInWindow == \A p \in Properties : row[p] # None => Window(row[p].expires_at)

\* A listing's row changes only by a request of its owner, and the owner never
\* changes, although the owner is checked on a copy that may be stale by the
\* time it is written (verifyOwner).
ByOwner(p) ==
    /\ row'[p] # None
    /\ row[p] # None => row'[p].owner = row[p].owner
    /\ \E r \in Requests : pc'[r] # pc[r] /\ req[r].caller = row'[p].owner

OnlyOwnerChanges ==
    [][\A p \in Properties : row'[p] # row[p] => ByOwner(p)]_vars

\* Of two deletions of the same listing only one is told that it worked.
DeleteOnce ==
    [][\A r \in Requests :
           pc[r] = "delete" /\ pc'[r] = "idle" /\ reply'[r] = "ok"
               => ~row[req[r].property].deleted /\ row'[req[r].property].deleted]_vars

\* A deleted listing comes back only by RestoreProperty: a statement scoped to
\* live rows does not touch it.
DeletedUntilRestored ==
    [][\A p \in Properties :
           row[p] # None /\ row[p].deleted /\ ~row'[p].deleted
               => \E r \in Requests :
                      pc[r] = "restore" /\ pc'[r] = "idle" /\ req[r].property = p]_vars

\* Renewing leaves is_rented untouched.
Renewing(r) == pc[r] \in {"save", "upsert"} /\ pc'[r] = "idle" /\ req[r].op = "renew"

RenewLeavesRented ==
    [][\A r \in Requests :
           Renewing(r) => LET p == req[r].property
                          IN  row'[p].is_rented = row[p].is_rented]_vars

\* No listing is created for an owner whose name or phone is missing.
CreateNeedsProfile ==
    [][\A p \in Properties :
           row[p] = None /\ row'[p] # None => row'[p].owner \in complete]_vars

-----------------------------------------------------------------------------
\* No request is overtaken.  Nothing in the code sees to it: a row lock, as the
\* image operations take it, would.
NoneOvertaken == overtaken = {}

\* Requests that are not overtaken implement the atomic operations of ListingBook.
Book == INSTANCE ListingBook

ImplementsBook == Book!Spec

\* Requests that are can do no worse than write copies of an earlier time.
ImplementsLateBook == Book!LateSpec

\* The operation that the caller of r has asked for.
AskedFor(r) ==
    LET op == req[r].op
        p  == req[r].property
    IN  \/ op = "create"  /\ \E new \in Properties : Book!Create(new)
        \/ op = "update"  /\ Book!Update(p) /\ row'[p].content = req[r].content
        \/ op = "renew"   /\ Book!Renew(p)
        \/ op = "rent"    /\ Book!MarkRented(p)
        \/ op = "unrent"  /\ Book!MarkAvailable(p)
        \/ op = "delete"  /\ Book!Delete(p)
        \/ op = "restore" /\ Book!Restore(p)

\* Whatever other requests do in between, one that nobody has overtaken changes
\* the listing as it was asked to and in nothing else: a lost update, a stale
\* is_rented, a deletion undone or a listing without a contact needs another
\* request's write between its reading and its own.  A deletion or a restore,
\* which writes deleted_at alone, cannot undo anything even then.
AtomicUnlessOvertaken ==
    [][\A r \in Requests :
           AtWrite(r) /\ pc'[r] = "idle" /\ row' # row
               => \/ AskedFor(r)
                  \/ r \in overtaken /\ req[r].op \notin {"delete", "restore"}]_vars
=============================================================================
