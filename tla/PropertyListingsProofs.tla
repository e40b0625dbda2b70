----------------------- MODULE PropertyListingsProofs -----------------------
(***************************************************************************)
(* What survives the gap between reading a listing and writing it.  A copy *)
(* may be stale in every column but the owner, which no operation changes, *)
(* so the ownership check made on it still holds when it is written; and   *)
(* its expiry, however old, is still counted from a moment that has come.  *)
(***************************************************************************)
EXTENDS PropertyListings, TLAPS

\* A row that request q may write: its caller's, with an expiry in a window.
Writable(q, new) ==
    /\ new \in Row
    /\ new.owner = q.caller
    /\ Window(new.expires_at)

ReqInv(r) ==
    /\ pc[r] # "idle" => req[r] \in Req
    /\ pc[r] \in {"check", "insert"} => Writable(req[r], req[r].copy)
    /\ pc[r] \in {"read", "save", "upsert", "delete", "restore"} =>
           req[r].property \in Properties
    /\ pc[r] = "read" =>
           /\ req[r].op \in Saves \cup {"delete", "restore"}
           /\ req[r].op = "update" => req[r].content \in Contents
           /\ req[r].op = "renew" => req[r].days \in Days
    /\ pc[r] \in {"save", "upsert", "delete", "restore"} =>
           /\ Stored(r) # None
           /\ Stored(r).owner = req[r].caller
           /\ Writable(req[r], req[r].copy)

IInv == ProgramTypeOK /\ ExpiryInWindow /\ \A r \in Requests : ReqInv(r)

-----------------------------------------------------------------------------
\* A clock that advances keeps every window, and a window from now is one.
LEMMA WindowLater ==
    ASSUME ProgramTypeOK, now' \in 0 .. MaxNow, now <= now', NEW e, Window(e)
    PROVE  Window(e)'
<1>1. PICK t \in 0 .. now, d \in Days : e = t + d
  BY DEF Window
<1>2. t \in 0 .. now'
  BY PropertyListingsAssumption DEF ProgramTypeOK
<1> QED BY <1>1, <1>2 DEF Window

LEMMA WindowNow ==
    ASSUME ProgramTypeOK, NEW d \in Days
    PROVE  now + d \in Nat /\ Window(now + d)
<1>1. now \in Nat /\ now \in 0 .. now /\ d \in Nat
  BY PropertyListingsAssumption DEF ProgramTypeOK
<1> QED BY <1>1 DEF Window

\* A step of request r that changes one listing, or none, need only account
\* for what it writes and for its own request.
LEMMA OwnStep ==
    ASSUME IInv, NEW r \in Requests, UNCHANGED now,
           ProgramTypeOK',
           \A p \in Properties : row'[p] # row[p] =>
               /\ row'[p] \in Row
               /\ row[p] # None => row'[p].owner = row[p].owner
               /\ Window(row'[p].expires_at),
           \A o \in Requests \ {r} : pc'[o] = pc[o] /\ req'[o] = req[o],
           ReqInv(r)'
    PROVE  IInv'
<1>1. \A e : Window(e)' <=> Window(e)
  BY DEF Window
<1>2. ExpiryInWindow'
  BY <1>1 DEF IInv, ExpiryInWindow
<1>3. None \notin Row
  BY PropertyListingsAssumption
<1>4. ASSUME NEW o \in Requests, o # r PROVE ReqInv(o)'
  <2>1. pc'[o] = pc[o] /\ req'[o] = req[o] /\ ReqInv(o)
    BY <1>4 DEF IInv
  <2>2. \A q, new : Writable(q, new)' <=> Writable(q, new)
    BY <1>1 DEF Writable
  <2>3. \A p \in Properties : row[p] # None =>
            row'[p] # None /\ row'[p].owner = row[p].owner
    BY <1>3 DEF IInv, ProgramTypeOK
  <2> QED BY <2>1, <2>2, <2>3 DEF ReqInv, Stored
<1> QED BY <1>2, <1>4 DEF IInv

LEMMA AnswerFacts ==
    ASSUME ProgramTypeOK, NEW r \in Requests, NEW code \in Codes, Answer(r, code)
    PROVE  /\ pc' \in [Requests -> PC] /\ pc'[r] = "idle"
           /\ req' \in [Requests -> Req \cup {None}]
           /\ reply' \in [Requests -> Codes \cup {None}] /\ reply'[r] = code
           /\ \A o \in Requests \ {r} : pc'[o] = pc[o] /\ req'[o] = req[o]
           /\ ReqInv(r)'
<1>1. /\ pc' \in [Requests -> PC] /\ pc'[r] = "idle"
      /\ req' \in [Requests -> Req \cup {None}]
      /\ reply' \in [Requests -> Codes \cup {None}] /\ reply'[r] = code
      /\ \A o \in Requests \ {r} : pc'[o] = pc[o] /\ req'[o] = req[o]
  BY DEF Answer, ProgramTypeOK, PC
<1> QED BY <1>1 DEF ReqInv

LEMMA CodeType == \A err : CodeOf(err) \in Codes
  BY DEF CodeOf, Codes

LEMMA WroteFacts ==
    ASSUME NEW r \in Requests, Wrote(r)
    PROVE  \E code \in Codes : Answer(r, code)
  BY CodeType DEF Wrote, Codes

\* A request that answers without writing.
LEMMA AnswerOnly ==
    ASSUME IInv, NEW r \in Requests, NEW code \in Codes, Answer(r, code),
           UNCHANGED <<row, now>>, complete' \in SUBSET Users
    PROVE  IInv'
<1>1. ProgramTypeOK'
  BY AnswerFacts DEF IInv, ProgramTypeOK
<1> QED BY <1>1, AnswerFacts, OwnStep DEF IInv

\* A request that writes its listing and answers.
LEMMA PutStep ==
    ASSUME IInv, NEW r \in Requests, pc[r] \in {"save", "upsert", "delete", "restore"},
           NEW new, Writable(req[r], new), Put(r, new),
           NEW code \in Codes, Answer(r, code), UNCHANGED <<complete, now>>
    PROVE  IInv'
<1>1. req[r].property \in Properties /\ Stored(r) # None /\ Stored(r).owner = req[r].caller
  BY DEF IInv, ReqInv
<1>2. new \in Row /\ new.owner = req[r].caller /\ Window(new.expires_at)
  BY DEF Writable
<1>3. \A p \in Properties : row'[p] = IF p = req[r].property THEN new ELSE row[p]
  BY <1>1 DEF Put, IInv, ProgramTypeOK
<1>4. row' \in [Properties -> Row \cup {None}]
  BY <1>1, <1>2 DEF Put, IInv, ProgramTypeOK
<1>5. ProgramTypeOK'
  BY <1>4, AnswerFacts DEF IInv, ProgramTypeOK
<1>6. \A p \in Properties : row'[p] # row[p] =>
          /\ row'[p] \in Row
          /\ row[p] # None => row'[p].owner = row[p].owner
          /\ Window(row'[p].expires_at)
  BY <1>1, <1>2, <1>3 DEF Stored
<1> QED BY <1>5, <1>6, AnswerFacts, OwnStep DEF IInv

-----------------------------------------------------------------------------
LEMMA InitIInv == Init => IInv
  BY PropertyListingsAssumption
  DEF Init, IInv, ProgramTypeOK, ExpiryInWindow, ReqInv, PC, Codes

\* What every call has in common.
LEMMA CallStep ==
    ASSUME IInv, NEW r \in Requests, NEW label \in PC, NEW args \in Req,
           Call(r, label, args),
           label \in {"check", "insert"} => Writable(args, args.copy),
           label = "read" =>
               /\ args.property \in Properties
               /\ args.op \in Saves \cup {"delete", "restore"}
               /\ args.op = "update" => args.content \in Contents
               /\ args.op = "renew" => args.days \in Days,
           label \notin {"save", "upsert", "delete", "restore"}
    PROVE  IInv'
<1>1. /\ pc' \in [Requests -> PC] /\ pc'[r] = label
      /\ req' \in [Requests -> Req \cup {None}] /\ req'[r] = args
      /\ reply' \in [Requests -> Codes \cup {None}]
      /\ \A o \in Requests \ {r} : pc'[o] = pc[o] /\ req'[o] = req[o]
      /\ UNCHANGED <<row, complete, now>>
  BY DEF Call, IInv, ProgramTypeOK
<1>2. ProgramTypeOK'
  BY <1>1 DEF IInv, ProgramTypeOK
<1>3. Writable(args, args.copy)' <=> Writable(args, args.copy)
  BY <1>1 DEF Writable, Window
<1>4. ReqInv(r)'
  BY <1>1, <1>3 DEF ReqInv, Writable, Window
<1> QED BY <1>1, <1>2, <1>4, OwnStep

LEMMA ArgsType ==
    ASSUME NEW op \in Ops, NEW p \in Properties \cup {None}, NEW u \in Users
    PROVE  Args(op, p, u) \in Req
  BY DEF Args, Req

LEMMA CallsStep ==
    ASSUME IInv, NEW r \in Requests,
           CallCreate(r) \/ CallUpdate(r) \/ CallRenew(r) \/ CallOther(r) \/ CallUpdateMe(r)
    PROVE  IInv'
<1>1. CASE CallCreate(r)
  <2>1. PICK u \in Users, content \in Contents, days \in Days :
            Call(r, "check", [Args("create", None, u) EXCEPT
                !.copy = [owner |-> u, content |-> content, expires_at |-> now + days,
                          is_rented |-> FALSE, deleted |-> FALSE]])
    BY <1>1 DEF CallCreate
  <2> DEFINE new  == [owner |-> u, content |-> content, expires_at |-> now + days,
                      is_rented |-> FALSE, deleted |-> FALSE]
             args == [Args("create", None, u) EXCEPT !.copy = new]
  <2>2. now + days \in Nat /\ Window(now + days)
    BY WindowNow DEF IInv
  <2>3. new \in Row /\ new.owner = u /\ Window(new.expires_at)
    BY <2>2 DEF Row
  <2>4. args \in Req /\ args.caller = u /\ args.copy = new
    <3> HIDE DEF new
    <3> QED BY <2>3 DEF Args, Req, Ops
  <2>5. Writable(args, args.copy)
    <3> HIDE DEF new, args
    <3> QED BY <2>3, <2>4 DEF Writable
  <2>6. Call(r, "check", args)
    BY <2>1
  <2> HIDE DEF new, args
  <2> QED BY <2>4, <2>5, <2>6, CallStep DEF PC
<1>2. CASE CallUpdate(r)
  <2>1. PICK p \in Properties, u \in Users, content \in Contents :
            Call(r, "read", [Args("update", p, u) EXCEPT !.content = content])
    BY <1>2 DEF CallUpdate
  <2> DEFINE args == [Args("update", p, u) EXCEPT !.content = content]
  <2>2. args \in Req /\ args.property = p /\ args.op = "update" /\ args.content = content
    BY DEF Args, Req, Ops, Saves
  <2> HIDE DEF args
  <2>3. Call(r, "read", args)
    BY <2>1 DEF args
  <2> QED BY <2>2, <2>3, CallStep DEF PC, Saves
<1>3. CASE CallRenew(r)
  <2>1. PICK p \in Properties, u \in Users, days \in Days :
            Call(r, "read", [Args("renew", p, u) EXCEPT !.days = days])
    BY <1>3 DEF CallRenew
  <2> DEFINE args == [Args("renew", p, u) EXCEPT !.days = days]
  <2>2. args \in Req /\ args.property = p /\ args.op = "renew" /\ args.days = days
    BY DEF Args, Req, Ops, Saves
  <2>3. Call(r, "read", args)
    BY <2>1
  <2> HIDE DEF args
  <2> QED BY <2>2, <2>3, CallStep DEF PC, Saves
<1>4. CASE CallOther(r)
  <2>1. PICK p \in Properties, u \in Users, op \in {"rent", "unrent", "delete", "restore"} :
            Call(r, "read", Args(op, p, u))
    BY <1>4 DEF CallOther
  <2> DEFINE args == Args(op, p, u)
  <2>2. args \in Req /\ args.property = p /\ args.op = op
    BY DEF Args, Req, Ops, Saves
  <2> HIDE DEF args
  <2>3. Call(r, "read", args)
    BY <2>1 DEF args
  <2> QED BY <2>2, <2>3, CallStep DEF PC, Saves
<1>5. CASE CallUpdateMe(r)
  <2>1. PICK u \in Users, filled \in BOOLEAN :
            Call(r, "profile", [Args("profile", None, u) EXCEPT !.filled = filled])
    BY <1>5 DEF CallUpdateMe
  <2> DEFINE args == [Args("profile", None, u) EXCEPT !.filled = filled]
  <2>2. args \in Req
    BY DEF Args, Req, Ops
  <2>3. Call(r, "profile", args)
    BY <2>1
  <2> HIDE DEF args
  <2> QED BY <2>2, <2>3, CallStep DEF PC
<1> QED BY <1>1, <1>2, <1>3, <1>4, <1>5

-----------------------------------------------------------------------------
LEMMA UpdateContactStep ==
    ASSUME IInv, NEW r \in Requests, UpdateContact(r)
    PROVE  IInv'
<1>1. PICK code \in Codes : Answer(r, code)
  BY WroteFacts DEF UpdateContact
<1>2. req[r] \in Req
  BY DEF UpdateContact, IInv, ReqInv
<1>3. complete' \in SUBSET Users
  BY <1>2 DEF UpdateContact, IInv, ProgramTypeOK, Req
<1> QED BY <1>1, <1>3, AnswerOnly DEF UpdateContact

\* A request that moves on without writing.
LEMMA GotoStep ==
    ASSUME IInv, NEW r \in Requests, NEW label \in PC, Goto(r, label),
           UNCHANGED <<row, complete, now>>,
           \/ pc[r] = "check" /\ label = "insert"
           \/ pc[r] = "save" /\ label = "upsert"
    PROVE  IInv'
<1>1. /\ pc' \in [Requests -> PC] /\ pc'[r] = label /\ UNCHANGED <<req, reply>>
      /\ \A o \in Requests \ {r} : pc'[o] = pc[o]
  BY DEF Goto, IInv, ProgramTypeOK
<1>2. ProgramTypeOK'
  BY <1>1 DEF IInv, ProgramTypeOK
<1>3. Writable(req[r], req[r].copy)' <=> Writable(req[r], req[r].copy)
  BY <1>1 DEF Writable, Window
<1>4. ReqInv(r) /\ pc[r] \in {"check", "save"} /\ label \in {"insert", "upsert"}
  BY DEF IInv
<1>5. ReqInv(r)'
  BY <1>1, <1>3, <1>4 DEF ReqInv, Stored
<1> QED BY <1>1, <1>2, <1>5, OwnStep

LEMMA CheckProfileStep ==
    ASSUME IInv, NEW r \in Requests, CheckProfile(r)
    PROVE  IInv'
<1>1. CASE Answer(r, CodeOf("ErrIncompleteProfile"))
  <2>1. complete' \in SUBSET Users
    BY DEF CheckProfile, IInv, ProgramTypeOK
  <2> QED BY <1>1, <2>1, CodeType, AnswerOnly DEF CheckProfile
<1>2. CASE Goto(r, "insert")
  BY <1>2, GotoStep DEF CheckProfile, PC
<1> QED BY <1>1, <1>2 DEF CheckProfile

LEMMA InsertPropertyStep ==
    ASSUME IInv, NEW r \in Requests, InsertProperty(r)
    PROVE  IInv'
<1>1. PICK code \in Codes : Answer(r, code)
  BY WroteFacts DEF InsertProperty
<1>2. PICK p \in Properties : row[p] = None /\ row' = [row EXCEPT ![p] = req[r].copy]
  BY DEF InsertProperty
<1>3. req[r].copy \in Row /\ Window(req[r].copy.expires_at)
  BY DEF InsertProperty, IInv, ReqInv, Writable
<1>4. row' \in [Properties -> Row \cup {None}]
  BY <1>2, <1>3 DEF IInv, ProgramTypeOK
<1>5. ProgramTypeOK'
  BY <1>1, <1>4, AnswerFacts DEF InsertProperty, IInv, ProgramTypeOK
<1>6. \A o \in Properties : row'[o] = IF o = p THEN req[r].copy ELSE row[o]
  BY <1>2 DEF IInv, ProgramTypeOK
<1>7. \A o \in Properties : row'[o] # row[o] =>
          /\ row'[o] \in Row
          /\ row[o] # None => row'[o].owner = row[o].owner
          /\ Window(row'[o].expires_at)
  BY <1>2, <1>3, <1>6
<1> QED BY <1>1, <1>5, <1>7, AnswerFacts, OwnStep DEF InsertProperty, IInv

\* The copy made from the caller's row is one the caller may write.
LEMMA EditedWritable ==
    ASSUME IInv, NEW r \in Requests, pc[r] = "read", Stored(r) # None,
           Stored(r).owner = req[r].caller
    PROVE  Writable(req[r], Edited(req[r], Stored(r)))
<1> DEFINE q == req[r]  old == Stored(r)
<1>1. /\ q.property \in Properties
      /\ q.op \in Saves \cup {"delete", "restore"}
      /\ q.op = "update" => q.content \in Contents
      /\ q.op = "renew" => q.days \in Days
  BY DEF IInv, ReqInv
<1>2. old \in Row /\ Window(old.expires_at)
  BY <1>1 DEF IInv, ProgramTypeOK, ExpiryInWindow, Stored
<1>3. \A days \in Days : now + days \in Nat /\ Window(now + days)
  BY WindowNow DEF IInv
<1>4. old.owner = q.caller
  OBVIOUS
<1> SUFFICES Writable(q, Edited(q, old))
  OBVIOUS
<1> HIDE DEF q, old
<1>5. CASE q.op = "update"
  BY <1>1, <1>2, <1>4, <1>5 DEF Edited, Writable, Row
<1>6. CASE q.op = "renew"
  <2>1. Edited(q, old) = [old EXCEPT !.expires_at = now + q.days]
    BY <1>6 DEF Edited, Renewed
  <2>2. now + q.days \in Nat /\ Window(now + q.days)
    BY <1>1, <1>3, <1>6
  <2> QED BY <1>2, <1>4, <2>1, <2>2 DEF Writable, Row
<1>7. CASE q.op \in {"rent", "unrent"}
  BY <1>2, <1>4, <1>7 DEF Edited, Writable, Row
<1>8. CASE q.op \in {"delete", "restore"}
  BY <1>2, <1>4, <1>8 DEF Edited, Writable
<1> QED BY <1>1, <1>5, <1>6, <1>7, <1>8 DEF Saves

LEMMA ReadPropertyStep ==
    ASSUME IInv, NEW r \in Requests, ReadProperty(r)
    PROVE  IInv'
<1>1. ASSUME NEW err, Answer(r, CodeOf(err)) PROVE IInv'
  <2>1. complete' \in SUBSET Users
    BY DEF ReadProperty, IInv, ProgramTypeOK
  <2> QED BY <1>1, <2>1, CodeType, AnswerOnly DEF ReadProperty
<1>2. ASSUME Visible(r), verifyOwner(r), UNCHANGED reply,
             pc' = [pc EXCEPT ![r] = IF req[r].op \in Saves THEN "save" ELSE req[r].op],
             req' = [req EXCEPT ![r].copy = Edited(req[r], Stored(r))]
      PROVE  IInv'
  <2> DEFINE q == req[r]  new == Edited(req[r], Stored(r))
             label == IF req[r].op \in Saves THEN "save" ELSE req[r].op
  <2>1. pc[r] = "read" /\ q \in Req /\ q.property \in Properties
        /\ q.op \in Saves \cup {"delete", "restore"}
    BY DEF ReadProperty, IInv, ReqInv
  <2>2. Stored(r) # None /\ Stored(r).owner = q.caller
    BY <1>2 DEF Visible, verifyOwner
  <2>3. Writable(q, new)
    BY <2>1, <2>2, EditedWritable
  <2>4. label \in {"save", "delete", "restore"}
    BY <2>1
  <2>5. pc' \in [Requests -> PC] /\ pc'[r] = label
        /\ \A o \in Requests \ {r} : pc'[o] = pc[o]
    <3> HIDE DEF label
    <3> QED BY <1>2, <2>4 DEF label, IInv, ProgramTypeOK, PC
  <2>6. new \in Row
    BY <2>3 DEF Writable
  <2>7. /\ req' \in [Requests -> Req \cup {None}]
        /\ req'[r] = [q EXCEPT !.copy = new]
        /\ \A o \in Requests \ {r} : req'[o] = req[o]
    <3>1. [q EXCEPT !.copy = new] \in Req
      <4> HIDE DEF q, new
      <4> QED BY <2>1, <2>6 DEF Req
    <3>2. req' = [req EXCEPT ![r] = [q EXCEPT !.copy = new]]
      BY <1>2
    <3> HIDE DEF q, new
    <3> QED BY <3>1, <3>2 DEF IInv, ProgramTypeOK
  <2>8. /\ req'[r] \in Req /\ req'[r].property = q.property
        /\ req'[r].caller = q.caller /\ req'[r].copy = new
    <3> HIDE DEF q, new
    <3> QED BY <2>1, <2>6, <2>7 DEF Req
  <2>9. ProgramTypeOK'
    BY <1>2, <2>5, <2>7 DEF ReadProperty, IInv, ProgramTypeOK
  <2>10. UNCHANGED <<row, now>>
    BY DEF ReadProperty
  <2>11. ReqInv(r)'
    <3>1. Writable(req[r], req[r].copy)'
      <4> HIDE DEF q, new
      <4> QED BY <2>3, <2>8, <2>10 DEF Writable, Window
    <3>2. Stored(r)' = Stored(r)
      <4> HIDE DEF new
      <4> QED BY <2>8, <2>10 DEF Stored
    <3> HIDE DEF label, new
    <3> QED BY <2>1, <2>2, <2>4, <2>5, <2>8, <3>1, <3>2 DEF ReqInv
  <2> HIDE DEF label, q, new
  <2> QED BY <2>5, <2>7, <2>9, <2>10, <2>11, OwnStep
<1> QED BY <1>1, <1>2 DEF ReadProperty

LEMMA SaveUpdateStep ==
    ASSUME IInv, NEW r \in Requests, SaveUpdate(r)
    PROVE  IInv'
<1>1. Writable(req[r], req[r].copy)
  BY DEF SaveUpdate, IInv, ReqInv
<1>2. CASE Put(r, req[r].copy) /\ Wrote(r)
  BY <1>1, <1>2, WroteFacts, PutStep DEF SaveUpdate
<1>3. CASE Goto(r, "upsert") /\ UNCHANGED row
  BY <1>3, GotoStep DEF SaveUpdate, PC
<1> QED BY <1>2, <1>3 DEF SaveUpdate

LEMMA WritableDeleted ==
    ASSUME NEW q, NEW new, Writable(q, new), NEW b \in BOOLEAN
    PROVE  Writable(q, [new EXCEPT !.deleted = b])
  BY DEF Writable, Row

LEMMA SaveUpsertStep ==
    ASSUME IInv, NEW r \in Requests, SaveUpsert(r)
    PROVE  IInv'
<1>1. Writable(req[r], req[r].copy)
  BY DEF SaveUpsert, IInv, ReqInv
<1>2. Writable(req[r], [req[r].copy EXCEPT !.deleted = FALSE])
  BY <1>1, WritableDeleted
<1> QED BY <1>2, WroteFacts, PutStep DEF SaveUpsert

\* The row found at a write is still the caller's.
LEMMA StoredWritable ==
    ASSUME IInv, NEW r \in Requests, pc[r] \in {"delete", "restore"}, NEW b \in BOOLEAN
    PROVE  Writable(req[r], [Stored(r) EXCEPT !.deleted = b])
<1>1. req[r].property \in Properties /\ Stored(r) # None /\ Stored(r).owner = req[r].caller
  BY DEF IInv, ReqInv
<1>2. Stored(r) \in Row /\ Window(Stored(r).expires_at)
  BY <1>1 DEF IInv, ProgramTypeOK, ExpiryInWindow, Stored
<1>3. Writable(req[r], Stored(r))
  BY <1>1, <1>2 DEF Writable
<1> QED BY <1>3, WritableDeleted

LEMMA DeletePropertyStep ==
    ASSUME IInv, NEW r \in Requests, DeleteProperty(r)
    PROVE  IInv'
<1>1. Writable(req[r], [Stored(r) EXCEPT !.deleted = TRUE])
  BY StoredWritable DEF DeleteProperty
<1>2. \E code \in Codes : Answer(r, code)
  BY WroteFacts, CodeType DEF DeleteProperty
<1> QED BY <1>1, <1>2, PutStep DEF DeleteProperty

LEMMA RestorePropertyStep ==
    ASSUME IInv, NEW r \in Requests, RestoreProperty(r)
    PROVE  IInv'
<1>1. Writable(req[r], Restored(r))
  BY StoredWritable DEF RestoreProperty, Restored
<1> QED BY <1>1, WroteFacts, PutStep DEF RestoreProperty

LEMMA FailStep ==
    ASSUME IInv, NEW r \in Requests, Fail(r)
    PROVE  IInv'
<1>1. complete' \in SUBSET Users
  BY DEF Fail, IInv, ProgramTypeOK
<1> QED BY <1>1, CodeType, AnswerOnly DEF Fail

LEMMA TickStep ==
    ASSUME IInv, Tick
    PROVE  IInv'
<1>1. ProgramTypeOK /\ now' = now + 1 /\ now' \in 0 .. MaxNow /\ now <= now'
      /\ UNCHANGED <<row, complete, pc, req, reply>>
  BY PropertyListingsAssumption DEF Tick, IInv, ProgramTypeOK
<1>2. \A e : Window(e) => Window(e)'
  BY <1>1, WindowLater
<1>3. ProgramTypeOK' /\ ExpiryInWindow'
  BY <1>1, <1>2 DEF IInv, ProgramTypeOK, ExpiryInWindow
<1>4. ASSUME NEW r \in Requests PROVE ReqInv(r)'
  <2>1. ReqInv(r)
    BY DEF IInv
  <2>2. \A q, new : Writable(q, new) => Writable(q, new)'
    BY <1>2 DEF Writable
  <2> QED BY <1>1, <2>1, <2>2 DEF ReqInv, Stored
<1> QED BY <1>3, <1>4 DEF IInv

LEMMA NextIInv == IInv /\ [Next]_vars => IInv'
<1> SUFFICES ASSUME IInv, [Next]_vars PROVE IInv'
  OBVIOUS
<1>1. ASSUME NEW r \in Requests,
             \/ CallCreate(r) \/ CallUpdate(r) \/ CallRenew(r) \/ CallOther(r)
             \/ CallUpdateMe(r)
      PROVE  IInv'
  BY <1>1, CallsStep
<1>2. ASSUME NEW r \in Requests,
             \/ UpdateContact(r) \/ CheckProfile(r) \/ InsertProperty(r)
             \/ ReadProperty(r) \/ SaveUpdate(r) \/ SaveUpsert(r)
             \/ DeleteProperty(r) \/ RestoreProperty(r) \/ Fail(r)
      PROVE  IInv'
  BY <1>2, UpdateContactStep, CheckProfileStep, InsertPropertyStep, ReadPropertyStep,
     SaveUpdateStep, SaveUpsertStep, DeletePropertyStep, RestorePropertyStep, FailStep
<1>3. CASE Tick
  BY <1>3, TickStep
<1>4. CASE UNCHANGED vars
  BY <1>4 DEF vars, IInv, ProgramTypeOK, ExpiryInWindow, ReqInv, Writable, Window, Stored
<1> QED BY <1>1, <1>2, <1>3, <1>4 DEF Next, Step

-----------------------------------------------------------------------------
\* The strengthened invariant, from which the theorems below follow.
THEOREM Inductive == Spec => []IInv
  BY InitIInv, NextIInv, PTL DEF Spec

\* Every variable of the listings keeps its type (PropertyListings, TypeOK).
THEOREM TypeCorrect == Spec => []TypeOK
<1>1. IInv => ProgramTypeOK
  BY DEF IInv
<1>2. Init => overtaken \in SUBSET Requests
  BY DEF Init
<1>3. overtaken \in SUBSET Requests /\ [Next]_vars => (overtaken \in SUBSET Requests)'
  BY DEF Next, Overtake, vars
<1>4. TypeOK <=> ProgramTypeOK /\ overtaken \in SUBSET Requests
  BY DEF TypeOK
<1> QED BY <1>1, <1>2, <1>3, <1>4, Inductive, PTL DEF Spec

\* No listing is advertised beyond a window an owner may choose, however many
\* updates and renewals of it overlap (RenewProperty, UpdatePropertyByID).
THEOREM ExpiryTheorem == Spec => []ExpiryInWindow
<1>1. IInv => ExpiryInWindow
  BY DEF IInv
<1> QED BY <1>1, Inductive, PTL

\* The request behind a write of its listing is its owner's.
LEMMA PutByOwner ==
    ASSUME IInv, NEW r \in Requests, pc[r] \in {"save", "upsert", "delete", "restore"},
           NEW new, Writable(req[r], new), Put(r, new),
           NEW code \in Codes, Answer(r, code),
           NEW p \in Properties, row'[p] # row[p]
    PROVE  ByOwner(p)
<1>1. req[r].property \in Properties /\ Stored(r) # None /\ Stored(r).owner = req[r].caller
  BY DEF IInv, ReqInv
<1>2. new \in Row /\ new.owner = req[r].caller
  BY DEF Writable
<1>3. p = req[r].property /\ row'[p] = new
  BY <1>1 DEF Put, IInv, ProgramTypeOK
<1>4. pc'[r] # pc[r]
  BY AnswerFacts DEF IInv
<1>5. new # None
  BY <1>2, PropertyListingsAssumption
<1> QED BY <1>1, <1>2, <1>3, <1>4, <1>5 DEF ByOwner, Stored

\* A row changes only in a statement of a request of its owner.
LEMMA ChangedByOwner ==
    ASSUME IInv, Next, NEW p \in Properties, row'[p] # row[p]
    PROVE  ByOwner(p)
<1>1. PICK r \in Requests :
          InsertProperty(r) \/ SaveUpdate(r) \/ SaveUpsert(r) \/ DeleteProperty(r)
          \/ RestoreProperty(r)
  BY DEF Next, Step, CallCreate, CallUpdate, CallRenew, CallOther, CallUpdateMe, Call,
              UpdateContact, CheckProfile, ReadProperty, Fail, Tick
<1>2. CASE InsertProperty(r)
  <2>1. PICK o \in Properties : row[o] = None /\ row' = [row EXCEPT ![o] = req[r].copy]
    BY <1>2 DEF InsertProperty
  <2>2. req[r].copy \in Row /\ req[r].copy.owner = req[r].caller
    BY <1>2 DEF InsertProperty, IInv, ReqInv, Writable
  <2>3. p = o /\ row'[p] = req[r].copy
    BY <2>1 DEF IInv, ProgramTypeOK
  <2>4. pc'[r] # pc[r]
    BY <1>2, WroteFacts, AnswerFacts DEF InsertProperty, IInv
  <2>5. req[r].copy # None
    BY <2>2, PropertyListingsAssumption
  <2> QED BY <2>1, <2>2, <2>3, <2>4, <2>5 DEF ByOwner
<1>3. CASE SaveUpdate(r)
  <2>1. Writable(req[r], req[r].copy)
    BY <1>3 DEF SaveUpdate, IInv, ReqInv
  <2>2. Put(r, req[r].copy) /\ Wrote(r)
    BY <1>3 DEF SaveUpdate
  <2> QED BY <1>3, <2>1, <2>2, WroteFacts, PutByOwner DEF SaveUpdate
<1>4. CASE SaveUpsert(r)
  <2>1. Writable(req[r], req[r].copy)
    BY <1>4 DEF SaveUpsert, IInv, ReqInv
  <2>2. Writable(req[r], [req[r].copy EXCEPT !.deleted = FALSE])
    BY <2>1, WritableDeleted
  <2> QED BY <1>4, <2>2, WroteFacts, PutByOwner DEF SaveUpsert
<1>5. CASE DeleteProperty(r)
  <2>1. Writable(req[r], [Stored(r) EXCEPT !.deleted = TRUE])
    BY <1>5, StoredWritable DEF DeleteProperty
  <2>2. \E code \in Codes : Answer(r, code)
    BY <1>5, WroteFacts, CodeType DEF DeleteProperty
  <2> QED BY <1>5, <2>1, <2>2, PutByOwner DEF DeleteProperty
<1>6. CASE RestoreProperty(r)
  <2>1. Writable(req[r], Restored(r))
    BY <1>6, StoredWritable DEF RestoreProperty, Restored
  <2> QED BY <1>6, <2>1, WroteFacts, PutByOwner DEF RestoreProperty
<1> QED BY <1>1, <1>2, <1>3, <1>4, <1>5, <1>6

\* Only its owner changes a listing, and no one takes it over: the check made on
\* the fetched copy is good enough (verifyOwner, and gorm's Save after it).
THEOREM OwnerTheorem == Spec => OnlyOwnerChanges
<1>1. IInv /\ [Next]_vars
          => [\A p \in Properties : row'[p] # row[p] => ByOwner(p)]_vars
  BY ChangedByOwner
<1> QED BY <1>1, Inductive, PTL DEF Spec, OnlyOwnerChanges

\* Only a request's own step moves it on; from delete or restore there are two.
LEMMA LastStep ==
    ASSUME IInv, Next, NEW r \in Requests, pc[r] \in {"delete", "restore"}, pc'[r] # pc[r]
    PROVE  \/ pc[r] = "delete" /\ DeleteProperty(r)
           \/ pc[r] = "restore" /\ RestoreProperty(r)
           \/ Fail(r)
<1>1. PICK o \in Requests :
          \/ CallCreate(o) \/ CallUpdate(o) \/ CallRenew(o) \/ CallOther(o) \/ CallUpdateMe(o)
          \/ UpdateContact(o) \/ CheckProfile(o) \/ InsertProperty(o) \/ ReadProperty(o)
          \/ SaveUpdate(o) \/ SaveUpsert(o) \/ DeleteProperty(o) \/ RestoreProperty(o)
          \/ Fail(o)
  BY DEF Next, Step, Tick
<1>2. \E label : pc' = [pc EXCEPT ![o] = label]
  BY <1>1 DEF CallCreate, CallUpdate, CallRenew, CallOther, CallUpdateMe, Call, UpdateContact,
              CheckProfile, InsertProperty, ReadProperty, SaveUpdate, SaveUpsert,
              DeleteProperty, RestoreProperty, Fail, Wrote, Answer, Goto
<1>3. o = r
  BY <1>2 DEF IInv, ProgramTypeOK
<1> QED BY <1>1, <1>3
        DEF CallCreate, CallUpdate, CallRenew, CallOther, CallUpdateMe, Call, UpdateContact,
            CheckProfile, InsertProperty, ReadProperty, SaveUpdate, SaveUpsert,
            DeleteProperty, RestoreProperty

\* A request told that its deletion worked has deleted a listing that was not
\* deleted before (DeletePropertyByID looks at RowsAffected).
THEOREM DeleteTheorem == Spec => DeleteOnce
<1>1. ASSUME IInv, Next, NEW r \in Requests,
             pc[r] = "delete", pc'[r] = "idle", reply'[r] = "ok"
      PROVE  ~row[req[r].property].deleted /\ row'[req[r].property].deleted
  <2>1. \A err : CodeOf(err) # "ok"
    BY DEF CodeOf
  <2>2. reply \in [Requests -> Codes \cup {None}]
    BY <1>1 DEF IInv, ProgramTypeOK
  <2>3. ~Fail(r)
    BY <1>1, <2>1, <2>2 DEF Fail, Answer
  <2>4. DeleteProperty(r)
    BY <1>1, <2>3, LastStep
  <2>5. Affected(r)
    BY <1>1, <2>1, <2>2, <2>4 DEF DeleteProperty, Answer
  <2>6. req[r].property \in Properties /\ Stored(r) # None
    BY <1>1 DEF IInv, ReqInv
  <2>7. Stored(r) \in Row
    BY <1>1, <2>6 DEF IInv, ProgramTypeOK, Stored
  <2>8. row'[req[r].property] = [Stored(r) EXCEPT !.deleted = TRUE]
    BY <1>1, <2>4, <2>6 DEF DeleteProperty, Put, IInv, ProgramTypeOK
  <2>9. row'[req[r].property].deleted
    <3> DEFINE new == [Stored(r) EXCEPT !.deleted = TRUE]
    <3>1. new.deleted = TRUE
      BY <2>7 DEF Row
    <3> QED BY <2>8, <3>1
  <2> QED BY <2>5, <2>9 DEF Affected, Stored
<1>2. IInv /\ [Next]_vars
          => [\A r \in Requests :
                  pc[r] = "delete" /\ pc'[r] = "idle" /\ reply'[r] = "ok"
                      => ~row[req[r].property].deleted /\ row'[req[r].property].deleted]_vars
  BY <1>1
<1> QED BY <1>2, Inductive, PTL DEF Spec, DeleteOnce

-----------------------------------------------------------------------------
(***************************************************************************)
(* What else holds of a request that nobody has overtaken: what it has     *)
(* read of its listing, and of its owner's profile, is still so when it    *)
(* writes.                                                                 *)
(***************************************************************************)
StepOf(r) ==
    \/ CallCreate(r) \/ CallUpdate(r) \/ CallRenew(r) \/ CallOther(r) \/ CallUpdateMe(r)
    \/ UpdateContact(r) \/ CheckProfile(r) \/ InsertProperty(r) \/ ReadProperty(r)
    \/ SaveUpdate(r) \/ SaveUpsert(r) \/ DeleteProperty(r) \/ RestoreProperty(r)
    \/ Fail(r)

\* The copy differs from the row as it stands in the edited column only.
FreshCopy(q, old) ==
    /\ ~old.deleted
    /\ q.op \in Saves
    /\ q.op = "update" => /\ q.content \in Contents
                          /\ q.copy = [old EXCEPT !.content = q.content]
    /\ q.op = "renew"  => q.copy = [old EXCEPT !.expires_at = q.copy.expires_at]
    /\ q.op = "rent"   => q.copy = [old EXCEPT !.is_rented = TRUE]
    /\ q.op = "unrent" => q.copy = [old EXCEPT !.is_rented = FALSE]

UndisturbedReq(r) ==
    /\ pc[r] # "upsert"
    /\ pc[r] = "save" => FreshCopy(req[r], Stored(r))
    /\ pc[r] = "delete" => ~Stored(r).deleted
    /\ pc[r] \in {"check", "insert"} => ~req[r].copy.is_rented /\ ~req[r].copy.deleted
    /\ pc[r] = "insert" => req[r].caller \in complete

Undisturbed == \A r \in Requests : UndisturbedReq(r)

\* The statement a request has come to is one of the operation it was called for.
Named(r) ==
    /\ pc[r] \in {"check", "insert"} => req[r].op = "create"
    /\ pc[r] \in {"save", "upsert"} => req[r].op \in Saves
    /\ pc[r] \in {"delete", "restore"} => req[r].op = pc[r]

Fresh ==
    /\ \A r \in overtaken : AtWrite(r)
    /\ \A r \in Requests : Named(r)
    /\ \A r \in Requests \ overtaken : UndisturbedReq(r)

\* A step of one request is nobody else's.
LEMMA OthersWait ==
    ASSUME ProgramTypeOK, NEW r \in Requests, StepOf(r), NEW o \in Requests, o # r
    PROVE  pc'[o] = pc[o] /\ req'[o] = req[o]
<1>1. \E label : pc' = [pc EXCEPT ![r] = label]
  BY DEF StepOf, CallCreate, CallUpdate, CallRenew, CallOther, CallUpdateMe, Call,
         UpdateContact, CheckProfile, InsertProperty, ReadProperty, SaveUpdate, SaveUpsert,
         DeleteProperty, RestoreProperty, Fail, Wrote, Answer, Goto
<1>2. req' = req \/ \E new : req' = [req EXCEPT ![r] = new]
  BY DEF StepOf, CallCreate, CallUpdate, CallRenew, CallOther, CallUpdateMe, Call,
         UpdateContact, CheckProfile, InsertProperty, ReadProperty, SaveUpdate, SaveUpsert,
         DeleteProperty, RestoreProperty, Fail, Wrote, Answer, Goto
<1> QED BY <1>1, <1>2 DEF ProgramTypeOK

\* What another request does to what o has read, it does on record.
LEMMA OthersUndisturbed ==
    ASSUME IInv, NEW r \in Requests, StepOf(r), NEW o \in Requests, o # r,
           UndisturbedReq(o), ~OutOfDate(o)
    PROVE  UndisturbedReq(o)'
<1>1. pc'[o] = pc[o] /\ req'[o] = req[o]
  BY OthersWait DEF IInv
<1>2. pc[o] \in {"save", "delete"} => Stored(o)' = Stored(o)
  BY <1>1 DEF OutOfDate, Holding, Stored
<1>3. pc[o] = "insert" => req[o].caller \in complete'
  BY DEF OutOfDate
<1> QED BY <1>1, <1>2, <1>3 DEF UndisturbedReq

\* What a request reads is fresh at once.
LEMMA EditedFresh ==
    ASSUME NEW q \in Req, NEW old \in Row, q.op \in Saves, ~old.deleted,
           q.op = "update" => q.content \in Contents
    PROVE  FreshCopy([q EXCEPT !.copy = Edited(q, old)], old)
<1> DEFINE new == [q EXCEPT !.copy = Edited(q, old)]
<1>1. new.op = q.op /\ new.content = q.content /\ new.copy = Edited(q, old)
  BY DEF Req
<1>2. q.op = "renew" => Edited(q, old) = [old EXCEPT !.expires_at = Edited(q, old).expires_at]
  BY DEF Edited, Renewed, Row
<1> HIDE DEF new
<1> QED BY <1>1, <1>2 DEF FreshCopy, Edited

LEMMA ReadUndisturbed ==
    ASSUME IInv, NEW r \in Requests, ReadProperty(r)
    PROVE  UndisturbedReq(r)'
<1>1. pc \in [Requests -> PC] /\ req \in [Requests -> Req \cup {None}]
  BY DEF IInv, ProgramTypeOK
<1>2. CASE ~(Visible(r) /\ verifyOwner(r))
  <2>1. pc'[r] = "idle"
    BY <1>1, <1>2 DEF ReadProperty, Answer
  <2> QED BY <2>1 DEF UndisturbedReq
<1>3. CASE Visible(r) /\ verifyOwner(r)
  <2>1. /\ req[r] \in Req /\ req[r].property \in Properties
        /\ req[r].op \in Saves \cup {"delete", "restore"}
        /\ req[r].op = "update" => req[r].content \in Contents
        /\ Stored(r) \in Row
    BY <1>1, <1>3 DEF ReadProperty, IInv, ReqInv, Visible, Stored, ProgramTypeOK
  <2>2. /\ pc'[r] = (IF req[r].op \in Saves THEN "save" ELSE req[r].op)
        /\ req'[r] = [req[r] EXCEPT !.copy = Edited(req[r], Stored(r))]
        /\ row' = row
    BY <1>1, <1>3, <2>1 DEF ReadProperty
  <2>3. Stored(r)' = Stored(r)
    BY <2>1, <2>2 DEF Stored, Req
  <2>4. CASE req[r].op \in Saves
    <3>1. ~Stored(r).deleted
      BY <1>3, <2>1, <2>4 DEF Visible, Saves, Row
    <3>2. FreshCopy(req'[r], Stored(r))
      BY <2>1, <2>2, <2>4, <3>1, EditedFresh
    <3> QED BY <2>2, <2>3, <2>4, <3>2 DEF UndisturbedReq
  <2>5. CASE req[r].op \in {"delete", "restore"}
    <3>1. req[r].op = "delete" => ~Stored(r).deleted
      BY <1>3, <2>1 DEF Visible, Row
    <3>2. pc'[r] = req[r].op
      BY <2>2, <2>5 DEF Saves
    <3> QED BY <2>3, <2>5, <3>1, <3>2 DEF UndisturbedReq
  <2> QED BY <2>1, <2>4, <2>5
<1> QED BY <1>2, <1>3

LEMMA OwnUndisturbed ==
    ASSUME IInv, NEW r \in Requests, UndisturbedReq(r), StepOf(r)
    PROVE  UndisturbedReq(r)'
<1>1. pc \in [Requests -> PC] /\ req \in [Requests -> Req \cup {None}]
  BY DEF IInv, ProgramTypeOK
<1>2. ASSUME pc'[r] \in {"idle", "read", "profile"} PROVE UndisturbedReq(r)'
  BY <1>2 DEF UndisturbedReq
<1>3. CASE \/ CallUpdate(r) \/ CallRenew(r) \/ CallOther(r) \/ CallUpdateMe(r)
           \/ UpdateContact(r) \/ InsertProperty(r) \/ SaveUpsert(r)
           \/ DeleteProperty(r) \/ RestoreProperty(r) \/ Fail(r)
  <2>1. pc'[r] \in {"idle", "read", "profile"}
    BY <1>1, <1>3
       DEF CallUpdate, CallRenew, CallOther, CallUpdateMe, Call, UpdateContact,
           InsertProperty, SaveUpsert, DeleteProperty, RestoreProperty, Fail, Wrote, Answer
  <2> QED BY <1>2, <2>1
<1>4. CASE CallCreate(r)
  <2>1. PICK u \in Users, content \in Contents, days \in Days :
            Call(r, "check", [Args("create", None, u) EXCEPT
                !.copy = [owner |-> u, expires_at |-> now + days, content |-> content,
                          is_rented |-> FALSE, deleted |-> FALSE]])
    BY <1>4 DEF CallCreate
  <2>2. /\ pc'[r] = "check"
        /\ req'[r].copy = [owner |-> u, expires_at |-> now + days, content |-> content,
                           is_rented |-> FALSE, deleted |-> FALSE]
    BY <1>1, <2>1 DEF Call, Args
  <2> QED BY <2>2 DEF UndisturbedReq
<1>5. CASE CheckProfile(r)
  <2>1. CASE ProfileOnFile(r) /\ Goto(r, "insert")
    <3>1. pc'[r] = "insert" /\ UNCHANGED <<req, complete>>
      BY <1>1, <1>5, <2>1 DEF CheckProfile, Goto
    <3>2. ~req[r].copy.is_rented /\ ~req[r].copy.deleted /\ req[r].caller \in complete
      BY <1>5, <2>1 DEF CheckProfile, ProfileOnFile, UndisturbedReq
    <3> QED BY <3>1, <3>2 DEF UndisturbedReq
  <2>2. CASE Answer(r, CodeOf("ErrIncompleteProfile"))
    BY <1>1, <1>2, <2>2 DEF Answer
  <2> QED BY <1>5, <2>1, <2>2 DEF CheckProfile
<1>6. CASE ReadProperty(r)
  BY <1>6, ReadUndisturbed
<1>7. CASE SaveUpdate(r)
  <2>1. Wrote(r)
    BY <1>7 DEF SaveUpdate, UndisturbedReq, FreshCopy
  <2> QED BY <1>1, <1>2, <2>1 DEF Wrote, Answer
<1> QED BY <1>3, <1>4, <1>5, <1>6, <1>7 DEF StepOf

LEMMA OwnNamed ==
    ASSUME IInv, NEW r \in Requests, Named(r), StepOf(r)
    PROVE  Named(r)'
<1>1. pc \in [Requests -> PC] /\ req \in [Requests -> Req \cup {None}]
  BY DEF IInv, ProgramTypeOK
<1>2. ASSUME pc'[r] \in {"idle", "read", "profile"} PROVE Named(r)'
  BY <1>2 DEF Named
<1>3. CASE \/ CallUpdate(r) \/ CallRenew(r) \/ CallOther(r) \/ CallUpdateMe(r)
           \/ UpdateContact(r) \/ InsertProperty(r) \/ SaveUpsert(r)
           \/ DeleteProperty(r) \/ RestoreProperty(r) \/ Fail(r)
  <2>1. pc'[r] \in {"idle", "read", "profile"}
    BY <1>1, <1>3
       DEF CallUpdate, CallRenew, CallOther, CallUpdateMe, Call, UpdateContact,
           InsertProperty, SaveUpsert, DeleteProperty, RestoreProperty, Fail, Wrote, Answer
  <2> QED BY <1>2, <2>1
<1>4. CASE CallCreate(r)
  <2>1. PICK u, copy : Call(r, "check", [Args("create", None, u) EXCEPT !.copy = copy])
    BY <1>4 DEF CallCreate
  <2>2. pc'[r] = "check" /\ req'[r].op = "create"
    BY <1>1, <2>1 DEF Call, Args
  <2> QED BY <2>2 DEF Named
<1>5. CASE CheckProfile(r)
  BY <1>1, <1>5 DEF CheckProfile, Answer, Goto, Named
<1>6. CASE ReadProperty(r)
  <2>1. /\ req[r] \in Req
        /\ req[r].op \in Saves \cup {"delete", "restore"}
    BY <1>6 DEF ReadProperty, IInv, ReqInv
  <2>2. CASE pc'[r] = "idle"
    BY <1>2, <2>2
  <2>3. CASE /\ pc' = [pc EXCEPT ![r] = IF req[r].op \in Saves THEN "save" ELSE req[r].op]
             /\ req' = [req EXCEPT ![r].copy = Edited(req[r], Stored(r))]
    <3>1. pc'[r] = IF req[r].op \in Saves THEN "save" ELSE req[r].op
      BY <1>1, <2>3
    <3>2. req'[r].op = req[r].op
      BY <1>1, <2>1, <2>3 DEF Req
    <3> QED BY <2>1, <3>1, <3>2 DEF Named, Saves
  <2> QED BY <1>1, <1>6, <2>2, <2>3 DEF ReadProperty, Answer
<1>7. CASE SaveUpdate(r)
  BY <1>1, <1>7 DEF SaveUpdate, Wrote, Answer, Goto, Named
<1> QED BY <1>3, <1>4, <1>5, <1>6, <1>7 DEF StepOf

LEMMA NextStepOf == Next <=> ((\E r \in Requests : StepOf(r)) \/ Tick) /\ Overtake
  BY DEF Next, Step, StepOf

\* A request that is about to write writes, or goes on to its second statement.
LEMMA FromWrite ==
    ASSUME IInv, NEW r \in Requests, StepOf(r), AtWrite(r)
    PROVE  pc'[r] \in {"idle", "upsert"}
<1>1. SaveUpdate(r) \/ SaveUpsert(r) \/ DeleteProperty(r) \/ RestoreProperty(r)
      \/ InsertProperty(r) \/ Fail(r)
  BY DEF AtWrite, Holding, StepOf, CallCreate, CallUpdate, CallRenew, CallOther, CallUpdateMe,
         Call, UpdateContact, CheckProfile, ReadProperty
<1> QED BY <1>1 DEF SaveUpdate, SaveUpsert, DeleteProperty, RestoreProperty, InsertProperty,
                    Fail, Wrote, Answer, Goto, IInv, ProgramTypeOK

LEMMA FreshStep ==
    ASSUME IInv, Fresh, [Next]_vars
    PROVE  Fresh'
<1>1. CASE UNCHANGED vars
  BY <1>1 DEF vars, Fresh, Named, AtWrite, Holding, UndisturbedReq, Stored
<1>2. CASE Next
  <2>1. CASE Tick
    <3>1. UNCHANGED <<row, complete, pc, req>>
      BY <2>1 DEF Tick
    <3>2. \A r \in overtaken' : AtWrite(r)
      BY <1>2 DEF Next, Overtake
    <3>3. \A r \in Requests : r \notin overtaken' => r \notin overtaken
      BY <1>2, <3>1 DEF Next, Overtake, Fresh, AtWrite, Holding
    <3> QED BY <3>1, <3>2, <3>3 DEF Fresh, Named, AtWrite, Holding, UndisturbedReq, Stored
  <2>2. ASSUME NEW r \in Requests, StepOf(r) PROVE Fresh'
    <3>1. overtaken' = {o \in Requests : /\ AtWrite(o) /\ pc'[o] # "idle"
                                         /\ o \in overtaken \/ OutOfDate(o)}
      BY <1>2 DEF Next, Overtake
    <3>2. \A o \in Requests \ {r} : pc'[o] = pc[o] /\ req'[o] = req[o]
      BY <2>2, OthersWait DEF IInv
    <3>3. \A o \in overtaken' : AtWrite(o)'
      <4>1. \A o \in overtaken' \ {r} : AtWrite(o)'
        BY <3>1, <3>2 DEF AtWrite, Holding
      <4>2. r \in overtaken' => AtWrite(r)'
        BY <2>2, <3>1, FromWrite DEF AtWrite, Holding
      <4> QED BY <4>1, <4>2
    <3>4. \A o \in Requests : Named(o)'
      <4>1. Named(r)'
        BY <2>2, OwnNamed DEF Fresh
      <4> QED BY <3>2, <4>1 DEF Fresh, Named
    <3>5. ASSUME NEW o \in Requests, o \notin overtaken' PROVE UndisturbedReq(o)'
      <4>1. CASE pc'[o] = "idle"
        BY <4>1 DEF UndisturbedReq
      <4>2. CASE pc'[o] # "idle"
        <5>1. o \notin overtaken /\ UndisturbedReq(o)
          BY <3>1, <3>5, <4>2 DEF Fresh
        <5>2. o # r => ~OutOfDate(o)
          BY <3>1, <3>5, <4>2 DEF OutOfDate, AtWrite
        <5>3. o # r => UndisturbedReq(o)'
          BY <2>2, <5>1, <5>2, OthersUndisturbed
        <5> QED BY <2>2, <5>1, <5>3, OwnUndisturbed
      <4> QED BY <4>1, <4>2
    <3> QED BY <3>3, <3>4, <3>5 DEF Fresh
  <2> QED BY <1>2, <2>1, <2>2, NextStepOf
<1> QED BY <1>1, <1>2

LEMMA FreshAlways == Spec => []Fresh
<1>1. Init => Fresh
  BY DEF Init, Fresh, Named, UndisturbedReq
<1>2. IInv /\ Fresh /\ [Next]_vars => Fresh'
  BY FreshStep
<1> QED BY <1>1, <1>2, Inductive, PTL DEF Spec

LEMMA UndisturbedAlways == Spec /\ []NoneOvertaken => []Undisturbed
<1>1. Fresh /\ NoneOvertaken => Undisturbed
  BY DEF Fresh, NoneOvertaken, Undisturbed
<1> QED BY <1>1, FreshAlways, PTL

\* A step of a request that holds a copy is a write of its listing, or a failure.
LEMMA HolderStep ==
    ASSUME IInv, NEW r \in Requests, UndisturbedReq(r), StepOf(r), Holding(r)
    PROVE  \/ SaveUpdate(r) /\ Put(r, req[r].copy) /\ FreshCopy(req[r], Stored(r))
           \/ DeleteProperty(r) /\ ~Stored(r).deleted
           \/ RestoreProperty(r)
           \/ Fail(r)
<1>1. SaveUpdate(r) \/ DeleteProperty(r) \/ RestoreProperty(r) \/ Fail(r)
  BY DEF Holding, StepOf, CallCreate, CallUpdate, CallRenew, CallOther, CallUpdateMe, Call,
         UpdateContact, CheckProfile, InsertProperty, ReadProperty, SaveUpsert, UndisturbedReq
<1>2. pc[r] = "save" => FreshCopy(req[r], Stored(r)) /\ ~Stored(r).deleted
  BY DEF UndisturbedReq, FreshCopy
<1>3. pc[r] = "delete" => ~Stored(r).deleted
  BY DEF UndisturbedReq
<1> QED BY <1>1, <1>2, <1>3 DEF SaveUpdate, DeleteProperty

\* With no request overtaken, a deleted listing comes back only by
\* RestoreProperty (the comment on its Unscoped).
THEOREM SerialRestore == Spec /\ []NoneOvertaken => DeletedUntilRestored
<1>1. ASSUME IInv, Undisturbed, Next, NEW p \in Properties,
             row[p] # None, row[p].deleted, ~row'[p].deleted
      PROVE  \E r \in Requests :
                 pc[r] = "restore" /\ pc'[r] = "idle" /\ req[r].property = p
  <2>1. PICK r \in Requests : StepOf(r) /\ row' # row
    BY <1>1, NextStepOf DEF Tick
  <2>2. /\ pc \in [Requests -> PC] /\ row \in [Properties -> Row \cup {None}]
    BY <1>1 DEF IInv, ProgramTypeOK
  <2>3. CASE InsertProperty(r)
    BY <1>1, <2>2, <2>3 DEF InsertProperty
  <2>4. CASE Holding(r)
    <3>1. req[r].property \in Properties /\ Stored(r) \in Row
      BY <1>1, <2>2, <2>4 DEF Holding, IInv, ReqInv, Stored
    <3>2. CASE SaveUpdate(r) /\ Put(r, req[r].copy) /\ FreshCopy(req[r], Stored(r))
      BY <1>1, <2>2, <3>2 DEF Put, FreshCopy, Stored
    <3>3. CASE DeleteProperty(r) /\ ~Stored(r).deleted
      <4>1. [Stored(r) EXCEPT !.deleted = TRUE].deleted
        BY <3>1 DEF Row
      <4> QED BY <1>1, <2>2, <3>1, <3>3, <4>1 DEF DeleteProperty, Put
    <3>4. CASE RestoreProperty(r)
      <4>1. p = req[r].property
        BY <1>1, <2>2, <3>4 DEF RestoreProperty, Put
      <4> QED BY <2>2, <3>4, <4>1 DEF RestoreProperty, Wrote, Answer
    <3>5. UndisturbedReq(r)
      BY <1>1 DEF Undisturbed
    <3> QED BY <1>1, <2>1, <2>4, <3>2, <3>3, <3>4, <3>5, HolderStep DEF Fail
  <2> QED BY <2>1, <2>3, <2>4
          DEF StepOf, CallCreate, CallUpdate, CallRenew, CallOther, CallUpdateMe, Call,
              UpdateContact, CheckProfile, ReadProperty, SaveUpdate, SaveUpsert,
              DeleteProperty, RestoreProperty, Fail, Holding
<1>2. IInv /\ Undisturbed /\ [Next]_vars
          => [\A p \in Properties :
                  row[p] # None /\ row[p].deleted /\ ~row'[p].deleted
                      => \E r \in Requests :
                             pc[r] = "restore" /\ pc'[r] = "idle" /\ req[r].property = p]_vars
  BY <1>1
<1> QED BY <1>2, Inductive, UndisturbedAlways, PTL DEF Spec, DeletedUntilRestored

\* With no request overtaken, a renewal leaves is_rented as it is (the comment
\* on RenewProperty).
THEOREM SerialRenewal == Spec /\ []NoneOvertaken => RenewLeavesRented
<1>1. ASSUME IInv, Undisturbed, Next, NEW r \in Requests, Renewing(r)
      PROVE  row'[req[r].property].is_rented = row[req[r].property].is_rented
  <2>1. pc[r] = "save" /\ pc'[r] # pc[r] /\ req[r].op = "renew" /\ Holding(r)
    BY <1>1 DEF Renewing, Undisturbed, UndisturbedReq, Holding
  <2>2. StepOf(r)
    BY <1>1, <2>1, NextStepOf, OthersWait DEF Tick, IInv
  <2>3. /\ row \in [Properties -> Row \cup {None}]
        /\ req[r].property \in Properties /\ Stored(r) \in Row
    BY <1>1, <2>1 DEF IInv, ProgramTypeOK, ReqInv, Stored
  <2>4. CASE Put(r, req[r].copy) /\ FreshCopy(req[r], Stored(r))
    <3>1. req[r].copy.is_rented = Stored(r).is_rented
      BY <2>1, <2>3, <2>4 DEF FreshCopy, Row
    <3> QED BY <2>3, <2>4, <3>1 DEF Put, Stored
  <2>5. CASE UNCHANGED row
    BY <2>5
  <2>6. UndisturbedReq(r)
    BY <1>1 DEF Undisturbed
  <2> QED BY <1>1, <2>1, <2>2, <2>4, <2>5, <2>6, HolderStep
          DEF SaveUpdate, DeleteProperty, RestoreProperty, Fail
<1>2. IInv /\ Undisturbed /\ [Next]_vars
          => [\A r \in Requests :
                  Renewing(r) => LET p == req[r].property
                                 IN  row'[p].is_rented = row[p].is_rented]_vars
  BY <1>1
<1> QED BY <1>2, Inductive, UndisturbedAlways, PTL DEF Spec, RenewLeavesRented

\* With no request overtaken, a listing is created only for an owner whose name
\* and phone are on file (CreateProperty).
THEOREM SerialProfile == Spec /\ []NoneOvertaken => CreateNeedsProfile
<1>1. ASSUME IInv, Undisturbed, Next, NEW p \in Properties, row[p] = None, row'[p] # None
      PROVE  row'[p].owner \in complete
  <2>1. row \in [Properties -> Row \cup {None}]
    BY <1>1 DEF IInv, ProgramTypeOK
  <2>2. PICK r \in Requests : StepOf(r) /\ row' # row
    BY <1>1, NextStepOf DEF Tick
  <2>3. InsertProperty(r)
    <3>1. ASSUME Holding(r) PROVE FALSE
      <4>1. Stored(r) # None /\ req[r].property # p
        BY <1>1, <3>1 DEF Holding, IInv, ReqInv, Stored
      <4>2. \E new : Put(r, new)
        <5>1. UndisturbedReq(r)
          BY <1>1 DEF Undisturbed
        <5> QED
          BY <1>1, <2>2, <3>1, <5>1, HolderStep DEF DeleteProperty, RestoreProperty, Fail
      <4> QED BY <1>1, <2>1, <4>1, <4>2 DEF Put
    <3> QED BY <2>2, <3>1
            DEF StepOf, CallCreate, CallUpdate, CallRenew, CallOther, CallUpdateMe, Call,
                UpdateContact, CheckProfile, ReadProperty, SaveUpdate, SaveUpsert,
                DeleteProperty, RestoreProperty, Fail, Holding
  <2>4. row'[p] = req[r].copy
    BY <1>1, <2>1, <2>3 DEF InsertProperty
  <2> QED BY <1>1, <2>3, <2>4
          DEF InsertProperty, Undisturbed, UndisturbedReq, IInv, ReqInv, Writable
<1>2. IInv /\ Undisturbed /\ [Next]_vars
          => [\A p \in Properties :
                  row[p] = None /\ row'[p] # None => row'[p].owner \in complete]_vars
  BY <1>1
<1> QED BY <1>2, Inductive, UndisturbedAlways, PTL DEF Spec, CreateNeedsProfile

-----------------------------------------------------------------------------
(***************************************************************************)
(* And then each write is one operation of the book, and every other step  *)
(* a stutter.                                                              *)
(***************************************************************************)
LEMMA EndsAreWindows == \A e : e \in Book!Ends <=> Window(e)
  BY DEF Book!Ends, Window

\* What a request was called for is an operation of the book.
LEMMA AskedForNext ==
    ASSUME NEW r \in Requests, AskedFor(r),
           req[r].op # "create" => req[r].property \in Properties
    PROVE  Book!Next
  BY DEF AskedFor, Book!Next

LEMMA SaveImplements ==
    ASSUME IInv, NEW r \in Requests, pc[r] = "save", Put(r, req[r].copy),
           FreshCopy(req[r], Stored(r)), UNCHANGED <<complete, now>>
    PROVE  AskedFor(r) /\ Book!Next
<1> DEFINE p == req[r].property  q == req[r]
<1>1. p \in Properties /\ row[p] # None /\ ~row[p].deleted /\ Writable(q, q.copy)
  BY DEF IInv, ReqInv, Stored, FreshCopy
<1>2. Book!Listed(p)
  BY <1>1 DEF Book!Listed
<1>3. \A new : q.copy = new => Book!Put(p, new)
  BY DEF Put, Book!Put
<1>4. FreshCopy(q, row[p])
  BY DEF Stored
<1>5. CASE q.op = "update"
  <2>1. Book!Update(p)
    <3> HIDE DEF p, q
    <3> QED BY <1>2, <1>3, <1>4, <1>5 DEF FreshCopy, Book!Update
  <2>2. row[p] \in Row /\ row'[p] = q.copy
    BY <1>1 DEF IInv, ProgramTypeOK, Put
  <2>3. row'[p].content = q.content
    <3> HIDE DEF p, q
    <3> QED BY <1>4, <1>5, <2>2 DEF FreshCopy, Row
  <2> QED BY <1>1, <1>5, <2>1, <2>3, AskedForNext DEF AskedFor
<1>6. CASE q.op = "renew"
  <2>1. q.copy.expires_at \in Book!Ends
    BY <1>1, EndsAreWindows DEF Writable
  <2>2. Book!Renew(p)
    <3> HIDE DEF p, q
    <3> QED BY <1>2, <1>3, <1>4, <1>6, <2>1 DEF FreshCopy, Book!Renew
  <2> QED BY <1>1, <1>6, <2>2, AskedForNext DEF AskedFor
<1>7. CASE q.op = "rent"
  <2>1. Book!MarkRented(p)
    <3> HIDE DEF p, q
    <3> QED BY <1>2, <1>3, <1>4, <1>7 DEF FreshCopy, Book!MarkRented
  <2> QED BY <1>1, <1>7, <2>1, AskedForNext DEF AskedFor
<1>8. CASE q.op = "unrent"
  <2>1. Book!MarkAvailable(p)
    <3> HIDE DEF p, q
    <3> QED BY <1>2, <1>3, <1>4, <1>8 DEF FreshCopy, Book!MarkAvailable
  <2> QED BY <1>1, <1>8, <2>1, AskedForNext DEF AskedFor
<1> QED BY <1>4, <1>5, <1>6, <1>7, <1>8 DEF FreshCopy, Saves

LEMMA InsertImplements ==
    ASSUME IInv, NEW r \in Requests, UndisturbedReq(r), InsertProperty(r)
    PROVE  \E p \in Properties : Book!Create(p)
<1> DEFINE new == req[r].copy
<1>1. PICK p \in Properties : row[p] = None /\ row' = [row EXCEPT ![p] = new]
  BY DEF InsertProperty
<1>2. /\ new \in Row /\ new.owner \in complete /\ new.expires_at \in Book!Ends
      /\ ~new.is_rented /\ ~new.deleted
  BY EndsAreWindows DEF InsertProperty, IInv, ReqInv, Writable, UndisturbedReq
<1>3. new = [owner |-> new.owner, expires_at |-> new.expires_at, content |-> new.content,
             is_rented |-> FALSE, deleted |-> FALSE]
  <2> HIDE DEF new
  <2> QED BY <1>2 DEF Row
<1>4. new.content \in Contents
  BY <1>2 DEF Row
<1>5. Book!Put(p, new)
  BY <1>1 DEF Book!Put, InsertProperty
<1>6. Book!Create(p)
  <2> HIDE DEF new
  <2> QED BY <1>1, <1>2, <1>3, <1>4, <1>5, Zenon DEF Book!Create, Book!CreateFor
<1> QED BY <1>6

LEMMA StepImplements ==
    ASSUME IInv, Undisturbed, [Next]_vars
    PROVE  [Book!Next]_(Book!vars)
<1>1. CASE UNCHANGED <<row, complete, now>>
  BY <1>1 DEF Book!vars
<1>2. CASE Tick
  BY <1>2 DEF Tick, Book!Next, Book!Tick
<1>3. ASSUME NEW r \in Requests, UpdateContact(r) PROVE Book!Next
  <2>1. req[r].caller \in Users
    BY <1>3 DEF UpdateContact, IInv, ReqInv, Req
  <2> QED BY <1>3, <2>1 DEF UpdateContact, Book!Next, Book!UpdateContact
<1>4. ASSUME NEW r \in Requests, StepOf(r), Holding(r) PROVE [Book!Next]_(Book!vars)
  <2> DEFINE p == req[r].property
  <2>1. p \in Properties /\ row[p] # None /\ row[p] \in Row
    BY <1>4 DEF Holding, IInv, ProgramTypeOK, ReqInv, Stored
  <2>2. CASE SaveUpdate(r) /\ Put(r, req[r].copy) /\ FreshCopy(req[r], Stored(r))
    BY <2>2, SaveImplements DEF SaveUpdate
  <2>3. CASE DeleteProperty(r) /\ ~Stored(r).deleted
    <3>1. Book!Delete(p)
      BY <2>1, <2>3 DEF DeleteProperty, Put, Stored, Book!Delete, Book!Listed, Book!Put
    <3> QED BY <2>1, <3>1 DEF Book!Next
  <2>4. CASE RestoreProperty(r)
    <3>1. row' = [row EXCEPT ![p] = [row[p] EXCEPT !.deleted = FALSE]]
          /\ UNCHANGED <<complete, now>>
      BY <2>4 DEF RestoreProperty, Put, Restored, Stored
    <3>2. CASE row[p].deleted
      <4>1. Book!Restore(p)
        BY <2>1, <3>1, <3>2 DEF Book!Restore, Book!Withdrawn, Book!Put
      <4> QED BY <2>1, <4>1 DEF Book!Next
    <3>3. CASE ~row[p].deleted
      <4>1. [row[p] EXCEPT !.deleted = FALSE] = row[p]
        BY <2>1, <3>3 DEF Row
      <4>2. row' = row
        BY <2>1, <3>1, <4>1 DEF IInv, ProgramTypeOK
      <4> QED BY <3>1, <4>2 DEF Book!vars
    <3> QED BY <3>2, <3>3
  <2>5. CASE Fail(r)
    BY <2>5 DEF Fail, Book!vars
  <2>6. UndisturbedReq(r)
    BY DEF Undisturbed
  <2> QED BY <1>4, <2>2, <2>3, <2>4, <2>5, <2>6, HolderStep
<1>5. ASSUME NEW r \in Requests, StepOf(r), ~Holding(r) PROVE [Book!Next]_(Book!vars)
  <2>1. InsertProperty(r) \/ UpdateContact(r) \/ UNCHANGED <<row, complete, now>>
    BY <1>5 DEF StepOf, CallCreate, CallUpdate, CallRenew, CallOther, CallUpdateMe, Call,
                CheckProfile, ReadProperty, SaveUpdate, SaveUpsert, DeleteProperty,
                RestoreProperty, Fail, Holding
  <2>2. InsertProperty(r) => Book!Next
    BY InsertImplements DEF Undisturbed, Book!Next
  <2> QED BY <1>1, <1>3, <2>1, <2>2
<1> QED BY <1>1, <1>2, <1>4, <1>5, NextStepOf DEF vars

\* Requests that are not overtaken implement the atomic book of listings: the
\* missing row lock is all that keeps the code from it.
THEOREM SerialRefinement == Spec /\ []NoneOvertaken => ImplementsBook
<1>1. Init => Book!Init
  BY DEF Init, Book!Init
<1> QED BY <1>1, Inductive, UndisturbedAlways, StepImplements, PTL
        DEF Spec, ImplementsBook, Book!Spec

\* In particular a single request at a time does.
THEOREM SequentialRefinement ==
    ASSUME \A r, o \in Requests : r = o
    PROVE  Spec => ImplementsBook
<1>1. Init => NoneOvertaken
  BY DEF Init, NoneOvertaken
<1>2. ASSUME IInv, Fresh, NoneOvertaken, [Next]_vars PROVE NoneOvertaken'
  <2>1. CASE UNCHANGED vars
    BY <1>2, <2>1 DEF vars, NoneOvertaken
  <2>2. CASE Next
    <3>1. ASSUME NEW r \in Requests, AtWrite(r), pc'[r] # "idle" PROVE ~OutOfDate(r)
      <4>1. CASE Tick
        BY <1>2, <3>1, <4>1
           DEF Tick, OutOfDate, Stored, Fresh, NoneOvertaken, UndisturbedReq
      <4>2. CASE StepOf(r)
        <5>1. pc'[r] = "upsert" /\ pc[r] \notin {"insert", "upsert"}
          BY <1>2, <3>1, <4>2, FromWrite
             DEF Fresh, NoneOvertaken, UndisturbedReq, StepOf, AtWrite, Holding,
                 CallCreate, CallUpdate, CallRenew, CallOther, CallUpdateMe, Call,
                 UpdateContact, CheckProfile, InsertProperty, ReadProperty, SaveUpdate,
                 SaveUpsert, DeleteProperty, RestoreProperty, Fail, Wrote, Answer,
                 IInv, ProgramTypeOK
        <5> QED
          BY <1>2, <4>2, <5>1
             DEF StepOf, CallCreate, CallUpdate, CallRenew, CallOther, CallUpdateMe, Call,
                 UpdateContact, CheckProfile, InsertProperty, ReadProperty, SaveUpdate,
                 SaveUpsert, DeleteProperty, RestoreProperty, Fail, Wrote, Answer,
                 OutOfDate, Stored, IInv, ProgramTypeOK
      <4> QED BY <2>2, <4>1, <4>2, NextStepOf
    <3> QED BY <1>2, <2>2, <3>1 DEF Next, Overtake, NoneOvertaken
  <2> QED BY <1>2, <2>1, <2>2
<1> QED BY <1>1, <1>2, Inductive, FreshAlways, SerialRefinement, PTL DEF Spec

-----------------------------------------------------------------------------
(***************************************************************************)
(* What a single write does, whoever else is at work.                      *)
(***************************************************************************)
LEMMA DeleteAsked ==
    ASSUME IInv, NEW r \in Requests, Named(r), DeleteProperty(r), row' # row
    PROVE  AskedFor(r)
<1> DEFINE p == req[r].property
<1>1. p \in Properties /\ row[p] # None /\ row[p] \in Row /\ req[r].op = "delete"
  BY DEF DeleteProperty, IInv, ReqInv, ProgramTypeOK, Stored, Named
<1>2. row' = [row EXCEPT ![p] = [row[p] EXCEPT !.deleted = TRUE]]
      /\ UNCHANGED <<complete, now>>
  BY DEF DeleteProperty, Put, Stored
<1>3. ~row[p].deleted
  <2>1. row[p].deleted => [row[p] EXCEPT !.deleted = TRUE] = row[p]
    BY <1>1 DEF Row
  <2> QED BY <1>1, <1>2, <2>1 DEF IInv, ProgramTypeOK
<1>4. Book!Delete(p)
  BY <1>1, <1>2, <1>3 DEF Book!Delete, Book!Listed, Book!Put
<1> QED BY <1>1, <1>4 DEF AskedFor

LEMMA RestoreAsked ==
    ASSUME IInv, NEW r \in Requests, Named(r), RestoreProperty(r), row' # row
    PROVE  AskedFor(r)
<1> DEFINE p == req[r].property
<1>1. p \in Properties /\ row[p] # None /\ row[p] \in Row /\ req[r].op = "restore"
  BY DEF RestoreProperty, IInv, ReqInv, ProgramTypeOK, Stored, Named
<1>2. row' = [row EXCEPT ![p] = [row[p] EXCEPT !.deleted = FALSE]]
      /\ UNCHANGED <<complete, now>>
  BY DEF RestoreProperty, Restored, Put, Stored
<1>3. row[p].deleted
  <2>1. ~row[p].deleted => [row[p] EXCEPT !.deleted = FALSE] = row[p]
    BY <1>1 DEF Row
  <2> QED BY <1>1, <1>2, <2>1 DEF IInv, ProgramTypeOK
<1>4. Book!Restore(p)
  BY <1>1, <1>2, <1>3 DEF Book!Restore, Book!Withdrawn, Book!Put
<1> QED BY <1>1, <1>4 DEF AskedFor

\* A write changes a listing as its caller asked and in nothing else, unless
\* another request's write came between its reading and its own (Save stores a
\* whole copy); a deletion or a restore always does (they store deleted_at).
THEOREM AtomicTheorem == Spec => AtomicUnlessOvertaken
<1>1. ASSUME IInv, Fresh, Next, NEW r \in Requests,
             AtWrite(r), pc'[r] = "idle", row' # row
      PROVE  \/ AskedFor(r)
             \/ r \in overtaken /\ req[r].op \notin {"delete", "restore"}
  <2>1. StepOf(r)
    <3>1. pc'[r] # pc[r]
      BY <1>1 DEF AtWrite, Holding
    <3> QED BY <1>1, <3>1, NextStepOf, OthersWait DEF Tick, IInv
  <2>2. Named(r) /\ (r \notin overtaken => UndisturbedReq(r))
    BY <1>1 DEF Fresh
  <2>3. \/ SaveUpdate(r) \/ SaveUpsert(r) \/ DeleteProperty(r) \/ RestoreProperty(r)
        \/ InsertProperty(r)
    BY <1>1, <2>1
       DEF StepOf, CallCreate, CallUpdate, CallRenew, CallOther, CallUpdateMe, Call,
           UpdateContact, CheckProfile, ReadProperty, Fail
  <2>4. CASE DeleteProperty(r) \/ RestoreProperty(r)
    BY <1>1, <2>2, <2>4, DeleteAsked, RestoreAsked
  <2>5. CASE SaveUpdate(r) \/ SaveUpsert(r) \/ InsertProperty(r)
    <3>1. req[r].op \notin {"delete", "restore"}
      BY <2>2, <2>5 DEF Named, Saves, SaveUpdate, SaveUpsert, InsertProperty
    <3>2. CASE r \notin overtaken /\ InsertProperty(r)
      <4>1. req[r].op = "create"
        BY <2>2, <3>2 DEF Named, InsertProperty
      <4> QED BY <1>1, <2>2, <3>2, <4>1, InsertImplements DEF AskedFor
    <3>3. CASE r \notin overtaken /\ ~InsertProperty(r)
      <4>1. Holding(r)
        BY <2>5, <3>3 DEF Holding, SaveUpdate, SaveUpsert
      <4>2. SaveUpdate(r) /\ Put(r, req[r].copy) /\ FreshCopy(req[r], Stored(r))
        BY <1>1, <2>1, <2>2, <2>5, <3>3, <4>1, HolderStep
           DEF SaveUpdate, SaveUpsert, DeleteProperty, RestoreProperty, Fail
      <4> QED BY <1>1, <4>2, SaveImplements DEF SaveUpdate
    <3> QED BY <3>1, <3>2, <3>3
  <2> QED BY <2>3, <2>4, <2>5
<1>2. IInv /\ Fresh /\ [Next]_vars
          => [\A r \in Requests :
                  AtWrite(r) /\ pc'[r] = "idle" /\ row' # row
                      => \/ AskedFor(r)
                         \/ r \in overtaken /\ req[r].op \notin {"delete", "restore"}]_vars
  BY <1>1
<1> QED BY <1>2, Inductive, FreshAlways, PTL DEF Spec, AtomicUnlessOvertaken

-----------------------------------------------------------------------------
(***************************************************************************)
(* What is left when requests do overlap.  The copy a request saves was    *)
(* made from a listing that was not deleted, and the one it inserts is     *)
(* neither rented nor deleted; its owner is still the listing's.           *)
(***************************************************************************)
LateReq(r) ==
    /\ pc[r] = "save" => ~req[r].copy.deleted
    /\ pc[r] \in {"check", "insert"} => ~req[r].copy.is_rented /\ ~req[r].copy.deleted

Late == \A r \in Requests : LateReq(r)

LEMMA FreshIsLive ==
    ASSUME NEW q, NEW old \in Row, FreshCopy(q, old)
    PROVE  ~q.copy.deleted
  BY DEF FreshCopy, Saves, Row

LEMMA ReadLate ==
    ASSUME IInv, NEW r \in Requests, ReadProperty(r)
    PROVE  LateReq(r)'
<1>1. pc \in [Requests -> PC]
  BY DEF IInv, ProgramTypeOK
<1>2. UndisturbedReq(r)' /\ IInv'
  BY ReadUndisturbed, ReadPropertyStep
<1>3. pc'[r] \notin {"check", "insert"}
  BY <1>1 DEF ReadProperty, Answer, IInv, ReqInv, Saves
<1>4. pc'[r] = "save" => Stored(r)' \in Row
  BY <1>2 DEF IInv, ProgramTypeOK, ReqInv, Stored
<1>5. pc'[r] = "save" => ~req'[r].copy.deleted
  BY <1>2, <1>4, FreshIsLive DEF UndisturbedReq
<1> QED BY <1>3, <1>5 DEF LateReq

LEMMA OwnLate ==
    ASSUME IInv, Late, NEW r \in Requests, StepOf(r)
    PROVE  LateReq(r)'
<1>1. pc \in [Requests -> PC] /\ req \in [Requests -> Req \cup {None}]
  BY DEF IInv, ProgramTypeOK
<1>2. ASSUME pc'[r] \in {"idle", "read", "profile", "upsert"} PROVE LateReq(r)'
  BY <1>2 DEF LateReq
<1>3. CASE \/ CallUpdate(r) \/ CallRenew(r) \/ CallOther(r) \/ CallUpdateMe(r)
           \/ UpdateContact(r) \/ InsertProperty(r) \/ SaveUpdate(r) \/ SaveUpsert(r)
           \/ DeleteProperty(r) \/ RestoreProperty(r) \/ Fail(r)
  <2>1. pc'[r] \in {"idle", "read", "profile", "upsert"}
    BY <1>1, <1>3
       DEF CallUpdate, CallRenew, CallOther, CallUpdateMe, Call, UpdateContact,
           InsertProperty, SaveUpdate, SaveUpsert, DeleteProperty, RestoreProperty, Fail,
           Wrote, Answer, Goto
  <2> QED BY <1>2, <2>1
<1>4. CASE CallCreate(r)
  <2>1. PICK u \in Users, content \in Contents, days \in Days :
            Call(r, "check", [Args("create", None, u) EXCEPT
                !.copy = [owner |-> u, expires_at |-> now + days, content |-> content,
                          is_rented |-> FALSE, deleted |-> FALSE]])
    BY <1>4 DEF CallCreate
  <2>2. /\ pc'[r] = "check"
        /\ req'[r].copy = [owner |-> u, expires_at |-> now + days, content |-> content,
                           is_rented |-> FALSE, deleted |-> FALSE]
    BY <1>1, <2>1 DEF Call, Args
  <2> QED BY <2>2 DEF LateReq
<1>5. CASE CheckProfile(r)
  <2>1. CASE Goto(r, "insert")
    BY <1>1, <1>5, <2>1 DEF CheckProfile, Goto, Late, LateReq
  <2>2. CASE Answer(r, CodeOf("ErrIncompleteProfile"))
    BY <1>1, <1>2, <2>2 DEF Answer
  <2> QED BY <1>5, <2>1, <2>2 DEF CheckProfile
<1>6. CASE ReadProperty(r)
  BY <1>6, ReadLate
<1> QED BY <1>3, <1>4, <1>5, <1>6 DEF StepOf

LEMMA LateAlways == Spec => []Late
<1>1. Init => Late
  BY DEF Init, Late, LateReq
<1>2. ASSUME IInv, Late, [Next]_vars PROVE Late'
  <2>1. CASE Tick \/ UNCHANGED vars
    BY <1>2, <2>1 DEF Tick, vars, Late, LateReq
  <2>2. ASSUME NEW r \in Requests, StepOf(r) PROVE Late'
    <3>1. \A o \in Requests \ {r} : pc'[o] = pc[o] /\ req'[o] = req[o]
      BY <1>2, <2>2, OthersWait DEF IInv
    <3>2. LateReq(r)'
      BY <1>2, <2>2, OwnLate
    <3> QED BY <1>2, <3>1, <3>2 DEF Late, LateReq
  <2> QED BY <1>2, <2>1, <2>2, NextStepOf
<1> QED BY <1>1, <1>2, Inductive, PTL DEF Spec

\* A row that its owner may write, on the books.
LEMMA OverwriteImplements ==
    ASSUME IInv, NEW r \in Requests, pc[r] \in {"save", "upsert"}, NEW new,
           Put(r, new), Writable(req[r], new), ~new.deleted, UNCHANGED <<complete, now>>
    PROVE  Book!LateNext
<1> DEFINE p == req[r].property
<1>1. p \in Properties /\ row[p] # None /\ row[p].owner = req[r].caller
  BY DEF IInv, ReqInv, Stored
<1>2. /\ new = [owner |-> row[p].owner, expires_at |-> new.expires_at,
                content |-> new.content, is_rented |-> new.is_rented, deleted |-> FALSE]
      /\ new.content \in Contents /\ new.is_rented \in BOOLEAN
  BY <1>1 DEF Writable, Row
<1>3. new.expires_at \in Book!Ends
  BY EndsAreWindows DEF Writable
<1>4. Book!Put(p, new)
  BY DEF Put, Book!Put
<1>5. Book!Overwrite(p)
  <2> HIDE DEF p
  <2> QED BY <1>1, <1>2, <1>3, <1>4, Zenon DEF Book!Overwrite
<1> QED BY <1>1, <1>5 DEF Book!LateNext

LEMMA InsertImplementsLate ==
    ASSUME IInv, Late, NEW r \in Requests, InsertProperty(r)
    PROVE  Book!LateNext
<1> DEFINE new == req[r].copy
<1>1. PICK p \in Properties : row[p] = None /\ row' = [row EXCEPT ![p] = new]
  BY DEF InsertProperty
<1>2. /\ new \in Row /\ new.expires_at \in Book!Ends
      /\ ~new.is_rented /\ ~new.deleted
  BY EndsAreWindows DEF InsertProperty, IInv, ReqInv, Writable, Late, LateReq
<1>3. /\ new = [owner |-> new.owner, expires_at |-> new.expires_at, content |-> new.content,
                is_rented |-> FALSE, deleted |-> FALSE]
      /\ new.owner \in Users /\ new.content \in Contents
  <2> HIDE DEF new
  <2> QED BY <1>2 DEF Row
<1>4. Book!Put(p, new)
  BY <1>1 DEF Book!Put, InsertProperty
<1>5. Book!CreateLate(p)
  <2> HIDE DEF new
  <2> QED BY <1>1, <1>2, <1>3, <1>4, Zenon DEF Book!CreateLate, Book!CreateFor
<1> QED BY <1>5 DEF Book!LateNext

\* Deleting what is deleted, or restoring what is not, changes nothing.
LEMMA MarkImplements ==
    ASSUME IInv, NEW r \in Requests, DeleteProperty(r) \/ RestoreProperty(r)
    PROVE  [Book!Next]_(Book!vars)
<1> DEFINE p == req[r].property
<1>1. p \in Properties /\ row[p] # None /\ row[p] \in Row
      /\ row \in [Properties -> Row \cup {None}]
  BY DEF DeleteProperty, RestoreProperty, IInv, ProgramTypeOK, ReqInv, Stored
<1>2. PICK gone \in BOOLEAN : Book!Put(p, [row[p] EXCEPT !.deleted = gone])
  <2>1. \/ Book!Put(p, [row[p] EXCEPT !.deleted = TRUE])
        \/ Book!Put(p, [row[p] EXCEPT !.deleted = FALSE])
    BY DEF DeleteProperty, RestoreProperty, Restored, Put, Stored, Book!Put
  <2> QED BY <2>1
<1>3. CASE row[p].deleted = gone
  <2>1. [row[p] EXCEPT !.deleted = gone] = row[p]
    BY <1>1, <1>3 DEF Row
  <2> QED BY <1>1, <1>2, <2>1 DEF Book!Put, Book!vars
<1>4. CASE row[p].deleted # gone
  <2>1. Book!Delete(p) \/ Book!Restore(p)
    BY <1>1, <1>2, <1>4
       DEF Book!Delete, Book!Restore, Book!Listed, Book!Withdrawn, Row
  <2> QED BY <1>1, <2>1 DEF Book!Next
<1> QED BY <1>3, <1>4

LEMMA StepImplementsLate ==
    ASSUME IInv, Late, [Next]_vars
    PROVE  [Book!LateNext]_(Book!vars)
<1>1. CASE UNCHANGED <<row, complete, now>>
  BY <1>1 DEF Book!vars
<1>2. CASE Tick
  BY <1>2 DEF Tick, Book!LateNext, Book!Next, Book!Tick
<1>3. ASSUME NEW r \in Requests, StepOf(r) PROVE [Book!LateNext]_(Book!vars)
  <2>1. CASE UpdateContact(r)
    <3>1. req[r].caller \in Users
      BY <2>1 DEF UpdateContact, IInv, ReqInv, Req
    <3> QED BY <2>1, <3>1 DEF UpdateContact, Book!LateNext, Book!Next, Book!UpdateContact
  <2>2. CASE InsertProperty(r)
    BY <2>2, InsertImplementsLate
  <2>3. CASE SaveUpdate(r)
    <3>1. CASE Put(r, req[r].copy)
      BY <2>3, <3>1, OverwriteImplements DEF SaveUpdate, IInv, ReqInv, Late, LateReq
    <3> QED BY <1>1, <2>3, <3>1 DEF SaveUpdate
  <2>4. CASE SaveUpsert(r)
    <3> DEFINE new == [req[r].copy EXCEPT !.deleted = FALSE]
    <3>1. Writable(req[r], req[r].copy)
      BY <2>4 DEF SaveUpsert, IInv, ReqInv
    <3>2. Writable(req[r], new) /\ ~new.deleted
      BY <3>1 DEF Writable, Row
    <3>3. Put(r, new) /\ pc[r] = "upsert" /\ UNCHANGED <<complete, now>>
      BY <2>4 DEF SaveUpsert
    <3> HIDE DEF new
    <3> QED BY <3>2, <3>3, OverwriteImplements
  <2>5. CASE DeleteProperty(r) \/ RestoreProperty(r)
    BY <2>5, MarkImplements DEF Book!LateNext
  <2>6. CASE \/ CallCreate(r) \/ CallUpdate(r) \/ CallRenew(r) \/ CallOther(r)
             \/ CallUpdateMe(r) \/ CheckProfile(r) \/ ReadProperty(r) \/ Fail(r)
    BY <1>1, <2>6 DEF CallCreate, CallUpdate, CallRenew, CallOther, CallUpdateMe, Call,
                      CheckProfile, ReadProperty, Fail
  <2> QED BY <1>3, <2>1, <2>2, <2>3, <2>4, <2>5, <2>6 DEF StepOf
<1> QED BY <1>1, <1>2, <1>3, NextStepOf DEF vars

\* However requests overlap, a write creates one listing, marks one deleted or
\* not, or replaces one by a copy of its owner's with an expiry in some window.
THEOREM LateRefinement == Spec => ImplementsLateBook
<1>1. Init => Book!Init
  BY DEF Init, Book!Init
<1> QED BY <1>1, Inductive, LateAlways, StepImplementsLate, PTL
        DEF Spec, ImplementsLateBook, Book!LateSpec

-----------------------------------------------------------------------------
(***************************************************************************)
(* What PropertyImages and Catalog take for granted of the listings, which *)
(* they know only as the set live and the constant Owner: this is all that *)
(* the listing operations do to them.                                      *)
(***************************************************************************)
Live == {p \in Properties : row[p] # None /\ ~row[p].deleted}

EnvironmentStep ==
    /\ \A p \in Properties :
           row[p] # None => row'[p] # None /\ row'[p].owner = row[p].owner
    /\ \/ Live' = Live
       \/ \E p \in Live : Live' = Live \ {p}
       \/ \E p \in Properties \ Live : Live' = Live \cup {p}

LEMMA PutEnvironment ==
    ASSUME ProgramTypeOK, NEW p \in Properties, NEW new \in Row, Book!Put(p, new),
           row[p] # None => new.owner = row[p].owner
    PROVE  EnvironmentStep
<1>1. \A o \in Properties : row'[o] = IF o = p THEN new ELSE row[o]
  BY DEF ProgramTypeOK, Book!Put
<1>2. new # None
  BY PropertyListingsAssumption
<1>3. \A o \in Properties :
          row[o] # None => row'[o] # None /\ row'[o].owner = row[o].owner
  BY <1>1, <1>2
<1>4. CASE p \in Live <=> ~new.deleted
  <2>1. Live' = Live
    BY <1>1, <1>2, <1>4 DEF Live
  <2> QED BY <1>3, <2>1 DEF EnvironmentStep
<1>5. CASE p \in Live /\ new.deleted
  <2>1. Live' = Live \ {p}
    BY <1>1, <1>2, <1>5 DEF Live
  <2> QED BY <1>3, <1>5, <2>1 DEF EnvironmentStep
<1>6. CASE p \notin Live /\ ~new.deleted
  <2>1. Live' = Live \cup {p}
    BY <1>1, <1>2, <1>6 DEF Live
  <2> QED BY <1>3, <1>6, <2>1 DEF EnvironmentStep
<1> QED BY <1>4, <1>5, <1>6

\* A request writes at most the one row it is about, its owner's.
LEMMA RowWrites ==
    ASSUME IInv, NEW r \in Requests, StepOf(r), row' # row
    PROVE  \E p \in Properties, new \in Row :
               Book!Put(p, new) /\ (row[p] # None => new.owner = row[p].owner)
<1> DEFINE p == req[r].property
<1>1. CASE InsertProperty(r)
  <2>1. req[r].copy \in Row
    BY <1>1 DEF InsertProperty, IInv, ReqInv, Writable
  <2>2. PICK o \in Properties : row[o] = None /\ row' = [row EXCEPT ![o] = req[r].copy]
    BY <1>1 DEF InsertProperty
  <2> QED BY <1>1, <2>1, <2>2 DEF InsertProperty, Book!Put
<1>2. CASE SaveUpdate(r) \/ SaveUpsert(r)
  <2>1. /\ p \in Properties /\ row[p].owner = req[r].caller
        /\ req[r].copy \in Row /\ req[r].copy.owner = req[r].caller
    BY <1>2 DEF SaveUpdate, SaveUpsert, IInv, ReqInv, Writable, Stored
  <2>2. \E new \in {req[r].copy, [req[r].copy EXCEPT !.deleted = FALSE]} :
            Put(r, new) /\ UNCHANGED <<complete, now>>
    BY <1>2 DEF SaveUpdate, SaveUpsert
  <2>3. \A new \in {req[r].copy, [req[r].copy EXCEPT !.deleted = FALSE]} :
            new \in Row /\ new.owner = req[r].caller
    BY <2>1 DEF Row
  <2> QED BY <2>1, <2>2, <2>3 DEF Put, Book!Put
<1>3. CASE DeleteProperty(r) \/ RestoreProperty(r)
  <2>1. p \in Properties /\ row[p] \in Row
    BY <1>3 DEF DeleteProperty, RestoreProperty, IInv, ProgramTypeOK, ReqInv, Stored
  <2>2. \E gone \in BOOLEAN :
            /\ row' = [row EXCEPT ![p] = [row[p] EXCEPT !.deleted = gone]]
            /\ UNCHANGED <<complete, now>>
    BY <1>3 DEF DeleteProperty, RestoreProperty, Restored, Put, Stored
  <2>3. \A gone \in BOOLEAN : /\ [row[p] EXCEPT !.deleted = gone] \in Row
                             /\ [row[p] EXCEPT !.deleted = gone].owner = row[p].owner
    BY <2>1 DEF Row
  <2> QED BY <2>1, <2>2, <2>3 DEF Book!Put
<1> QED BY <1>1, <1>2, <1>3
        DEF StepOf, CallCreate, CallUpdate, CallRenew, CallOther, CallUpdateMe, Call,
            UpdateContact, CheckProfile, ReadProperty, Fail

\* Listings neither vanish nor change owners, and become live or cease to be one
\* at a time, whatever overlaps: the Owner, SoftDelete and Restore of
\* PropertyImages and Catalog (verifyOwner, deleted_at).
THEOREM EnvironmentTheorem == Spec => [][EnvironmentStep]_vars
<1>1. ASSUME IInv, [Next]_vars PROVE [EnvironmentStep]_vars
  <2>1. CASE UNCHANGED row
    BY <2>1 DEF EnvironmentStep, Live
  <2>2. ASSUME NEW r \in Requests, StepOf(r), row' # row PROVE EnvironmentStep
    BY <1>1, <2>2, RowWrites, PutEnvironment DEF IInv
  <2> QED BY <1>1, <2>1, <2>2, NextStepOf DEF Tick, vars
<1> QED BY <1>1, Inductive, PTL DEF Spec
=============================================================================
