--------------------------- MODULE AccountsProofs ---------------------------
(***************************************************************************)
(* Why an account is never verified without proof, and why an email has    *)
(* one account.  A stored row keeps its email and password for ever, and   *)
(* proven only grows, so a stale copy that says verified is still right    *)
(* when it is saved; and the unique index sees the inserts of open         *)
(* transactions as well as the committed rows.                             *)
(***************************************************************************)
EXTENDS Accounts, FiniteSetTheorems, TLAPS

Exists(a) == a \in Accounts /\ users[a] # None

\* A row that may be stored: its password or op gives a way in, and it is
\* verified only with proof.
Sound(new) == new \in Row /\ (new.verified => new.email \in proven)

\* What an open transaction of r is about to commit.
CommitInv(r) ==
    /\ req[r].op \in {"register", "google"}
    /\ req[r].account \in Accounts
    /\ req[r].row = None => req[r].op = "google" /\ Exists(req[r].account)
    /\ req[r].row # None =>
           /\ Sound(req[r].row)
           /\ req[r].row.password \/ req[r].op = "google"
           /\ users[req[r].account] = None
           /\ With(req[r].row.email) = {}

\* What request r may write when it comes to that.
ReqInv(r) ==
    /\ pc[r] # "idle" => req[r] \in Req
    /\ pc[r] = "count" => req[r].op = "register"
    /\ pc[r] = "lookup" => req[r].op = "google"
    /\ pc[r] = "insert" => req[r].op \in {"register", "google"}
    /\ pc[r] \in {"count", "lookup", "insert", "login", "cooldown", "find"} =>
           req[r].email \in Emails
    /\ pc[r] \in {"cooldown", "find"} => req[r].op = "resend"
    /\ pc[r] \in {"lookup", "insert"} =>
           (req[r].op = "google" /\ req[r].flag => req[r].email \in proven)
    /\ pc[r] = "commit" => CommitInv(r)
    /\ pc[r] = "send" =>
           Exists(req[r].account) /\ (req[r].op = "resend" => req[r].email \in Emails)
    /\ pc[r] \in {"verify", "mark"} =>
           Exists(req[r].account) /\ users[req[r].account].email \in proven
    /\ pc[r] \in {"fetch", "save"} => Exists(req[r].account)
    /\ pc[r] = "save" =>
           /\ Sound(req[r].row)
           /\ req[r].row.email = users[req[r].account].email
           /\ req[r].row.password = users[req[r].account].password

\* Two open inserts differ in email and in id.
InsertsDiffer ==
    \A r, q \in Requests :
        Pending(r) /\ Pending(q) /\ r # q =>
            req[r].row.email # req[q].row.email /\ req[r].account # req[q].account

IInv ==
    /\ TypeOK
    /\ OneAccountPerEmail
    /\ AccountReachable
    /\ VerifiedByProof
    /\ LoginNeedsProof
    /\ \A link \in links : Exists(link.account)
    /\ \A s \in sessions : Exists(s.account)
    /\ InsertsDiffer
    /\ \A r \in Requests : ReqInv(r)

-----------------------------------------------------------------------------
LEMMA NoneIsNoRow == None \notin Row
  BY AccountsAssumption

LEMMA CodeType == \A op, err : CodeOf(op, err) \in Codes
  BY DEF CodeOf, Codes

LEMMA InitIInv == Init => IInv
  BY AccountsAssumption
  DEF Init, IInv, TypeOK, OneAccountPerEmail, AccountReachable, VerifiedByProof,
      LoginNeedsProof, InsertsDiffer, Pending, ReqInv, PC, Codes

\* A request's step that leaves the tables alone need only account for its own
\* request and for what it adds to links, sessions and proven.
LEMMA QuietStep ==
    ASSUME IInv, NEW r \in Requests, UNCHANGED tables, TypeOK', proven \subseteq proven',
           \A o \in Requests \ {r} : pc'[o] = pc[o] /\ req'[o] = req[o],
           \A link \in links' : Exists(link.account),
           \A s \in sessions' :
               /\ Exists(s.account)
               /\ s.by = "password" => users[s.account].email \in proven',
           ReqInv(r)',
           \A q \in Requests \ {r} :
               Pending(r)' /\ Pending(q) =>
                   req'[r].row.email # req[q].row.email /\ req'[r].account # req[q].account
    PROVE  IInv'
<1>1. users' = users /\ linked' = linked
  BY DEF tables
<1>2. /\ \A a : Exists(a)' <=> Exists(a)
      /\ \A e : With(e)' = With(e)
  BY <1>1 DEF Exists, With
<1>3. OneAccountPerEmail' /\ AccountReachable'
  BY <1>1 DEF IInv, OneAccountPerEmail, AccountReachable
<1>4. VerifiedByProof' /\ LoginNeedsProof'
  BY <1>1 DEF IInv, VerifiedByProof, LoginNeedsProof
<1>5. \A q \in Requests \ {r} : Pending(q)' <=> Pending(q)
  BY DEF Pending
<1>6. InsertsDiffer'
  BY <1>5 DEF IInv, InsertsDiffer
<1>7. ASSUME NEW o \in Requests, o # r PROVE ReqInv(o)'
  <2>1. pc'[o] = pc[o] /\ req'[o] = req[o] /\ ReqInv(o)
    BY <1>7 DEF IInv
  <2>2. \A new : Sound(new) => Sound(new)'
    BY DEF Sound
  <2>3. CommitInv(o) => CommitInv(o)'
    BY <1>1, <1>2, <2>1, <2>2 DEF CommitInv
  <2> QED BY <1>1, <1>2, <2>1, <2>2, <2>3 DEF ReqInv
<1>8. /\ \A link \in links' : Exists(link.account)'
      /\ \A s \in sessions' : Exists(s.account)'
  BY <1>2
<1> QED BY <1>3, <1>4, <1>6, <1>7, <1>8 DEF IInv

LEMMA AnswerFacts ==
    ASSUME TypeOK, NEW r \in Requests, NEW err, Answer(r, err)
    PROVE  /\ pc' \in [Requests -> PC] /\ pc'[r] = "idle"
           /\ req' \in [Requests -> Req \cup {None}]
           /\ reply' \in [Requests -> Codes \cup {None}]
           /\ \A o \in Requests \ {r} : pc'[o] = pc[o] /\ req'[o] = req[o]
           /\ ReqInv(r)' /\ ~Pending(r)'
<1>1. CodeOf(req[r].op, err) \in Codes
  BY CodeType
<1>2. /\ pc' \in [Requests -> PC] /\ pc'[r] = "idle"
      /\ req' \in [Requests -> Req \cup {None}]
      /\ reply' \in [Requests -> Codes \cup {None}]
      /\ \A o \in Requests \ {r} : pc'[o] = pc[o] /\ req'[o] = req[o]
  BY <1>1 DEF Answer, TypeOK, PC
<1> QED BY <1>2 DEF ReqInv, Pending

\* A request that answers, having written nothing but a session or a mail.
LEMMA AnswerStep ==
    ASSUME IInv, NEW r \in Requests, NEW err, Answer(r, err),
           UNCHANGED <<tables, proven, time>>,
           links' \in SUBSET [account : Accounts, issued : 0 .. MaxNow],
           sessions' \in SUBSET [account : Accounts, by : {"password", "google"}],
           cooldowns' \in [Emails -> 0 .. MaxNow \cup {None}],
           mails' \in [Emails -> Nat],
           \A link \in links' : Exists(link.account),
           \A s \in sessions' :
               /\ Exists(s.account)
               /\ s.by = "password" => users[s.account].email \in proven
    PROVE  IInv'
<1>1. TypeOK'
  BY AnswerFacts DEF IInv, TypeOK, tables, time
<1> QED BY <1>1, AnswerFacts, QuietStep DEF IInv

LEMMA PlainAnswer ==
    ASSUME IInv, NEW r \in Requests, NEW err, Answer(r, err),
           UNCHANGED <<tables, world, cooldowns, time>>
    PROVE  IInv'
<1>1. UNCHANGED <<links, sessions, mails, proven>>
  BY DEF world
<1>2. \A s \in sessions : Exists(s.account)
          /\ (s.by = "password" => users[s.account].email \in proven)
  BY DEF IInv, LoginNeedsProof
<1> QED BY <1>1, <1>2, AnswerStep DEF IInv, TypeOK

\* A request that moves on to another statement without an open insert.
LEMMA MoveStep ==
    ASSUME IInv, NEW r \in Requests, NEW label \in PC, NEW new \in Req,
           pc' = [pc EXCEPT ![r] = label], req' = [req EXCEPT ![r] = new], UNCHANGED reply,
           UNCHANGED <<tables, world, time>>,
           cooldowns' \in [Emails -> 0 .. MaxNow \cup {None}],
           ReqInv(r)',
           \A q \in Requests \ {r} :
               Pending(r)' /\ Pending(q) =>
                   new.row.email # req[q].row.email /\ new.account # req[q].account
    PROVE  IInv'
<1>1. /\ pc' \in [Requests -> PC] /\ pc'[r] = label
      /\ req' \in [Requests -> Req \cup {None}] /\ req'[r] = new
      /\ \A o \in Requests \ {r} : pc'[o] = pc[o] /\ req'[o] = req[o]
  BY DEF IInv, TypeOK
<1>2. TypeOK'
  BY <1>1 DEF IInv, TypeOK, tables, world, time
<1>3. UNCHANGED <<links, sessions, mails, proven>>
  BY DEF world
<1>4. \A s \in sessions : Exists(s.account)
          /\ (s.by = "password" => users[s.account].email \in proven)
  BY DEF IInv, LoginNeedsProof
<1> QED BY <1>1, <1>2, <1>3, <1>4, QuietStep DEF IInv

-----------------------------------------------------------------------------
LEMMA CallStep ==
    ASSUME IInv, NEW r \in Requests,
           NEW label \in {"count", "lookup", "login", "verify", "cooldown", "fetch"},
           NEW op \in {"register", "login", "google", "verify", "resend", "contact"},
           NEW email \in Emails \cup {None}, NEW account \in Accounts \cup {None},
           NEW flag \in BOOLEAN, Call(r, label, op, email, account, flag),
           proven \subseteq proven', proven' \subseteq Emails,
           label = "count" => op = "register",
           label = "lookup" => op = "google" /\ (flag = TRUE => email \in proven'),
           label \in {"count", "lookup", "login", "cooldown"} => email \in Emails,
           label = "cooldown" => op = "resend",
           label = "verify" => Exists(account) /\ users[account].email \in proven',
           label = "fetch" => Exists(account)
    PROVE  IInv'
<1> DEFINE new == [op |-> op, email |-> email, account |-> account, flag |-> flag,
                   row |-> None]
<1>1. new \in Req
  BY DEF Req
<1>2. new.op = op /\ new.email = email /\ new.account = account /\ new.flag = flag
      /\ new.row = None
  OBVIOUS
<1>3. /\ pc' = [pc EXCEPT ![r] = label] /\ req' = [req EXCEPT ![r] = new]
      /\ reply' = [reply EXCEPT ![r] = None]
      /\ UNCHANGED <<tables, links, sessions, cooldowns, mails, time>>
  BY DEF Call
<1> HIDE DEF new
<1>4. /\ pc' \in [Requests -> PC] /\ pc'[r] = label
      /\ req' \in [Requests -> Req \cup {None}] /\ req'[r] = new
      /\ reply' \in [Requests -> Codes \cup {None}]
      /\ \A o \in Requests \ {r} : pc'[o] = pc[o] /\ req'[o] = req[o]
  BY <1>1, <1>3 DEF IInv, TypeOK, PC
<1>5. TypeOK'
  BY <1>3, <1>4 DEF IInv, TypeOK, tables, time
<1>6. \A a : Exists(a)' <=> Exists(a)
  BY <1>3 DEF Exists, tables
<1>7. ReqInv(r)'
  BY <1>1, <1>2, <1>3, <1>4, <1>6 DEF ReqInv, tables
<1>8. ~Pending(r)'
  BY <1>4 DEF Pending
<1>9. \A s \in sessions' : Exists(s.account)
          /\ (s.by = "password" => users[s.account].email \in proven')
  BY <1>3 DEF IInv, LoginNeedsProof
<1>10. \A link \in links' : Exists(link.account)
  BY <1>3 DEF IInv
<1>11. UNCHANGED tables
  BY <1>3
<1> QED BY <1>4, <1>5, <1>7, <1>8, <1>9, <1>10, <1>11, QuietStep

LEMMA CallsStep ==
    ASSUME IInv, NEW r \in Requests,
           \/ CallRegister(r) \/ CallLogin(r) \/ CallGoogle(r) \/ CallVerify(r)
           \/ CallResend(r) \/ CallUpdateMe(r)
    PROVE  IInv'
<1>1. proven \subseteq Emails
  BY DEF IInv, TypeOK
<1>2. CASE CallRegister(r)
  BY <1>1, <1>2, CallStep DEF CallRegister
<1>3. CASE CallLogin(r)
  <2>1. PICK e \in Emails, right \in BOOLEAN :
            Call(r, "login", "login", e, None, right) /\ UNCHANGED proven
    BY <1>3 DEF CallLogin
  <2> QED BY <1>1, <2>1, CallStep
<1>4. CASE CallGoogle(r)
  <2>1. PICK e \in Emails, verified \in BOOLEAN :
            /\ Call(r, "lookup", "google", e, None, verified)
            /\ proven' = IF verified THEN proven \cup {e} ELSE proven
    BY <1>4 DEF CallGoogle
  <2>2. proven \subseteq proven' /\ proven' \subseteq Emails /\ (verified = TRUE => e \in proven')
    BY <1>1, <2>1
  <2> QED BY <2>1, <2>2, CallStep
<1>5. CASE CallVerify(r)
  <2>1. PICK link \in links :
            /\ Call(r, "verify", "verify", None, link.account, FALSE)
            /\ proven' = proven \cup {users[link.account].email}
    BY <1>5 DEF CallVerify
  <2>2. Exists(link.account)
    BY <2>1 DEF IInv
  <2>3. link.account \in Accounts /\ users[link.account] \in Row
    BY <2>2 DEF Exists, IInv, TypeOK
  <2>4. proven \subseteq proven' /\ proven' \subseteq Emails
        /\ users[link.account].email \in proven'
    BY <1>1, <2>1, <2>3 DEF Row
  <2> QED BY <2>1, <2>2, <2>3, <2>4, CallStep
<1>6. CASE CallResend(r)
  BY <1>1, <1>6, CallStep DEF CallResend
<1>7. CASE CallUpdateMe(r)
  <2>1. PICK s \in sessions, filled \in BOOLEAN :
            Call(r, "fetch", "contact", None, s.account, filled) /\ UNCHANGED proven
    BY <1>7 DEF CallUpdateMe
  <2>2. Exists(s.account)
    BY <2>1 DEF IInv
  <2>3. s.account \in Accounts
    BY <2>2 DEF Exists
  <2> QED BY <1>1, <2>1, <2>2, <2>3, CallStep
<1> QED BY <1>2, <1>3, <1>4, <1>5, <1>6, <1>7

-----------------------------------------------------------------------------
LEMMA GotoFacts ==
    ASSUME TypeOK, NEW r \in Requests, NEW label, Goto(r, label)
    PROVE  /\ pc' = [pc EXCEPT ![r] = label] /\ pc'[r] = label
           /\ req' = [req EXCEPT ![r] = req[r]] /\ req'[r] = req[r]
           /\ UNCHANGED reply
  BY DEF Goto, TypeOK

LEMMA KeepFacts ==
    ASSUME TypeOK, NEW r \in Requests, req[r] \in Req,
           NEW account \in Accounts, NEW row1 \in Row \cup {None},
           NEW label, Keep(r, label, account, row1)
    PROVE  \E new \in Req :
               /\ pc' = [pc EXCEPT ![r] = label] /\ pc'[r] = label
               /\ req' = [req EXCEPT ![r] = new] /\ req'[r] = new
               /\ UNCHANGED reply
               /\ new.account = account /\ new.row = row1
               /\ new.op = req[r].op /\ new.email = req[r].email
<1> DEFINE q == req[r]  new == [q EXCEPT !.account = account, !.row = row1]
<1>1. req' = [req EXCEPT ![r] = new]
  BY DEF Keep
<1>2. /\ new \in Req /\ new.account = account /\ new.row = row1
      /\ new.op = q.op /\ new.email = q.email
  <2> HIDE DEF q
  <2> QED BY DEF Req, q
<1> HIDE DEF q, new
<1>3. req'[r] = new
  BY <1>1 DEF TypeOK
<1>4. pc' = [pc EXCEPT ![r] = label] /\ pc'[r] = label /\ UNCHANGED reply
  BY DEF Keep, TypeOK
<1> QED BY <1>1, <1>2, <1>3, <1>4 DEF q

\* What the frame of a request's action says of the invariant's other parts.
LEMMA TypeFacts ==
    ASSUME IInv
    PROVE  /\ TypeOK
           /\ cooldowns \in [Emails -> 0 .. MaxNow \cup {None}]
           /\ \A r \in Requests : ReqInv(r)
  BY DEF IInv, TypeOK

LEMMA CountUsersStep ==
    ASSUME IInv, NEW r \in Requests, CountUsers(r)
    PROVE  IInv'
<1>1. CASE Answer(r, "already exists")
  BY <1>1, PlainAnswer DEF CountUsers
<1>2. CASE Goto(r, "insert")
  <2>1. ReqInv(r) /\ pc[r] = "count"
    BY TypeFacts DEF CountUsers
  <2>2. req[r] \in Req /\ req[r].op = "register" /\ req[r].email \in Emails
    BY <2>1 DEF ReqInv
  <2>3. ReqInv(r)'
    BY <1>2, <2>2, TypeFacts, GotoFacts DEF ReqInv
  <2>4. ~Pending(r)'
    BY <1>2, TypeFacts, GotoFacts DEF Pending
  <2> QED BY <1>2, <2>2, <2>3, <2>4, TypeFacts, GotoFacts, MoveStep DEF CountUsers, PC
<1> QED BY <1>1, <1>2 DEF CountUsers

LEMMA LookupUserStep ==
    ASSUME IInv, NEW r \in Requests, LookupUser(r)
    PROVE  IInv'
<1>1. ReqInv(r) /\ pc[r] = "lookup"
  BY TypeFacts DEF LookupUser
<1>2. /\ req[r] \in Req /\ req[r].op = "google" /\ req[r].email \in Emails
      /\ req[r].flag => req[r].email \in proven
  BY <1>1 DEF ReqInv
<1>3. CASE Goto(r, "insert")
  <2>1. UNCHANGED proven
    BY DEF LookupUser, world
  <2>2. ReqInv(r)'
    BY <1>2, <1>3, <2>1, TypeFacts, GotoFacts DEF ReqInv
  <2>3. ~Pending(r)'
    BY <1>3, TypeFacts, GotoFacts DEF Pending
  <2> QED BY <1>2, <1>3, <2>2, <2>3, TypeFacts, GotoFacts, MoveStep DEF LookupUser, PC
<1>4. ASSUME NEW a \in With(req[r].email), Keep(r, "commit", a, None) PROVE IInv'
  <2>1. Exists(a) /\ a \in Accounts
    BY <1>4 DEF With, Exists
  <2>2. PICK new \in Req :
            /\ pc' = [pc EXCEPT ![r] = "commit"] /\ pc'[r] = "commit"
            /\ req' = [req EXCEPT ![r] = new] /\ req'[r] = new
            /\ UNCHANGED reply
            /\ new.account = a /\ new.row = None
            /\ new.op = req[r].op /\ new.email = req[r].email
    BY <1>2, <1>4, <2>1, TypeFacts, KeepFacts
  <2>3. UNCHANGED users
    BY DEF LookupUser, tables
  <2>4. ReqInv(r)'
    BY <1>2, <2>1, <2>2, <2>3 DEF ReqInv, CommitInv, Exists
  <2>5. ~Pending(r)'
    BY <2>2 DEF Pending
  <2> QED BY <2>2, <2>4, <2>5, TypeFacts, MoveStep DEF LookupUser, PC
<1> QED BY <1>3, <1>4 DEF LookupUser

\* A new account's row is verified only with proof, and has a way in.
LEMMA NewUserSound ==
    ASSUME IInv, NEW r \in Requests, pc[r] = "insert"
    PROVE  /\ Sound(NewUser(r))
           /\ NewUser(r).email = req[r].email
           /\ NewUser(r).password = TRUE \/ req[r].op = "google"
<1>1. /\ req[r] \in Req /\ req[r].op \in {"register", "google"} /\ req[r].email \in Emails
      /\ req[r].op = "google" /\ req[r].flag => req[r].email \in proven
  BY TypeFacts DEF ReqInv
<1>2. req[r].flag \in BOOLEAN
  BY <1>1 DEF Req
<1>3. CASE req[r].op = "register"
  BY <1>1, <1>3 DEF NewUser, Sound, Row
<1>4. CASE req[r].op = "google"
  <2> DEFINE flag == req[r].flag
             new == [email |-> req[r].email, password |-> FALSE, contact |-> FALSE,
                     verified |-> flag]
  <2>1. NewUser(r) = new
    BY <1>1, <1>4 DEF NewUser, ClaimVerified
  <2>2. new.email = req[r].email /\ new.verified = flag
    OBVIOUS
  <2>3. new \in Row
    <3> HIDE DEF flag
    <3> QED BY <1>1, <1>2 DEF Row, flag
  <2> HIDE DEF new
  <2> QED BY <1>1, <1>4, <2>1, <2>2, <2>3 DEF Sound
<1> QED BY <1>1, <1>3, <1>4

LEMMA InsertUserStep ==
    ASSUME IInv, NEW r \in Requests, InsertUser(r)
    PROVE  IInv'
<1>1. CASE Answer(r, "duplicate key")
  BY <1>1, PlainAnswer DEF InsertUser
<1>2. ASSUME ~Duplicate(r), ~Waits(r), NEW a \in Accounts, users[a] = None,
             \A q \in Requests : Pending(q) => req[q].account # a,
             Keep(r, "commit", a, NewUser(r))
      PROVE  IInv'
  <2>1. pc[r] = "insert" /\ req[r] \in Req /\ req[r].op \in {"register", "google"}
    BY TypeFacts DEF InsertUser, ReqInv
  <2>2. /\ Sound(NewUser(r)) /\ NewUser(r).email = req[r].email
        /\ NewUser(r).password = TRUE \/ req[r].op = "google"
    BY <2>1, NewUserSound
  <2>3. NewUser(r) \in Row
    BY <2>2 DEF Sound
  <2>4. PICK new \in Req :
            /\ pc' = [pc EXCEPT ![r] = "commit"] /\ pc'[r] = "commit"
            /\ req' = [req EXCEPT ![r] = new] /\ req'[r] = new
            /\ UNCHANGED reply
            /\ new.account = a /\ new.row = NewUser(r)
            /\ new.op = req[r].op /\ new.email = req[r].email
    BY <1>2, <2>1, <2>3, TypeFacts, KeepFacts
  <2>5. UNCHANGED users /\ UNCHANGED proven
    BY DEF InsertUser, tables, world
  <2>6. With(NewUser(r).email) = {}
    BY <1>2, <2>2 DEF Duplicate
  <2>7. new.row # None
    BY <2>3, <2>4, NoneIsNoRow
  <2>8. Sound(new.row) /\ With(new.row.email) = {}
    BY <2>2, <2>4, <2>6
  <2>9. Sound(new.row)' /\ With(new.row.email)' = {}
    BY <2>5, <2>8 DEF Sound, With
  <2>10. new.row.password \/ new.op = "google"
    BY <2>2, <2>4
  <2>11. CommitInv(r)'
    BY <1>2, <2>1, <2>4, <2>5, <2>7, <2>9, <2>10 DEF CommitInv
  <2>12. ReqInv(r)'
    BY <2>4, <2>11 DEF ReqInv
  <2>13. \A q \in Requests \ {r} :
             Pending(q) => new.row.email # req[q].row.email /\ new.account # req[q].account
    BY <1>2, <2>2, <2>4 DEF Waits
  <2> QED BY <2>4, <2>12, <2>13, TypeFacts, MoveStep DEF InsertUser, PC
<1> QED BY <1>1, <1>2 DEF InsertUser

LEMMA CommitUserStep ==
    ASSUME IInv, NEW r \in Requests, CommitUser(r)
    PROVE  IInv'
<1>0. PICK a, new : a = req[r].account /\ new = req[r].row
  OBVIOUS
<1>1. pc[r] = "commit" /\ req[r] \in Req /\ CommitInv(r)
  BY TypeFacts DEF CommitUser, ReqInv
<1>2. /\ req[r].op \in {"register", "google"} /\ a \in Accounts
      /\ new = None => req[r].op = "google" /\ users[a] # None
  BY <1>0, <1>1 DEF CommitInv, Exists
<1>3. new # None =>
          /\ new \in Row /\ (new.verified => new.email \in proven)
          /\ new.password \/ req[r].op = "google"
          /\ users[a] = None
          /\ \A b \in Accounts : users[b] # None => users[b].email # new.email
  BY <1>0, <1>1 DEF CommitInv, Sound, With
<1>4. users' = IF new = None THEN users ELSE [users EXCEPT ![a] = new]
  BY <1>0 DEF CommitUser
<1>5. linked' = (IF req[r].op = "google" THEN linked \cup {a} ELSE linked)
  BY <1>0 DEF CommitUser, Linked
<1>6. /\ sessions \subseteq sessions'
      /\ sessions' \subseteq sessions \cup {[account |-> a, by |-> "google"]}
      /\ UNCHANGED <<links, cooldowns, mails, proven, started, now>>
  BY <1>0 DEF CommitUser, time
<1>7. \/ /\ req[r].op = "register" /\ pc'[r] = "send" /\ req'[r] = req[r]
         /\ pc' \in [Requests -> PC] /\ req' \in [Requests -> Req \cup {None}]
         /\ reply' \in [Requests -> Codes \cup {None}]
         /\ \A o \in Requests \ {r} : pc'[o] = pc[o] /\ req'[o] = req[o]
      \/ \E err : Answer(r, err)
  BY DEF CommitUser, Goto, IInv, TypeOK, PC
<1>8. \A b \in Accounts : users'[b] = IF new # None /\ b = a THEN new ELSE users[b]
  BY <1>2, <1>4 DEF IInv, TypeOK
<1>9. \A b \in Accounts : users[b] # None => users'[b] = users[b] /\ users'[b] # None
  BY <1>3, <1>8
<1>10. users'[a] # None
  BY <1>2, <1>3, <1>8, NoneIsNoRow
<1>11. users' \in [Accounts -> Row \cup {None}]
  BY <1>2, <1>3, <1>4 DEF IInv, TypeOK
<1>12. linked' \in SUBSET Accounts /\ linked \subseteq linked'
  BY <1>2, <1>5 DEF IInv, TypeOK
<1>13. sessions' \in SUBSET [account : Accounts, by : {"password", "google"}]
  BY <1>2, <1>6 DEF IInv, TypeOK
<1>14. /\ pc' \in [Requests -> PC] /\ req' \in [Requests -> Req \cup {None}]
       /\ reply' \in [Requests -> Codes \cup {None}]
       /\ \A o \in Requests \ {r} : pc'[o] = pc[o] /\ req'[o] = req[o]
       /\ ~Pending(r)'
  BY <1>7, AnswerFacts DEF IInv, Pending
<1>15. TypeOK'
  BY <1>6, <1>11, <1>12, <1>13, <1>14 DEF IInv, TypeOK
<1>16. OneAccountPerEmail'
  BY <1>3, <1>8 DEF IInv, OneAccountPerEmail
<1>17. AccountReachable'
  BY <1>3, <1>5, <1>8, <1>12 DEF IInv, AccountReachable
<1>18. VerifiedByProof'
  BY <1>3, <1>6, <1>8 DEF IInv, VerifiedByProof
<1>19. \A b : Exists(b) => Exists(b)' /\ users'[b] = users[b]
  BY <1>9 DEF Exists
<1>20. Exists(a)'
  BY <1>2, <1>10 DEF Exists
<1>21. \A link \in links' : Exists(link.account)'
  BY <1>6, <1>19 DEF IInv
<1>22. \A s \in sessions' : Exists(s.account)'
  BY <1>6, <1>19, <1>20 DEF IInv
<1>23. LoginNeedsProof'
  BY <1>6, <1>19 DEF IInv, LoginNeedsProof
<1>24. \A q \in Requests \ {r} : Pending(q)' <=> Pending(q)
  BY <1>14 DEF Pending
<1>25. InsertsDiffer'
  BY <1>14, <1>24 DEF IInv, InsertsDiffer
<1>26. ASSUME NEW o \in Requests, o # r PROVE ReqInv(o)'
  <2>1. pc'[o] = pc[o] /\ req'[o] = req[o] /\ ReqInv(o)
    BY <1>14, <1>26 DEF IInv
  <2>2. \A row1 : Sound(row1)' <=> Sound(row1)
    BY <1>6 DEF Sound
  <2>3. ASSUME pc[o] = "commit", CommitInv(o), req[o].row # None
        PROVE  users'[req[o].account] = None /\ With(req[o].row.email)' = {}
    <3>1. Pending(o)
      BY <2>3 DEF Pending
    <3>2. new # None => req[o].account # a /\ req[o].row.email # new.email
      BY <1>0, <1>1, <1>26, <3>1 DEF Pending, IInv, InsertsDiffer
    <3>3. /\ req[o].account \in Accounts /\ users[req[o].account] = None
          /\ \A b \in Accounts : users[b] # None => users[b].email # req[o].row.email
      BY <2>3 DEF CommitInv, With
    <3>4. users'[req[o].account] = None
      BY <1>8, <3>2, <3>3
    <3>5. \A b \in Accounts : users'[b] # None => users'[b].email # req[o].row.email
      BY <1>8, <3>2, <3>3
    <3> QED BY <2>1, <3>4, <3>5 DEF With
  <2>4. pc[o] = "commit" /\ CommitInv(o) => CommitInv(o)'
    BY <1>19, <2>1, <2>2, <2>3 DEF CommitInv
  <2> QED BY <1>6, <1>19, <2>1, <2>2, <2>4 DEF ReqInv
<1>27. ReqInv(r)'
  <2>1. CASE \E err : Answer(r, err)
    BY <2>1, AnswerFacts DEF IInv
  <2>2. CASE req[r].op = "register" /\ pc'[r] = "send" /\ req'[r] = req[r]
    BY <1>0, <1>1, <1>20, <2>2 DEF ReqInv, Exists
  <2> QED BY <1>7, <2>1, <2>2
<1> QED BY <1>15, <1>16, <1>17, <1>18, <1>21, <1>22, <1>23, <1>25, <1>26, <1>27 DEF IInv

LEMMA SendLinkStep ==
    ASSUME IInv, NEW r \in Requests, SendLink(r)
    PROVE  IInv'
<1>1. ReqInv(r) /\ pc[r] = "send"
  BY TypeFacts DEF SendLink
<1>2. Exists(req[r].account) /\ (req[r].op = "resend" => req[r].email \in Emails)
  BY <1>1 DEF ReqInv
<1>3. req[r].account \in Accounts /\ now \in 0 .. MaxNow
  BY <1>2 DEF Exists, IInv, TypeOK
<1>4. links' \in SUBSET [account : Accounts, issued : 0 .. MaxNow]
  BY <1>3 DEF SendLink, IInv, TypeOK
<1>5. mails' \in [Emails -> Nat]
  BY <1>2 DEF SendLink, IInv, TypeOK
<1>6. \A link \in links' : Exists(link.account)
  BY <1>2 DEF SendLink, IInv
<1>7. \A s \in sessions : Exists(s.account)
          /\ (s.by = "password" => users[s.account].email \in proven)
  BY DEF IInv, LoginNeedsProof
<1>8. /\ sessions' = sessions /\ cooldowns' = cooldowns
      /\ UNCHANGED <<tables, proven, time>>
      /\ Answer(r, "ok")
  BY DEF SendLink
<1>9. sessions \in SUBSET [account : Accounts, by : {"password", "google"}]
  BY DEF IInv, TypeOK
<1> QED BY <1>4, <1>5, <1>6, <1>7, <1>8, <1>9, TypeFacts, AnswerStep

LEMMA LoginStep ==
    ASSUME IInv, NEW r \in Requests, Login(r)
    PROVE  IInv'
<1>1. CASE \E err : Answer(r, err) /\ UNCHANGED sessions
  BY <1>1, PlainAnswer DEF Login, world
<1>2. ASSUME NEW a \in With(req[r].email), EmailVerified(a), Answer(r, "ok"),
             sessions' = sessions \cup {[account |-> a, by |-> "password"]}
      PROVE  IInv'
  <2>1. Exists(a) /\ a \in Accounts /\ users[a].email \in proven
    BY <1>2 DEF With, Exists, EmailVerified, IInv, VerifiedByProof
  <2>2. sessions' \in SUBSET [account : Accounts, by : {"password", "google"}]
    BY <1>2, <2>1 DEF IInv, TypeOK
  <2>3. \A s \in sessions' : Exists(s.account)
            /\ (s.by = "password" => users[s.account].email \in proven)
    BY <1>2, <2>1 DEF IInv, LoginNeedsProof
  <2>4. UNCHANGED <<tables, proven, time>> /\ links' = links /\ cooldowns' = cooldowns
        /\ mails' = mails
    BY DEF Login
  <2>5. /\ links \in SUBSET [account : Accounts, issued : 0 .. MaxNow]
        /\ mails \in [Emails -> Nat]
        /\ \A link \in links : Exists(link.account)
    BY DEF IInv, TypeOK
  <2> QED BY <1>2, <2>2, <2>3, <2>4, <2>5, TypeFacts, AnswerStep
<1> QED BY <1>1, <1>2 DEF Login

LEMMA ReadUnverifiedStep ==
    ASSUME IInv, NEW r \in Requests, ReadUnverified(r)
    PROVE  IInv'
<1>1. CASE Answer(r, "ok")
  BY <1>1, PlainAnswer DEF ReadUnverified
<1>2. CASE Goto(r, "mark")
  <2>1. ReqInv(r) /\ pc[r] = "verify"
    BY TypeFacts DEF ReadUnverified
  <2>2. req[r] \in Req /\ Exists(req[r].account) /\ users[req[r].account].email \in proven
    BY <2>1 DEF ReqInv
  <2>3. UNCHANGED <<users, proven>>
    BY DEF ReadUnverified, tables, world
  <2>4. ReqInv(r)'
    BY <1>2, <2>2, <2>3, TypeFacts, GotoFacts DEF ReqInv, Exists
  <2>5. ~Pending(r)'
    BY <1>2, TypeFacts, GotoFacts DEF Pending
  <2> QED BY <1>2, <2>2, <2>4, <2>5, TypeFacts, GotoFacts, MoveStep DEF ReadUnverified, PC
<1> QED BY <1>1, <1>2 DEF ReadUnverified

\* A write of one's account that keeps its email and password.
LEMMA WriteStep ==
    ASSUME IInv, NEW r \in Requests, NEW a, Exists(a), NEW new,
           Sound(new), new.email = users[a].email, new.password = users[a].password,
           users' = [users EXCEPT ![a] = new],
           Wrote(r), UNCHANGED <<linked, world, cooldowns, time>>
    PROVE  IInv'
<1>1. PICK err : Answer(r, err)
  BY DEF Wrote
<1>2. a \in Accounts /\ users[a] # None
  BY DEF Exists
<1>3. new \in Row /\ new # None /\ (new.verified => new.email \in proven)
  BY NoneIsNoRow DEF Sound
<1>4. \A b \in Accounts : users'[b] = IF b = a THEN new ELSE users[b]
  BY <1>2 DEF IInv, TypeOK
<1>5. \A b \in Accounts :
          /\ users'[b] = None <=> users[b] = None
          /\ users[b] # None => users'[b].email = users[b].email
                                /\ users'[b].password = users[b].password
  BY <1>2, <1>3, <1>4
<1>6. /\ \A b : Exists(b)' <=> Exists(b)
      /\ \A b : Exists(b) => users'[b].email = users[b].email
                             /\ users'[b].password = users[b].password
      /\ \A e : With(e) = {} <=> With(e)' = {}
  BY <1>5 DEF Exists, With
<1>7. UNCHANGED <<linked, links, sessions, cooldowns, mails, proven, started, now>>
  BY DEF world, time
<1>8. users' \in [Accounts -> Row \cup {None}]
  BY <1>2, <1>3 DEF IInv, TypeOK
<1>9. TypeOK'
  BY <1>1, <1>7, <1>8, AnswerFacts DEF IInv, TypeOK
<1>10. OneAccountPerEmail'
  BY <1>5 DEF IInv, OneAccountPerEmail
<1>11. AccountReachable'
  BY <1>5, <1>7 DEF IInv, AccountReachable
<1>12. VerifiedByProof'
  BY <1>3, <1>4, <1>7 DEF IInv, VerifiedByProof
<1>13. /\ \A link \in links' : Exists(link.account)'
       /\ \A s \in sessions' : Exists(s.account)'
       /\ LoginNeedsProof'
  BY <1>6, <1>7 DEF IInv, LoginNeedsProof
<1>14. \A q \in Requests \ {r} : Pending(q)' <=> Pending(q)
  BY <1>1, AnswerFacts DEF Pending, IInv
<1>15. InsertsDiffer'
  BY <1>1, <1>14, AnswerFacts DEF IInv, InsertsDiffer
<1>16. ASSUME NEW o \in Requests, o # r PROVE ReqInv(o)'
  <2>1. pc'[o] = pc[o] /\ req'[o] = req[o] /\ ReqInv(o)
    BY <1>1, <1>16, AnswerFacts DEF IInv
  <2>2. \A row1 : Sound(row1)' <=> Sound(row1)
    BY <1>7 DEF Sound
  <2>3. CommitInv(o) => CommitInv(o)'
    BY <1>5, <1>6, <2>1, <2>2 DEF CommitInv
  <2> QED BY <1>6, <1>7, <2>1, <2>2, <2>3 DEF ReqInv
<1>17. ReqInv(r)'
  BY <1>1, AnswerFacts DEF IInv
<1> QED BY <1>9, <1>10, <1>11, <1>12, <1>13, <1>15, <1>16, <1>17 DEF IInv

LEMMA MarkVerifiedStep ==
    ASSUME IInv, NEW r \in Requests, MarkVerified(r)
    PROVE  IInv'
<1>1. ReqInv(r) /\ pc[r] = "mark"
  BY TypeFacts DEF MarkVerified
<1>2. PICK a : a = req[r].account
  OBVIOUS
<1>3. Exists(a) /\ a \in Accounts /\ users[a] \in Row /\ users[a].email \in proven
  BY <1>1, <1>2 DEF ReqInv, Exists, IInv, TypeOK
<1>4. PICK new : new = [users[a] EXCEPT !.verified = TRUE]
  OBVIOUS
<1>5. new \in Row /\ new.email = users[a].email /\ new.password = users[a].password
  BY <1>3, <1>4 DEF Row
<1>6. Sound(new)
  BY <1>3, <1>5 DEF Sound
<1>7. users' = [users EXCEPT ![a] = new]
  BY <1>2, <1>4 DEF MarkVerified
<1> QED BY <1>3, <1>5, <1>6, <1>7, WriteStep DEF MarkVerified

LEMMA SaveUserStep ==
    ASSUME IInv, NEW r \in Requests, SaveUser(r)
    PROVE  IInv'
<1>1. ReqInv(r) /\ pc[r] = "save"
  BY TypeFacts DEF SaveUser
<1>2. PICK a, new : a = req[r].account /\ new = req[r].row
  OBVIOUS
<1>3. /\ Exists(a) /\ Sound(new)
      /\ new.email = users[a].email /\ new.password = users[a].password
  BY <1>1, <1>2 DEF ReqInv
<1>4. users' = [users EXCEPT ![a] = new]
  BY <1>2 DEF SaveUser
<1> QED BY <1>3, <1>4, WriteStep DEF SaveUser

LEMMA TakeSlotStep ==
    ASSUME IInv, NEW r \in Requests, TakeSlot(r)
    PROVE  IInv'
<1>1. ReqInv(r) /\ pc[r] = "cooldown"
  BY TypeFacts DEF TakeSlot
<1>2. req[r] \in Req /\ req[r].op = "resend" /\ req[r].email \in Emails
  BY <1>1 DEF ReqInv
<1>3. CASE Answer(r, "ok") /\ UNCHANGED cooldowns
  BY <1>3, PlainAnswer DEF TakeSlot
<1>4. CASE cooldowns' = Started(r) /\ Goto(r, "find")
  <2>1. cooldowns' \in [Emails -> 0 .. MaxNow \cup {None}]
    BY <1>2, <1>4 DEF Started, IInv, TypeOK
  <2>2. ReqInv(r)'
    BY <1>2, <1>4, TypeFacts, GotoFacts DEF ReqInv
  <2>3. ~Pending(r)'
    BY <1>4, TypeFacts, GotoFacts DEF Pending
  <2> QED BY <1>2, <1>4, <2>1, <2>2, <2>3, TypeFacts, GotoFacts, MoveStep DEF TakeSlot, PC
<1> QED BY <1>3, <1>4 DEF TakeSlot

LEMMA FindUnverifiedStep ==
    ASSUME IInv, NEW r \in Requests, FindUnverified(r)
    PROVE  IInv'
<1>1. ReqInv(r) /\ pc[r] = "find"
  BY TypeFacts DEF FindUnverified
<1>2. req[r] \in Req /\ req[r].email \in Emails
  BY <1>1 DEF ReqInv
<1>3. CASE Answer(r, "ok")
  BY <1>3, PlainAnswer DEF FindUnverified
<1>4. ASSUME NEW a \in With(req[r].email), Keep(r, "send", a, None) PROVE IInv'
  <2>1. Exists(a) /\ a \in Accounts
    BY <1>4 DEF With, Exists
  <2>2. PICK new \in Req :
            /\ pc' = [pc EXCEPT ![r] = "send"] /\ pc'[r] = "send"
            /\ req' = [req EXCEPT ![r] = new] /\ req'[r] = new
            /\ UNCHANGED reply
            /\ new.account = a /\ new.row = None
            /\ new.op = req[r].op /\ new.email = req[r].email
    BY <1>2, <1>4, <2>1, TypeFacts, KeepFacts
  <2>3. UNCHANGED users
    BY DEF FindUnverified, tables
  <2>4. ReqInv(r)'
    BY <1>2, <2>1, <2>2, <2>3 DEF ReqInv, Exists
  <2>5. ~Pending(r)'
    BY <2>2 DEF Pending
  <2> QED BY <2>2, <2>4, <2>5, TypeFacts, MoveStep DEF FindUnverified, PC
<1> QED BY <1>3, <1>4 DEF FindUnverified

LEMMA FetchUserStep ==
    ASSUME IInv, NEW r \in Requests, FetchUser(r)
    PROVE  IInv'
<1>1. ReqInv(r) /\ pc[r] = "fetch"
  BY TypeFacts DEF FetchUser
<1>2. PICK a, flag : a = req[r].account /\ flag = req[r].flag
  OBVIOUS
<1>3. req[r] \in Req /\ Exists(a) /\ a \in Accounts /\ users[a] \in Row /\ flag \in BOOLEAN
  BY <1>1, <1>2 DEF ReqInv, Exists, IInv, TypeOK, Req
<1>4. PICK row1 : row1 = [users[a] EXCEPT !.contact = flag]
  OBVIOUS
<1>5. /\ row1 \in Row /\ row1.email = users[a].email /\ row1.password = users[a].password
      /\ row1.verified = users[a].verified
  BY <1>3, <1>4 DEF Row
<1>6. Sound(row1)
  BY <1>3, <1>5 DEF Sound, IInv, VerifiedByProof, Exists
<1>7. Keep(r, "save", a, row1)
  BY <1>2, <1>4 DEF FetchUser
<1>8. PICK new \in Req :
          /\ pc' = [pc EXCEPT ![r] = "save"] /\ pc'[r] = "save"
          /\ req' = [req EXCEPT ![r] = new] /\ req'[r] = new
          /\ UNCHANGED reply
          /\ new.account = a /\ new.row = row1
          /\ new.op = req[r].op /\ new.email = req[r].email
  BY <1>3, <1>5, <1>7, TypeFacts, KeepFacts
<1>9. UNCHANGED <<users, proven>>
  BY DEF FetchUser, tables, world
<1>10. Sound(row1)'
  BY <1>6, <1>9 DEF Sound
<1>11. ReqInv(r)'
  BY <1>3, <1>5, <1>8, <1>9, <1>10 DEF ReqInv, Exists
<1>12. ~Pending(r)'
  BY <1>8 DEF Pending
<1> QED BY <1>8, <1>11, <1>12, TypeFacts, MoveStep DEF FetchUser, PC

LEMMA FailStep ==
    ASSUME IInv, NEW r \in Requests, Fail(r)
    PROVE  IInv'
  BY PlainAnswer DEF Fail

\* A restart forgets requests and cooldowns, and keeps the tables.
LEMMA RestartStep ==
    ASSUME IInv, Restart
    PROVE  IInv'
<1>1. UNCHANGED <<users, linked, links, sessions, proven, now>>
  BY DEF Restart, tables
<1>2. TypeOK'
  BY <1>1, AccountsAssumption DEF Restart, IInv, TypeOK, PC, Codes
<1>3. \A a : Exists(a)' <=> Exists(a)
  BY <1>1 DEF Exists
<1>4. /\ OneAccountPerEmail' /\ AccountReachable' /\ VerifiedByProof' /\ LoginNeedsProof'
      /\ \A link \in links' : Exists(link.account)'
      /\ \A s \in sessions' : Exists(s.account)'
  BY <1>1, <1>3 DEF IInv, OneAccountPerEmail, AccountReachable, VerifiedByProof,
                    LoginNeedsProof
<1>5. \A r \in Requests : pc'[r] = "idle"
  BY DEF Restart
<1>6. InsertsDiffer' /\ \A r \in Requests : ReqInv(r)'
  BY <1>5 DEF InsertsDiffer, Pending, ReqInv
<1> QED BY <1>2, <1>4, <1>6 DEF IInv

LEMMA TickStep ==
    ASSUME IInv, Tick
    PROVE  IInv'
<1>1. UNCHANGED <<users, linked, links, sessions, mails, proven, cooldowns, started,
                  pc, req, reply>>
  BY DEF Tick, tables, world
<1>2. TypeOK'
  BY <1>1, AccountsAssumption DEF Tick, IInv, TypeOK
<1>3. /\ \A a : Exists(a)' <=> Exists(a)
      /\ \A e : With(e)' = With(e)
      /\ \A new : Sound(new)' <=> Sound(new)
      /\ \A r : Pending(r)' <=> Pending(r)
  BY <1>1 DEF Exists, With, Sound, Pending
<1>4. /\ OneAccountPerEmail' /\ AccountReachable' /\ VerifiedByProof' /\ LoginNeedsProof'
      /\ \A link \in links' : Exists(link.account)'
      /\ \A s \in sessions' : Exists(s.account)'
      /\ InsertsDiffer'
  BY <1>1, <1>3 DEF IInv, OneAccountPerEmail, AccountReachable, VerifiedByProof,
                    LoginNeedsProof, InsertsDiffer
<1>5. ASSUME NEW r \in Requests PROVE ReqInv(r)'
  <2>1. ReqInv(r)
    BY DEF IInv
  <2>2. CommitInv(r) => CommitInv(r)'
    BY <1>1, <1>3 DEF CommitInv
  <2> QED BY <1>1, <1>3, <2>1, <2>2 DEF ReqInv
<1> QED BY <1>2, <1>4, <1>5 DEF IInv

LEMMA StutterStep ==
    ASSUME IInv, UNCHANGED vars
    PROVE  IInv'
<1>1. UNCHANGED <<users, linked, links, sessions, mails, proven, cooldowns, started, now,
                  pc, req, reply>>
  BY DEF vars
<1>2. /\ \A a : Exists(a)' <=> Exists(a)
      /\ \A e : With(e)' = With(e)
      /\ \A new : Sound(new)' <=> Sound(new)
      /\ \A r : Pending(r)' <=> Pending(r)
  BY <1>1 DEF Exists, With, Sound, Pending
<1>3. /\ TypeOK' /\ OneAccountPerEmail' /\ AccountReachable' /\ VerifiedByProof'
      /\ LoginNeedsProof' /\ InsertsDiffer'
      /\ \A link \in links' : Exists(link.account)'
      /\ \A s \in sessions' : Exists(s.account)'
  BY <1>1, <1>2 DEF IInv, TypeOK, OneAccountPerEmail, AccountReachable, VerifiedByProof,
                    LoginNeedsProof, InsertsDiffer
<1>4. ASSUME NEW r \in Requests PROVE ReqInv(r)'
  <2>1. ReqInv(r)
    BY DEF IInv
  <2>2. CommitInv(r) => CommitInv(r)'
    BY <1>1, <1>2 DEF CommitInv
  <2> QED BY <1>1, <1>2, <2>1, <2>2 DEF ReqInv
<1> QED BY <1>3, <1>4 DEF IInv

LEMMA NextIInv == IInv /\ [Next]_vars => IInv'
<1> SUFFICES ASSUME IInv, [Next]_vars PROVE IInv'
  OBVIOUS
<1>1. ASSUME NEW r \in Requests,
             \/ CallRegister(r) \/ CallLogin(r) \/ CallGoogle(r) \/ CallVerify(r)
             \/ CallResend(r) \/ CallUpdateMe(r)
      PROVE  IInv'
  BY <1>1, CallsStep
<1>2. ASSUME NEW r \in Requests,
             \/ CountUsers(r) \/ LookupUser(r) \/ InsertUser(r) \/ CommitUser(r)
             \/ SendLink(r) \/ Login(r)
      PROVE  IInv'
  BY <1>2, CountUsersStep, LookupUserStep, InsertUserStep, CommitUserStep, SendLinkStep,
     LoginStep
<1>3. ASSUME NEW r \in Requests,
             \/ ReadUnverified(r) \/ MarkVerified(r) \/ TakeSlot(r) \/ FindUnverified(r)
             \/ FetchUser(r) \/ SaveUser(r) \/ Fail(r)
      PROVE  IInv'
  BY <1>3, ReadUnverifiedStep, MarkVerifiedStep, TakeSlotStep, FindUnverifiedStep,
     FetchUserStep, SaveUserStep, FailStep
<1> QED BY <1>1, <1>2, <1>3, RestartStep, TickStep, StutterStep DEF Next

-----------------------------------------------------------------------------
\* The strengthened invariant, from which the theorems below follow.
THEOREM Inductive == Spec => []IInv
  BY InitIInv, NextIInv, PTL DEF Spec

\* Every variable of the accounts keeps its type (Accounts, TypeOK).
THEOREM TypeCorrect == Spec => []TypeOK
<1>1. IInv => TypeOK
  BY DEF IInv
<1> QED BY <1>1, Inductive, PTL

\* Registrations and first Google sign-ins of one email, however they race, make
\* one account (Register, SignInWithGoogle, the unique index on users.email).
THEOREM OneAccountTheorem == Spec => []OneAccountPerEmail
<1>1. IInv => OneAccountPerEmail
  BY DEF IInv
<1> QED BY <1>1, Inductive, PTL

\* Whatever fails halfway, every account can be signed in to by password or by
\* Google (the transaction of SignInWithGoogle).
THEOREM ReachableTheorem == Spec => []AccountReachable
<1>1. IInv => AccountReachable
  BY DEF IInv
<1> QED BY <1>1, Inductive, PTL

\* No account is marked verified whose email nobody has proved, not even by the
\* save of a stale copy (VerifyEmail, SignInWithGoogle, UpdateContact).
THEOREM ProofTheorem == Spec => []VerifiedByProof
<1>1. IInv => VerifiedByProof
  BY DEF IInv
<1> QED BY <1>1, Inductive, PTL

\* Whoever got tokens for a password had proved the email before (Login).
THEOREM LoginTheorem == Spec => []LoginNeedsProof
<1>1. IInv => LoginNeedsProof
  BY DEF IInv
<1> QED BY <1>1, Inductive, PTL

-----------------------------------------------------------------------------
(***************************************************************************)
(* Why the accounts implement Registry.  An account is inserted in one     *)
(* statement and appears in another, at the commit; by InsertsDiffer and   *)
(* CommitInv its email and its id are still free by then.  Everything      *)
(* about a stored account that Registry's operations look at, except for   *)
(* verified, never changes, so that a stale copy of it is as good as new.  *)
(***************************************************************************)
StepOf(r) ==
    \/ CallRegister(r) \/ CallLogin(r) \/ CallGoogle(r) \/ CallVerify(r)
    \/ CallResend(r) \/ CallUpdateMe(r)
    \/ CountUsers(r) \/ LookupUser(r) \/ InsertUser(r) \/ CommitUser(r)
    \/ SendLink(r) \/ Login(r)
    \/ ReadUnverified(r) \/ MarkVerified(r) \/ TakeSlot(r) \/ FindUnverified(r)
    \/ FetchUser(r) \/ SaveUser(r) \/ Fail(r)

LEMMA NextStepOf ==
    [Next]_vars => (\E r \in Requests : StepOf(r)) \/ Restart \/ Tick \/ UNCHANGED vars
  BY DEF Next, StepOf

\* A request's step changes no other request.
LEMMA OthersWait ==
    ASSUME IInv, NEW r \in Requests, StepOf(r), NEW o \in Requests, o # r
    PROVE  pc'[o] = pc[o] /\ req'[o] = req[o]
<1>1. /\ DOMAIN pc = Requests /\ DOMAIN req = Requests
  BY DEF IInv, TypeOK
<1>2. \A label, op, email, account, flag :
          Call(r, label, op, email, account, flag) => pc'[o] = pc[o] /\ req'[o] = req[o]
  BY <1>1 DEF Call
<1>3. \A err : Answer(r, err) => pc'[o] = pc[o] /\ req'[o] = req[o]
  BY <1>1 DEF Answer
<1>4. \A label, a, new : Keep(r, label, a, new) => pc'[o] = pc[o] /\ req'[o] = req[o]
  BY <1>1 DEF Keep
<1>5. \A label : Goto(r, label) => pc'[o] = pc[o] /\ req'[o] = req[o]
  BY <1>1 DEF Goto
<1>6. ASSUME \/ CallRegister(r) \/ CallLogin(r) \/ CallGoogle(r) \/ CallVerify(r)
             \/ CallResend(r) \/ CallUpdateMe(r)
      PROVE  pc'[o] = pc[o] /\ req'[o] = req[o]
  BY <1>2, <1>6, Zenon DEF CallRegister, CallLogin, CallGoogle, CallVerify, CallResend,
                           CallUpdateMe
<1>7. ASSUME \/ CountUsers(r) \/ LookupUser(r) \/ InsertUser(r) \/ CommitUser(r)
             \/ SendLink(r) \/ Login(r)
      PROVE  pc'[o] = pc[o] /\ req'[o] = req[o]
  BY <1>3, <1>4, <1>5, <1>7, Zenon DEF CountUsers, LookupUser, InsertUser, CommitUser,
                                       SendLink, Login
<1>8. ASSUME \/ ReadUnverified(r) \/ MarkVerified(r) \/ TakeSlot(r) \/ FindUnverified(r)
             \/ FetchUser(r) \/ SaveUser(r) \/ Fail(r)
      PROVE  pc'[o] = pc[o] /\ req'[o] = req[o]
  BY <1>3, <1>4, <1>5, <1>8, Zenon DEF ReadUnverified, MarkVerified, TakeSlot,
                     FindUnverified, FetchUser, SaveUser, Fail, Wrote
<1> QED BY <1>6, <1>7, <1>8 DEF StepOf

\* The row a commit brings, as NewUser made it.
Made(r) ==
    pc[r] = "commit" /\ req[r].row # None =>
        LET new == req[r].row IN
        \/ /\ req[r].op = "register"
           /\ new = [verified |-> FALSE, email |-> new.email, password |-> TRUE,
                     contact |-> TRUE]
        \/ /\ req[r].op = "google"
           /\ new = [verified |-> new.verified, email |-> new.email, password |-> FALSE,
                     contact |-> FALSE]

\* Whichever statement a request comes to next, only two lead to its commit.
LEMMA ComesToCommit ==
    ASSUME IInv, NEW r \in Requests, StepOf(r), pc'[r] = "commit"
    PROVE  \/ \E a \in Accounts : Keep(r, "commit", a, None)
           \/ /\ pc[r] = "insert"
              /\ \E a \in Accounts : Keep(r, "commit", a, NewUser(r))
<1>1. DOMAIN pc = Requests /\ DOMAIN req = Requests
  BY DEF IInv, TypeOK
<1>2. \A label, op, email, account, flag :
          Call(r, label, op, email, account, flag) => label = "commit"
  BY <1>1 DEF Call
<1>3. \A err : ~Answer(r, err)
  BY <1>1 DEF Answer
<1>4. \A label, a, new : Keep(r, label, a, new) => label = "commit"
  BY <1>1 DEF Keep
<1>5. \A label : Goto(r, label) => label = "commit"
  BY <1>1 DEF Goto
<1>6. ~(\/ CallRegister(r) \/ CallLogin(r) \/ CallGoogle(r) \/ CallVerify(r)
        \/ CallResend(r) \/ CallUpdateMe(r))
  BY <1>2 DEF CallRegister, CallLogin, CallGoogle, CallVerify, CallResend, CallUpdateMe
<1>7. ~(\/ CountUsers(r) \/ CommitUser(r) \/ SendLink(r) \/ Login(r))
  BY <1>3, <1>5 DEF CountUsers, CommitUser, SendLink, Login
<1>8. ~(\/ ReadUnverified(r) \/ MarkVerified(r) \/ TakeSlot(r) \/ FindUnverified(r)
        \/ FetchUser(r) \/ SaveUser(r) \/ Fail(r))
  BY <1>3, <1>4, <1>5 DEF ReadUnverified, MarkVerified, TakeSlot, FindUnverified, FetchUser,
                          SaveUser, Fail, Wrote
<1>9. CASE LookupUser(r)
  BY <1>3, <1>5, <1>9 DEF LookupUser, With
<1>10. CASE InsertUser(r)
  BY <1>3, <1>10 DEF InsertUser
<1> QED BY <1>6, <1>7, <1>8, <1>9, <1>10 DEF StepOf

LEMMA MadeStep ==
    ASSUME IInv, \A r \in Requests : Made(r), [Next]_vars
    PROVE  (\A r \in Requests : Made(r))'
<1> SUFFICES ASSUME NEW r \in Requests, pc'[r] = "commit" PROVE Made(r)'
  BY DEF Made
<1>1. CASE pc'[r] = pc[r] /\ req'[r] = req[r]
  BY <1>1 DEF Made
<1>2. CASE StepOf(r)
  <2>1. CASE \E a \in Accounts : Keep(r, "commit", a, None)
    <3>1. req'[r].row = None
      BY <2>1 DEF Keep, IInv, TypeOK, Req
    <3> QED BY <3>1 DEF Made
  <2>2. ASSUME pc[r] = "insert", NEW a \in Accounts, Keep(r, "commit", a, NewUser(r))
        PROVE  Made(r)'
    <3>1. /\ req[r] \in Req /\ req[r].op \in {"register", "google"}
          /\ NewUser(r) \in Row
      BY <2>2, TypeFacts, NewUserSound DEF ReqInv, Sound
    <3>2. req'[r].row = NewUser(r) /\ req'[r].op = req[r].op
      BY <2>2, <3>1, TypeFacts, KeepFacts
    <3>3. CASE req[r].op = "register"
      BY <3>2, <3>3 DEF Made, NewUser
    <3>4. CASE req[r].op = "google"
      BY <3>2, <3>4 DEF Made, NewUser
    <3> QED BY <3>1, <3>3, <3>4
  <2> QED BY <1>2, <2>1, <2>2, ComesToCommit
<1>3. CASE Restart
  BY <1>3 DEF Restart
<1>4. CASE Tick \/ UNCHANGED vars
  BY <1>1, <1>4 DEF Tick, vars
<1> QED BY <1>1, <1>2, <1>3, <1>4, NextStepOf, OthersWait

-----------------------------------------------------------------------------
\* The statement that makes an account, or adds a Google link to one, does what
\* Registry does in one instant.
LEMMA CommitImplements ==
    ASSUME IInv, NEW r \in Requests, Made(r), CommitUser(r)
    PROVE  [Members!Next]_(Members!vars)
<1> DEFINE a == req[r].account  new == req[r].row
<1>1. pc[r] = "commit" /\ req[r] \in Req /\ CommitInv(r)
  BY TypeFacts DEF CommitUser, ReqInv
<1>2. a \in Accounts /\ UNCHANGED proven /\ linked' = Linked(r)
  BY <1>1 DEF CommitInv, CommitUser
<1>3. \/ req[r].op = "register" /\ UNCHANGED sessions
      \/ Members!MaybeSignedIn(a, "google")
  BY DEF CommitUser, Members!MaybeSignedIn
<1>4. req[r].op = "register" => UNCHANGED sessions
  BY DEF CommitUser
<1>5. CASE new = None
  <2>1. req[r].op = "google" /\ users[a] # None
    BY <1>1, <1>5 DEF CommitInv, Exists
  <2>2. UNCHANGED users /\ linked' = linked \cup {a}
    BY <1>2, <1>5, <2>1 DEF CommitUser, Linked
  <2>3. Members!SignInWithGoogle(a)
    BY <1>2, <1>3, <2>1, <2>2 DEF Members!SignInWithGoogle, Members!Member
  <2> QED BY <1>2, <2>3 DEF Members!Next
<1>6. CASE new # None
  <2>1. /\ new \in Row /\ (new.verified => new.email \in proven)
        /\ users[a] = None /\ With(new.email) = {}
    BY <1>1, <1>6 DEF CommitInv, Sound
  <2>2. new.email \in Emails /\ new.verified \in BOOLEAN
    BY <2>1 DEF Row
  <2>3. ~Members!Member(a) /\ Members!Free(new.email)
    BY <2>1 DEF Members!Member, Members!Free, With
  <2>4. users' = [users EXCEPT ![a] = new]
    BY <1>6 DEF CommitUser
  <2>5. CASE /\ req[r].op = "register"
             /\ new = [verified |-> FALSE, email |-> new.email, password |-> TRUE,
                       contact |-> TRUE]
    <3>1. UNCHANGED linked
      BY <1>2, <2>5 DEF Linked
    <3>2. Members!Register(a, new.email)
      <4> HIDE DEF a, new
      <4> QED BY <1>2, <1>4, <2>3, <2>4, <2>5, <3>1 DEF Members!Register
    <3> QED BY <1>2, <2>2, <3>2 DEF Members!Next
  <2>6. CASE /\ req[r].op = "google"
             /\ new = [verified |-> new.verified, email |-> new.email, password |-> FALSE,
                       contact |-> FALSE]
    <3>1. linked' = linked \cup {a}
      BY <1>2, <2>6 DEF Linked
    <3>2. Members!MaybeSignedIn(a, "google")
      BY <1>3, <2>6
    <3>3. Members!SignUpWithGoogle(a, new.email, new.verified)
      <4> HIDE DEF a, new
      <4> QED BY <1>2, <2>1, <2>3, <2>4, <2>6, <3>1, <3>2 DEF Members!SignUpWithGoogle
    <3> QED BY <1>2, <2>2, <3>3 DEF Members!Next
  <2> QED BY <1>1, <1>6, <2>5, <2>6 DEF Made
<1> QED BY <1>5, <1>6

\* A copy that is saved differs from the account in contact and verified at most.
LEMMA SaveImplements ==
    ASSUME IInv, NEW r \in Requests, SaveUser(r)
    PROVE  Members!LateNext
<1> DEFINE a == req[r].account  new == req[r].row
<1>1. /\ Exists(a) /\ new \in Row /\ (new.verified => new.email \in proven)
      /\ new.email = users[a].email /\ new.password = users[a].password
  BY TypeFacts DEF SaveUser, ReqInv, Sound
<1>2. a \in Accounts /\ users[a] # None /\ users[a] \in Row
  BY <1>1 DEF Exists, IInv, TypeOK
<1>3. new = [users[a] EXCEPT !.contact = new.contact, !.verified = new.verified]
  <2> HIDE DEF a, new
  <2> QED BY <1>1, <1>2 DEF Row
<1>4. new.contact \in BOOLEAN /\ new.verified \in BOOLEAN
  BY <1>1 DEF Row
<1>5. users' = [users EXCEPT ![a] = new] /\ UNCHANGED <<linked, sessions, proven>>
  BY DEF SaveUser, world
<1>6. Members!UpdateContactLate(a, new.contact, new.verified)
  <2>1. users' = [users EXCEPT ![a] = [users[a] EXCEPT !.contact = new.contact,
                                                       !.verified = new.verified]]
    BY <1>3, <1>5
  <2> HIDE DEF a, new
  <2> QED BY <1>1, <1>2, <1>5, <2>1 DEF Members!UpdateContactLate, Members!Member
<1> QED BY <1>2, <1>4, <1>6 DEF Members!LateNext

LEMMA StepImplements ==
    ASSUME IInv, \A r \in Requests : Made(r), [Next]_vars
    PROVE  [Members!Next]_(Members!vars) \/ \E r \in Requests : SaveUser(r)
<1> SUFFICES ASSUME ~\E r \in Requests : SaveUser(r) PROVE [Members!Next]_(Members!vars)
  OBVIOUS
<1>1. CASE UNCHANGED <<users, linked, sessions, proven>>
  BY <1>1 DEF Members!vars
<1>2. ASSUME NEW e \in Emails, proven' = proven \cup {e}, UNCHANGED <<users, linked, sessions>>
      PROVE  Members!Next
  BY <1>2 DEF Members!Next, Members!Prove
<1>3. ASSUME NEW r \in Requests, CallGoogle(r) PROVE [Members!Next]_(Members!vars)
  <2>1. UNCHANGED <<users, linked, sessions>>
    BY <1>3 DEF CallGoogle, Call, tables
  <2>2. UNCHANGED proven \/ \E e \in Emails : proven' = proven \cup {e}
    BY <1>3 DEF CallGoogle
  <2> QED BY <1>1, <1>2, <2>1, <2>2
<1>4. ASSUME NEW r \in Requests, CallVerify(r) PROVE Members!Next
  <2>1. PICK link \in links : proven' = proven \cup {users[link.account].email}
    BY <1>4 DEF CallVerify
  <2>2. users[link.account].email \in Emails
    BY <2>1 DEF IInv, Exists, TypeOK, Row
  <2>3. UNCHANGED <<users, linked, sessions>>
    BY <1>4 DEF CallVerify, Call, tables
  <2> QED BY <1>2, <2>1, <2>2, <2>3
<1>5. ASSUME NEW r \in Requests, Login(r) PROVE [Members!Next]_(Members!vars)
  <2>1. UNCHANGED <<users, linked, proven>>
    BY <1>5 DEF Login, tables
  <2>2. CASE UNCHANGED sessions
    BY <1>1, <2>1, <2>2
  <2>3. ASSUME NEW a \in With(req[r].email), users[a].password, EmailVerified(a),
               sessions' = sessions \cup {[account |-> a, by |-> "password"]}
        PROVE  Members!Next
    <3>1. a \in Accounts /\ users[a] # None
      BY <2>3 DEF With
    <3>2. Members!Login(a)
      BY <2>1, <2>3, <3>1 DEF Members!Login, Members!Member, EmailVerified
    <3> QED BY <3>1, <3>2 DEF Members!Next
  <2> QED BY <1>5, <2>2, <2>3 DEF Login
<1>6. ASSUME NEW r \in Requests, MarkVerified(r) PROVE Members!Next
  <2>1. Exists(req[r].account) /\ users[req[r].account].email \in proven
    BY <1>6, TypeFacts DEF MarkVerified, ReqInv
  <2>2. Members!VerifyEmail(req[r].account)
    BY <1>6, <2>1 DEF MarkVerified, Exists, world, Members!VerifyEmail, Members!Member
  <2> QED BY <2>1, <2>2 DEF Exists, Members!Next
<1>7. ASSUME NEW r \in Requests,
             \/ CallRegister(r) \/ CallLogin(r) \/ CallResend(r) \/ CallUpdateMe(r)
             \/ CountUsers(r) \/ LookupUser(r) \/ InsertUser(r) \/ SendLink(r)
             \/ ReadUnverified(r) \/ TakeSlot(r) \/ FindUnverified(r) \/ FetchUser(r)
             \/ Fail(r)
      PROVE  UNCHANGED <<users, linked, sessions, proven>>
  BY <1>7 DEF CallRegister, CallLogin, CallResend, CallUpdateMe, Call, CountUsers, LookupUser,
              InsertUser, SendLink, ReadUnverified, TakeSlot, FindUnverified, FetchUser, Fail,
              tables, world
<1>8. CASE Restart \/ Tick \/ UNCHANGED vars
  BY <1>1, <1>8 DEF Restart, Tick, tables, world, vars
<1>9. ASSUME NEW r \in Requests, StepOf(r) PROVE [Members!Next]_(Members!vars)
  BY <1>1, <1>3, <1>4, <1>5, <1>6, <1>7, <1>9, CommitImplements DEF StepOf
<1> QED BY <1>8, <1>9, NextStepOf

\* However requests race, fail and are lost, accounts appear and change as if
\* every operation happened at one instant (Registry).
THEOREM Refinement == Spec => ImplementsRegistry
<1> DEFINE AllMade == \A r \in Requests : Made(r)
<1>1. Init => Members!Init
  BY DEF Init, Members!Init
<1>2. Init => AllMade
  BY DEF Init, Made
<1>3. IInv /\ AllMade /\ [Next]_vars => AllMade'
  BY MadeStep
<1>4. IInv /\ AllMade /\ [Next]_vars => [Members!LateNext]_(Members!vars)
  BY StepImplements, SaveImplements DEF Members!LateNext
<1> HIDE DEF AllMade
<1> QED BY <1>1, <1>2, <1>3, <1>4, Inductive, PTL
        DEF Spec, ImplementsRegistry, Members!LateSpec

-----------------------------------------------------------------------------
\* Under NoOverlap the copy of an account about to be saved is up to date.
Undisturbed ==
    \A r \in Requests :
        pc[r] = "save" =>
            req[r].row = [users[req[r].account] EXCEPT !.contact = req[r].flag]

LEMMA UndisturbedStep ==
    ASSUME IInv, NoOverlap, Undisturbed, [Next]_vars
    PROVE  Undisturbed'
<1> SUFFICES ASSUME NEW r \in Requests, pc'[r] = "save"
             PROVE  req'[r].row = [users'[req'[r].account] EXCEPT !.contact = req'[r].flag]
  BY DEF Undisturbed
<1>1. CASE pc'[r] = pc[r] /\ req'[r] = req[r] /\ users'[req[r].account] = users[req[r].account]
  BY <1>1 DEF Undisturbed
<1>2. CASE StepOf(r)
  <2>1. DOMAIN pc = Requests /\ DOMAIN req = Requests
    BY DEF IInv, TypeOK
  <2>2. FetchUser(r)
    <3>1. \A label, op, email, account, flag :
              Call(r, label, op, email, account, flag) => label = "save"
      BY <2>1 DEF Call
    <3>2. \A err : ~Answer(r, err)
      BY <2>1 DEF Answer
    <3>3. \A label, a, new : Keep(r, label, a, new) => label = "save"
      BY <2>1 DEF Keep
    <3>4. \A label : Goto(r, label) => label = "save"
      BY <2>1 DEF Goto
    <3>5. ~(\/ CallRegister(r) \/ CallLogin(r) \/ CallGoogle(r) \/ CallVerify(r)
            \/ CallResend(r) \/ CallUpdateMe(r))
      BY <3>1 DEF CallRegister, CallLogin, CallGoogle, CallVerify, CallResend, CallUpdateMe
    <3>6. ~(\/ CountUsers(r) \/ LookupUser(r) \/ InsertUser(r) \/ CommitUser(r)
            \/ SendLink(r) \/ Login(r))
      BY <3>2, <3>3, <3>4 DEF CountUsers, LookupUser, InsertUser, CommitUser, SendLink, Login
    <3>7. ~(\/ ReadUnverified(r) \/ MarkVerified(r) \/ TakeSlot(r) \/ FindUnverified(r)
            \/ SaveUser(r) \/ Fail(r))
      BY <3>2, <3>3, <3>4 DEF ReadUnverified, MarkVerified, TakeSlot, FindUnverified,
                              SaveUser, Fail, Wrote
    <3> QED BY <1>2, <3>5, <3>6, <3>7 DEF StepOf
  <2>3. req[r] \in Req
    BY <2>2, TypeFacts DEF FetchUser, ReqInv
  <2>4. UNCHANGED users
    BY <2>2 DEF FetchUser, tables
  <2>5. PICK new : new = [users[req[r].account] EXCEPT !.contact = req[r].flag]
    OBVIOUS
  <2>6. req' = [req EXCEPT ![r].account = req[r].account, ![r].row = new]
    BY <2>2, <2>5 DEF FetchUser, Keep
  <2>7. req'[r].row = new /\ req'[r].account = req[r].account /\ req'[r].flag = req[r].flag
    BY <2>1, <2>3, <2>6 DEF Req
  <2> QED BY <2>4, <2>5, <2>7
<1>3. ASSUME NEW o \in Requests, o # r, StepOf(o)
      PROVE  /\ pc'[r] = pc[r] /\ req'[r] = req[r]
             /\ users'[req[r].account] = users[req[r].account]
  <2>1. pc'[r] = pc[r] /\ req'[r] = req[r] /\ pc[r] = "save"
    BY <1>3, OthersWait
  <2>2. users[req[r].account] # None /\ req[r].account \in Accounts
    BY <2>1, TypeFacts DEF ReqInv, Exists
  <2>3. CASE UNCHANGED users
    BY <2>1, <2>3
  <2>4. CASE CommitUser(o)
    <3>1. UNCHANGED users \/ users[req[o].account] = None
      BY <2>4, TypeFacts DEF CommitUser, ReqInv, CommitInv
    <3>2. UNCHANGED users \/ \E new : users' = [users EXCEPT ![req[o].account] = new]
      BY <2>4 DEF CommitUser
    <3>3. DOMAIN users = Accounts
      BY DEF IInv, TypeOK
    <3> QED BY <2>1, <2>2, <3>1, <3>2, <3>3
  <2>5. CASE MarkVerified(o) \/ SaveUser(o)
    <3>1. Holding(o) /\ Holding(r)
      BY <2>1, <2>5 DEF Holding, MarkVerified, SaveUser
    <3>2. req[o].account # req[r].account
      BY <1>3, <3>1 DEF NoOverlap
    <3>3. \E new : users' = [users EXCEPT ![req[o].account] = new]
      BY <2>5 DEF MarkVerified, SaveUser
    <3> QED BY <2>1, <3>2, <3>3
  <2>6. CommitUser(o) \/ MarkVerified(o) \/ SaveUser(o) \/ UNCHANGED users
    BY <1>3 DEF StepOf, CallRegister, CallLogin, CallGoogle, CallVerify, CallResend,
                CallUpdateMe, Call, CountUsers, LookupUser, InsertUser, SendLink, Login,
                ReadUnverified, TakeSlot, FindUnverified, FetchUser, Fail, tables
  <2> QED BY <2>3, <2>4, <2>5, <2>6
<1>4. CASE Restart
  BY <1>4 DEF Restart
<1>5. CASE Tick \/ UNCHANGED vars
  BY <1>1, <1>5 DEF Tick, tables, vars
<1> QED BY <1>1, <1>2, <1>3, <1>4, <1>5, NextStepOf

\* Unless a verification or another UpdateMe of the same account comes between
\* its read and its write, UpdateContact changes name and phone only.
THEOREM SerialContact == Spec /\ []NoOverlap => ContactOnly
<1>1. Init => Undisturbed
  BY DEF Init, Undisturbed
<1>2. IInv /\ NoOverlap /\ Undisturbed /\ [Next]_vars => Undisturbed'
  BY UndisturbedStep
<1>3. IInv /\ Undisturbed =>
          \A r \in Requests :
              SaveUser(r) =>
                  LET a == req[r].account
                  IN  users'[a] = [users[a] EXCEPT !.contact = req[r].flag]
  <2> SUFFICES ASSUME IInv, Undisturbed, NEW r \in Requests, SaveUser(r)
               PROVE  users'[req[r].account]
                          = [users[req[r].account] EXCEPT !.contact = req[r].flag]
    OBVIOUS
  <2>1. req[r].account \in Accounts /\ DOMAIN users = Accounts
    BY TypeFacts DEF SaveUser, ReqInv, Exists, TypeOK
  <2>2. users' = [users EXCEPT ![req[r].account] = req[r].row] /\ pc[r] = "save"
    BY DEF SaveUser
  <2> QED BY <2>1, <2>2 DEF Undisturbed
<1> QED BY <1>1, <1>2, <1>3, Inductive, PTL DEF Spec, ContactOnly

LEMMA FreshSaveImplements ==
    ASSUME IInv, Undisturbed, NEW r \in Requests, SaveUser(r)
    PROVE  Members!Next
<1> DEFINE a == req[r].account
<1>1. /\ a \in Accounts /\ users[a] # None
      /\ req[r] \in Req /\ req[r].row \in Row /\ pc[r] = "save"
  BY TypeFacts DEF SaveUser, ReqInv, Exists, Sound
<1>2. /\ users' = [users EXCEPT ![a] = [users[a] EXCEPT !.contact = req[r].flag]]
      /\ UNCHANGED <<linked, sessions, proven>>
  BY <1>1 DEF SaveUser, Undisturbed, world
<1>3. req[r].flag \in BOOLEAN
  BY <1>1 DEF Req
<1>4. Members!UpdateContact(a, req[r].flag)
  BY <1>1, <1>2 DEF Members!UpdateContact, Members!Member
<1> QED BY <1>1, <1>3, <1>4 DEF Members!Next

\* And then nothing is taken back: accounts implement the Registry without late
\* saves, in which an account that is verified stays verified.
THEOREM SerialRefinement == Spec /\ []NoOverlap => ImplementsSerialRegistry
<1> DEFINE AllMade == \A r \in Requests : Made(r)
<1>1. Init => Members!Init /\ AllMade /\ Undisturbed
  BY DEF Init, Members!Init, Made, Undisturbed
<1>2. IInv /\ AllMade /\ [Next]_vars => AllMade'
  BY MadeStep
<1>3. IInv /\ NoOverlap /\ Undisturbed /\ [Next]_vars => Undisturbed'
  BY UndisturbedStep
<1>4. IInv /\ AllMade /\ Undisturbed /\ [Next]_vars => [Members!Next]_(Members!vars)
  BY StepImplements, FreshSaveImplements
<1> HIDE DEF AllMade
<1> QED BY <1>1, <1>2, <1>3, <1>4, Inductive, PTL
        DEF Spec, ImplementsSerialRegistry, Members!Spec

-----------------------------------------------------------------------------
(***************************************************************************)
(* Why resends are limited: a request takes a slot of its email before it  *)
(* looks the account up and mails, and two slots are a cooldown apart.     *)
(***************************************************************************)
Owes(r, e) == pc[r] \in {"find", "send"} /\ req[r].op = "resend" /\ req[r].email = e

\* Requests that have a slot and have not mailed yet.
Owing(e) == {r \in Requests : Owes(r, e)}

Slots(e) == mails[e] + Cardinality(Owing(e))

RateInv(e) ==
    /\ IsFiniteSet(Owing(e))
    /\ cooldowns[e] = None => Slots(e) = 0
    /\ cooldowns[e] # None => /\ started <= cooldowns[e] /\ cooldowns[e] <= now
                              /\ (Slots(e) - 1) * Cooldown <= cooldowns[e] - started

LEMMA Quotient ==
    ASSUME NEW n \in Int, NEW span \in Int, NEW c \in Nat \ {0}, n * c <= span
    PROVE  n <= span \div c
<1> DEFINE q == span \div c
<1>1. q \in Int /\ span < q * c + c
  OBVIOUS
<1>2. ASSUME q + 1 <= n PROVE FALSE
  <2>1. (q + 1) * c <= n * c
    BY <1>1, <1>2
  <2>2. (q + 1) * c = q * c + c
    BY <1>1
  <2> QED BY <1>1, <2>1, <2>2
<1> HIDE DEF q
<1>3. n <= q
  BY <1>1, <1>2
<1> QED BY <1>3 DEF q

LEMMA OneMoreSlot ==
    ASSUME NEW n \in Nat, NEW c \in Nat \ {0}, NEW first \in Int, NEW last \in Int,
           NEW t \in Int, (n - 1) * c <= last - first, c <= t - last
    PROVE  (n + 1 - 1) * c <= t - first
<1>1. (n + 1 - 1) * c = (n - 1) * c + c
  OBVIOUS
<1>2. (n - 1) * c \in Int
  OBVIOUS
<1> QED BY <1>1, <1>2

LEMMA FewerSlots ==
    ASSUME NEW m \in Nat, NEW n \in Nat, m <= n, NEW c \in Nat \ {0}, NEW span \in Int,
           (n - 1) * c <= span
    PROVE  (m - 1) * c <= span
<1>1. (m - 1) * c <= (n - 1) * c
  OBVIOUS
<1>2. (m - 1) * c \in Int /\ (n - 1) * c \in Int
  OBVIOUS
<1> QED BY <1>1, <1>2

LEMMA PaceTypes ==
    ASSUME TypeOK
    PROVE  /\ now \in Nat /\ started \in Nat /\ started <= now
           /\ Cooldown \in Nat \ {0} /\ None \notin Int
           /\ pc \in [Requests -> PC] /\ DOMAIN req = Requests
           /\ mails \in [Emails -> Nat]
           /\ cooldowns \in [Emails -> Int \cup {None}]
  BY AccountsAssumption DEF TypeOK

\* Mails and cooldowns as before, and no request more that owes a mail.
LEMMA NoMoreSlots ==
    ASSUME TypeOK, TypeOK', NEW e \in Emails, RateInv(e), mails'[e] = mails[e],
           cooldowns'[e] = cooldowns[e], UNCHANGED started, now <= now',
           Owing(e)' \subseteq Owing(e)
    PROVE  RateInv(e)'
<1>1. /\ IsFiniteSet(Owing(e)') /\ Cardinality(Owing(e)') <= Cardinality(Owing(e))
      /\ Cardinality(Owing(e)') \in Nat /\ Cardinality(Owing(e)) \in Nat
  BY FS_Subset, FS_CardinalityType DEF RateInv
<1>2. Slots(e) \in Nat /\ Slots(e)' \in Nat /\ Slots(e)' <= Slots(e)
  BY <1>1, PaceTypes DEF Slots
<1>3. CASE cooldowns[e] = None
  BY <1>1, <1>2, <1>3 DEF RateInv
<1>4. CASE cooldowns[e] # None
  <2>1. /\ cooldowns[e] \in Int /\ started \in Int /\ cooldowns[e] - started \in Int
        /\ now \in Int /\ now' \in Int
    BY <1>4, PaceTypes, AccountsAssumption DEF TypeOK
  <2>2. (Slots(e)' - 1) * Cooldown <= cooldowns[e] - started
    BY <1>2, <1>4, <2>1, FewerSlots, PaceTypes DEF RateInv
  <2> QED BY <1>1, <1>4, <2>1, <2>2 DEF RateInv
<1> QED BY <1>3, <1>4

\* A mail uses up the slot of the request that sends it.
LEMMA MailPace ==
    ASSUME IInv, IInv', NEW r \in Requests, SendLink(r), NEW e \in Emails, RateInv(e)
    PROVE  RateInv(e)'
<1>1. TypeOK /\ TypeOK' /\ pc[r] = "send" /\ ReqInv(r)
  BY DEF IInv, SendLink
<1>2. /\ pc'[r] = "idle" /\ UNCHANGED <<cooldowns, started, now>>
      /\ \A o \in Requests \ {r} : pc'[o] = pc[o] /\ req'[o] = req[o]
  BY <1>1, PaceTypes DEF SendLink, Answer, time
<1>3. Owing(e)' = Owing(e) \ {r}
  BY <1>2 DEF Owing, Owes
<1>4. now \in Int /\ now <= now'
  BY <1>1, <1>2, PaceTypes
<1>5. CASE mails'[e] = mails[e]
  BY <1>1, <1>2, <1>3, <1>4, <1>5, NoMoreSlots
<1>6. CASE mails'[e] # mails[e]
  <2>1. req[r].op = "resend" /\ req[r].email = e /\ mails'[e] = mails[e] + 1
    BY <1>1, <1>6, PaceTypes DEF SendLink
  <2>2. r \in Owing(e)
    BY <1>1, <2>1 DEF Owing, Owes
  <2>3. /\ IsFiniteSet(Owing(e)') /\ Cardinality(Owing(e)') = Cardinality(Owing(e)) - 1
        /\ Cardinality(Owing(e)) \in Nat
    BY <1>3, <2>2, FS_RemoveElement, FS_CardinalityType DEF RateInv
  <2>4. Slots(e)' = Slots(e)
    BY <1>1, <2>1, <2>3, PaceTypes DEF Slots
  <2> QED BY <1>2, <2>3, <2>4 DEF RateInv
<1> QED BY <1>5, <1>6

\* A slot is taken when there was none yet, or a cooldown after the last one.
LEMMA SlotPace ==
    ASSUME IInv, IInv', NEW r \in Requests, TakeSlot(r), NEW e \in Emails, RateInv(e)
    PROVE  RateInv(e)'
<1>1. TypeOK /\ TypeOK' /\ pc[r] = "cooldown" /\ ReqInv(r)
  BY DEF IInv, TakeSlot
<1>2. /\ UNCHANGED <<mails, started, now>>
      /\ \A o \in Requests \ {r} : pc'[o] = pc[o] /\ req'[o] = req[o]
      /\ now \in Int /\ now <= now'
  BY <1>1, PaceTypes DEF TakeSlot, Answer, Goto, time, world
<1>3. r \notin Owing(e)
  BY <1>1 DEF Owing, Owes
<1>4. CASE ~(cooldowns' = Started(r) /\ Goto(r, "find"))
  <2>1. UNCHANGED cooldowns /\ pc'[r] = "idle"
    BY <1>1, <1>4, PaceTypes DEF TakeSlot, Answer
  <2>2. Owing(e)' \subseteq Owing(e)
    BY <1>2, <2>1 DEF Owing, Owes
  <2> QED BY <1>1, <1>2, <2>1, <2>2, NoMoreSlots
<1>5. CASE cooldowns' = Started(r) /\ Goto(r, "find") /\ req[r].email # e
  <2>1. cooldowns'[e] = cooldowns[e] /\ UNCHANGED req
    BY <1>1, <1>5, PaceTypes DEF Started, Goto
  <2>2. Owing(e)' \subseteq Owing(e)
    BY <1>2, <1>5, <2>1 DEF Owing, Owes
  <2> QED BY <1>1, <1>2, <2>1, <2>2, NoMoreSlots
<1>6. CASE cooldowns' = Started(r) /\ Goto(r, "find") /\ req[r].email = e
  <2>1. /\ cooldowns'[e] = now /\ pc'[r] = "find" /\ UNCHANGED req
        /\ req[r].op = "resend"
        /\ cooldowns[e] # None => Cooldown <= now - cooldowns[e]
    <3>1. cooldowns[e] # None => ~(now - cooldowns[e] < Cooldown)
      BY <1>1, <1>6, PaceTypes DEF TakeSlot, Answer, Goto
    <3>2. cooldowns[e] # None => cooldowns[e] \in Int
      BY <1>1, PaceTypes
    <3> QED BY <1>1, <1>6, <3>1, <3>2, PaceTypes DEF Started, Goto, ReqInv
  <2>2. Owing(e)' = Owing(e) \cup {r}
    BY <1>2, <1>6, <2>1 DEF Owing, Owes
  <2>3. /\ IsFiniteSet(Owing(e)') /\ Cardinality(Owing(e)') = Cardinality(Owing(e)) + 1
        /\ Cardinality(Owing(e)) \in Nat
    BY <1>3, <2>2, FS_AddElement, FS_CardinalityType DEF RateInv
  <2>4. Slots(e) \in Nat /\ Slots(e)' = Slots(e) + 1
    BY <1>1, <1>2, <2>3, PaceTypes DEF Slots
  <2>5. started \in Int /\ started <= now /\ Cooldown \in Nat \ {0} /\ now # None
    BY <1>1, PaceTypes
  <2>6. CASE cooldowns[e] = None
    <3>1. (Slots(e)' - 1) * Cooldown = 0
      BY <2>4, <2>5, <2>6 DEF RateInv
    <3> QED BY <1>2, <2>1, <2>3, <2>5, <3>1 DEF RateInv
  <2>7. CASE cooldowns[e] # None
    <3>1. cooldowns[e] \in Int /\ (Slots(e) - 1) * Cooldown <= cooldowns[e] - started
      BY <1>1, <2>7, PaceTypes DEF RateInv
    <3>2. (Slots(e)' - 1) * Cooldown <= now - started
      BY <1>2, <2>1, <2>4, <2>5, <2>7, <3>1, OneMoreSlot
    <3> QED BY <1>2, <2>1, <2>3, <2>5, <3>2 DEF RateInv
  <2> QED BY <2>6, <2>7
<1> QED BY <1>4, <1>5, <1>6

\* No other step of a request mails, or enters the part of Resend that does.
LEMMA OtherPace ==
    ASSUME IInv, IInv', NEW r \in Requests, NEW e \in Emails, RateInv(e),
           \/ CallRegister(r) \/ CallLogin(r) \/ CallGoogle(r) \/ CallVerify(r)
           \/ CallResend(r) \/ CallUpdateMe(r) \/ CountUsers(r) \/ LookupUser(r)
           \/ InsertUser(r) \/ CommitUser(r) \/ Login(r) \/ ReadUnverified(r)
           \/ MarkVerified(r) \/ FindUnverified(r) \/ FetchUser(r) \/ SaveUser(r) \/ Fail(r)
    PROVE  RateInv(e)'
<1>1. TypeOK /\ TypeOK' /\ ReqInv(r) /\ now \in Int
  BY PaceTypes DEF IInv
<1>2. UNCHANGED <<mails, cooldowns, started, now>>
  BY DEF CallRegister, CallLogin, CallGoogle, CallVerify, CallResend, CallUpdateMe, Call,
         CountUsers, LookupUser, InsertUser, CommitUser, Login, ReadUnverified, MarkVerified,
         FindUnverified, FetchUser, SaveUser, Fail, time, world
<1>3. \A o \in Requests \ {r} : pc'[o] = pc[o] /\ req'[o] = req[o]
  BY <1>1, PaceTypes
     DEF CallRegister, CallLogin, CallGoogle, CallVerify, CallResend, CallUpdateMe, Call,
         CountUsers, LookupUser, InsertUser, CommitUser, Login, ReadUnverified, MarkVerified,
         FindUnverified, FetchUser, SaveUser, Fail, Answer, Wrote, Goto, Keep
<1>4. Owes(r, e)' => Owes(r, e)
  <2>1. CASE FindUnverified(r)
    BY <1>1, <2>1, PaceTypes DEF FindUnverified, Answer, Keep, Owes, ReqInv, Req
  <2>2. CASE CommitUser(r)
    BY <1>1, <2>2, PaceTypes DEF CommitUser, Answer, Goto, Owes
  <2>3. CASE pc'[r] \notin {"find", "send"}
    BY <2>3 DEF Owes
  <2>4. ASSUME ~FindUnverified(r), ~CommitUser(r) PROVE pc'[r] \notin {"find", "send"}
    BY <1>1, <2>4, PaceTypes
       DEF CallRegister, CallLogin, CallGoogle, CallVerify, CallResend, CallUpdateMe, Call,
           CountUsers, LookupUser, InsertUser, Login, ReadUnverified, MarkVerified,
           FetchUser, SaveUser, Fail, Answer, Wrote, Goto, Keep
  <2> QED BY <2>1, <2>2, <2>3, <2>4
<1>5. Owing(e)' \subseteq Owing(e)
  BY <1>3, <1>4 DEF Owing, Owes
<1> QED BY <1>1, <1>2, <1>5, NoMoreSlots

LEMMA RestartPace ==
    ASSUME IInv, Restart, NEW e \in Emails
    PROVE  RateInv(e)'
<1>1. Owing(e)' = {} /\ mails'[e] = 0 /\ cooldowns'[e] = None
  BY DEF Restart, Owing, Owes
<1>2. IsFiniteSet({}) /\ Cardinality({}) = 0
  BY FS_EmptySet
<1> QED BY <1>1, <1>2 DEF RateInv, Slots

LEMMA PaceStep ==
    ASSUME IInv, IInv', [Next]_vars, NEW e \in Emails, RateInv(e)
    PROVE  RateInv(e)'
<1>1. CASE Tick \/ UNCHANGED vars
  <2>1. /\ UNCHANGED <<mails, cooldowns, started, pc, req>>
        /\ now \in Int /\ (now' = now \/ now' = now + 1)
    BY <1>1, PaceTypes DEF Tick, world, vars, IInv
  <2>2. Owing(e)' \subseteq Owing(e)
    BY <2>1 DEF Owing, Owes
  <2> QED BY <2>1, <2>2, NoMoreSlots DEF IInv
<1> QED BY <1>1, MailPace, SlotPace, OtherPace, RestartPace DEF Next

\* Between two starts of the server an address is sent at most one resent link
\* per cooldown, however many requests ask for it (ResendVerificationEmail).
THEOREM RateTheorem == Spec => []ResendRate
<1> DEFINE Paced == \A e \in Emails : RateInv(e)
<1>1. Init => IInv /\ Paced
  <2>1. ASSUME Init, NEW e \in Emails PROVE RateInv(e)
    <3>1. Owing(e) = {} /\ mails[e] = 0 /\ cooldowns[e] = None
      BY <2>1 DEF Init, Owing, Owes
    <3>2. IsFiniteSet({}) /\ Cardinality({}) = 0
      BY FS_EmptySet
    <3> QED BY <3>1, <3>2 DEF RateInv, Slots
  <2> QED BY <2>1, InitIInv
<1>2. IInv /\ Paced /\ [Next]_vars => (IInv /\ Paced)'
  BY NextIInv, PaceStep
<1>3. IInv /\ Paced => ResendRate
  <2> SUFFICES ASSUME IInv, Paced, NEW e \in Emails
               PROVE  mails[e] <= 1 + (now - started) \div Cooldown
    BY DEF ResendRate
  <2>1. /\ TypeOK /\ RateInv(e)
        /\ now - started \in Nat /\ Cooldown \in Nat \ {0} /\ mails[e] \in Nat
    BY PaceTypes DEF IInv
  <2>2. Cardinality(Owing(e)) \in Nat
    BY <2>1, FS_CardinalityType DEF RateInv
  <2>3. Slots(e) \in Nat /\ mails[e] <= Slots(e)
    BY <2>1, <2>2 DEF Slots
  <2>4. (mails[e] - 1) * Cooldown <= now - started
    <3>1. CASE cooldowns[e] = None
      <4>1. mails[e] = 0
        BY <2>1, <2>3, <3>1 DEF RateInv
      <4>2. (mails[e] - 1) * Cooldown = -Cooldown
        BY <2>1, <4>1
      <4> QED BY <2>1, <4>2
    <3>2. CASE cooldowns[e] # None
      <4>1. /\ cooldowns[e] \in Int /\ started \in Int /\ now \in Int
            /\ cooldowns[e] - started \in Int /\ cooldowns[e] - started <= now - started
        BY <2>1, <3>2, PaceTypes DEF RateInv
      <4>2. (mails[e] - 1) * Cooldown <= cooldowns[e] - started
        BY <2>1, <2>3, <3>2, <4>1, FewerSlots DEF RateInv
      <4>3. (mails[e] - 1) * Cooldown \in Int
        BY <2>1
      <4> QED BY <2>1, <4>1, <4>2, <4>3
    <3> QED BY <3>1, <3>2
  <2>5. mails[e] - 1 <= (now - started) \div Cooldown
    BY <2>1, <2>4, Quotient
  <2>6. (now - started) \div Cooldown \in Int
    BY <2>1
  <2> QED BY <2>1, <2>5, <2>6
<1> QED BY <1>1, <1>2, <1>3, PTL DEF Spec
=============================================================================
