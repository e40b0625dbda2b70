------------------------------ MODULE Accounts ------------------------------
(***************************************************************************)
(* Accounts and the proof of their email: register, verify, resend, log    *)
(* in, sign in with Google, edit one's contact details, and the restart    *)
(* that forgets the resend cooldowns.  One action per database statement;  *)
(* register and Google sign-in run in a transaction, whose insert others   *)
(* see only through the unique index on email, until it commits.           *)
(***************************************************************************)
EXTENDS Integers

CONSTANTS Accounts,    \* user ids
          Emails,
          Requests,    \* RPCs that may be in flight at once
          Cooldown,    \* resendVerificationCooldown
          LinkLife,    \* emailVerifyTokenExpiry
          MaxNow,      \* bound on the clock
          None         \* no row, no argument, no reply yet

Row == [verified : BOOLEAN, email : Emails, password : BOOLEAN, contact : BOOLEAN]

ASSUME AccountsAssumption ==
    /\ Cooldown \in Nat \ {0}
    /\ LinkLife \in Nat
    /\ MaxNow \in Nat
    /\ None \notin Row \cup Accounts \cup Emails \cup Int

VARIABLES users,       \* the users table; contact: name and phone on file
          linked,      \* accounts with a row in user_auth_providers
          links,       \* verification links that have reached a mailbox
          sessions,    \* accounts whose owner holds tokens, and how they got them
          cooldowns,   \* resendCooldowns, in memory
          mails,       \* links Resend has mailed since the server started
          proven,      \* emails that a link or Google has proved to be someone's
          started, now,
          pc, req, reply

tables == <<users, linked>>
world  == <<links, sessions, mails, proven>>
time   == <<started, now>>
vars   == <<users, linked, links, sessions, cooldowns, mails, proven, started, now,
            pc, req, reply>>

PC == {"idle", "count", "lookup", "insert", "commit", "send", "login",
       "verify", "mark", "cooldown", "find", "fetch", "save"}

Req == [row : Row \cup {None}, email : Emails \cup {None},
        op : {"register", "login", "google", "verify", "resend", "contact"},
        account : Accounts \cup {None},
        flag : BOOLEAN]   \* login: right password; google: email_verified; contact: filled

Codes == {"ok", "invalid_argument", "unauthenticated", "failed_precondition", "internal",
          "unavailable"}

\* The wire code of a service error.
UnmappedCodeOf(op, err) == err                                     \* mutant
CodeOf(op, err) ==
    CASE err = "ok" \/ op = "resend"                        -> "ok"
      [] op \in {"register", "verify"}                      -> "invalid_argument"
      [] op = "login" /\ err = "ErrEmailNotVerified"        -> "failed_precondition"
      [] op \in {"login", "google"}                         -> "unauthenticated"
      [] OTHER                                              -> "internal"

Answer(r, err) ==
    /\ pc' = [pc EXCEPT ![r] = "idle"]
    /\ req' = [req EXCEPT ![r] = None]
    /\ reply' = [reply EXCEPT ![r] = CodeOf(req[r].op, err)]

\* A write is committed; its acknowledgement or a later lookup may still fail.
Wrote(r) == \E err \in {"ok", "error"} : Answer(r, err)

Goto(r, label) == pc' = [pc EXCEPT ![r] = label] /\ UNCHANGED <<req, reply>>

Keep(r, label, account, row) ==
    /\ pc' = [pc EXCEPT ![r] = label]
    /\ req' = [req EXCEPT ![r].account = account, ![r].row = row]
    /\ UNCHANGED reply

With(email) == {a \in Accounts : users[a] # None /\ users[a].email = email}

\* The insert of an open transaction.
Pending(r) == pc[r] = "commit" /\ req[r].row # None

-----------------------------------------------------------------------------
Init == /\ users = [a \in Accounts |-> None]
        /\ linked = {} /\ links = {} /\ sessions = {} /\ proven = {}
        /\ cooldowns = [e \in Emails |-> None]
        /\ mails = [e \in Emails |-> 0]
        /\ started = 0 /\ now = 0
        /\ pc = [r \in Requests |-> "idle"]
        /\ req = [r \in Requests |-> None]
        /\ reply = [r \in Requests |-> None]

\* A handler has validated its message and calls the service.
Call(r, label, op, email, account, flag) ==
    /\ pc[r] = "idle"
    /\ pc' = [pc EXCEPT ![r] = label]
    /\ req' = [req EXCEPT ![r] = [row |-> None, email |-> email, op |-> op,
                                  account |-> account, flag |-> flag]]
    /\ reply' = [reply EXCEPT ![r] = None]
    /\ UNCHANGED <<tables, links, sessions, cooldowns, mails, time>>

CallRegister(r) ==
    \E e \in Emails : Call(r, "count", "register", e, None, FALSE) /\ UNCHANGED proven

CallLogin(r) ==
    \E e \in Emails, right \in BOOLEAN :
        Call(r, "login", "login", e, None, right) /\ UNCHANGED proven

\* Google vouches for the address only when it says email_verified.
CallGoogle(r) ==
    \E e \in Emails, verified \in BOOLEAN :
        /\ Call(r, "lookup", "google", e, None, verified)
        /\ proven' = IF verified THEN proven \cup {e} ELSE proven

\* Whoever follows a live link owns the mailbox it was sent to.
CallVerify(r) ==
    \E link \in links :
        /\ now < link.issued + LinkLife
        /\ Call(r, "verify", "verify", None, link.account, FALSE)
        /\ proven' = proven \cup {users[link.account].email}

CallResend(r) ==
    \E e \in Emails : Call(r, "cooldown", "resend", e, None, FALSE) /\ UNCHANGED proven

CallUpdateMe(r) ==
    \E s \in sessions, filled \in BOOLEAN :
        Call(r, "fetch", "contact", None, s.account, filled) /\ UNCHANGED proven

-----------------------------------------------------------------------------
\* Register: the transaction first looks whether the email is taken ...
CountUsers(r) ==
    /\ pc[r] = "count"
    /\ \/ With(req[r].email) # {} /\ Answer(r, "already exists")
       \/ With(req[r].email) = {} /\ Goto(r, "insert")
    /\ UNCHANGED <<tables, world, cooldowns, time>>

\* ... Google sign-in looks the account up, and creates it if there is none.
LookupUser(r) ==
    /\ pc[r] = "lookup"
    /\ \/ With(req[r].email) = {} /\ Goto(r, "insert")
       \/ \E a \in With(req[r].email) : Keep(r, "commit", a, None)
    /\ UNCHANGED <<tables, world, cooldowns, time>>

ClaimIgnored(r) == TRUE                                            \* mutant
ClaimVerified(r) == req[r].flag

NewUser(r) ==
    IF req[r].op = "register"
    THEN [verified |-> FALSE, email |-> req[r].email, password |-> TRUE, contact |-> TRUE]
    ELSE [verified |-> ClaimVerified(r), email |-> req[r].email, password |-> FALSE,
          contact |-> FALSE]

\* The unique index on email: an insert waits for another of the same email, and
\* fails if that one commits.
NoIndex(r) == FALSE                                                \* mutant
Duplicate(r) == With(req[r].email) # {}
Waits(r) == \E q \in Requests : Pending(q) /\ req[q].row.email = req[r].email

InsertUser(r) ==
    /\ pc[r] = "insert"
    /\ \/ Duplicate(r) /\ Answer(r, "duplicate key")
       \/ /\ ~Duplicate(r) /\ ~Waits(r)
          /\ \E a \in Accounts :
                 /\ users[a] = None
                 /\ \A q \in Requests : Pending(q) => req[q].account # a
                 /\ Keep(r, "commit", a, NewUser(r))
    /\ UNCHANGED <<tables, world, cooldowns, time>>

\* The insert reaches the table when the transaction commits, together with the
\* Google link; only Google sign-in then hands out tokens.
LinkedAnyway(r) == linked \cup {req[r].account}                    \* mutant
Linked(r) == IF req[r].op = "google" THEN linked \cup {req[r].account} ELSE linked

CommitUser(r) ==
    LET a == req[r].account IN
    /\ pc[r] = "commit"
    /\ users' = IF req[r].row = None THEN users ELSE [users EXCEPT ![a] = req[r].row]
    /\ linked' = Linked(r)
    /\ \/ req[r].op = "register" /\ Goto(r, "send") /\ UNCHANGED sessions
       \/ /\ req[r].op = "google" /\ Answer(r, "ok")
          /\ sessions' = sessions \cup {[account |-> a, by |-> "google"]}
       \/ Answer(r, "error") /\ UNCHANGED sessions
    /\ UNCHANGED <<links, cooldowns, mails, proven, time>>

\* sendVerificationEmail: whether the mail gets through is not reported.
SendLink(r) ==
    /\ pc[r] = "send"
    /\ \/ /\ links' = links \cup {[account |-> req[r].account, issued |-> now]}
          /\ mails' = IF req[r].op = "resend" THEN [mails EXCEPT ![req[r].email] = @ + 1]
                                              ELSE mails
       \/ UNCHANGED <<links, mails>>
    /\ Answer(r, "ok")
    /\ UNCHANGED <<tables, sessions, cooldowns, proven, time>>

AnyAccount(a) == TRUE                                              \* mutant
EmailVerified(a) == users[a].verified

Login(r) ==
    /\ pc[r] = "login"
    /\ \/ With(req[r].email) = {} /\ Answer(r, "user not found") /\ UNCHANGED sessions
       \/ \E a \in With(req[r].email) :
              \/ /\ ~(users[a].password /\ req[r].flag)
                 /\ Answer(r, "invalid password") /\ UNCHANGED sessions
              \/ /\ users[a].password /\ req[r].flag /\ ~EmailVerified(a)
                 /\ Answer(r, "ErrEmailNotVerified") /\ UNCHANGED sessions
              \/ /\ users[a].password /\ req[r].flag /\ EmailVerified(a)
                 /\ Answer(r, "ok")
                 /\ sessions' = sessions \cup {[account |-> a, by |-> "password"]}
    /\ UNCHANGED <<tables, links, cooldowns, mails, proven, time>>

\* VerifyEmail: read the account, then set email_verified_at if it was not set.
ReadUnverified(r) ==
    /\ pc[r] = "verify"
    /\ \/ EmailVerified(req[r].account) /\ Answer(r, "ok")
       \/ ~EmailVerified(req[r].account) /\ Goto(r, "mark")
    /\ UNCHANGED <<tables, world, cooldowns, time>>

MarkVerified(r) ==
    /\ pc[r] = "mark"
    /\ users' = [users EXCEPT ![req[r].account].verified = TRUE]
    /\ Wrote(r)
    /\ UNCHANGED <<linked, world, cooldowns, time>>

\* ResendVerificationEmail: the cooldown is looked up and started under a mutex,
\* whether or not the address has an account.
Forgotten(r) == cooldowns                                          \* mutant
Started(r) == [cooldowns EXCEPT ![req[r].email] = now]

TakeSlot(r) ==
    LET last       == cooldowns[req[r].email]
        onCooldown == last # None /\ now - last < Cooldown
    IN
    /\ pc[r] = "cooldown"
    /\ \/ onCooldown /\ Answer(r, "ok") /\ UNCHANGED cooldowns
       \/ ~onCooldown /\ cooldowns' = Started(r) /\ Goto(r, "find")
    /\ UNCHANGED <<tables, world, time>>

FindUnverified(r) ==
    LET unverified == {a \in With(req[r].email) : ~EmailVerified(a)} IN
    /\ pc[r] = "find"
    /\ \/ unverified = {} /\ Answer(r, "ok")
       \/ \E a \in unverified : Keep(r, "send", a, None)
    /\ UNCHANGED <<tables, world, cooldowns, time>>

\* UpdateContact: read the account, set name and phone on the copy, Save all of it.
FetchUser(r) ==
    LET a == req[r].account IN
    /\ pc[r] = "fetch"
    /\ Keep(r, "save", a, [users[a] EXCEPT !.contact = req[r].flag])
    /\ UNCHANGED <<tables, world, cooldowns, time>>

SaveUser(r) ==
    /\ pc[r] = "save"
    /\ users' = [users EXCEPT ![req[r].account] = req[r].row]
    /\ Wrote(r)
    /\ UNCHANGED <<linked, world, cooldowns, time>>

\* A statement fails: an open transaction rolls back.
Fail(r) ==
    /\ pc[r] \notin {"idle", "send", "cooldown"}
    /\ Answer(r, "error")
    /\ UNCHANGED <<tables, world, cooldowns, time>>

\* The server dies and comes back: requests are lost, open transactions roll
\* back, and the cooldowns are gone.
Restart ==
    /\ pc' = [r \in Requests |-> "idle"]
    /\ req' = [r \in Requests |-> None]
    /\ reply' = [r \in Requests |-> IF pc[r] = "idle" THEN reply[r] ELSE "unavailable"]
    /\ cooldowns' = [e \in Emails |-> None]
    /\ mails' = [e \in Emails |-> 0]
    /\ started' = now
    /\ UNCHANGED <<tables, links, sessions, proven, now>>

Tick ==
    /\ now < MaxNow
    /\ now' = now + 1
    /\ UNCHANGED <<tables, world, cooldowns, started, pc, req, reply>>

Next ==
    \/ \E r \in Requests :
           \/ CallRegister(r)
           \/ CallLogin(r)
           \/ CallGoogle(r)
           \/ CallVerify(r)
           \/ CallResend(r)
           \/ CallUpdateMe(r)
           \/ CountUsers(r)
           \/ LookupUser(r)
           \/ InsertUser(r)
           \/ CommitUser(r)
           \/ SendLink(r)
           \/ Login(r)
           \/ ReadUnverified(r)
           \/ MarkVerified(r)
           \/ TakeSlot(r)
           \/ FindUnverified(r)
           \/ FetchUser(r)
           \/ SaveUser(r)
           \/ Fail(r)
    \/ Restart
    \/ Tick

Spec == Init /\ [][Next]_vars

-----------------------------------------------------------------------------
TypeOK ==
    /\ users \in [Accounts -> Row \cup {None}]
    /\ linked \in SUBSET Accounts
    /\ links \in SUBSET [account : Accounts, issued : 0 .. MaxNow]
    /\ sessions \in SUBSET [account : Accounts, by : {"password", "google"}]
    /\ cooldowns \in [Emails -> 0 .. MaxNow \cup {None}]
    /\ mails \in [Emails -> Nat]
    /\ proven \in SUBSET Emails
    /\ now \in 0 .. MaxNow /\ started \in 0 .. now
    /\ pc \in [Requests -> PC]
    /\ req \in [Requests -> Req \cup {None}]
    /\ reply \in [Requests -> Codes \cup {None}]

\* However registrations and first Google sign-ins of one email race, it gets
\* one account (the count in Register alone does not ensure that).
OneAccountPerEmail ==
    \A a, b \in Accounts :
        users[a] # None /\ users[b] # None /\ users[a].email = users[b].email => a = b

\* No account is left that nobody can sign in to: it has a password or a Google
\* link (the user and the link of a first Google sign-in commit together).
AccountReachable ==
    \A a \in Accounts : users[a] # None => users[a].password \/ a \in linked

\* EmailVerifiedAt is set only once the owner of the email has proved it, whatever
\* stale copies of the account are saved in the meantime.
VerifiedByProof ==
    \A a \in Accounts : users[a] # None /\ users[a].verified => users[a].email \in proven

\* Nobody logs in with a password before the email is proved.
LoginNeedsProof ==
    \A s \in sessions : s.by = "password" => users[s.account].email \in proven

\* Between two restarts an address is sent at most one resent link per cooldown,
\* however many requests ask for it at once.
ResendRate == \A e \in Emails : mails[e] <= 1 + (now - started) \div Cooldown

\* UpdateContact updates only name and phone.
ContactOnly ==
    [][\A r \in Requests :
           SaveUser(r) => LET a == req[r].account
                          IN  users'[a] = [users[a] EXCEPT !.contact = req[r].flag]]_vars

\* A Google sign-in whose email_verified claim is set leaves the account verified.
GoogleVerifies ==
    [][\A r \in Requests :
           CommitUser(r) /\ req[r].op = "google" /\ req[r].flag
               => users'[req[r].account].verified]_vars

-----------------------------------------------------------------------------
\* However requests race, fail and are lost, the stored accounts, their links and
\* the tokens handed out behave as the atomic operations of Registry, but for an
\* UpdateContact that takes back what it had not seen.
Members == INSTANCE Registry

ImplementsRegistry == Members!LateSpec

\* A copy of an account that is about to be saved, while another request is about
\* to write the same account: nothing in the code keeps the two apart.
Holding(r) == pc[r] \in {"mark", "save"}

NoOverlap ==
    \A r, o \in Requests :
        Holding(r) /\ Holding(o) /\ r # o => req[r].account # req[o].account

ImplementsSerialRegistry == Members!Spec
=============================================================================
