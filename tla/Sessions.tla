------------------------------ MODULE Sessions ------------------------------
(***************************************************************************)
(* Tokens, and what they prove.  The server keeps no session: a signed     *)
(* token is the only record, so every request that presents one is judged  *)
(* by its typ, its expiry and the claims copied into it when it was made.  *)
(* A session is what descends from one sign-in: the refresh token it put   *)
(* into the browser's cookie, and the access tokens minted against it.     *)
(*                                                                         *)
(* Any token that exists may be presented in any place: as a bearer token, *)
(* as the cookie, in a verification link.  Who may sign in to an account   *)
(* is the subject of Accounts; here every account may.  One action per     *)
(* statement, so a request may outlive the token it came with, the server, *)
(* or the role it has read; answers reach their browser in any order, or   *)
(* never.                                                                  *)
(***************************************************************************)
EXTENDS Integers, FiniteSets, Gateway

CONSTANTS Users, Roles,
          Browsers,
          Requests,     \* RPCs that may be in flight at once
          Calls,        \* paths the model lets clients call
          Environments, \* environments a server may be started in
          AccessTTL, RefreshTTL, VerifyTTL,
          None,         \* no token, no caller, no reply yet
          MaxNow,       \* bound on the clock
          MaxTokens     \* bound on the tokens minted

Typ == {"access", "refresh", "email_verify"}

\* The claims typ, sub, role and exp; an access token carries no typ, which
\* reads "access" here.  The rest is history: when the session began, when its
\* refresh token ends, and when this token was asked for.
Token == [typ : Typ, sub : Users, role : Roles \cup {None}, exp : Nat, begun : Nat,
          asked : Nat, ends : Nat]

ASSUME SessionsAssumption ==
    /\ {AccessTTL, RefreshTTL, VerifyTTL, MaxNow} \subseteq Nat \ {0}
    /\ Environments \subseteq [from : BOOLEAN, region : BOOLEAN, bucket : BOOLEAN,
                               keys : BOOLEAN]
    /\ None \notin Users \cup Roles \cup Browsers \cup Token

VARIABLES now,
          role,       \* the role of each account
          held,       \* history: when each account last had each role, -1 for never
          tokens,     \* every token ever signed
          jar,        \* the refresh_token cookie each browser holds
          verified,   \* accounts that VerifyEmail has verified
          server,     \* what runs: nothing, or a server and what it was started with
          pc,         \* the step each request takes next
          req,        \* its arguments and what it has read
          reply       \* its last answer from the server that runs

vars == <<now, role, held, tokens, jar, verified, server, pc, req, reply>>

PC    == {"idle", "read_role", "issue_pair", "mint_access", "mark_verified", "deliver"}
Ops   == {"sign_in", "refresh", "logout", "verify"}
Codes == {"ok", "invalid_argument", "unauthenticated", "not_found", "internal"}

Req == [sub : Users \cup {None}, role : Roles \cup {None}, begun : Nat, asked : Nat,
        ends : Nat, op : Ops, browser : Browsers \cup {None}, cookie : Token \cup {None}]

Reply == [code : Codes, caller : Users \cup {None}]

Server == [mailer : {"ses", "log", "down"}, uploads : BOOLEAN]
Down   == [mailer |-> "down", uploads |-> FALSE]

Running == server.mailer # "down"

\* The wire code of a failure, by the step that failed.
UnmappedCodeOf(step) == step                                       \* mutant
CodeOf(step) ==
    CASE step \in {"read_role", "issue_pair", "read_user"} -> "unauthenticated"
      [] step = "mark_verified"                             -> "invalid_argument"
      [] OTHER                                              -> "internal"

Answer(r, code, caller) ==
    /\ pc' = [pc EXCEPT ![r] = "idle"]
    /\ req' = [req EXCEPT ![r] = None]
    /\ reply' = [reply EXCEPT ![r] = [code |-> code, caller |-> caller]]

Goto(r, label, new) ==
    /\ pc' = [pc EXCEPT ![r] = label]
    /\ req' = [req EXCEPT ![r] = new]
    /\ UNCHANGED reply

-----------------------------------------------------------------------------
(* Validation: an unexpired token of the right typ.                        *)

Live(t) == t # None /\ now < t.exp

AnyAccessTyp(t) == Live(t)                                         \* mutant
ValidateAccessToken(t) == Live(t) /\ t.typ = "access"

AnyRefreshTyp(t) == Live(t)                                        \* mutant
ValidateRefreshToken(t) == Live(t) /\ t.typ = "refresh"

ValidateEmailVerifyToken(t) == Live(t) /\ t.typ = "email_verify"

\* The interceptor puts the subject of a valid bearer token into the context
\* and lets every other request pass without one.
AuthInterceptor(bearer) == IF ValidateAccessToken(bearer) THEN bearer.sub ELSE None

-----------------------------------------------------------------------------
(* Minting.                                                                *)

LongAccessToken(q, claim) ==                                       \* mutant
    [typ |-> "access", sub |-> q.sub, role |-> claim, exp |-> now + RefreshTTL,
     begun |-> q.begun, asked |-> q.asked, ends |-> q.ends]
GenerateAccessToken(q, claim) ==
    [typ |-> "access", sub |-> q.sub, role |-> claim, exp |-> now + AccessTTL,
     begun |-> q.begun, asked |-> q.asked, ends |-> q.ends]

generateRefreshToken(q) ==
    [typ |-> "refresh", sub |-> q.sub, role |-> q.role, exp |-> now + RefreshTTL,
     begun |-> q.begun, asked |-> q.asked, ends |-> now + RefreshTTL]

generateEmailVerifyToken(u) ==
    [typ |-> "email_verify", sub |-> u, role |-> None, exp |-> now + VerifyTTL,
     begun |-> now, asked |-> now, ends |-> now + VerifyTTL]

Mint(new) ==
    /\ tokens' = tokens \cup new
    /\ Cardinality(tokens') <= MaxTokens

-----------------------------------------------------------------------------
Init == /\ now = 0
        /\ role \in [Users -> Roles]
        /\ held = [u \in Users |-> [x \in Roles |-> IF x = role[u] THEN 0 ELSE -1]]
        /\ tokens = {}
        /\ jar = [b \in Browsers |-> None]
        /\ verified = {}
        /\ server = Down
        /\ pc = [r \in Requests |-> "idle"]
        /\ req = [r \in Requests |-> None]
        /\ reply = [r \in Requests |-> None]

Args(op, b) == [sub |-> None, role |-> None, begun |-> now, asked |-> now, ends |-> now,
                op |-> op, browser |-> b, cookie |-> None]

Call(r, label, args) ==
    /\ Running /\ pc[r] = "idle"
    /\ pc' = [pc EXCEPT ![r] = label]
    /\ req' = [req EXCEPT ![r] = args]
    /\ reply' = [reply EXCEPT ![r] = None]

\* Login or SignInWithGoogle, once it is clear whose account it is.
CallSignIn(r) ==
    /\ \E b \in Browsers, u \in Users :
           Call(r, "read_role", [Args("sign_in", b) EXCEPT !.sub = u])
    /\ UNCHANGED <<now, role, held, tokens, jar, verified, server>>

ReadRole(r) ==
    /\ pc[r] = "read_role"
    /\ Goto(r, "issue_pair", [req[r] EXCEPT !.role = role[req[r].sub]])
    /\ UNCHANGED <<now, role, held, tokens, jar, verified, server>>

\* GenerateTokenPair, and the cookie that carries the refresh token.
IssuePair(r) ==
    LET refresh == generateRefreshToken(req[r])
        access  == [GenerateAccessToken(req[r], req[r].role) EXCEPT !.ends = refresh.ends]
    IN  /\ pc[r] = "issue_pair"
        /\ Mint({access, refresh})
        /\ Goto(r, "deliver", [req[r] EXCEPT !.cookie = refresh])
        /\ UNCHANGED <<now, role, held, jar, verified, server>>

\* The cookie may be missing, expired or another token.
CallRefresh(r) ==
    /\ \E b \in Browsers, t \in tokens \cup {None} :
           IF ValidateRefreshToken(t)
           THEN Call(r, "mint_access", [Args("refresh", b) EXCEPT !.sub = t.sub, !.role = t.role,
                                                                  !.begun = t.begun,
                                                                  !.ends = t.ends,
                                                                  !.cookie = t])
           ELSE Running /\ pc[r] = "idle" /\ Answer(r, CodeOf("read_user"), None)
    /\ UNCHANGED <<now, role, held, tokens, jar, verified, server>>

\* The role the new access token carries: the old token's, although the
\* account has just been read.
DefaultRole(q) == CHOOSE x \in Roles : TRUE                        \* mutant
SignedRole(q) == q.role

\* GetUserByID, of which only a failure matters, and GenerateAccessToken.
MintAccess(r) ==
    /\ pc[r] = "mint_access"
    /\ Mint({GenerateAccessToken(req[r], SignedRole(req[r]))})
    /\ Goto(r, "deliver", req[r])
    /\ UNCHANGED <<now, role, held, jar, verified, server>>

CallLogout(r) ==
    /\ \E b \in Browsers : Call(r, "deliver", Args("logout", b))
    /\ UNCHANGED <<now, role, held, tokens, jar, verified, server>>

\* What the answer does to the cookie: a sign-in sets it, a logout clears it,
\* a refresh leaves it alone.
RenewedCookie(q, old) == q.cookie                                  \* mutant
Cookie(q, old) == IF q.op = "refresh" THEN old ELSE q.cookie

\* The answer arrives, however late.
Deliver(r) ==
    /\ pc[r] = "deliver"
    /\ jar' = [jar EXCEPT ![req[r].browser] = Cookie(req[r], @)]
    /\ Answer(r, "ok", req[r].sub)
    /\ UNCHANGED <<now, role, held, tokens, verified, server>>

\* A link is followed; the account is looked up and marked as in Accounts.
CallVerify(r) ==
    /\ \E t \in tokens \cup {None} :
           IF ValidateEmailVerifyToken(t)
           THEN Call(r, "mark_verified", [Args("verify", None) EXCEPT !.sub = t.sub])
           ELSE Running /\ pc[r] = "idle" /\ Answer(r, CodeOf("mark_verified"), None)
    /\ UNCHANGED <<now, role, held, tokens, jar, verified, server>>

MarkVerified(r) ==
    /\ pc[r] = "mark_verified"
    /\ verified' = verified \cup {req[r].sub}
    /\ \E code \in {"ok", CodeOf(pc[r])} : Answer(r, code, None)
    /\ UNCHANGED <<now, role, held, tokens, jar, server>>

\* Any other call: routed, judged by its bearer token when it arrives, and
\* handed to its handler.
CallRpc(r) ==
    /\ Running /\ pc[r] = "idle"
    /\ \E path \in Calls, bearer \in tokens \cup {None} :
           LET caller == AuthInterceptor(bearer)
           IN  CASE ~Served(path, server.uploads) -> Answer(r, "not_found", None)
                 [] Served(path, server.uploads) /\ Protected(path) /\ caller = None ->
                        Answer(r, "unauthenticated", None)
                 [] OTHER ->
                        Answer(r, "ok", IF Protected(path) \/ Personal(path)
                                        THEN caller ELSE None)
    /\ UNCHANGED <<now, role, held, tokens, jar, verified, server>>

\* A statement fails.
Fail(r) ==
    /\ pc[r] \notin {"idle", "deliver"}
    /\ \E step \in {pc[r]} \cup (IF pc[r] = "mint_access" THEN {"read_user"} ELSE {}) :
           Answer(r, CodeOf(step), None)
    /\ UNCHANGED <<now, role, held, tokens, jar, verified, server>>

\* The answer is lost on its way to the browser.
Lose(r) ==
    /\ pc[r] = "deliver"
    /\ pc' = [pc EXCEPT ![r] = "idle"]
    /\ req' = [req EXCEPT ![r] = None]
    /\ UNCHANGED <<now, role, held, tokens, jar, verified, server, reply>>

-----------------------------------------------------------------------------
\* Register or ResendVerificationEmail mails, or logs, a link.  A mail that SES
\* refuses, or loses, is a link that nobody follows.
SendVerificationEmail(u) ==
    /\ Running
    /\ Mint({generateEmailVerifyToken(u)})
    /\ UNCHANGED <<now, role, held, jar, verified, server, pc, req, reply>>

\* Roles change only by hand.
ChangeRole(u) ==
    /\ \E x \in Roles \ {role[u]} :
           /\ role' = [role EXCEPT ![u] = x]
           /\ held' = [held EXCEPT ![u][x] = now]
    /\ UNCHANGED <<now, tokens, jar, verified, server, pc, req, reply>>

Tick ==
    /\ now < MaxNow
    /\ now' = now + 1
    /\ held' = [u \in Users |-> [held[u] EXCEPT ![role[u]] = now + 1]]
    /\ UNCHANGED <<role, tokens, jar, verified, server, pc, req, reply>>

\* Without a sender the mails are logged; with one, SES must be configured.
NewEmailService(env) ==
    IF ~env.from THEN {"log"}
    ELSE IF env.region /\ env.keys THEN {"ses"} ELSE {}

\* Without a bucket the server starts all the same, without uploads.
NewUploadService(env) == env.region /\ env.bucket

\* main, once the database answers: a server that cannot set up its mails does
\* not start at all.
Start(env) ==
    /\ ~Running
    /\ \E mailer \in NewEmailService(env) :
           server' = [mailer |-> mailer, uploads |-> NewUploadService(env)]
    /\ UNCHANGED <<now, role, held, tokens, jar, verified, pc, req, reply>>

\* Requests in flight are gone, except that an answer may be on its way; no
\* session is, because the server held none.
Crash ==
    /\ Running
    /\ server' = Down
    /\ pc' = [r \in Requests |-> IF pc[r] = "deliver" THEN "deliver" ELSE "idle"]
    /\ req' = [r \in Requests |-> IF pc[r] = "deliver" THEN req[r] ELSE None]
    /\ reply' = [r \in Requests |-> None]
    /\ UNCHANGED <<now, role, held, tokens, jar, verified>>

Next ==
    \/ \E r \in Requests :
           \/ CallSignIn(r) \/ ReadRole(r) \/ IssuePair(r)
           \/ CallRefresh(r) \/ MintAccess(r)
           \/ CallLogout(r) \/ Deliver(r) \/ Lose(r)
           \/ CallVerify(r) \/ MarkVerified(r)
           \/ CallRpc(r) \/ Fail(r)
    \/ \E u \in Users : SendVerificationEmail(u) \/ ChangeRole(u)
    \/ Tick \/ Crash \/ \E env \in Environments : Start(env)

Spec == Init /\ [][Next]_vars

-----------------------------------------------------------------------------
TypeOK ==
    /\ now \in 0 .. MaxNow
    /\ role \in [Users -> Roles]
    /\ held \in [Users -> [Roles -> -1 .. MaxNow]]
    /\ tokens \subseteq Token
    /\ jar \in [Browsers -> Token \cup {None}]
    /\ verified \subseteq Users
    /\ server \in Server
    /\ pc \in [Requests -> PC]
    /\ req \in [Requests -> Req \cup {None}]
    /\ reply \in [Requests -> Reply \cup {None}]

\* The three kinds of token prove three different things.  Whoever is served as
\* an account has signed in to it: neither a mailed link nor a cookie will do;
\* and an account is verified only through a link mailed to it (the typ checks
\* of ValidateAccessToken, ValidateRefreshToken and ValidateEmailVerifyToken).
KindsApart ==
    /\ \A r \in Requests : reply[r] # None /\ reply[r].caller # None =>
           \E t \in tokens : t.typ = "refresh" /\ t.sub = reply[r].caller
    /\ \A u \in verified : \E t \in tokens : t.typ = "email_verify" /\ t.sub = u

\* A session ends: however often it is refreshed, and whatever is presented, no
\* access token is minted for a request that came after the expiry of the
\* refresh token of the sign-in (RefreshToken rotates nothing).
SessionEnds == \A t \in tokens : t.typ = "access" => t.asked < t.ends

\* An access token carries a role that its account had at some moment since the
\* session's sign-in was called, possibly no later one (RefreshToken signs the
\* role of the old token).
RoleOfSession ==
    \A t \in tokens : t.typ # "email_verify" =>
        t.role # None /\ t.begun <= held[t.sub][t.role]

\* Logging out sticks: whichever answers are still on their way, a browser gets
\* a refresh token only by the answer to a sign-in, and the one it was issued.
LogoutSticks ==
    [][\A b \in Browsers : jar'[b] \notin {jar[b], None} =>
           \E r \in Requests :
               /\ pc[r] = "deliver" /\ pc'[r] = "idle"
               /\ req[r].op = "sign_in" /\ req[r].browser = b
               /\ jar'[b].begun = req[r].begun /\ jar'[b].sub = req[r].sub]_vars

-----------------------------------------------------------------------------
\* The tokens carry what a table of sessions would hold, and a restart loses
\* nothing of it.
Session(t)  == [sub |-> t.sub, role |-> t.role, begun |-> t.begun, ends |-> t.ends]
OfTyp(typ)  == {t \in tokens : t.typ = typ}

Store == INSTANCE SessionStore
         WITH sessions <- {Session(t) : t \in OfTyp("refresh")},
              grants   <- {[session |-> Session(t), asked |-> t.asked, exp |-> t.exp] :
                              t \in OfTyp("access")},
              jar      <- [b \in Browsers |->
                              IF jar[b] = None THEN None ELSE Session(jar[b])]

ImplementsStore == Store!Spec
=============================================================================
