--------------------------- MODULE SessionsProofs ---------------------------
(***************************************************************************)
(* Why tokens alone are enough.  Every claim a token carries was true of   *)
(* its session when the token was signed, and what is history about a      *)
(* session only grows: tokens are never unsigned, and the last moment at   *)
(* which an account had a role never moves back.  So a claim stays true    *)
(* through restarts and through any order of the answers.                  *)
(***************************************************************************)
EXTENDS Sessions, TLAPS

SignedIn(u) == \E t \in tokens : t.typ = "refresh" /\ t.sub = u
Mailed(u)   == \E t \in tokens : t.typ = "email_verify" /\ t.sub = u

HadRole(u, x, begun) == x \in Roles /\ begun <= held[u][x]

TokenInv(t) ==
    /\ t.typ \in {"access", "refresh"} => HadRole(t.sub, t.role, t.begun)
    /\ t.typ = "access" => t.asked < t.ends /\ SignedIn(t.sub)
    /\ t.typ = "refresh" => t.exp = t.ends

HistoryInv ==
    \A u \in Users : held[u][role[u]] = now /\ \A x \in Roles : held[u][x] <= now

\* What a request has read, by the statement it is at.
SignInInv(r) ==
    pc[r] \in {"read_role", "issue_pair"} =>
        /\ req[r].op = "sign_in" /\ req[r].browser \in Browsers /\ req[r].sub \in Users
        /\ req[r].begun <= now /\ req[r].asked <= now
        /\ pc[r] = "issue_pair" => HadRole(req[r].sub, req[r].role, req[r].begun)

RefreshInv(r) ==
    pc[r] = "mint_access" =>
        /\ req[r].op = "refresh" /\ req[r].browser \in Browsers /\ req[r].sub \in Users
        /\ SignedIn(req[r].sub)
        /\ HadRole(req[r].sub, req[r].role, req[r].begun)
        /\ req[r].asked < req[r].ends

VerifyInv(r) ==
    pc[r] = "mark_verified" => req[r].sub \in Users /\ Mailed(req[r].sub)

AnswerInv(r) ==
    pc[r] = "deliver" =>
        /\ req[r].browser \in Browsers
        /\ req[r].op \in {"sign_in", "refresh", "logout"}
        /\ req[r].sub # None => SignedIn(req[r].sub)
        /\ req[r].op = "logout" => req[r].cookie = None
        /\ req[r].op = "sign_in" => /\ req[r].cookie \in Token
                                    /\ req[r].cookie.begun = req[r].begun
                                    /\ req[r].cookie.sub = req[r].sub

ReqInv(r) == /\ pc[r] # "idle" => req[r] \in Req
             /\ SignInInv(r) /\ RefreshInv(r) /\ VerifyInv(r) /\ AnswerInv(r)

ReplyInv(r) == reply[r] # None /\ reply[r].caller # None => SignedIn(reply[r].caller)

IInv == /\ TypeOK
        /\ HistoryInv
        /\ \A t \in tokens : TokenInv(t)
        /\ \A u \in verified : Mailed(u)
        /\ \A r \in Requests : ReqInv(r) /\ ReplyInv(r)

-----------------------------------------------------------------------------
LEMMA Sentinels ==
    /\ None \notin Users /\ None \notin Roles /\ None \notin Browsers /\ None \notin Token
    /\ AccessTTL \in Nat \ {0} /\ RefreshTTL \in Nat \ {0} /\ VerifyTTL \in Nat \ {0}
    /\ MaxNow \in Nat
  BY SessionsAssumption

\* The history of a step only grows: no token is lost, and no account's last
\* moment with a role moves back.
Grows ==
    /\ tokens \subseteq tokens'
    /\ tokens' \subseteq Token
    /\ now <= now' /\ now' \in 0 .. MaxNow
    /\ held' \in [Users -> [Roles -> -1 .. MaxNow]]
    /\ \A u \in Users, x \in Roles : held[u][x] <= held'[u][x]

\* Then what was true of a token, of a request that did not move and of an
\* answer already given is true still.
LEMMA Witnesses ==
    ASSUME Grows
    PROVE  /\ \A u : SignedIn(u) => SignedIn(u)'
           /\ \A u : Mailed(u) => Mailed(u)'
  BY DEF Grows, SignedIn, Mailed

LEMMA RolesStay ==
    ASSUME TypeOK, Grows, NEW u \in Users, NEW x, NEW begun \in Nat, HadRole(u, x, begun)
    PROVE  HadRole(u, x, begun)'
<1>1. x \in Roles /\ begun <= held[u][x] /\ held[u][x] <= held'[u][x]
  BY DEF HadRole, Grows
<1>2. held[u][x] \in Int /\ held'[u][x] \in Int
  BY <1>1, Sentinels DEF TypeOK, Grows
<1> QED BY <1>1, <1>2 DEF HadRole

LEMMA TokensStay ==
    ASSUME IInv, Grows, NEW t \in tokens
    PROVE  TokenInv(t)'
<1>1. t \in Token /\ t.sub \in Users /\ t.begun \in Nat
  BY DEF IInv, TypeOK, Token
<1>2. TokenInv(t)
  BY DEF IInv
<1>3. t.typ \in {"access", "refresh"} => HadRole(t.sub, t.role, t.begun)'
  BY <1>1, <1>2, RolesStay DEF IInv, TokenInv
<1>4. SignedIn(t.sub) => SignedIn(t.sub)'
  BY Witnesses
<1> QED BY <1>2, <1>3, <1>4 DEF TokenInv

LEMMA RequestsStay ==
    ASSUME IInv, Grows, NEW r \in Requests, pc'[r] = pc[r], req'[r] = req[r]
    PROVE  ReqInv(r)'
<1>1. ReqInv(r)
  BY DEF IInv
<1>2. pc[r] # "idle" => req[r] \in Req
  BY <1>1 DEF ReqInv
<1>3. SignInInv(r)'
  <2>1. CASE pc[r] \notin {"read_role", "issue_pair"}
    BY <2>1 DEF SignInInv
  <2>2. CASE pc[r] \in {"read_role", "issue_pair"}
    <3>1. /\ req[r].op = "sign_in" /\ req[r].browser \in Browsers /\ req[r].sub \in Users
          /\ req[r].begun <= now /\ req[r].asked <= now
          /\ pc[r] = "issue_pair" => HadRole(req[r].sub, req[r].role, req[r].begun)
      BY <1>1, <2>2 DEF ReqInv, SignInInv
    <3>2. req[r].begun \in Nat /\ req[r].asked \in Nat
      BY <1>2, <2>2 DEF Req
    <3>3. req[r].begun <= now' /\ req[r].asked <= now'
      BY <3>1, <3>2, Sentinels DEF IInv, TypeOK, Grows
    <3>4. pc[r] = "issue_pair" => HadRole(req[r].sub, req[r].role, req[r].begun)'
      BY <3>1, <3>2, RolesStay DEF IInv
    <3> QED BY <3>1, <3>3, <3>4 DEF SignInInv, HadRole
  <2> QED BY <2>1, <2>2
<1>4. RefreshInv(r)'
  <2>1. CASE pc[r] # "mint_access"
    BY <2>1 DEF RefreshInv
  <2>2. CASE pc[r] = "mint_access"
    <3>1. /\ req[r].op = "refresh" /\ req[r].browser \in Browsers /\ req[r].sub \in Users
          /\ SignedIn(req[r].sub)
          /\ HadRole(req[r].sub, req[r].role, req[r].begun)
          /\ req[r].asked < req[r].ends
      BY <1>1, <2>2 DEF ReqInv, RefreshInv
    <3>2. req[r].begun \in Nat
      BY <1>2, <2>2 DEF Req
    <3>3. HadRole(req[r].sub, req[r].role, req[r].begun)'
      BY <3>1, <3>2, RolesStay DEF IInv
    <3>4. SignedIn(req[r].sub)'
      BY <3>1, Witnesses DEF SignedIn
    <3> QED BY <3>1, <3>3, <3>4 DEF RefreshInv, HadRole, SignedIn
  <2> QED BY <2>1, <2>2
<1>5. VerifyInv(r)'
  BY <1>1, Witnesses DEF ReqInv, VerifyInv, Mailed, Grows
<1>6. AnswerInv(r)'
  BY <1>1, Witnesses DEF ReqInv, AnswerInv, SignedIn, Grows
<1> QED BY <1>2, <1>3, <1>4, <1>5, <1>6 DEF ReqInv

LEMMA RepliesStay ==
    ASSUME IInv, Grows, NEW r \in Requests, reply'[r] = reply[r]
    PROVE  ReplyInv(r)'
<1>1. ReplyInv(r)
  BY DEF IInv
<1> QED BY <1>1 DEF ReplyInv, SignedIn, Grows

-----------------------------------------------------------------------------
\* A step of request r: the others do not move, the clock, the roles and the
\* server stay.
Moves(r) ==
    /\ pc' = [pc EXCEPT ![r] = pc'[r]] /\ pc'[r] \in PC
    /\ req' = [req EXCEPT ![r] = req'[r]] /\ req'[r] \in Req \cup {None}
    /\ reply' = [reply EXCEPT ![r] = reply'[r]] /\ reply'[r] \in Reply \cup {None}
    /\ UNCHANGED <<now, role, held, server>>

\* What it has to show of itself.
Delivers(r) ==
    /\ tokens \subseteq tokens' /\ tokens' \subseteq Token
    /\ jar' \in [Browsers -> Token \cup {None}]
    /\ verified' \subseteq Users
    /\ \A t \in tokens' \ tokens : TokenInv(t)'
    /\ \A u \in verified' \ verified : Mailed(u)'
    /\ ReqInv(r)' /\ ReplyInv(r)'

LEMMA MovesGrows ==
    ASSUME IInv, NEW r \in Requests, Moves(r), tokens \subseteq tokens', tokens' \subseteq Token
    PROVE  Grows
<1>1. \A u \in Users, x \in Roles : held[u][x] \in Int
  BY Sentinels DEF IInv, TypeOK
<1>2. \A u \in Users, x \in Roles : held[u][x] <= held[u][x]
  BY <1>1
<1> QED BY <1>2, Sentinels DEF Moves, Grows, IInv, TypeOK

LEMMA RequestStep ==
    ASSUME IInv, NEW r \in Requests, Moves(r), Delivers(r)
    PROVE  IInv'
<1>1. Grows
  BY MovesGrows DEF Delivers
<1>2. TypeOK'
  BY DEF IInv, TypeOK, Moves, Delivers
<1>3. HistoryInv'
  BY DEF IInv, HistoryInv, Moves
<1>4. \A t \in tokens' : TokenInv(t)'
  <2> TAKE t \in tokens'
  <2>1. CASE t \in tokens
    BY <1>1, <2>1, TokensStay
  <2>2. CASE t \notin tokens
    BY <2>2 DEF Delivers
  <2> QED BY <2>1, <2>2
<1>5. \A u \in verified' : Mailed(u)'
  <2> TAKE u \in verified'
  <2>1. CASE u \in verified
    BY <1>1, <2>1, Witnesses DEF IInv
  <2>2. CASE u \notin verified
    BY <2>2 DEF Delivers
  <2> QED BY <2>1, <2>2
<1>6. \A o \in Requests : ReqInv(o)' /\ ReplyInv(o)'
  <2> TAKE o \in Requests
  <2>1. CASE o = r
    BY <2>1 DEF Delivers
  <2>2. CASE o # r
    <3>1. pc'[o] = pc[o] /\ req'[o] = req[o] /\ reply'[o] = reply[o]
      BY <2>2 DEF Moves, IInv, TypeOK
    <3> QED BY <1>1, <3>1, RequestsStay, RepliesStay
  <2> QED BY <2>1, <2>2
<1> QED BY <1>2, <1>3, <1>4, <1>5, <1>6 DEF IInv

\* The steps that change no table.
LEMMA QuietStep ==
    ASSUME IInv, NEW r \in Requests, Moves(r), UNCHANGED <<tokens, jar, verified>>,
           ReqInv(r)', ReplyInv(r)'
    PROVE  IInv'
<1>1. Delivers(r)
  BY DEF IInv, TypeOK, Delivers
<1> QED BY <1>1, RequestStep

-----------------------------------------------------------------------------
LEMMA CodeType == \A step \in PC \cup {"read_user"} : CodeOf(step) \in Codes
  BY DEF CodeOf, Codes, PC

\* An answer leaves the request idle, with a caller who has signed in, if any.
LEMMA AnswerFacts ==
    ASSUME IInv, NEW r \in Requests, NEW code \in Codes, NEW caller \in Users \cup {None},
           caller # None => SignedIn(caller)',
           Answer(r, code, caller), UNCHANGED <<now, role, held, server>>
    PROVE  Moves(r) /\ ReqInv(r)' /\ ReplyInv(r)' /\ pc'[r] = "idle" /\ req'[r] = None
<1>1. /\ pc'[r] = "idle" /\ req'[r] = None
      /\ reply'[r] = [code |-> code, caller |-> caller]
  BY DEF Answer, IInv, TypeOK
<1>2. reply'[r] \in Reply
  BY <1>1 DEF Reply
<1>3. Moves(r)
  BY <1>1, <1>2 DEF Answer, Moves, PC
<1>4. ReqInv(r)'
  BY <1>1 DEF ReqInv, SignInInv, RefreshInv, VerifyInv, AnswerInv
<1>5. ReplyInv(r)'
  BY <1>1 DEF ReplyInv
<1> QED BY <1>1, <1>3, <1>4, <1>5

\* The next statement, and no answer yet.
LEMMA GotoFacts ==
    ASSUME IInv, NEW r \in Requests, NEW label \in PC, NEW new \in Req,
           Goto(r, label, new), UNCHANGED <<now, role, held, server>>
    PROVE  /\ Moves(r) /\ pc'[r] = label /\ req'[r] = new
           /\ reply'[r] = reply[r]
<1>1. pc'[r] = label /\ req'[r] = new /\ reply'[r] = reply[r]
  BY DEF Goto, IInv, TypeOK
<1>2. reply' = [reply EXCEPT ![r] = reply'[r]] /\ reply'[r] \in Reply \cup {None}
  BY DEF Goto, IInv, TypeOK
<1> QED BY <1>1, <1>2 DEF Goto, Moves

\* A new call.
LEMMA CallFacts ==
    ASSUME IInv, NEW r \in Requests, NEW label \in PC, NEW args \in Req,
           Call(r, label, args), UNCHANGED <<now, role, held, server>>
    PROVE  Moves(r) /\ pc'[r] = label /\ req'[r] = args /\ ReplyInv(r)'
<1>1. pc'[r] = label /\ req'[r] = args /\ reply'[r] = None
  BY DEF Call, IInv, TypeOK
<1> QED BY <1>1 DEF Call, Moves, ReplyInv

LEMMA ArgsFacts ==
    ASSUME TypeOK, NEW op \in Ops, NEW b \in Browsers \cup {None}
    PROVE  /\ Args(op, b) \in Req
           /\ Args(op, b).op = op /\ Args(op, b).browser = b /\ Args(op, b).sub = None
           /\ Args(op, b).begun = now /\ Args(op, b).asked = now
           /\ Args(op, b).cookie = None
<1>1. now \in Nat
  BY Sentinels DEF TypeOK
<1> QED BY <1>1 DEF Args, Req

LEMMA NowFacts == ASSUME TypeOK PROVE now \in Nat /\ now <= now /\ now <= MaxNow
  BY Sentinels DEF TypeOK

-----------------------------------------------------------------------------
(* One lemma for each action.                                              *)

LEMMA CallSignInStep ==
    ASSUME IInv, NEW r \in Requests, CallSignIn(r)
    PROVE  IInv'
<1>1. PICK b \in Browsers, u \in Users :
          Call(r, "read_role", [Args("sign_in", b) EXCEPT !.sub = u])
  BY DEF CallSignIn
<1> DEFINE args == [Args("sign_in", b) EXCEPT !.sub = u]
<1>2. /\ args \in Req /\ args.op = "sign_in" /\ args.browser = b /\ args.sub = u
      /\ args.begun = now /\ args.asked = now
  BY NowFacts DEF IInv, Args, Req, Ops
<1> HIDE DEF args
<1>3. Moves(r) /\ pc'[r] = "read_role" /\ req'[r] = args /\ ReplyInv(r)'
  BY <1>1, <1>2, CallFacts DEF CallSignIn, PC, args
<1>4. ReqInv(r)'
  BY <1>2, <1>3, NowFacts DEF IInv, Moves, ReqInv, SignInInv, RefreshInv, VerifyInv, AnswerInv
<1> QED BY <1>3, <1>4, QuietStep DEF CallSignIn

LEMMA ReadRoleStep ==
    ASSUME IInv, NEW r \in Requests, ReadRole(r)
    PROVE  IInv'
<1>0. PICK new : new = [req[r] EXCEPT !.role = role[req[r].sub]]
  OBVIOUS
<1>1. /\ req[r] \in Req /\ pc[r] = "read_role"
      /\ req[r].op = "sign_in" /\ req[r].browser \in Browsers /\ req[r].sub \in Users
      /\ req[r].begun <= now /\ req[r].asked <= now
  BY DEF IInv, ReqInv, SignInInv, ReadRole
<1>2. role[req[r].sub] \in Roles
  BY <1>1 DEF IInv, TypeOK
<1>3. /\ new \in Req /\ new.op = "sign_in" /\ new.browser = req[r].browser
      /\ new.sub = req[r].sub /\ new.role = role[req[r].sub]
      /\ new.begun = req[r].begun /\ new.asked = req[r].asked
  BY <1>0, <1>1, <1>2 DEF Req
<1>4. held[req[r].sub][role[req[r].sub]] = now
  BY <1>1 DEF IInv, HistoryInv
<1>5. Moves(r) /\ pc'[r] = "issue_pair" /\ req'[r] = new /\ reply'[r] = reply[r]
  BY <1>0, <1>3, GotoFacts DEF ReadRole, PC
<1>6. Grows
  BY <1>5, MovesGrows DEF IInv, TypeOK, ReadRole
<1>7. HadRole(new.sub, new.role, new.begun)'
  BY <1>1, <1>2, <1>3, <1>4, <1>5 DEF HadRole, Moves
<1>8. ReqInv(r)'
  BY <1>1, <1>3, <1>5, <1>7 DEF Moves, ReqInv, SignInInv, RefreshInv, VerifyInv, AnswerInv,
                                HadRole
<1> QED BY <1>5, <1>6, <1>8, RepliesStay, QuietStep DEF ReadRole

\* The tokens that GenerateAccessToken and generateRefreshToken sign.
LEMMA SignedFacts ==
    ASSUME TypeOK, NEW q \in Req, q.sub \in Users, NEW claim \in Roles
    PROVE  /\ GenerateAccessToken(q, claim) \in Token
           /\ q.role \in Roles => generateRefreshToken(q) \in Token
<1>1. now \in Nat /\ now + AccessTTL \in Nat /\ now + RefreshTTL \in Nat
  BY Sentinels DEF TypeOK
<1> QED BY <1>1 DEF GenerateAccessToken, generateRefreshToken, Token, Typ, Req

LEMMA IssuePairStep ==
    ASSUME IInv, NEW r \in Requests, IssuePair(r)
    PROVE  IInv'
<1>0. PICK q, refresh, access, new :
          /\ q = req[r] /\ refresh = generateRefreshToken(q)
          /\ access = [GenerateAccessToken(q, q.role) EXCEPT !.ends = refresh.ends]
          /\ new = [q EXCEPT !.cookie = refresh]
  OBVIOUS
<1>1. /\ q \in Req /\ pc[r] = "issue_pair"
      /\ q.op = "sign_in" /\ q.browser \in Browsers /\ q.sub \in Users
      /\ q.asked <= now /\ HadRole(q.sub, q.role, q.begun)
  BY <1>0 DEF IInv, ReqInv, SignInInv, IssuePair
<1>2. q.role \in Roles /\ q.asked \in Nat /\ q.begun \in Nat
  BY <1>1 DEF HadRole, Req
<1>3. refresh \in Token /\ GenerateAccessToken(q, q.role) \in Token
  BY <1>0, <1>1, <1>2, SignedFacts DEF IInv
<1>4. /\ refresh.typ = "refresh" /\ refresh.sub = q.sub /\ refresh.role = q.role
      /\ refresh.begun = q.begun /\ refresh.exp = now + RefreshTTL
      /\ refresh.ends = now + RefreshTTL
  BY <1>0 DEF generateRefreshToken
<1>5. /\ access \in Token /\ access.typ = "access" /\ access.sub = q.sub
      /\ access.role = q.role /\ access.begun = q.begun /\ access.asked = q.asked
      /\ access.ends = now + RefreshTTL
  BY <1>0, <1>3, <1>4 DEF GenerateAccessToken, Token
<1>6. q.asked < now + RefreshTTL
  BY <1>1, <1>2, Sentinels, NowFacts DEF IInv
<1>7. /\ new \in Req /\ new.op = "sign_in" /\ new.browser = q.browser /\ new.sub = q.sub
      /\ new.begun = q.begun /\ new.cookie = refresh
  BY <1>0, <1>1, <1>3 DEF Req
<1>8. tokens' = tokens \cup {access, refresh} /\ Goto(r, "deliver", new)
  BY <1>0 DEF IssuePair, Mint
<1>9. Moves(r) /\ pc'[r] = "deliver" /\ req'[r] = new /\ reply'[r] = reply[r]
  BY <1>7, <1>8, GotoFacts DEF IssuePair, PC
<1>10. tokens \subseteq tokens' /\ tokens' \subseteq Token
  BY <1>3, <1>5, <1>8 DEF IInv, TypeOK
<1>11. Grows
  BY <1>9, <1>10, MovesGrows
<1>12. SignedIn(q.sub)'
  <2>1. refresh \in tokens'
    BY <1>8
  <2> QED BY <1>4, <2>1 DEF SignedIn
<1>13. HadRole(q.sub, q.role, q.begun)'
  BY <1>1, <1>2, <1>11, RolesStay DEF IInv
<1>14. TokenInv(access)' /\ TokenInv(refresh)'
  BY <1>4, <1>5, <1>6, <1>12, <1>13 DEF TokenInv, SignedIn, HadRole
<1>15. \A t \in tokens' \ tokens : TokenInv(t)'
  BY <1>8, <1>14
<1>16. AnswerInv(r)'
  BY <1>1, <1>3, <1>4, <1>7, <1>9, <1>12 DEF AnswerInv, SignedIn
<1>17. ReqInv(r)'
  BY <1>7, <1>9, <1>16 DEF ReqInv, SignInInv, RefreshInv, VerifyInv
<1>18. Delivers(r)
  BY <1>10, <1>11, <1>15, <1>17, <1>9, RepliesStay DEF Delivers, IssuePair, IInv, TypeOK
<1> QED BY <1>9, <1>18, RequestStep

\* What a valid token proves of its account and its session.
LEMMA ValidFacts ==
    ASSUME IInv, NEW t \in tokens \cup {None}
    PROVE  /\ ValidateAccessToken(t) => t.sub \in Users /\ SignedIn(t.sub)
           /\ ValidateRefreshToken(t) => /\ t \in Token /\ t.sub \in Users /\ SignedIn(t.sub)
                                         /\ HadRole(t.sub, t.role, t.begun)
                                         /\ now < t.ends
           /\ ValidateEmailVerifyToken(t) => t.sub \in Users /\ Mailed(t.sub)
<1>1. Live(t) => t \in tokens /\ t \in Token /\ t.sub \in Users /\ now < t.exp
  BY DEF Live, IInv, TypeOK, Token
<1>2. Live(t) => TokenInv(t)
  BY <1>1 DEF IInv
<1> QED BY <1>1, <1>2 DEF ValidateAccessToken, ValidateRefreshToken, ValidateEmailVerifyToken,
                          TokenInv, SignedIn, Mailed

LEMMA RejectStep ==
    ASSUME IInv, NEW r \in Requests, NEW code \in Codes, Answer(r, code, None),
           UNCHANGED <<now, role, held, tokens, jar, verified, server>>
    PROVE  IInv'
<1>1. Moves(r) /\ ReqInv(r)' /\ ReplyInv(r)'
  BY AnswerFacts
<1> QED BY <1>1, QuietStep

LEMMA CallRefreshStep ==
    ASSUME IInv, NEW r \in Requests, CallRefresh(r)
    PROVE  IInv'
<1>1. PICK b \in Browsers, t \in tokens \cup {None} :
          IF ValidateRefreshToken(t)
          THEN Call(r, "mint_access", [Args("refresh", b) EXCEPT !.sub = t.sub, !.role = t.role,
                                                                 !.begun = t.begun,
                                                                 !.ends = t.ends,
                                                                 !.cookie = t])
          ELSE Answer(r, CodeOf("read_user"), None)
  BY DEF CallRefresh
<1>2. CASE ~ValidateRefreshToken(t)
  BY <1>1, <1>2, CodeType, RejectStep DEF CallRefresh
<1>3. CASE ValidateRefreshToken(t)
  <2> DEFINE args == [Args("refresh", b) EXCEPT !.sub = t.sub, !.role = t.role,
                                                !.begun = t.begun, !.ends = t.ends,
                                                !.cookie = t]
  <2>1. /\ t \in Token /\ t.sub \in Users /\ SignedIn(t.sub)
        /\ HadRole(t.sub, t.role, t.begun) /\ now < t.ends
    BY <1>3, ValidFacts
  <2>2. t.role \in Roles /\ t.begun \in Nat /\ t.ends \in Nat
    BY <2>1 DEF Token, HadRole
  <2>3. /\ args \in Req /\ args.op = "refresh" /\ args.browser = b /\ args.sub = t.sub
        /\ args.role = t.role /\ args.begun = t.begun /\ args.asked = now
        /\ args.ends = t.ends
    BY <2>1, <2>2, NowFacts DEF IInv, Args, Req, Ops
  <2>4. Call(r, "mint_access", args)
    BY <1>1, <1>3
  <2> HIDE DEF args
  <2>5. Moves(r) /\ pc'[r] = "mint_access" /\ req'[r] = args /\ ReplyInv(r)'
    BY <2>3, <2>4, CallFacts DEF CallRefresh, PC
  <2>6. HadRole(t.sub, t.role, t.begun)' /\ SignedIn(t.sub)'
    BY <2>1 DEF HadRole, SignedIn, CallRefresh
  <2>7. RefreshInv(r)'
    BY <2>1, <2>3, <2>5, <2>6 DEF RefreshInv, HadRole, SignedIn
  <2>8. ReqInv(r)'
    BY <2>3, <2>5, <2>7 DEF ReqInv, SignInInv, VerifyInv, AnswerInv
  <2> QED BY <2>5, <2>8, QuietStep DEF CallRefresh
<1> QED BY <1>2, <1>3

LEMMA MintAccessStep ==
    ASSUME IInv, NEW r \in Requests, MintAccess(r)
    PROVE  IInv'
<1>1. PICK q, access : q = req[r] /\ access = GenerateAccessToken(q, SignedRole(q))
  OBVIOUS
<1>2. /\ q \in Req /\ q.op = "refresh" /\ q.browser \in Browsers /\ q.sub \in Users
      /\ SignedIn(q.sub) /\ HadRole(q.sub, q.role, q.begun) /\ q.asked < q.ends
  BY <1>1 DEF IInv, ReqInv, RefreshInv, MintAccess
<1>3. q.role \in Roles /\ q.begun \in Nat
  BY <1>2 DEF HadRole, Req
<1>4. /\ access \in Token /\ access.typ = "access" /\ access.sub = q.sub
      /\ access.role = q.role /\ access.begun = q.begun /\ access.asked = q.asked
      /\ access.ends = q.ends
  <2>1. access \in Token
    BY <1>1, <1>2, <1>3, SignedFacts DEF IInv, SignedRole
  <2> QED BY <1>1, <2>1 DEF GenerateAccessToken, SignedRole
<1>5. tokens' = tokens \cup {access} /\ Goto(r, "deliver", q)
  BY <1>1 DEF MintAccess, Mint
<1>6. Moves(r) /\ pc'[r] = "deliver" /\ req'[r] = q /\ reply'[r] = reply[r]
  BY <1>2, <1>5, GotoFacts DEF MintAccess, PC
<1>7. tokens \subseteq tokens' /\ tokens' \subseteq Token
  BY <1>4, <1>5 DEF IInv, TypeOK
<1>8. Grows
  BY <1>6, <1>7, MovesGrows
<1>9. SignedIn(q.sub)' /\ HadRole(q.sub, q.role, q.begun)'
  BY <1>2, <1>3, <1>8, RolesStay, Witnesses DEF IInv
<1>10. TokenInv(access)'
  BY <1>2, <1>4, <1>9 DEF TokenInv, SignedIn, HadRole
<1>11. \A t \in tokens' \ tokens : TokenInv(t)'
  BY <1>5, <1>10
<1>12. AnswerInv(r)'
  BY <1>2, <1>6, <1>9 DEF AnswerInv, SignedIn
<1>13. ReqInv(r)'
  BY <1>2, <1>6, <1>12 DEF ReqInv, SignInInv, RefreshInv, VerifyInv
<1>14. Delivers(r)
  BY <1>6, <1>7, <1>8, <1>11, <1>13, RepliesStay DEF Delivers, MintAccess, IInv, TypeOK
<1> QED BY <1>6, <1>14, RequestStep

LEMMA CallLogoutStep ==
    ASSUME IInv, NEW r \in Requests, CallLogout(r)
    PROVE  IInv'
<1>1. PICK b \in Browsers : Call(r, "deliver", Args("logout", b))
  BY DEF CallLogout
<1>2. /\ Args("logout", b) \in Req /\ Args("logout", b).op = "logout"
      /\ Args("logout", b).browser = b /\ Args("logout", b).sub = None
      /\ Args("logout", b).cookie = None
  BY ArgsFacts DEF IInv, Ops
<1>3. Moves(r) /\ pc'[r] = "deliver" /\ req'[r] = Args("logout", b) /\ ReplyInv(r)'
  BY <1>1, <1>2, CallFacts DEF CallLogout, PC
<1>4. ReqInv(r)'
  BY <1>2, <1>3 DEF ReqInv, SignInInv, RefreshInv, VerifyInv, AnswerInv
<1> QED BY <1>3, <1>4, QuietStep DEF CallLogout

LEMMA DeliverStep ==
    ASSUME IInv, NEW r \in Requests, Deliver(r)
    PROVE  IInv'
<1>1. /\ req[r] \in Req /\ req[r].browser \in Browsers
      /\ req[r].sub \in Users \cup {None}
      /\ req[r].sub # None => SignedIn(req[r].sub)
  BY DEF IInv, ReqInv, AnswerInv, Deliver, Req
<1>2. PICK caller \in Users \cup {None} : caller = req[r].sub
  BY <1>1
<1>3. caller # None => SignedIn(caller)'
  BY <1>1, <1>2 DEF SignedIn, Deliver
<1>4. Moves(r) /\ ReqInv(r)' /\ ReplyInv(r)'
  BY <1>2, <1>3, AnswerFacts DEF Deliver, Codes
<1>5. jar' \in [Browsers -> Token \cup {None}]
  BY <1>1 DEF Deliver, Cookie, Req, IInv, TypeOK
<1>6. Delivers(r)
  BY <1>4, <1>5 DEF Delivers, Deliver, IInv, TypeOK
<1> QED BY <1>4, <1>6, RequestStep

LEMMA LoseStep ==
    ASSUME IInv, NEW r \in Requests, Lose(r)
    PROVE  IInv'
<1>1. pc'[r] = "idle" /\ req'[r] = None /\ reply'[r] = reply[r]
  BY DEF Lose, IInv, TypeOK
<1>2. Moves(r)
  BY <1>1 DEF Lose, Moves, PC, IInv, TypeOK
<1>3. ReqInv(r)'
  BY <1>1 DEF ReqInv, SignInInv, RefreshInv, VerifyInv, AnswerInv
<1>4. ReplyInv(r)'
  BY <1>1 DEF IInv, ReplyInv, SignedIn, Lose
<1> QED BY <1>2, <1>3, <1>4, QuietStep DEF Lose

LEMMA CallVerifyStep ==
    ASSUME IInv, NEW r \in Requests, CallVerify(r)
    PROVE  IInv'
<1>1. PICK t \in tokens \cup {None} :
          IF ValidateEmailVerifyToken(t)
          THEN Call(r, "mark_verified", [Args("verify", None) EXCEPT !.sub = t.sub])
          ELSE Answer(r, CodeOf("mark_verified"), None)
  BY DEF CallVerify
<1>2. CASE ~ValidateEmailVerifyToken(t)
  BY <1>1, <1>2, CodeType, RejectStep DEF CallVerify, PC
<1>3. CASE ValidateEmailVerifyToken(t)
  <2>1. PICK args : args = [Args("verify", None) EXCEPT !.sub = t.sub]
    OBVIOUS
  <2>2. t.sub \in Users /\ Mailed(t.sub)
    BY <1>3, ValidFacts
  <2>3. args \in Req /\ args.sub = t.sub
    BY <2>1, <2>2, NowFacts DEF IInv, Args, Req, Ops
  <2>4. Moves(r) /\ pc'[r] = "mark_verified" /\ req'[r] = args /\ ReplyInv(r)'
    BY <1>1, <1>3, <2>1, <2>3, CallFacts DEF CallVerify, PC
  <2>5. ReqInv(r)'
    BY <2>2, <2>3, <2>4 DEF CallVerify, Mailed, ReqInv, SignInInv, RefreshInv, VerifyInv,
                            AnswerInv
  <2> QED BY <2>4, <2>5, QuietStep DEF CallVerify
<1> QED BY <1>2, <1>3

LEMMA MarkVerifiedStep ==
    ASSUME IInv, NEW r \in Requests, MarkVerified(r)
    PROVE  IInv'
<1>1. req[r].sub \in Users /\ Mailed(req[r].sub)
  BY DEF IInv, ReqInv, VerifyInv, MarkVerified
<1>2. PICK u : u = req[r].sub
  OBVIOUS
<1>3. PICK code \in {"ok", CodeOf(pc[r])} : Answer(r, code, None)
  BY DEF MarkVerified
<1>4. code \in Codes
  BY CodeType DEF MarkVerified, PC, Codes
<1>5. Moves(r) /\ ReqInv(r)' /\ ReplyInv(r)'
  BY <1>3, <1>4, AnswerFacts DEF MarkVerified
<1>6. Mailed(u)' /\ verified' = verified \cup {u} /\ u \in Users
  BY <1>1, <1>2 DEF Mailed, MarkVerified
<1>7. Delivers(r)
  BY <1>5, <1>6 DEF Delivers, MarkVerified, IInv, TypeOK
<1> QED BY <1>5, <1>7, RequestStep

LEMMA CallRpcStep ==
    ASSUME IInv, NEW r \in Requests, CallRpc(r)
    PROVE  IInv'
<1>1. PICK path \in Calls, bearer \in tokens \cup {None} :
          \/ Answer(r, "not_found", None)
          \/ Answer(r, "unauthenticated", None)
          \/ Answer(r, "ok", IF Protected(path) \/ Personal(path)
                             THEN AuthInterceptor(bearer) ELSE None)
  BY DEF CallRpc
<1>2. PICK caller : caller = IF Protected(path) \/ Personal(path)
                             THEN AuthInterceptor(bearer) ELSE None
  OBVIOUS
<1>3. caller \in Users \cup {None} /\ (caller # None => SignedIn(caller))
  BY <1>2, ValidFacts DEF AuthInterceptor
<1>4. caller # None => SignedIn(caller)'
  BY <1>3 DEF SignedIn, CallRpc
<1>5. CASE Answer(r, "not_found", None) \/ Answer(r, "unauthenticated", None)
  BY <1>5, RejectStep DEF CallRpc, Codes
<1>6. CASE Answer(r, "ok", caller)
  <2>1. Moves(r) /\ ReqInv(r)' /\ ReplyInv(r)'
    BY <1>3, <1>4, <1>6, AnswerFacts DEF CallRpc, Codes
  <2> QED BY <2>1, QuietStep DEF CallRpc
<1> QED BY <1>1, <1>2, <1>5, <1>6

LEMMA FailStep ==
    ASSUME IInv, NEW r \in Requests, Fail(r)
    PROVE  IInv'
<1>1. PICK step \in {pc[r]} \cup (IF pc[r] = "mint_access" THEN {"read_user"} ELSE {}) :
          Answer(r, CodeOf(step), None)
  BY DEF Fail
<1>2. CodeOf(step) \in Codes
  <2>1. step \in PC \cup {"read_user"}
    BY DEF IInv, TypeOK
  <2> QED BY <2>1, CodeType
<1> QED BY <1>1, <1>2, RejectStep DEF Fail

-----------------------------------------------------------------------------
\* A step of no request.
LEMMA OtherStep ==
    ASSUME IInv, Grows, TypeOK', HistoryInv',
           \A t \in tokens' \ tokens : TokenInv(t)', verified' = verified,
           \A r \in Requests :
               \/ pc'[r] = pc[r] /\ req'[r] = req[r] /\ reply'[r] = reply[r]
               \/ ReqInv(r)' /\ ReplyInv(r)'
    PROVE  IInv'
<1>1. \A t \in tokens' : TokenInv(t)'
  BY TokensStay
<1>2. \A u \in verified' : Mailed(u)'
  BY Witnesses DEF IInv
<1>3. \A r \in Requests : ReqInv(r)' /\ ReplyInv(r)'
  BY RequestsStay, RepliesStay
<1> QED BY <1>1, <1>2, <1>3 DEF IInv

LEMMA QuietGrows ==
    ASSUME IInv, tokens \subseteq tokens', tokens' \subseteq Token,
           UNCHANGED <<now, held>>
    PROVE  Grows
<1>1. \A u \in Users, x \in Roles : held[u][x] \in Int
  BY Sentinels DEF IInv, TypeOK
<1>2. \A u \in Users, x \in Roles : held[u][x] <= held[u][x]
  BY <1>1
<1> QED BY <1>2, NowFacts DEF Grows, IInv, TypeOK

LEMMA SendStep ==
    ASSUME IInv, NEW u \in Users, SendVerificationEmail(u)
    PROVE  IInv'
<1>1. PICK t : t = generateEmailVerifyToken(u)
  OBVIOUS
<1>2. t \in Token /\ t.typ = "email_verify"
  BY <1>1, NowFacts, Sentinels DEF IInv, generateEmailVerifyToken, Token, Typ
<1>3. tokens' = tokens \cup {t}
  BY <1>1 DEF SendVerificationEmail, Mint
<1>4. TokenInv(t)'
  BY <1>2 DEF TokenInv
<1>5. Grows /\ TypeOK' /\ HistoryInv'
  BY <1>2, <1>3, QuietGrows DEF SendVerificationEmail, IInv, TypeOK, HistoryInv
<1> QED BY <1>3, <1>4, <1>5, OtherStep DEF SendVerificationEmail

LEMMA ChangeRoleStep ==
    ASSUME IInv, NEW u \in Users, ChangeRole(u)
    PROVE  IInv'
<1>1. PICK x \in Roles \ {role[u]} :
          role' = [role EXCEPT ![u] = x] /\ held' = [held EXCEPT ![u][x] = now]
  BY DEF ChangeRole
<1>2. \A v \in Users, y \in Roles :
          held'[v][y] = IF v = u /\ y = x THEN now ELSE held[v][y]
  BY <1>1 DEF IInv, TypeOK
<1>3. \A v \in Users, y \in Roles : held[v][y] \in Int /\ held[v][y] <= now
  BY Sentinels DEF IInv, TypeOK, HistoryInv
<1>4. held' \in [Users -> [Roles -> -1 .. MaxNow]]
  BY <1>1, NowFacts, Sentinels DEF IInv, TypeOK
<1>5. Grows
  BY <1>2, <1>3, <1>4, NowFacts DEF Grows, ChangeRole, IInv, TypeOK
<1>6. TypeOK'
  BY <1>1, <1>4 DEF ChangeRole, IInv, TypeOK
<1>7. HistoryInv'
  BY <1>1, <1>2, <1>3, NowFacts DEF ChangeRole, HistoryInv, IInv, TypeOK
<1> QED BY <1>5, <1>6, <1>7, OtherStep DEF ChangeRole

LEMMA TickStep ==
    ASSUME IInv, Tick
    PROVE  IInv'
<1>1. now \in Nat /\ now' = now + 1 /\ now' \in 0 .. MaxNow
  BY Sentinels DEF Tick, IInv, TypeOK
<1>2. \A v \in Users, y \in Roles :
          held'[v][y] = IF y = role[v] THEN now + 1 ELSE held[v][y]
  BY DEF Tick, IInv, TypeOK
<1>3. \A v \in Users, y \in Roles : held[v][y] \in -1 .. MaxNow /\ held[v][y] <= now
  BY DEF IInv, TypeOK, HistoryInv
<1>4. held' \in [Users -> [Roles -> -1 .. MaxNow]]
  <2>1. \A v \in Users : [held[v] EXCEPT ![role[v]] = now + 1] \in [Roles -> -1 .. MaxNow]
    BY <1>1, Sentinels DEF IInv, TypeOK
  <2> QED BY <2>1 DEF Tick
<1>5. Grows
  BY <1>1, <1>2, <1>3, <1>4, Sentinels DEF Grows, Tick, IInv, TypeOK
<1>6. TypeOK'
  BY <1>1, <1>4 DEF Tick, IInv, TypeOK
<1>7. HistoryInv'
  BY <1>1, <1>2, <1>3, Sentinels DEF Tick, HistoryInv, IInv, TypeOK
<1> QED BY <1>5, <1>6, <1>7, OtherStep DEF Tick

LEMMA StartStep ==
    ASSUME IInv, NEW env \in Environments, Start(env)
    PROVE  IInv'
<1>1. server' \in Server
  BY DEF Start, NewEmailService, NewUploadService, Server, SessionsAssumption
<1>2. Grows /\ TypeOK' /\ HistoryInv'
  BY <1>1, QuietGrows DEF Start, IInv, TypeOK, HistoryInv
<1> QED BY <1>2, OtherStep DEF Start

LEMMA CrashStep ==
    ASSUME IInv, Crash
    PROVE  IInv'
<1>1. Grows /\ HistoryInv'
  BY QuietGrows DEF Crash, IInv, TypeOK, HistoryInv
<1>2. TypeOK'
  BY DEF Crash, Down, Server, PC, IInv, TypeOK
<1>3. ASSUME NEW r \in Requests
      PROVE  ReqInv(r)' /\ ReplyInv(r)'
  <2>1. ReplyInv(r)'
    BY DEF Crash, ReplyInv
  <2>2. CASE pc[r] = "deliver"
    <3>1. pc'[r] = pc[r] /\ req'[r] = req[r]
      BY <2>2 DEF Crash
    <3> QED BY <1>1, <2>1, <3>1, RequestsStay
  <2>3. CASE pc[r] # "deliver"
    <3>1. pc'[r] = "idle"
      BY <2>3 DEF Crash
    <3> QED BY <2>1, <3>1 DEF ReqInv, SignInInv, RefreshInv, VerifyInv, AnswerInv
  <2> QED BY <2>2, <2>3
<1> QED BY <1>1, <1>2, <1>3, OtherStep DEF Crash

-----------------------------------------------------------------------------
LEMMA InitIInv == Init => IInv
<1> SUFFICES ASSUME Init PROVE IInv
  OBVIOUS
<1>1. TypeOK
  <2>1. held \in [Users -> [Roles -> -1 .. MaxNow]]
    BY Sentinels DEF Init
  <2> QED BY <2>1, Sentinels DEF Init, TypeOK, PC, Down, Server
<1>2. HistoryInv
  <2>1. \A u \in Users : role[u] \in Roles
    BY DEF Init
  <2> QED BY <2>1 DEF Init, HistoryInv
<1>3. \A r \in Requests : ReqInv(r) /\ ReplyInv(r)
  BY DEF Init, ReqInv, SignInInv, RefreshInv, VerifyInv, AnswerInv, ReplyInv
<1> QED BY <1>1, <1>2, <1>3 DEF Init, IInv

LEMMA NextIInv == IInv /\ [Next]_vars => IInv'
<1> SUFFICES ASSUME IInv, [Next]_vars PROVE IInv'
  OBVIOUS
<1>1. CASE UNCHANGED vars
  BY <1>1 DEF vars, IInv, TypeOK, HistoryInv, TokenInv, SignedIn, Mailed, HadRole, ReqInv,
              SignInInv, RefreshInv, VerifyInv, AnswerInv, ReplyInv
<1>2. ASSUME NEW r \in Requests,
             \/ CallSignIn(r) \/ ReadRole(r) \/ IssuePair(r)
             \/ CallRefresh(r) \/ MintAccess(r)
             \/ CallLogout(r) \/ Deliver(r) \/ Lose(r)
             \/ CallVerify(r) \/ MarkVerified(r)
             \/ CallRpc(r) \/ Fail(r)
      PROVE  IInv'
  BY <1>2, CallSignInStep, ReadRoleStep, IssuePairStep, CallRefreshStep, MintAccessStep,
     CallLogoutStep, DeliverStep, LoseStep, CallVerifyStep, MarkVerifiedStep, CallRpcStep,
     FailStep
<1>3. ASSUME NEW u \in Users, SendVerificationEmail(u) \/ ChangeRole(u)
      PROVE  IInv'
  BY <1>3, SendStep, ChangeRoleStep
<1>4. CASE Tick \/ Crash \/ \E env \in Environments : Start(env)
  BY <1>4, TickStep, CrashStep, StartStep
<1> QED BY <1>1, <1>2, <1>3, <1>4 DEF Next

\* The strengthened invariant, from which the theorems below follow.
THEOREM Inductive == Spec => []IInv
<1>1. Init => IInv
  BY InitIInv
<1>2. IInv /\ [Next]_vars => IInv'
  BY NextIInv
<1> QED BY <1>1, <1>2, PTL DEF Spec

\* Requests, tokens and cookies keep their types, and every failure has its
\* wire code (services/auth.go, handlers/auth.go).
THEOREM TypeCorrect == Spec => []TypeOK
<1>1. IInv => TypeOK
  BY DEF IInv
<1> QED BY <1>1, Inductive, PTL

\* Nobody is served as an account, and no account is verified, on the strength
\* of a token made for something else (ValidateAccessToken and its siblings).
THEOREM KindsTheorem == Spec => []KindsApart
<1>1. IInv => KindsApart
  BY DEF IInv, ReplyInv, SignedIn, Mailed, KindsApart
<1> QED BY <1>1, Inductive, PTL

\* Refreshing does not prolong a session (RefreshToken).
THEOREM EndTheorem == Spec => []SessionEnds
<1>1. IInv => SessionEnds
  BY DEF IInv, TokenInv, SessionEnds
<1> QED BY <1>1, Inductive, PTL

\* A token's role was its account's role at some moment of the session, or just
\* before it began (Login, SignInWithGoogle, RefreshToken).
THEOREM RoleTheorem == Spec => []RoleOfSession
<1>1. ASSUME IInv PROVE RoleOfSession
  <2>1. \A t \in tokens : t.typ \in Typ
    BY <1>1 DEF IInv, TypeOK, Token
  <2> QED BY <1>1, <2>1, Sentinels DEF IInv, TokenInv, HadRole, Typ, RoleOfSession
<1> QED BY <1>1, Inductive, PTL

-----------------------------------------------------------------------------
\* Only the answer to a request changes a cookie.
LEMMA JarStep ==
    ASSUME IInv, [Next]_vars
    PROVE  jar' = jar \/ \E r \in Requests : Deliver(r)
<1>1. CASE UNCHANGED vars
  BY <1>1 DEF vars
<1>2. ASSUME NEW r \in Requests,
             \/ CallSignIn(r) \/ ReadRole(r) \/ IssuePair(r)
             \/ CallRefresh(r) \/ MintAccess(r)
             \/ CallLogout(r) \/ Lose(r)
             \/ CallVerify(r) \/ MarkVerified(r)
             \/ CallRpc(r) \/ Fail(r)
      PROVE  jar' = jar
  BY <1>2 DEF CallSignIn, ReadRole, IssuePair, CallRefresh, MintAccess, CallLogout, Lose,
              CallVerify, MarkVerified, CallRpc, Fail
<1>3. ASSUME NEW u \in Users, SendVerificationEmail(u) \/ ChangeRole(u)
      PROVE  jar' = jar
  BY <1>3 DEF SendVerificationEmail, ChangeRole
<1>4. CASE Tick \/ Crash \/ \E env \in Environments : Start(env)
  BY <1>4 DEF Tick, Crash, Start
<1> QED BY <1>1, <1>2, <1>3, <1>4 DEF Next

\* Once logged out, a browser stays so until a sign-in of its own is answered
\* (Logout, setRefreshCookie and clearRefreshCookie).
THEOREM LogoutTheorem == Spec => LogoutSticks
<1> DEFINE SetBySignIn(b) ==
        \E r \in Requests :
            /\ pc[r] = "deliver" /\ pc'[r] = "idle"
            /\ req[r].op = "sign_in" /\ req[r].browser = b
            /\ jar'[b].begun = req[r].begun /\ jar'[b].sub = req[r].sub
<1>1. ASSUME IInv, [Next]_vars, NEW b \in Browsers, jar'[b] \notin {jar[b], None}
      PROVE  SetBySignIn(b)
  <2>1. PICK r \in Requests : Deliver(r)
    BY <1>1, JarStep
  <2>2. /\ pc[r] = "deliver" /\ pc'[r] = "idle"
        /\ jar' = [jar EXCEPT ![req[r].browser] = Cookie(req[r], @)]
    BY <1>1, <2>1 DEF Deliver, Answer, IInv, TypeOK
  <2>3. req[r].browser = b /\ jar'[b] = Cookie(req[r], jar[b])
    BY <1>1, <2>2 DEF IInv, TypeOK
  <2>4. AnswerInv(r)
    BY <1>1 DEF IInv, ReqInv
  <2>5. req[r].op = "sign_in" /\ jar'[b] = req[r].cookie
    BY <1>1, <2>2, <2>3, <2>4 DEF AnswerInv, Cookie
  <2> QED BY <2>2, <2>3, <2>4, <2>5 DEF AnswerInv
<1>2. IInv /\ [Next]_vars =>
          [\A b \in Browsers : jar'[b] \notin {jar[b], None} => SetBySignIn(b)]_vars
  BY <1>1
<1> QED BY <1>2, Inductive, PTL DEF Spec, LogoutSticks

-----------------------------------------------------------------------------
(* The tokens implement a table of sessions.  A token says of its session  *)
(* no more than its sign-in wrote down, because every token of a session   *)
(* descends from one refresh token: requests carry the session of the      *)
(* token they came with, and cookies hold nothing but refresh tokens.      *)

Opened == {Session(t) : t \in OfTyp("refresh")}

Descends(r) ==
    /\ pc[r] \in {"read_role", "issue_pair"} => req[r].asked = req[r].begun
    /\ pc[r] = "mint_access" =>
           /\ Session(req[r]) \in Opened
           /\ req[r].begun <= req[r].asked /\ req[r].asked <= now
    /\ pc[r] = "deliver" /\ req[r].op = "sign_in" => req[r].cookie \in OfTyp("refresh")

Lineage ==
    /\ \A t \in OfTyp("refresh") : t.begun <= now
    /\ \A b \in Browsers : jar[b] # None => jar[b] \in OfTyp("refresh")
    /\ \A r \in Requests : Descends(r)

\* The four things a step of a request can do to the tokens and the cookies.
Signing(r)  == IssuePair(r)
Minting(r)  == MintAccess(r)
Setting(r)  == Deliver(r)
Reading(r)  == \/ CallSignIn(r) \/ ReadRole(r) \/ CallRefresh(r) \/ CallLogout(r) \/ Lose(r)
               \/ CallVerify(r) \/ MarkVerified(r) \/ CallRpc(r) \/ Fail(r)

LEMMA ReadingQuiet ==
    ASSUME NEW r \in Requests, Reading(r)
    PROVE  now' = now /\ tokens' = tokens /\ jar' = jar
<1>1. CASE CallSignIn(r) \/ ReadRole(r) \/ CallLogout(r) \/ Lose(r)
  BY <1>1 DEF CallSignIn, ReadRole, CallLogout, Lose
<1>0. CASE CallRefresh(r)
  BY <1>0, Zenon DEF CallRefresh
<1>2. CASE CallVerify(r) \/ MarkVerified(r)
  BY <1>2 DEF CallVerify, MarkVerified
<1>3. CASE CallRpc(r)
  BY <1>3 DEF CallRpc
<1>4. CASE Fail(r)
  BY <1>4 DEF Fail
<1> QED BY <1>0, <1>1, <1>2, <1>3, <1>4 DEF Reading

LEMMA RpcAnswers ==
    ASSUME NEW r \in Requests, CallRpc(r)
    PROVE  \E code, caller : Answer(r, code, caller)
<1>1. PICK path \in Calls, bearer \in tokens \cup {None} :
          \/ Answer(r, "not_found", None)
          \/ Answer(r, "unauthenticated", None)
          \/ Answer(r, "ok", IF Protected(path) \/ Personal(path)
                             THEN AuthInterceptor(bearer) ELSE None)
  BY DEF CallRpc
<1> QED BY <1>1

LEMMA OthersWait ==
    ASSUME TypeOK, NEW r \in Requests, Signing(r) \/ Minting(r) \/ Setting(r) \/ Reading(r)
    PROVE  /\ \A o \in Requests \ {r} : pc'[o] = pc[o] /\ req'[o] = req[o]
           /\ now' = now /\ tokens \subseteq tokens'
<1>1. CASE Signing(r) \/ Minting(r)
  BY <1>1 DEF Signing, Minting, IssuePair, MintAccess, Mint, Goto, TypeOK
<1>2. CASE Setting(r)
  BY <1>2 DEF Setting, Deliver, Answer, TypeOK
<1>3. CASE Reading(r)
  <2>1. now' = now /\ tokens' = tokens
    BY <1>3, ReadingQuiet
  <2>2. \/ \E label, args : Call(r, label, args) \/ Goto(r, label, args)
        \/ \E code, caller : Answer(r, code, caller)
        \/ Lose(r)
    <3>1. CASE CallSignIn(r) \/ ReadRole(r) \/ CallLogout(r)
      BY <3>1 DEF CallSignIn, ReadRole, CallLogout
    <3>2. CASE CallRefresh(r)
      BY <3>2 DEF CallRefresh
    <3>3. CASE CallVerify(r)
      BY <3>3 DEF CallVerify
    <3>4. CASE MarkVerified(r) \/ Fail(r)
      BY <3>4 DEF MarkVerified, Fail
    <3> QED BY <1>3, <3>1, <3>2, <3>3, <3>4, RpcAnswers DEF Reading
  <2>3. pc' = [pc EXCEPT ![r] = pc'[r]] /\ req' = [req EXCEPT ![r] = req'[r]]
    BY <2>2 DEF Call, Goto, Answer, Lose, TypeOK
  <2> QED BY <2>1, <2>3 DEF TypeOK
<1> QED BY <1>1, <1>2, <1>3

\* Tokens are never unsigned and time does not run back, so descent lasts.
LEMMA DescentLasts ==
    ASSUME tokens \subseteq tokens', now \in Nat, now' \in Nat, now <= now'
    PROVE  /\ OfTyp("refresh") \subseteq OfTyp("refresh")' /\ Opened \subseteq Opened'
           /\ \A r \in Requests :
                  /\ Descends(r) /\ pc'[r] = pc[r] /\ req'[r] = req[r]
                  /\ pc[r] # "idle" => req[r] \in Req
                  => Descends(r)'
<1>1. OfTyp("refresh") \subseteq OfTyp("refresh")'
  BY DEF OfTyp
<1>2. Opened \subseteq Opened'
  BY <1>1 DEF Opened, Session
<1>3. ASSUME NEW r \in Requests, Descends(r), pc'[r] = pc[r], req'[r] = req[r],
             pc[r] # "idle" => req[r] \in Req
      PROVE  Descends(r)'
  <2>1. CASE pc[r] = "mint_access"
    <3>1. req[r].asked \in Nat /\ req[r].asked <= now /\ Session(req[r]) \in Opened
      BY <1>3, <2>1 DEF Descends, Req
    <3>2. req[r].asked <= now' /\ Session(req'[r]) \in Opened'
      BY <1>2, <1>3, <3>1 DEF Session
    <3> QED BY <1>3, <2>1, <3>2 DEF Descends, Session
  <2>2. CASE pc[r] # "mint_access"
    BY <1>1, <1>3, <2>2 DEF Descends
  <2> QED BY <2>1, <2>2
<1> QED BY <1>1, <1>2, <1>3

\* What the two signing steps add.
LEMMA PairFacts ==
    ASSUME IInv, Lineage, NEW r \in Requests, IssuePair(r)
    PROVE  \E refresh, access \in Token :
               /\ tokens' = tokens \cup {access, refresh}
               /\ refresh.typ = "refresh" /\ access.typ = "access"
               /\ refresh.role \in Roles /\ refresh.begun <= now
               /\ refresh.ends = now + RefreshTTL
               /\ Session(access) = Session(refresh)
               /\ access.asked = refresh.begun /\ access.exp = now + AccessTTL
               /\ pc'[r] = "deliver" /\ req'[r].cookie = refresh
<1>0. PICK q, refresh, access, new :
          /\ q = req[r] /\ refresh = generateRefreshToken(q)
          /\ access = [GenerateAccessToken(q, q.role) EXCEPT !.ends = refresh.ends]
          /\ new = [q EXCEPT !.cookie = refresh]
  OBVIOUS
<1>1. /\ q \in Req /\ q.sub \in Users /\ q.begun <= now /\ q.role \in Roles
      /\ q.asked = q.begun /\ q.asked \in Nat
  BY <1>0 DEF IInv, ReqInv, SignInInv, HadRole, Lineage, Descends, IssuePair, Req
<1>2. refresh \in Token /\ GenerateAccessToken(q, q.role) \in Token
  BY <1>0, <1>1, SignedFacts DEF IInv
<1>3. /\ refresh.typ = "refresh" /\ refresh.sub = q.sub /\ refresh.role = q.role
      /\ refresh.begun = q.begun /\ refresh.ends = now + RefreshTTL
  BY <1>0 DEF generateRefreshToken
<1>4. /\ access \in Token /\ access.typ = "access" /\ access.sub = q.sub
      /\ access.role = q.role /\ access.begun = q.begun /\ access.asked = q.asked
      /\ access.ends = now + RefreshTTL /\ access.exp = now + AccessTTL
  BY <1>0, <1>2, <1>3 DEF GenerateAccessToken, Token
<1>5. tokens' = tokens \cup {access, refresh} /\ Goto(r, "deliver", new)
  BY <1>0 DEF IssuePair, Mint
<1>6. pc'[r] = "deliver" /\ req'[r] = new /\ new.cookie = refresh
  BY <1>0, <1>1, <1>5 DEF Goto, IInv, TypeOK, Req
<1>7. Session(access) = Session(refresh)
  BY <1>3, <1>4 DEF Session
<1> QED BY <1>1, <1>2, <1>3, <1>4, <1>5, <1>6, <1>7

LEMMA MintFacts ==
    ASSUME IInv, Lineage, NEW r \in Requests, MintAccess(r)
    PROVE  \E access \in Token :
               /\ tokens' = tokens \cup {access}
               /\ access.typ = "access" /\ Session(access) \in Opened
               /\ access.begun <= access.asked /\ access.asked <= now
               /\ access.asked < access.ends /\ access.exp = now + AccessTTL
               /\ pc'[r] = "deliver" /\ req'[r].op = "refresh"
<1>1. PICK q, access : q = req[r] /\ access = GenerateAccessToken(q, SignedRole(q))
  OBVIOUS
<1>2. /\ q \in Req /\ q.sub \in Users /\ q.role \in Roles /\ q.op = "refresh"
      /\ q.asked < q.ends /\ q.begun <= q.asked /\ q.asked <= now /\ Session(q) \in Opened
  BY <1>1 DEF IInv, ReqInv, RefreshInv, HadRole, Lineage, Descends, MintAccess
<1>3. access \in Token
  BY <1>1, <1>2, SignedFacts DEF IInv, SignedRole
<1>4. /\ access.typ = "access" /\ access.sub = q.sub /\ access.role = q.role
      /\ access.begun = q.begun /\ access.asked = q.asked /\ access.ends = q.ends
      /\ access.exp = now + AccessTTL
  BY <1>1 DEF GenerateAccessToken, SignedRole
<1>5. Session(access) = Session(q)
  BY <1>4 DEF Session
<1>6. tokens' = tokens \cup {access} /\ pc'[r] = "deliver" /\ req'[r] = q
  BY <1>1 DEF MintAccess, Mint, Goto, IInv, TypeOK
<1> QED BY <1>2, <1>3, <1>4, <1>5, <1>6

LEMMA CookieFacts ==
    ASSUME IInv, Lineage, NEW r \in Requests, Deliver(r)
    PROVE  \E b \in Browsers :
               /\ \A o \in Browsers \ {b} : jar'[o] = jar[o]
               /\ jar'[b] \in {jar[b], None} \cup OfTyp("refresh")
               /\ tokens' = tokens /\ pc'[r] = "idle"
<1>1. PICK b \in Browsers : b = req[r].browser
  BY DEF IInv, ReqInv, AnswerInv, Deliver
<1>2. /\ req[r].op \in {"sign_in", "refresh", "logout"}
      /\ req[r].op = "logout" => req[r].cookie = None
      /\ req[r].op = "sign_in" => req[r].cookie \in OfTyp("refresh")
  BY DEF IInv, ReqInv, AnswerInv, Deliver, Lineage, Descends
<1>3. jar' = [jar EXCEPT ![b] = Cookie(req[r], jar[b])]
  BY <1>1 DEF Deliver
<1>4. Cookie(req[r], jar[b]) \in {jar[b], None} \cup OfTyp("refresh")
  BY <1>2 DEF Cookie
<1>5. pc'[r] = "idle" /\ tokens' = tokens
  BY DEF Deliver, Answer, IInv, TypeOK
<1> QED BY <1>3, <1>4, <1>5 DEF IInv, TypeOK

\* A request that reads learns its session from a refresh token it was shown.
LEMMA ReadingDescends ==
    ASSUME IInv, Lineage, NEW r \in Requests, Reading(r)
    PROVE  Descends(r)'
<1>0. TypeOK /\ now \in Nat
  BY NowFacts DEF IInv
<1>1. CASE CallSignIn(r)
  <2>1. PICK b \in Browsers, u \in Users :
            Call(r, "read_role", [Args("sign_in", b) EXCEPT !.sub = u])
    BY <1>1 DEF CallSignIn
  <2> QED BY <1>0, <2>1 DEF Call, Args, Descends, TypeOK
<1>2. CASE ReadRole(r)
  <2>1. req[r] \in Req /\ req[r].asked = req[r].begun
    BY <1>2 DEF IInv, ReqInv, Lineage, Descends, ReadRole
  <2>2. /\ pc'[r] = "issue_pair"
        /\ req'[r] = [req[r] EXCEPT !.role = role[req[r].sub]]
    BY <1>0, <1>2 DEF ReadRole, Goto, TypeOK
  <2>3. req'[r].asked = req'[r].begun
    BY <2>1, <2>2 DEF Req
  <2> QED BY <2>2, <2>3 DEF Descends
<1>3. CASE CallRefresh(r)
  <2>1. PICK b \in Browsers, t \in tokens \cup {None} :
            IF ValidateRefreshToken(t)
            THEN Call(r, "mint_access",
                      [Args("refresh", b) EXCEPT !.sub = t.sub, !.role = t.role,
                                                 !.begun = t.begun, !.ends = t.ends,
                                                 !.cookie = t])
            ELSE Answer(r, CodeOf("read_user"), None)
    BY <1>3, Zenon DEF CallRefresh
  <2>2. CASE ~ValidateRefreshToken(t)
    BY <1>0, <2>1, <2>2 DEF Answer, Descends, TypeOK
  <2>3. CASE ValidateRefreshToken(t)
    <3>1. t \in OfTyp("refresh") /\ t.begun <= now
      BY <2>3 DEF ValidateRefreshToken, Live, OfTyp, Lineage
    <3>2. /\ pc'[r] = "mint_access" /\ req'[r].asked = now
          /\ req'[r].sub = t.sub /\ req'[r].role = t.role
          /\ req'[r].begun = t.begun /\ req'[r].ends = t.ends
      <4> DEFINE args == [Args("refresh", b) EXCEPT !.sub = t.sub, !.role = t.role,
                                                    !.begun = t.begun, !.ends = t.ends,
                                                    !.cookie = t]
      <4>1. /\ args.asked = now /\ args.sub = t.sub /\ args.role = t.role
            /\ args.begun = t.begun /\ args.ends = t.ends
        BY DEF Args
      <4>2. Call(r, "mint_access", args)
        BY <2>1, <2>3
      <4> HIDE DEF args
      <4>3. pc'[r] = "mint_access" /\ req'[r] = args
        BY <1>0, <4>2 DEF Call, TypeOK
      <4> QED BY <4>1, <4>3
    <3>3. Session(req'[r]) = Session(t) /\ tokens' = tokens /\ now' = now
      BY <1>3, <3>2 DEF Session, CallRefresh
    <3>4. Session(req'[r]) \in Opened'
      BY <3>1, <3>3 DEF Opened, OfTyp, Session
    <3> QED BY <1>0, <3>1, <3>2, <3>3, <3>4 DEF Descends, Session
  <2> QED BY <2>2, <2>3
<1>4. CASE CallLogout(r)
  BY <1>0, <1>4 DEF CallLogout, Call, Args, Descends, TypeOK
<1>5. CASE CallVerify(r)
  BY <1>0, <1>5 DEF CallVerify, Call, Answer, Descends, TypeOK
<1>6. CASE Lose(r) \/ MarkVerified(r) \/ CallRpc(r) \/ Fail(r)
  BY <1>0, <1>6 DEF Lose, MarkVerified, CallRpc, Fail, Answer, Descends, TypeOK
<1> QED BY <1>1, <1>2, <1>3, <1>4, <1>5, <1>6 DEF Reading

LEMMA RequestLineage ==
    ASSUME IInv, IInv', Lineage, NEW r \in Requests,
           Signing(r) \/ Minting(r) \/ Setting(r) \/ Reading(r)
    PROVE  Lineage'
<1>0. TypeOK /\ now \in Nat
  BY NowFacts DEF IInv
<1>1. /\ \A o \in Requests \ {r} : pc'[o] = pc[o] /\ req'[o] = req[o]
      /\ now' = now /\ tokens \subseteq tokens'
  BY <1>0, OthersWait
<1>2. /\ OfTyp("refresh") \subseteq OfTyp("refresh")' /\ Opened \subseteq Opened'
      /\ \A o \in Requests \ {r} : Descends(o)'
  <2>1. \A o \in Requests : Descends(o) /\ (pc[o] # "idle" => req[o] \in Req)
    BY DEF Lineage, IInv, ReqInv
  <2>2. now <= now' /\ now' \in Nat
    BY <1>0, <1>1
  <2> QED BY <1>0, <1>1, <2>1, <2>2, DescentLasts
<1>3. CASE Signing(r)
  <2>1. PICK refresh, access \in Token :
            /\ tokens' = tokens \cup {access, refresh}
            /\ refresh.typ = "refresh" /\ access.typ = "access" /\ refresh.begun <= now
            /\ pc'[r] = "deliver" /\ req'[r].cookie = refresh
    BY <1>3, PairFacts DEF Signing
  <2>2. OfTyp("refresh")' = OfTyp("refresh") \cup {refresh}
    BY <2>1 DEF OfTyp
  <2>3. Descends(r)'
    BY <2>1, <2>2 DEF Descends
  <2>4. jar' = jar
    BY <1>3 DEF Signing, IssuePair
  <2> QED BY <1>1, <1>2, <2>1, <2>2, <2>3, <2>4 DEF Lineage
<1>4. CASE Minting(r)
  <2>1. PICK access \in Token :
            /\ tokens' = tokens \cup {access} /\ access.typ = "access"
            /\ pc'[r] = "deliver" /\ req'[r].op = "refresh"
    BY <1>4, MintFacts DEF Minting
  <2>2. OfTyp("refresh")' = OfTyp("refresh")
    BY <2>1 DEF OfTyp
  <2>3. Descends(r)'
    BY <2>1 DEF Descends
  <2>4. jar' = jar
    BY <1>4 DEF Minting, MintAccess
  <2> QED BY <1>1, <1>2, <2>2, <2>3, <2>4 DEF Lineage
<1>5. CASE Setting(r)
  <2>1. PICK b \in Browsers :
            /\ \A o \in Browsers \ {b} : jar'[o] = jar[o]
            /\ jar'[b] \in {jar[b], None} \cup OfTyp("refresh")
            /\ tokens' = tokens /\ pc'[r] = "idle"
    BY <1>5, CookieFacts DEF Setting
  <2>2. OfTyp("refresh")' = OfTyp("refresh")
    BY <2>1 DEF OfTyp
  <2>3. Descends(r)'
    BY <2>1 DEF Descends
  <2> QED BY <1>1, <1>2, <2>1, <2>2, <2>3 DEF Lineage
<1>6. CASE Reading(r)
  <2>1. tokens' = tokens /\ jar' = jar
    BY <1>6, ReadingQuiet
  <2>2. OfTyp("refresh")' = OfTyp("refresh")
    BY <2>1 DEF OfTyp
  <2>3. Descends(r)'
    BY <1>6, ReadingDescends
  <2> QED BY <1>1, <1>2, <2>1, <2>2, <2>3 DEF Lineage
<1> QED BY <1>3, <1>4, <1>5, <1>6

LEMMA WorldLineage ==
    ASSUME IInv, Lineage,
           \/ \E u \in Users : SendVerificationEmail(u) \/ ChangeRole(u)
           \/ Tick \/ Crash \/ \E env \in Environments : Start(env)
           \/ UNCHANGED vars
    PROVE  Lineage'
<1>0. now \in Nat /\ tokens \subseteq Token
  BY NowFacts DEF IInv, TypeOK
<1>1. OfTyp("refresh")' = OfTyp("refresh") /\ tokens \subseteq tokens' /\ jar' = jar
  <2>1. ASSUME NEW u \in Users, SendVerificationEmail(u)
        PROVE  OfTyp("refresh")' = OfTyp("refresh") /\ tokens \subseteq tokens' /\ jar' = jar
    BY <2>1 DEF SendVerificationEmail, Mint, generateEmailVerifyToken, OfTyp
  <2>2. ASSUME NEW u \in Users, ChangeRole(u)
        PROVE  tokens' = tokens /\ jar' = jar
    BY <2>2 DEF ChangeRole
  <2>3. CASE Tick \/ Crash \/ (\E env \in Environments : Start(env)) \/ UNCHANGED vars
    BY <2>3 DEF Tick, Crash, Start, vars, OfTyp
  <2> QED BY <2>1, <2>2, <2>3 DEF OfTyp
<1>2. now' \in Nat /\ now <= now'
  <2>1. now' \in {now, now + 1}
    <3>1. ASSUME NEW u \in Users, SendVerificationEmail(u) \/ ChangeRole(u)
          PROVE  now' = now
      BY <3>1 DEF SendVerificationEmail, ChangeRole
    <3>2. CASE Tick \/ Crash \/ (\E env \in Environments : Start(env)) \/ UNCHANGED vars
      BY <3>2 DEF Tick, Crash, Start, vars
    <3> QED BY <3>1, <3>2
  <2> QED BY <1>0, <2>1
<1>3. ASSUME NEW r \in Requests PROVE Descends(r)'
  <2>1. CASE pc'[r] = "idle"
    BY <2>1 DEF Descends
  <2>2. CASE pc'[r] = pc[r] /\ req'[r] = req[r]
    <3>1. Descends(r) /\ (pc[r] # "idle" => req[r] \in Req)
      BY DEF Lineage, IInv, ReqInv
    <3> QED BY <1>0, <1>1, <1>2, <2>2, <3>1, DescentLasts
  <2>3. pc'[r] = "idle" \/ (pc'[r] = pc[r] /\ req'[r] = req[r])
    <3>1. ASSUME NEW u \in Users, SendVerificationEmail(u) \/ ChangeRole(u)
          PROVE  pc' = pc /\ req' = req
      BY <3>1 DEF SendVerificationEmail, ChangeRole
    <3>2. CASE Tick \/ (\E env \in Environments : Start(env)) \/ UNCHANGED vars
      BY <3>2 DEF Tick, Start, vars
    <3>3. CASE Crash
      BY <3>3 DEF Crash
    <3> QED BY <3>1, <3>2, <3>3
  <2> QED BY <2>1, <2>2, <2>3
<1>4. \A t \in OfTyp("refresh") : t.begun <= now'
  <2> TAKE t \in OfTyp("refresh")
  <2>1. t.begun \in Nat /\ t.begun <= now
    BY <1>0 DEF OfTyp, Token, Lineage
  <2> QED BY <1>0, <1>2, <2>1
<1> QED BY <1>1, <1>3, <1>4 DEF Lineage

LEMMA NextLineage == IInv /\ IInv' /\ Lineage /\ [Next]_vars => Lineage'
  BY RequestLineage, WorldLineage DEF Next, Signing, Minting, Setting, Reading

LEMMA InitLineage == Init => Lineage
  BY DEF Init, Lineage, Descends, OfTyp

-----------------------------------------------------------------------------
Granted == {[session |-> Session(t), asked |-> t.asked, exp |-> t.exp] : t \in OfTyp("access")}
Inside  == [b \in Browsers |-> IF jar[b] = None THEN None ELSE Session(jar[b])]

\* The abstract step may be shown in these words.
LEMMA StoreNext ==
    ASSUME \/ \E s \in Opened' : Store!SignIn(s)
           \/ \E g \in Granted' : Store!Refresh(g)
           \/ \E b \in Browsers : Store!Leave(b) \/ \E s \in Opened : Store!Enter(b, s)
           \/ Store!Tick
    PROVE  Store!Next
  BY DEF Store!Next, Opened, Granted

LEMMA StoreSame ==
    ASSUME now' = now, OfTyp("refresh")' = OfTyp("refresh"),
           OfTyp("access")' = OfTyp("access"), jar' = jar
    PROVE  UNCHANGED Store!vars
  BY DEF Store!vars, Session

LEMMA SignInImplements ==
    ASSUME IInv, Lineage, NEW r \in Requests, IssuePair(r)
    PROVE  Store!Next
<1>1. PICK refresh, access \in Token :
          /\ tokens' = tokens \cup {access, refresh}
          /\ refresh.typ = "refresh" /\ access.typ = "access"
          /\ refresh.role \in Roles /\ refresh.begun <= now
          /\ refresh.ends = now + RefreshTTL
          /\ Session(access) = Session(refresh)
          /\ access.asked = refresh.begun /\ access.exp = now + AccessTTL
  BY PairFacts
<1>2. now' = now /\ jar' = jar
  BY DEF IssuePair
<1>3. PICK s : s = Session(refresh)
  OBVIOUS
<1>4. /\ s \in Store!Session /\ s.begun = refresh.begun /\ s.ends = refresh.ends
  BY <1>1, <1>3 DEF Session, Store!Session, Token
<1>5. Opened' = Opened \cup {s} /\ s \in Opened'
  <2>1. OfTyp("refresh")' = OfTyp("refresh") \cup {refresh}
    BY <1>1 DEF OfTyp
  <2> QED BY <1>3, <2>1 DEF Opened, Session
<1>6. Granted' = Granted \cup {[session |-> s, asked |-> s.begun, exp |-> now + AccessTTL]}
  <2>1. OfTyp("access")' = OfTyp("access") \cup {access}
    BY <1>1 DEF OfTyp
  <2>2. Granted' = Granted \cup {[session |-> Session(access), asked |-> access.asked,
                                  exp |-> access.exp]}
    BY <2>1 DEF Granted, Session
  <2> QED BY <1>1, <1>3, <1>4, <2>2
<1>7. Inside' = Inside
  BY <1>2 DEF Inside, Session
<1>8. Store!SignIn(s)
  BY <1>1, <1>2, <1>4, <1>5, <1>6, <1>7
     DEF Store!SignIn, Store!Grant, Opened, Granted, Inside
<1> QED BY <1>5, <1>8, StoreNext

LEMMA RefreshImplements ==
    ASSUME IInv, Lineage, NEW r \in Requests, MintAccess(r)
    PROVE  Store!Next
<1>1. PICK access \in Token :
          /\ tokens' = tokens \cup {access}
          /\ access.typ = "access" /\ Session(access) \in Opened
          /\ access.begun <= access.asked /\ access.asked <= now
          /\ access.asked < access.ends /\ access.exp = now + AccessTTL
  BY MintFacts
<1>2. now' = now /\ jar' = jar /\ now \in Nat
  BY NowFacts DEF IInv, MintAccess
<1>3. PICK g : g = [session |-> Session(access), asked |-> access.asked, exp |-> access.exp]
  OBVIOUS
<1>4. /\ g.session = Session(access) /\ g.asked = access.asked /\ g.exp = access.exp
      /\ g.session.begun = access.begun /\ g.session.ends = access.ends
  BY <1>3 DEF Session
<1>5. g = [session |-> g.session, asked |-> g.asked, exp |-> now + AccessTTL]
  BY <1>1, <1>3, <1>4
<1>6. g.asked \in g.session.begun .. now /\ g.asked < g.session.ends
  BY <1>1, <1>2, <1>4 DEF Token
<1>7. Opened' = Opened
  <2>1. OfTyp("refresh")' = OfTyp("refresh")
    BY <1>1 DEF OfTyp
  <2> QED BY <2>1 DEF Opened, Session
<1>8. Granted' = Granted \cup {g} /\ g \in Granted'
  <2>1. OfTyp("access")' = OfTyp("access") \cup {access}
    BY <1>1 DEF OfTyp
  <2> QED BY <1>3, <2>1 DEF Granted, Session
<1>9. Inside' = Inside
  BY <1>2 DEF Inside, Session
<1>10. Store!Refresh(g)
  BY <1>1, <1>2, <1>4, <1>5, <1>6, <1>7, <1>8, <1>9
     DEF Store!Refresh, Store!Grant, Opened, Granted, Inside
<1> QED BY <1>8, <1>10, StoreNext

LEMMA DeliverImplements ==
    ASSUME IInv, Lineage, NEW r \in Requests, Deliver(r)
    PROVE  [Store!Next]_(Store!vars)
<1>1. PICK b \in Browsers :
          /\ \A o \in Browsers \ {b} : jar'[o] = jar[o]
          /\ jar'[b] \in {jar[b], None} \cup OfTyp("refresh")
          /\ tokens' = tokens
  BY CookieFacts
<1>2. now' = now /\ Opened' = Opened /\ Granted' = Granted
  BY <1>1 DEF Deliver, Opened, Granted, OfTyp, Session
<1>3. ASSUME NEW s, s = IF jar'[b] = None THEN None ELSE Session(jar'[b])
      PROVE  Inside' = [Inside EXCEPT ![b] = s]
  BY <1>1, <1>3 DEF Inside, Session
<1>4. CASE jar'[b] = None
  <2>1. Store!Leave(b)
    BY <1>2, <1>3, <1>4 DEF Store!Leave, Opened, Granted, Inside
  <2> QED BY <2>1, StoreNext
<1>5. CASE jar'[b] \in OfTyp("refresh")
  <2>1. jar'[b] # None
    BY <1>5, Sentinels DEF OfTyp, IInv, TypeOK
  <2>2. PICK s \in Opened : s = Session(jar'[b])
    BY <1>5 DEF Opened
  <2>3. Inside' = [Inside EXCEPT ![b] = s]
    BY <1>3, <2>1, <2>2
  <2>4. Store!Enter(b, s)
    BY <1>2, <2>3 DEF Store!Enter, Opened, Granted, Inside
  <2>5. Store!Next
    BY <2>2, <2>4, StoreNext
  <2> QED BY <2>5
<1>6. CASE jar'[b] = jar[b]
  <2>1. Inside' = Inside
    BY <1>1, <1>6 DEF Inside, Session
  <2> QED BY <1>2, <2>1 DEF Store!vars, Opened, Granted, Inside
<1> QED BY <1>1, <1>4, <1>5, <1>6

LEMMA StepImplements ==
    ASSUME IInv, Lineage, [Next]_vars
    PROVE  [Store!Next]_(Store!vars)
<1>1. ASSUME NEW r \in Requests, Signing(r) \/ Minting(r) \/ Setting(r)
      PROVE  [Store!Next]_(Store!vars)
  BY <1>1, SignInImplements, RefreshImplements, DeliverImplements DEF Signing, Minting, Setting
<1>2. ASSUME NEW r \in Requests, Reading(r)
      PROVE  UNCHANGED Store!vars
  <2>1. now' = now /\ tokens' = tokens /\ jar' = jar
    BY <1>2, ReadingQuiet
  <2> QED BY <2>1, StoreSame DEF OfTyp
<1>3. ASSUME NEW u \in Users, SendVerificationEmail(u) \/ ChangeRole(u)
      PROVE  UNCHANGED Store!vars
  <2>1. CASE SendVerificationEmail(u)
    <3>1. PICK t : t.typ = "email_verify" /\ tokens' = tokens \cup {t}
      BY <2>1 DEF SendVerificationEmail, Mint, generateEmailVerifyToken
    <3> QED BY <2>1, <3>1, StoreSame DEF OfTyp, SendVerificationEmail
  <2>2. CASE ChangeRole(u)
    BY <2>2, StoreSame DEF OfTyp, ChangeRole
  <2> QED BY <1>3, <2>1, <2>2
<1>4. CASE Tick
  <2>1. Opened' = Opened /\ Granted' = Granted /\ Inside' = Inside /\ now' = now + 1
    BY <1>4 DEF Tick, Opened, Granted, Inside, OfTyp, Session
  <2>2. Store!Tick
    BY <2>1 DEF Store!Tick, Opened, Granted, Inside
  <2> QED BY <2>2, StoreNext
<1>5. CASE Crash \/ (\E env \in Environments : Start(env)) \/ UNCHANGED vars
  BY <1>5, StoreSame DEF Crash, Start, vars, OfTyp
<1> QED BY <1>1, <1>2, <1>3, <1>4, <1>5 DEF Next, Signing, Minting, Setting, Reading

\* The server, which keeps nothing and may die between any two statements,
\* implements a table of sessions that is never lost: every grant belongs to a
\* session signed in to, no later than its end, and no restart opens, ends or
\* prolongs one (GenerateTokenPair, RefreshToken, setRefreshCookie).
THEOREM Refinement == Spec => ImplementsStore
<1>1. Init => Store!Init
  BY DEF Init, Store!Init, OfTyp
<1>2. Init => Lineage
  BY InitLineage
<1>3. IInv /\ IInv' /\ Lineage /\ [Next]_vars => Lineage' /\ [Store!Next]_(Store!vars)
  BY NextLineage, StepImplements
<1> QED BY <1>1, <1>2, <1>3, Inductive, PTL DEF Spec, ImplementsStore, Store!Spec
=============================================================================
