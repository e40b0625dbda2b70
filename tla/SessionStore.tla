---------------------------- MODULE SessionStore ----------------------------
(***************************************************************************)
(* What the tokens promise: the same as a server that keeps a table of     *)
(* sessions and never loses it.  A sign-in opens a session with a fixed    *)
(* end; every grant of access belongs to a session of the table, to its    *)
(* account and its role, and was asked for while the session lasted; a     *)
(* browser is in a session or in none.  Nothing here says restart: that    *)
(* Sessions, whose server may die at any moment and keeps no table,        *)
(* implements this says that no restart ends a session, nor prolongs one.  *)
(***************************************************************************)
EXTENDS Integers

CONSTANTS Users, Roles, Browsers, AccessTTL, RefreshTTL, None

VARIABLES now,
          sessions,   \* every session ever opened
          grants,     \* every access ever granted
          jar         \* the session each browser is in

vars == <<now, sessions, grants, jar>>

Init == /\ now = 0
        /\ sessions = {} /\ grants = {}
        /\ jar = [b \in Browsers |-> None]

Session == [sub : Users, role : Roles, begun : Nat, ends : Nat]

Grant(s, asked) == [session |-> s, asked |-> asked, exp |-> now + AccessTTL]

\* Login or SignInWithGoogle, called at s.begun: a session and its first grant.
SignIn(s) ==
    /\ s.ends = now + RefreshTTL /\ s.begun <= now /\ s \in Session
    /\ sessions' = sessions \cup {s}
    /\ grants' = grants \cup {Grant(s, s.begun)}
    /\ UNCHANGED <<now, jar>>

\* RefreshToken, called while the session of the grant lasted.
Refresh(g) ==
    /\ g = Grant(g.session, g.asked)
    /\ g.session \in sessions
    /\ g.asked \in g.session.begun .. now /\ g.asked < g.session.ends
    /\ grants' = grants \cup {g}
    /\ UNCHANGED <<now, sessions, jar>>

\* A browser learns that it has signed in, or has logged out.
Enter(b, s) == jar' = [jar EXCEPT ![b] = s] /\ UNCHANGED <<now, sessions, grants>>

Leave(b) == jar' = [jar EXCEPT ![b] = None] /\ UNCHANGED <<now, sessions, grants>>

Tick == now' = now + 1 /\ UNCHANGED <<sessions, grants, jar>>

Next ==
    \/ Tick
    \/ \E b \in Browsers : Leave(b) \/ \E s \in sessions : Enter(b, s)
    \/ \E s \in sessions' : SignIn(s)
    \/ \E g \in grants' : Refresh(g)

Spec == Init /\ [][Next]_vars
=============================================================================
