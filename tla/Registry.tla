------------------------------ MODULE Registry ------------------------------
(***************************************************************************)
(* What the account operations promise: a person appears with a single     *)
(* account per email, in one instant and with a way to sign in; an email   *)
(* that was proved stays proved; and an account is verified, or entered    *)
(* with a password, only on such proof.  There are no requests, open       *)
(* transactions, mails or restarts here; Accounts, which has them,         *)
(* implements LateSpec, in which a late save may take a verification back, *)
(* and Spec while no two requests are about to write one account.          *)
(***************************************************************************)
CONSTANTS Accounts, Emails, None

VARIABLES users,      \* the users table
          linked,     \* accounts with a row in user_auth_providers
          sessions,   \* accounts whose owner holds tokens, and how they got them
          proven      \* emails that a link or Google has proved to be someone's

vars == <<users, linked, sessions, proven>>

Init == /\ users = [a \in Accounts |-> None]
        /\ linked = {} /\ sessions = {} /\ proven = {}

Member(a) == users[a] # None
Free(e)   == \A a \in Accounts : Member(a) => users[a].email # e

\* Tokens are signed once the account is stored; that may fail.
MaybeSignedIn(a, by) == sessions' \in {sessions, sessions \cup {[account |-> a, by |-> by]}}

\* Someone follows a mailed link, or Google vouches for the address.
Prove(e) == proven' = proven \cup {e} /\ UNCHANGED <<users, linked, sessions>>

Register(a, e) ==
    /\ ~Member(a) /\ Free(e)
    /\ users' = [users EXCEPT ![a] = [verified |-> FALSE, email |-> e, password |-> TRUE,
                                      contact |-> TRUE]]
    /\ UNCHANGED <<linked, sessions, proven>>

\* A first Google sign-in: the account and its link appear together.
SignUpWithGoogle(a, e, verified) ==
    /\ ~Member(a) /\ Free(e)
    /\ verified => e \in proven
    /\ users' = [users EXCEPT ![a] = [verified |-> verified, email |-> e,
                                      password |-> FALSE, contact |-> FALSE]]
    /\ linked' = linked \cup {a}
    /\ MaybeSignedIn(a, "google")
    /\ UNCHANGED proven

SignInWithGoogle(a) ==
    /\ Member(a)
    /\ linked' = linked \cup {a}
    /\ MaybeSignedIn(a, "google")
    /\ UNCHANGED <<users, proven>>

Login(a) ==
    /\ Member(a) /\ users[a].password /\ users[a].verified
    /\ sessions' = sessions \cup {[account |-> a, by |-> "password"]}
    /\ UNCHANGED <<users, linked, proven>>

VerifyEmail(a) ==
    /\ Member(a) /\ users[a].email \in proven
    /\ users' = [users EXCEPT ![a].verified = TRUE]
    /\ UNCHANGED <<linked, sessions, proven>>

UpdateContact(a, filled) ==
    /\ Member(a)
    /\ users' = [users EXCEPT ![a].contact = filled]
    /\ UNCHANGED <<linked, sessions, proven>>

Next ==
    \/ \E e \in Emails : Prove(e)
    \/ \E a \in Accounts :
           \/ \E e \in Emails : Register(a, e)
           \/ \E e \in Emails, verified \in BOOLEAN : SignUpWithGoogle(a, e, verified)
           \/ SignInWithGoogle(a)
           \/ Login(a)
           \/ VerifyEmail(a)
           \/ \E filled \in BOOLEAN : UpdateContact(a, filled)

Spec == Init /\ [][Next]_vars

-----------------------------------------------------------------------------
\* The copy that is saved may be older than a verification, or older than the
\* save that took one back; it never claims one that was not proved.
UpdateContactLate(a, filled, verified) ==
    /\ Member(a) /\ (verified => users[a].email \in proven)
    /\ users' = [users EXCEPT ![a].contact = filled, ![a].verified = verified]
    /\ UNCHANGED <<linked, sessions, proven>>

LateNext ==
    \/ Next
    \/ \E a \in Accounts, filled, verified \in BOOLEAN : UpdateContactLate(a, filled, verified)

LateSpec == Init /\ [][LateNext]_vars
=============================================================================
