------------------------------- MODULE Accounts -------------------------------
(***************************************************************************)
(* src/modules/auth/auth.service.ts and src/modules/users/users.service.ts *)
(* with the unique indexes on email and username: registration, login by   *)
(* password or through Google, and refresh, each across its awaits.        *)
(*                                                                         *)
(* An account is named by the request that created it (its id is a fresh   *)
(* UUID).  A password stands for its salted hash, a token for the account  *)
(* in its sub claim.                                                       *)
(***************************************************************************)
EXTENDS Naturals

CONSTANTS
    AuthRequests, Emails, Usernames, Passwords,
    Null,               \* no password_hash, no user, a field not sent yet
    MaxAuthFaults

ASSUME AccountsAssumption ==
    /\ Null \notin AuthRequests \cup Emails \cup Usernames \cup Passwords
    /\ MaxAuthFaults \in Nat

VARIABLES
    accounts,       \* the requests whose account is committed
    auth,           \* what each request was sent, and carries across its awaits
    authFaults

authVars == <<accounts, auth, authFaults>>

AuthLabels == {"new", "find", "create", "verify", "sign", "done"}
Verdicts == {"none", "token", "unauthorized", "rejected", "conflict", "error"}
AuthKinds == {"none", "register", "login", "google", "refresh"}

AuthStates == [pc : AuthLabels, kind : AuthKinds, email : Emails \cup {Null},
               username : Usernames \cup {Null}, password : Passwords \cup {Null},
               user : AuthRequests \cup {Null}, verdict : Verdicts]

NoAuth == [pc |-> "new", kind |-> "none", email |-> Null, username |-> Null,
           password |-> Null, user |-> Null, verdict |-> "none"]

AuthInit ==
    /\ accounts = {}
    /\ auth = [r \in AuthRequests |-> NoAuth]
    /\ authFaults = 0

AuthAt(r, label) == auth[r].pc = label
Proceed(r, a) == auth' = [auth EXCEPT ![r] = a]
Verdict(a, verdict) == [a EXCEPT !.pc = "done", !.verdict = verdict]
\* Nothing is left of a request that made no account and got no token.
Refuse(r, verdict) == Proceed(r, Verdict(NoAuth, verdict))
WithUser(a, q, label) == [a EXCEPT !.user = q, !.pc = label]

ByEmail(r) == {q \in accounts : auth[q].email = auth[r].email}
Taken(r) == {q \in accounts : \/ auth[q].email = auth[r].email
                              \/ auth[q].username = auth[r].username}

-----------------------------------------------------------------------------
(* The endpoints *)

\* It does not look first: the indexes decide.
register(r) ==
    /\ AuthAt(r, "new")
    /\ \/ Refuse(r, "rejected")
       \/ \E e \in Emails, n \in Usernames, p \in Passwords :
            Proceed(r, [auth[r] EXCEPT !.kind = "register", !.pc = "create",
                          !.email = e, !.username = n, !.password = p])
    /\ UNCHANGED <<accounts, authFaults>>

login(r) ==
    /\ AuthAt(r, "new")
    /\ \E e \in Emails, p \in Passwords :
         Proceed(r, [auth[r] EXCEPT !.kind = "login", !.pc = "find",
                       !.email = e, !.password = p])
    /\ UNCHANGED <<accounts, authFaults>>

\* GoogleStrategy.validate takes the display name for the username.
loginWithGoogle(r) ==
    /\ AuthAt(r, "new")
    /\ \E e \in Emails, n \in Usernames :
         Proceed(r, [auth[r] EXCEPT !.kind = "google", !.pc = "find",
                       !.email = e, !.username = n])
    /\ UNCHANGED <<accounts, authFaults>>

refresh(r) ==
    /\ AuthAt(r, "new")
    /\ \/ \E q \in accounts :
            Proceed(r, WithUser([auth[r] EXCEPT !.kind = "refresh"], q, "sign"))
       \/ Refuse(r, "unauthorized")
    /\ UNCHANGED <<accounts, authFaults>>

\* Mutant: a login goes on with the user it did not find.
findUnchecked(r) ==
    /\ AuthAt(r, "find")
    /\ LET label == IF auth[r].kind = "login" THEN "verify" ELSE "sign"
       IN  \/ \E q \in ByEmail(r) : Proceed(r, WithUser(auth[r], q, label))
           \/ ByEmail(r) = {} /\ Proceed(r, [auth[r] EXCEPT !.pc = label])
    /\ UNCHANGED <<accounts, authFaults>>

findByEmail(r) ==
    /\ AuthAt(r, "find")
    /\ \/ \E q \in ByEmail(r) :
            Proceed(r, WithUser(auth[r], q,
                         IF auth[r].kind = "login" THEN "verify" ELSE "sign"))
       \/ /\ ByEmail(r) = {}
          /\ IF auth[r].kind = "login" THEN Refuse(r, "unauthorized")
             ELSE Proceed(r, [auth[r] EXCEPT !.pc = "create"])
    /\ UNCHANGED <<accounts, authFaults>>

\* Mutants: an account without a password is taken for one whose password is right;
\* the e-mail is not unique.
verifyAnyOfGoogle(r) ==
    LET hash == auth[auth[r].user].password
    IN  /\ AuthAt(r, "verify")
        /\ IF hash \in {auth[r].password, Null}
           THEN Proceed(r, [auth[r] EXCEPT !.pc = "sign"])
           ELSE Refuse(r, "unauthorized")
        /\ UNCHANGED <<accounts, authFaults>>
createWithoutIndex(r) ==
    /\ AuthAt(r, "create")
    /\ accounts' = accounts \cup {r}
    /\ Proceed(r, WithUser(auth[r], r, "sign"))
    /\ UNCHANGED authFaults

verifyPassword(r) ==
    LET hash == auth[auth[r].user].password
    IN  /\ AuthAt(r, "verify")
        /\ IF hash # Null /\ hash = auth[r].password
           THEN Proceed(r, [auth[r] EXCEPT !.pc = "sign"])
           ELSE Refuse(r, "unauthorized")
        /\ UNCHANGED <<accounts, authFaults>>

\* P2002 is thrown to the client.
usersCreate(r) ==
    /\ AuthAt(r, "create")
    /\ \/ /\ Taken(r) = {}
          /\ accounts' = accounts \cup {r}
          /\ Proceed(r, WithUser(auth[r], r, "sign"))
       \/ /\ Taken(r) # {}
          /\ Refuse(r, "conflict")
          /\ UNCHANGED accounts
    /\ UNCHANGED authFaults

issueToken(r) ==
    /\ AuthAt(r, "sign")
    /\ Proceed(r, Verdict(auth[r], "token"))
    /\ UNCHANGED <<accounts, authFaults>>

\* A query fails, or the process dies; what is committed stays.
authFails(r) ==
    /\ auth[r].pc \notin {"new", "done"}
    /\ authFaults < MaxAuthFaults /\ authFaults' = authFaults + 1
    /\ \/ UNCHANGED accounts
       \/ AuthAt(r, "create") /\ Taken(r) = {} /\ accounts' = accounts \cup {r}
    /\ IF r \in accounts'
       THEN Proceed(r, Verdict(auth[r], "error")) ELSE Refuse(r, "error")

-----------------------------------------------------------------------------
AuthNext ==
    \E r \in AuthRequests :
        \/ register(r) \/ login(r) \/ loginWithGoogle(r) \/ refresh(r)
        \/ findByEmail(r) \/ verifyPassword(r) \/ usersCreate(r) \/ issueToken(r)
        \/ authFails(r)

AuthSpec == AuthInit /\ [][AuthNext]_authVars

-----------------------------------------------------------------------------
AuthTypeOK ==
    /\ accounts \subseteq AuthRequests
    /\ auth \in [AuthRequests -> AuthStates]
    /\ \A r \in AuthRequests : auth[r].pc \in {"verify", "sign"} => auth[r].user # Null
    /\ authFaults \in Nat

HasToken(r) == auth[r].verdict = "token"

\* All who get a token for one e-mail get it for one account, which exists, however
\* registrations and first logins through Google overlap and whichever failed.
SameEmailSameAccount ==
    \A r, q \in AuthRequests :
        /\ HasToken(r) /\ HasToken(q)
        /\ auth[r].kind # "refresh" /\ auth[q].kind # "refresh"
        /\ auth[r].email = auth[q].email
        => auth[r].user = auth[q].user /\ auth[r].user \in accounts

\* A login by password gets the account that was registered with that password.
LoginNeedsPassword ==
    \A r \in AuthRequests :
        auth[r].kind = "login" /\ HasToken(r) =>
            /\ auth[auth[r].user].kind = "register"
            /\ auth[auth[r].user].password = auth[r].password
=============================================================================
