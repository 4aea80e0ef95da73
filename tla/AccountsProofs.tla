---------------------------- MODULE AccountsProofs ----------------------------
(***************************************************************************)
(* Any number of requests, e-mails, names and passwords: who gets a token, *)
(* and for which account.  An account is fixed by the request that made    *)
(* it, so the invariant is about one request at a time: what it carries at *)
(* each await still agrees with the account it is about.                   *)
(***************************************************************************)
EXTENDS Accounts, TLAPS

\* The unique index on email.
EmailsUnique == \A q, p \in accounts : auth[q].email = auth[p].email => q = p

RequestInv(r) ==
    /\ auth[r].pc = "new" => auth[r] = NoAuth
    /\ auth[r].pc = "find" => auth[r].kind \in {"login", "google"}
    /\ auth[r].pc = "create" => auth[r].kind \in {"register", "google"}
    /\ auth[r].pc = "verify" => auth[r].kind = "login"
    /\ auth[r].pc \in {"find", "create"} => auth[r].user = Null
    /\ auth[r].pc # "done" => auth[r].verdict = "none"
    /\ auth[r].pc \in {"verify", "sign"} \/ HasToken(r) => auth[r].user # Null
    /\ auth[r].kind = "google" => auth[r].password = Null
    /\ auth[r].kind = "login" => auth[r].password # Null
    /\ r \in accounts => /\ auth[r].pc \in {"sign", "done"}
                         /\ auth[r].kind \in {"register", "google"}

\* What a request knows of its account.
UserInv(r) ==
    auth[r].user # Null =>
        /\ auth[r].user \in accounts
        /\ auth[r].kind # "refresh" => auth[auth[r].user].email = auth[r].email
        /\ auth[r].kind = "login" /\ auth[r].pc # "verify" =>
               auth[auth[r].user].password = auth[r].password

AuthInv ==
    /\ AuthTypeOK
    /\ EmailsUnique
    /\ \A r \in AuthRequests : RequestInv(r) /\ UserInv(r)

LEMMA NoAuthType == NoAuth \in AuthStates
  BY DEF NoAuth, AuthStates, AuthLabels, AuthKinds, Verdicts

LEMMA InitInv == AuthInit => AuthInv
  BY NoAuthType, AccountsAssumption
     DEF AuthInit, AuthInv, AuthTypeOK, EmailsUnique, RequestInv, UserInv, NoAuth, HasToken

-----------------------------------------------------------------------------
(* One request *)

\* A step of one request keeps the rest of the invariant when it keeps the account
\* that the request may be.
LEMMA OneRequest ==
  ASSUME AuthInv, NEW r \in AuthRequests, NEW a \in AuthStates, Proceed(r, a),
         a.pc \in {"verify", "sign"} => a.user # Null,
         authFaults' \in Nat,
         \/ UNCHANGED accounts
         \/ accounts' = accounts \cup {r} /\ ByEmail(r) = {} /\ a.email = auth[r].email,
         r \in accounts => /\ a.email = auth[r].email /\ a.kind = auth[r].kind
                           /\ a.password = auth[r].password,
         RequestInv(r)', UserInv(r)'
  PROVE  AuthInv'
  <1>1. /\ auth' \in [AuthRequests -> AuthStates]
        /\ auth'[r] = a
        /\ \A b \in AuthRequests \ {r} : auth'[b] = auth[b]
    BY DEF AuthInv, AuthTypeOK, Proceed
  <1>2. AuthTypeOK'
    BY <1>1 DEF AuthInv, AuthTypeOK
  <1>3. accounts \subseteq AuthRequests /\ accounts \subseteq accounts' /\ accounts' \subseteq accounts \cup {r}
    BY DEF AuthInv, AuthTypeOK
  <1>4. \A q \in accounts : /\ auth'[q].email = auth[q].email
                            /\ auth'[q].password = auth[q].password
    BY <1>1, <1>3
  <1>5. EmailsUnique'
    <2>1. CASE UNCHANGED accounts
      BY <2>1, <1>4 DEF AuthInv, EmailsUnique
    <2>2. CASE accounts' = accounts \cup {r} /\ ByEmail(r) = {} /\ a.email = auth[r].email
      BY <2>2, <1>1, <1>4 DEF AuthInv, EmailsUnique, ByEmail
    <2> QED
      BY <2>1, <2>2
  <1>6. ASSUME NEW b \in AuthRequests \ {r} PROVE RequestInv(b)' /\ UserInv(b)'
    <2>1. RequestInv(b) /\ UserInv(b) /\ auth'[b] = auth[b] /\ (b \in accounts' <=> b \in accounts)
      BY <1>1, <1>3 DEF AuthInv
    <2>2. RequestInv(b)'
      BY <2>1 DEF RequestInv, HasToken
    <2>3. UserInv(b)'
      BY <2>1, <1>3, <1>4 DEF UserInv
    <2> QED
      BY <2>2, <2>3
  <1> QED
    BY <1>2, <1>5, <1>6 DEF AuthInv

\* A request that is refused is forgotten.
LEMMA RefuseInv ==
  ASSUME AuthInv, NEW r \in AuthRequests \ accounts, NEW verdict \in Verdicts \ {"token"},
         Refuse(r, verdict), authFaults' \in Nat, UNCHANGED accounts
  PROVE  AuthInv'
  <1> DEFINE a == Verdict(NoAuth, verdict)
  <1>1. /\ a \in AuthStates /\ a.pc = "done" /\ a.user = Null /\ a.verdict = verdict
        /\ a.kind = "none"
    BY NoAuthType DEF Verdict, NoAuth, AuthStates, AuthLabels
  <1>2. auth'[r] = a /\ Proceed(r, a)
    BY DEF AuthInv, AuthTypeOK, Refuse, Proceed
  <1>3. RequestInv(r)' /\ UserInv(r)'
    BY <1>1, <1>2 DEF RequestInv, UserInv, HasToken
  <1> HIDE DEF a
  <1> QED
    BY <1>1, <1>2, <1>3, OneRequest

-----------------------------------------------------------------------------
(* Each action *)

LEMMA RegisterInv ==
  ASSUME AuthInv, NEW r \in AuthRequests, register(r)
  PROVE  AuthInv'
  <1>0. auth[r] = NoAuth /\ auth[r] \in AuthStates
    BY NoAuthType DEF AuthInv, RequestInv, register, AuthAt
  <1>1. r \notin accounts /\ authFaults' \in Nat /\ UNCHANGED accounts
    BY DEF AuthInv, AuthTypeOK, RequestInv, register, AuthAt
  <1>1a. /\ auth[r] \in AuthStates /\ auth[r].user = Null /\ auth[r].password = Null
        /\ auth[r].verdict = "none"
    BY <1>0 DEF NoAuth
  <1>2. CASE Refuse(r, "rejected")
    BY <1>1, <1>2, RefuseInv DEF Verdicts
  <1>3. ASSUME NEW e \in Emails, NEW n \in Usernames, NEW p \in Passwords,
               Proceed(r, [auth[r] EXCEPT !.kind = "register", !.pc = "create",
                             !.email = e, !.username = n, !.password = p])
        PROVE  AuthInv'
    <2> DEFINE a == [auth[r] EXCEPT !.kind = "register", !.pc = "create",
                       !.email = e, !.username = n, !.password = p]
    <2>1. /\ a \in AuthStates /\ a.pc = "create" /\ a.kind = "register"
          /\ a.user = Null /\ a.verdict = "none"
      BY <1>1a DEF AuthStates, AuthLabels, AuthKinds
    <2>2. auth'[r] = a /\ Proceed(r, a)
      BY <1>3 DEF AuthInv, AuthTypeOK, Proceed
    <2>3. RequestInv(r)' /\ UserInv(r)'
      BY <1>1, <2>1, <2>2 DEF RequestInv, UserInv, HasToken
    <2> HIDE DEF a
    <2> QED
      BY <1>1, <2>1, <2>2, <2>3, OneRequest
  <1> QED
    BY <1>2, <1>3 DEF register

LEMMA LoginInv ==
  ASSUME AuthInv, NEW r \in AuthRequests, login(r)
  PROVE  AuthInv'
  <1>0. auth[r] = NoAuth /\ auth[r] \in AuthStates
    BY NoAuthType DEF AuthInv, RequestInv, login, AuthAt
  <1>1. r \notin accounts /\ authFaults' \in Nat /\ UNCHANGED accounts
    BY DEF AuthInv, AuthTypeOK, RequestInv, login, AuthAt
  <1>1a. /\ auth[r] \in AuthStates /\ auth[r].user = Null /\ auth[r].password = Null
        /\ auth[r].verdict = "none"
    BY <1>0 DEF NoAuth
  <1>2. PICK e \in Emails, p \in Passwords :
          Proceed(r, [auth[r] EXCEPT !.kind = "login", !.pc = "find",
                        !.email = e, !.password = p])
    BY DEF login
  <1> DEFINE a == [auth[r] EXCEPT !.kind = "login", !.pc = "find",
                     !.email = e, !.password = p]
  <1>3. /\ a \in AuthStates /\ a.pc = "find" /\ a.kind = "login" /\ a.password # Null
        /\ a.user = Null /\ a.verdict = "none"
    BY <1>1a, AccountsAssumption DEF AuthStates, AuthLabels, AuthKinds
  <1>4. auth'[r] = a /\ Proceed(r, a)
    BY <1>2 DEF AuthInv, AuthTypeOK, Proceed
  <1>5. RequestInv(r)' /\ UserInv(r)'
    BY <1>1, <1>3, <1>4 DEF RequestInv, UserInv, HasToken
  <1> HIDE DEF a
  <1> QED
    BY <1>1, <1>3, <1>4, <1>5, OneRequest

LEMMA GoogleInv ==
  ASSUME AuthInv, NEW r \in AuthRequests, loginWithGoogle(r)
  PROVE  AuthInv'
  <1>0. auth[r] = NoAuth /\ auth[r] \in AuthStates
    BY NoAuthType DEF AuthInv, RequestInv, loginWithGoogle, AuthAt
  <1>1. r \notin accounts /\ authFaults' \in Nat /\ UNCHANGED accounts
    BY DEF AuthInv, AuthTypeOK, RequestInv, loginWithGoogle, AuthAt
  <1>1a. /\ auth[r] \in AuthStates /\ auth[r].user = Null /\ auth[r].password = Null
        /\ auth[r].verdict = "none"
    BY <1>0 DEF NoAuth
  <1>2. PICK e \in Emails, n \in Usernames :
          Proceed(r, [auth[r] EXCEPT !.kind = "google", !.pc = "find",
                        !.email = e, !.username = n])
    BY DEF loginWithGoogle
  <1> DEFINE a == [auth[r] EXCEPT !.kind = "google", !.pc = "find",
                     !.email = e, !.username = n]
  <1>3. /\ a \in AuthStates /\ a.pc = "find" /\ a.kind = "google" /\ a.password = Null
        /\ a.user = Null /\ a.verdict = "none"
    BY <1>1a DEF AuthStates, AuthLabels, AuthKinds
  <1>4. auth'[r] = a /\ Proceed(r, a)
    BY <1>2 DEF AuthInv, AuthTypeOK, Proceed
  <1>5. RequestInv(r)' /\ UserInv(r)'
    BY <1>1, <1>3, <1>4 DEF RequestInv, UserInv, HasToken
  <1> HIDE DEF a
  <1> QED
    BY <1>1, <1>3, <1>4, <1>5, OneRequest

LEMMA RefreshInv ==
  ASSUME AuthInv, NEW r \in AuthRequests, refresh(r)
  PROVE  AuthInv'
  <1>0. auth[r] = NoAuth /\ auth[r] \in AuthStates
    BY NoAuthType DEF AuthInv, RequestInv, refresh, AuthAt
  <1>1. r \notin accounts /\ authFaults' \in Nat /\ UNCHANGED accounts
    BY DEF AuthInv, AuthTypeOK, RequestInv, refresh, AuthAt
  <1>1a. /\ auth[r] \in AuthStates /\ auth[r].user = Null /\ auth[r].password = Null
        /\ auth[r].verdict = "none"
    BY <1>0 DEF NoAuth
  <1>2. CASE Refuse(r, "unauthorized")
    BY <1>1, <1>2, RefuseInv DEF Verdicts
  <1>3. ASSUME NEW q \in accounts,
               Proceed(r, WithUser([auth[r] EXCEPT !.kind = "refresh"], q, "sign"))
        PROVE  AuthInv'
    <2> DEFINE a == WithUser([auth[r] EXCEPT !.kind = "refresh"], q, "sign")
    <2>1. q \in AuthRequests /\ q # Null
      BY AccountsAssumption DEF AuthInv, AuthTypeOK
    <2>2. /\ a \in AuthStates /\ a.pc = "sign" /\ a.kind = "refresh"
          /\ a.user = q /\ a.verdict = "none"
      BY <1>1a, <2>1 DEF WithUser, AuthStates, AuthLabels, AuthKinds
    <2>3. auth'[r] = a /\ Proceed(r, a)
      BY <1>3 DEF AuthInv, AuthTypeOK, Proceed
    <2>4. RequestInv(r)' /\ UserInv(r)'
      BY <1>1, <2>1, <2>2, <2>3 DEF RequestInv, UserInv, HasToken
    <2> HIDE DEF a
    <2> QED
      BY <1>1, <2>1, <2>2, <2>3, <2>4, OneRequest
  <1> QED
    BY <1>2, <1>3 DEF refresh

\* The account found is the one with the request's e-mail.
LEMMA FindInv ==
  ASSUME AuthInv, NEW r \in AuthRequests, findByEmail(r)
  PROVE  AuthInv'
  <1>1. /\ r \notin accounts /\ auth[r] \in AuthStates /\ auth[r].pc = "find"
        /\ authFaults' \in Nat /\ UNCHANGED accounts /\ RequestInv(r) /\ auth[r].user = Null
        /\ auth[r].verdict = "none" /\ auth[r].kind \in {"login", "google"}
    BY DEF AuthInv, AuthTypeOK, RequestInv, findByEmail, AuthAt
  <1>2. CASE Refuse(r, "unauthorized")
    BY <1>1, <1>2, RefuseInv DEF Verdicts
  <1>3. ASSUME NEW q \in ByEmail(r), NEW label \in {"verify", "sign"},
               label = "verify" <=> auth[r].kind = "login",
               Proceed(r, WithUser(auth[r], q, label))
        PROVE  AuthInv'
    <2> DEFINE a == WithUser(auth[r], q, label)
    <2>1. q \in accounts /\ q \in AuthRequests /\ q # Null /\ q # r /\ auth[q].email = auth[r].email
      BY <1>1, AccountsAssumption DEF AuthInv, AuthTypeOK, ByEmail
    <2>2. /\ a \in AuthStates /\ a.pc = label /\ a.kind = auth[r].kind
          /\ a.user = q /\ a.verdict = "none" /\ a.email = auth[r].email
          /\ a.password = auth[r].password
      BY <1>1, <2>1 DEF WithUser, AuthStates, AuthLabels
    <2>3. auth'[r] = a /\ Proceed(r, a) /\ auth'[q] = auth[q]
      BY <1>3, <2>1 DEF AuthInv, AuthTypeOK, Proceed
    <2>4. RequestInv(r)' /\ UserInv(r)'
      BY <1>1, <1>3, <2>1, <2>2, <2>3 DEF RequestInv, UserInv, HasToken
    <2> HIDE DEF a
    <2> QED
      BY <1>1, <2>1, <2>2, <2>3, <2>4, OneRequest
  <1>4. CASE auth[r].kind = "google" /\ Proceed(r, [auth[r] EXCEPT !.pc = "create"])
    <2> DEFINE a == [auth[r] EXCEPT !.pc = "create"]
    <2>1. /\ a \in AuthStates /\ a.pc = "create" /\ a.kind = auth[r].kind
          /\ a.user = Null /\ a.verdict = "none" /\ a.password = auth[r].password
      BY <1>1 DEF AuthStates, AuthLabels
    <2>2. auth'[r] = a /\ Proceed(r, a)
      BY <1>4 DEF AuthInv, AuthTypeOK, Proceed
    <2>3. RequestInv(r)' /\ UserInv(r)'
      BY <1>1, <1>4, <2>1, <2>2 DEF RequestInv, UserInv, HasToken
    <2> HIDE DEF a
    <2> QED
      BY <1>1, <2>1, <2>2, <2>3, OneRequest
  <1> QED
    BY <1>1, <1>2, <1>3, <1>4 DEF findByEmail

LEMMA VerifyInv ==
  ASSUME AuthInv, NEW r \in AuthRequests, verifyPassword(r)
  PROVE  AuthInv'
  <1>1. /\ r \notin accounts /\ auth[r] \in AuthStates /\ auth[r].pc = "verify"
        /\ authFaults' \in Nat /\ UNCHANGED accounts /\ RequestInv(r) /\ UserInv(r)
        /\ auth[r].verdict = "none" /\ auth[r].kind = "login" /\ auth[r].user # Null
    BY DEF AuthInv, AuthTypeOK, RequestInv, verifyPassword, AuthAt
  <1>2. CASE Refuse(r, "unauthorized")
    BY <1>1, <1>2, RefuseInv DEF Verdicts
  <1>3. CASE /\ auth[auth[r].user].password = auth[r].password
             /\ Proceed(r, [auth[r] EXCEPT !.pc = "sign"])
    <2> DEFINE a == [auth[r] EXCEPT !.pc = "sign"]
    <2>1. /\ a \in AuthStates /\ a.pc = "sign" /\ a.kind = "login"
          /\ a.user = auth[r].user /\ a.verdict = "none"
          /\ a.password = auth[r].password /\ a.email = auth[r].email
      BY <1>1 DEF AuthStates, AuthLabels
    <2>2. auth[r].user \in accounts /\ auth[r].user # r /\ auth[r].user \in AuthRequests
      BY <1>1 DEF AuthInv, AuthTypeOK, UserInv
    <2>3. auth'[r] = a /\ Proceed(r, a) /\ auth'[auth[r].user] = auth[auth[r].user]
      BY <1>3, <2>2 DEF AuthInv, AuthTypeOK, Proceed
    <2>4. RequestInv(r)' /\ UserInv(r)'
      BY <1>1, <1>3, <2>1, <2>2, <2>3 DEF RequestInv, UserInv, HasToken
    <2> HIDE DEF a
    <2> QED
      BY <1>1, <2>1, <2>3, <2>4, OneRequest
  <1> QED
    BY <1>2, <1>3 DEF verifyPassword

\* The index lets the account in only when nobody has its e-mail.
LEMMA CreateInv ==
  ASSUME AuthInv, NEW r \in AuthRequests, usersCreate(r)
  PROVE  AuthInv'
  <1>1. /\ r \notin accounts /\ auth[r] \in AuthStates /\ auth[r].pc = "create"
        /\ authFaults' \in Nat /\ RequestInv(r)
        /\ auth[r].verdict = "none" /\ auth[r].kind \in {"register", "google"}
    BY DEF AuthInv, AuthTypeOK, RequestInv, usersCreate, AuthAt
  <1>2. CASE Refuse(r, "conflict") /\ UNCHANGED accounts
    BY <1>1, <1>2, RefuseInv DEF Verdicts
  <1>3. CASE /\ Taken(r) = {} /\ accounts' = accounts \cup {r}
             /\ Proceed(r, WithUser(auth[r], r, "sign"))
    <2> DEFINE a == WithUser(auth[r], r, "sign")
    <2>1. /\ a \in AuthStates /\ a.pc = "sign" /\ a.kind = auth[r].kind
          /\ a.user = r /\ r # Null /\ a.verdict = "none" /\ a.email = auth[r].email
          /\ a.password = auth[r].password
      BY <1>1, AccountsAssumption DEF WithUser, AuthStates, AuthLabels
    <2>2. auth'[r] = a /\ Proceed(r, a) /\ ByEmail(r) = {}
      BY <1>3 DEF AuthInv, AuthTypeOK, Proceed, Taken, ByEmail
    <2>3. RequestInv(r)' /\ UserInv(r)'
      BY <1>1, <1>3, <2>1, <2>2 DEF RequestInv, UserInv, HasToken
    <2> HIDE DEF a
    <2> QED
      BY <1>1, <1>3, <2>1, <2>2, <2>3, OneRequest
  <1> QED
    BY <1>2, <1>3 DEF usersCreate

LEMMA TokenInv ==
  ASSUME AuthInv, NEW r \in AuthRequests, issueToken(r)
  PROVE  AuthInv'
  <1>1. /\ auth[r] \in AuthStates /\ auth[r].pc = "sign" /\ UNCHANGED accounts
        /\ authFaults' \in Nat /\ RequestInv(r) /\ UserInv(r)
        /\ auth[r].user # Null /\ auth[r].user \in accounts /\ auth[r].user \in AuthRequests
    BY DEF AuthInv, AuthTypeOK, RequestInv, UserInv, issueToken, AuthAt
  <1> DEFINE a == Verdict(auth[r], "token")
  <1>2. /\ a \in AuthStates /\ a.pc = "done" /\ a.kind = auth[r].kind
        /\ a.user = auth[r].user /\ a.email = auth[r].email
        /\ a.password = auth[r].password
    BY <1>1 DEF Verdict, AuthStates, AuthLabels, Verdicts
  <1>3. /\ auth'[r] = a /\ Proceed(r, a)
        /\ auth'[auth[r].user].email = auth[auth[r].user].email
        /\ auth'[auth[r].user].password = auth[auth[r].user].password
    BY <1>1, <1>2 DEF AuthInv, AuthTypeOK, Proceed, issueToken
  <1>4. RequestInv(r)' /\ UserInv(r)'
    BY <1>1, <1>2, <1>3 DEF RequestInv, UserInv, HasToken
  <1> HIDE DEF a
  <1> QED
    BY <1>1, <1>2, <1>3, <1>4, OneRequest

\* Whatever fails, an account that is committed keeps what it was made of.
LEMMA FailInv ==
  ASSUME AuthInv, NEW r \in AuthRequests, authFails(r)
  PROVE  AuthInv'
  <1>1. /\ auth[r] \in AuthStates /\ auth[r].pc \notin {"new", "done"}
        /\ authFaults' \in Nat /\ RequestInv(r) /\ UserInv(r)
    BY DEF AuthInv, AuthTypeOK, authFails
  <1>2. CASE r \notin accounts'
    <2>1. r \notin accounts /\ UNCHANGED accounts /\ Refuse(r, "error")
      BY <1>2 DEF authFails
    <2> QED
      BY <1>1, <2>1, RefuseInv DEF Verdicts
  <1>3. CASE r \in accounts'
    <2> DEFINE a == Verdict(auth[r], "error")
    <2>1. /\ a \in AuthStates /\ a.pc = "done" /\ a.kind = auth[r].kind
          /\ a.user = auth[r].user /\ a.email = auth[r].email
          /\ a.password = auth[r].password /\ a.verdict = "error"
      BY <1>1 DEF Verdict, AuthStates, AuthLabels, Verdicts
    <2>2. auth'[r] = a /\ Proceed(r, a)
      BY <1>3 DEF AuthInv, AuthTypeOK, Proceed, authFails
    <2>3. /\ r \notin accounts => auth[r].pc = "create"
          /\ \/ UNCHANGED accounts
             \/ accounts' = accounts \cup {r} /\ ByEmail(r) = {}
      BY <1>3 DEF authFails, AuthAt, Taken, ByEmail
    <2>4. \A q \in accounts : /\ auth'[q].email = auth[q].email
                              /\ auth'[q].password = auth[q].password
      BY <2>1, <2>2 DEF AuthInv, AuthTypeOK, Proceed
    <2>5. RequestInv(r)'
      BY <1>1, <1>3, <2>1, <2>2, <2>3 DEF RequestInv, HasToken
    <2>6. UserInv(r)'
      BY <1>1, <2>1, <2>2, <2>3, <2>4 DEF RequestInv, UserInv
    <2> HIDE DEF a
    <2> QED
      BY <1>1, <2>1, <2>2, <2>3, <2>5, <2>6, OneRequest
  <1> QED
    BY <1>2, <1>3

-----------------------------------------------------------------------------
LEMMA NextInv ==
  ASSUME AuthInv, [AuthNext]_authVars
  PROVE  AuthInv'
  <1>1. CASE AuthNext
    BY <1>1, RegisterInv, LoginInv, GoogleInv, RefreshInv, FindInv, VerifyInv,
       CreateInv, TokenInv, FailInv DEF AuthNext
  <1>2. CASE UNCHANGED authVars
    BY <1>2 DEF authVars, AuthInv, AuthTypeOK, EmailsUnique, RequestInv, UserInv, HasToken
  <1> QED
    BY <1>1, <1>2

LEMMA Invariance == AuthSpec => []AuthInv
  <1> QED
    BY InitInv, NextInv, PTL DEF AuthSpec

\* Every variable of Accounts keeps its type, and a request that compares a password
\* or signs a token has the account it is about.
THEOREM TypeCorrect == AuthSpec => []AuthTypeOK
  <1>1. AuthInv => AuthTypeOK
    BY DEF AuthInv
  <1> QED
    BY <1>1, Invariance, PTL

\* All tokens for one e-mail are for one account, which is committed, however many
\* registrations and logins through Google for it overlap or fail.
THEOREM OneAccountPerEmail == AuthSpec => []SameEmailSameAccount
  <1>1. ASSUME AuthInv PROVE SameEmailSameAccount
    BY <1>1 DEF AuthInv, AuthTypeOK, EmailsUnique, RequestInv, UserInv, HasToken,
                SameEmailSameAccount
  <1> QED
    BY <1>1, Invariance, PTL

\* AuthService.login gives a token only for an account registered with the password
\* that was sent, never for one that Google made.
THEOREM PasswordNeeded == AuthSpec => []LoginNeedsPassword
  <1>1. ASSUME AuthInv, NEW r \in AuthRequests, auth[r].kind = "login", HasToken(r)
        PROVE  /\ auth[auth[r].user].kind = "register"
               /\ auth[auth[r].user].password = auth[r].password
    <2>1. RequestInv(r) /\ UserInv(r) /\ auth[r].pc = "done"
      BY <1>1 DEF AuthInv, AuthTypeOK, RequestInv, HasToken
    <2>2. auth[r].user \in accounts /\ auth[r].password # Null
      BY <1>1, <2>1 DEF RequestInv, UserInv
    <2>3. auth[r].user \in AuthRequests
      BY <1>1, <2>2 DEF AuthInv, AuthTypeOK
    <2>4. RequestInv(auth[r].user)
      BY <1>1, <2>3 DEF AuthInv
    <2> QED
      BY <1>1, <2>1, <2>2, <2>4 DEF RequestInv, UserInv
  <1>2. AuthInv => LoginNeedsPassword
    BY <1>1 DEF LoginNeedsPassword
  <1> QED
    BY <1>2, Invariance, PTL
=============================================================================
