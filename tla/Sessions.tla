------------------------------ MODULE Sessions ------------------------------
(***************************************************************************)
(* Logins, refresh tokens, the lock-out and the administration of users:   *)
(*   auth/auth.service.ts, users/users.service.ts,                         *)
(*   admin/admin.service.ts (assignRoles).                                 *)
(*                                                                         *)
(* No handler here is a transaction: each database statement is a step of  *)
(* its own, other requests run between two of them, and a crash of the     *)
(* server leaves the rest undone.  A request is the record req[r]: the     *)
(* operation, the statement it has come to, and what it read before.       *)
(* A statement that only reads is merged with the next one unless what it  *)
(* read is used after a later statement.                                   *)
(***************************************************************************)
EXTENDS Naturals, FiniteSets, Sequences

CONSTANTS
    None,
    Users, Addresses,   \* e-mail addresses, with or without a user; IP addresses
    Roles,
    Requests,           \* the requests that may be in flight together
    MaxFailed,          \* MAX_FAILED_ATTEMPTS
    MaxTokens,          \* bound: refresh tokens ever issued
    MaxPasswords,       \* bound: passwords a user may have had
    MaxSecrets,         \* bound: secrets a user may have set up
    MaxAttempts,        \* bound: LoginAttempt rows
    MaxCrashes          \* bound: crashes of the server

ASSUME RequestsFinite == IsFiniteSet(Requests) /\ Cardinality(Requests) >= 1
ASSUME MaxFailedPositive == MaxFailed \in Nat \ {0}
ASSUME PasswordsAreNumbered == MaxPasswords \in Nat
ASSUME NobodyIsNoUser == None \notin Users

VARIABLES
    alone,      \* TRUE if there is never more than one request in flight
    users,      \* User rows; the password is its version, the secret too
    tokens,     \* every RefreshToken row there was, and whether it is stored
    attempts,   \* LoginAttempt rows of the last 15 minutes, oldest first
    crashes,
    req,
    granted,    \* ghost: roles last acknowledged to the administrator
    confirmed   \* ghost: whether MFA was last acknowledged as enabled

sessionVars == <<alone, users, tokens, attempts, crashes, req, granted, confirmed>>

Idle == [op |-> "idle"]

NoUser ==
    [ exists |-> FALSE, removed |-> FALSE, password |-> 0, active |-> FALSE, locked |-> FALSE,
      roles |-> {}, mfaEnabled |-> FALSE, mfaSecret |-> 0, secrets |-> 0 ]

NewUser(roles) ==
    [NoUser EXCEPT !.exists = TRUE, !.active = TRUE, !.roles = roles]

-----------------------------------------------------------------------------
(* Requests.                                                               *)

InFlight == { r \in Requests : req[r] # Idle }

MayBegin(r) == req[r] = Idle /\ (alone => InFlight = {})

Begin(r, work) ==
    /\ MayBegin(r)
    /\ req' = [req EXCEPT ![r] = work]

At(r, op, pc) == req[r].op = op /\ req[r].pc = pc

Goto(r, pc) == req' = [req EXCEPT ![r].pc = pc]

Finish(r) == req' = [req EXCEPT ![r] = Idle]

SetUser(u, row) == users' = [users EXCEPT ![u] = row]

-----------------------------------------------------------------------------
(* Tokens and attempts.                                                    *)

StoredOf(u) == { t \in DOMAIN tokens : tokens[t].stored /\ tokens[t].user = u }

Delete(rows) ==
    tokens' = [ t \in DOMAIN tokens |->
                  IF t \in rows THEN [tokens[t] EXCEPT !.stored = FALSE] ELSE tokens[t] ]

(* Bound: a request that may issue a token begins while there is room.     *)
Room ==
    Len(tokens) + Cardinality({ r \in Requests :
                     req[r].op \in {"register", "login", "refresh"} }) < MaxTokens

(* A refresh token is a string: tokens[t].jwt is the one row t is for,     *)
(* named by the first row it had.  It says whose it is and in what second  *)
(* it was signed, and nothing else, so all those of one user and one       *)
(* second are the same.  now marks the rows whose string may be signed     *)
(* again: until a second is over and nobody is between signing and storing.*)
Holding(jwt) == { t \in DOMAIN tokens : tokens[t].stored /\ tokens[t].jwt = jwt }

Strings == { tokens[t].jwt : t \in DOMAIN tokens }

Recent == { <<tokens[t].jwt, tokens[t].user>> :
              t \in { k \in DOMAIN tokens : tokens[k].now } }

SignedNow(u) == { jwt \in Strings : <<jwt, u>> \in Recent }

(* generateRefreshToken.                                                   *)
Signed(u) == {Len(tokens) + 1} \union SignedNow(u)

(* issueAuthTokens: the new row, in the family of the token it replaces,   *)
(* and the expired rows of the user pruned.                                *)
Issued(u, family, password, jwt) ==
    Append([ t \in DOMAIN tokens |->
               IF tokens[t].user = u /\ tokens[t].expired
               THEN [tokens[t] EXCEPT !.stored = FALSE] ELSE tokens[t] ],
           [ user |-> u, family |-> family, password |-> password, jwt |-> jwt,
             stored |-> TRUE, now |-> TRUE, expired |-> FALSE ])

(* No two rows have the same string: the second create fails.              *)
Issue(u, family, password) ==
    \E jwt \in Signed(u) :
        IF Holding(jwt) = {} THEN tokens' = Issued(u, family, password, jwt)
        ELSE UNCHANGED tokens

Created == tokens' # tokens

Attempts(u, ip) ==
    Cardinality({ i \in DOMAIN attempts :
                    (u # None /\ attempts[i].user = u) \/ attempts[i].ip = ip })

ByUser(u) == Cardinality({ i \in DOMAIN attempts : attempts[i].user = u })
ByAddress(ip) == Cardinality({ i \in DOMAIN attempts : attempts[i].ip = ip })

TooManyByUserOnly(u, ip) == ByUser(u) >= MaxFailed

TooMany(u, ip) == Attempts(u, ip) >= MaxFailed

(* The elements of s at some of its places, in their order.                *)
Kept(s, places) ==
    [ k \in 1 .. Cardinality(places) |->
        s[CHOOSE i \in places : Cardinality({ j \in places : j <= i }) = k] ]

(* clearLoginAttempts: those of the user and those of the address go.      *)
AttemptsLeft(u, ip) ==
    Kept(attempts, { i \in DOMAIN attempts : attempts[i].user # u /\ attempts[i].ip # ip })

LockIfUser(u) ==
    IF u # None THEN SetUser(u, [users[u] EXCEPT !.locked = TRUE])
    ELSE UNCHANGED users

-----------------------------------------------------------------------------
(* register: only while there is no user at all.                           *)

Register(r, u, role, ip) ==
    /\ \A v \in Users : users[v] = NoUser
    /\ Room
    /\ Begin(r, [ op |-> "register", pc |-> "create", user |-> u, roles |-> {role},
                  ip |-> ip ])
    /\ UNCHANGED <<alone, users, tokens, attempts, crashes, granted, confirmed>>

RegisterCreate(r) ==
    /\ At(r, "register", "create")
    /\ LET u == req[r].user IN
       IF users[u] # NoUser          \* the e-mail address is unique
       THEN Finish(r) /\ UNCHANGED <<users, granted>>
       ELSE /\ SetUser(u, NewUser(req[r].roles))
            /\ granted' = [granted EXCEPT ![u] = req[r].roles]
            /\ Goto(r, "issue")
    /\ UNCHANGED <<alone, tokens, attempts, crashes, confirmed>>

RegisterIssue(r) ==
    /\ At(r, "register", "issue")
    /\ Issue(req[r].user, Len(tokens) + 1, 0)
    /\ IF Created THEN Goto(r, "clear") ELSE Finish(r)
    /\ UNCHANGED <<alone, users, attempts, crashes, granted, confirmed>>

RegisterClear(r) ==
    /\ At(r, "register", "clear")
    /\ attempts' = AttemptsLeft(req[r].user, req[r].ip)
    /\ Finish(r)
    /\ UNCHANGED <<alone, users, tokens, crashes, granted, confirmed>>

(* users.service create: by an administrator.                              *)
CreateUser(u, role) ==
    /\ alone => InFlight = {}
    /\ users[u] = NoUser
    /\ \E v \in Users : users[v].exists
    /\ SetUser(u, NewUser({role}))
    /\ granted' = [granted EXCEPT ![u] = {role}]
    /\ UNCHANGED <<alone, tokens, attempts, crashes, req, confirmed>>

-----------------------------------------------------------------------------
(* login.                                                                  *)

Login(r, u, ip, password) ==
    /\ password = users[u].password => Room
    /\ Begin(r, [ op |-> "login", pc |-> "count", user |-> u, ip |-> ip,
                  password |-> password,
                  seen |-> users[u] ])
    /\ UNCHANGED <<alone, users, tokens, attempts, crashes, granted, confirmed>>

Known(r) == IF req[r].seen.exists THEN req[r].user ELSE None

(* The slip of recording a failure before looking whether the account is   *)
(* locked.                                                                 *)
LoginCountRecordsFirst(r) ==
    /\ At(r, "login", "count")
    /\ LET seen == req[r].seen IN
       IF TooMany(Known(r), req[r].ip)
       THEN /\ LockIfUser(Known(r)) /\ Finish(r)
            /\ attempts' = IF Len(attempts) < MaxAttempts /\ req[r].password # seen.password
                           THEN Append(attempts, [user |-> Known(r), ip |-> req[r].ip])
                           ELSE attempts
       ELSE /\ UNCHANGED <<users, attempts>>
            /\ \/ /\ ~seen.exists \/ req[r].password # seen.password
                  /\ Goto(r, "record")
               \/ /\ seen.exists /\ req[r].password = seen.password
                  /\ IF seen.active /\ seen.roles # {} THEN Goto(r, "clear") ELSE Finish(r)
    /\ UNCHANGED <<alone, tokens, crashes, granted, confirmed>>

LoginCount(r) ==
    /\ At(r, "login", "count")
    /\ LET seen == req[r].seen IN
       IF TooMany(Known(r), req[r].ip)
       THEN LockIfUser(Known(r)) /\ Finish(r)
       ELSE /\ UNCHANGED users
            /\ \/ /\ ~seen.exists \/ req[r].password # seen.password
                  /\ Goto(r, "record")
               \/ /\ seen.exists /\ req[r].password = seen.password
                  /\ IF seen.active /\ seen.roles # {} THEN Goto(r, "clear") ELSE Finish(r)
    /\ UNCHANGED <<alone, tokens, attempts, crashes, granted, confirmed>>

LoginRecord(r) ==
    /\ At(r, "login", "record")
    /\ Len(attempts) < MaxAttempts
    /\ attempts' = Append(attempts, [user |-> Known(r), ip |-> req[r].ip])
    /\ IF req[r].seen.exists THEN Goto(r, "recount") ELSE Finish(r)
    /\ UNCHANGED <<alone, users, tokens, crashes, granted, confirmed>>

LoginRecount(r) ==
    /\ At(r, "login", "recount")
    /\ IF TooMany(req[r].user, req[r].ip) THEN LockIfUser(req[r].user) ELSE UNCHANGED users
    /\ Finish(r)
    /\ UNCHANGED <<alone, tokens, attempts, crashes, granted, confirmed>>

(* A right password clears the attempts of the user and of the address. A  *)
(* login with MFA enabled stops here: it stores no refresh token.          *)
AfterClear(seen) ==
    IF seen.mfaEnabled /\ seen.mfaSecret # 0 THEN "mfa" ELSE "issue"

LoginClear(r) ==
    /\ At(r, "login", "clear")
    /\ attempts' = AttemptsLeft(req[r].user, req[r].ip)
    /\ LET next == AfterClear(req[r].seen) IN
       IF req[r].seen.locked THEN Goto(r, "unlock")
       ELSE IF next = "mfa" THEN Finish(r) ELSE Goto(r, next)
    /\ UNCHANGED <<alone, users, tokens, crashes, granted, confirmed>>

LoginUnlock(r) ==
    /\ At(r, "login", "unlock")
    /\ SetUser(req[r].user, [users[req[r].user] EXCEPT !.locked = FALSE])
    /\ LET next == AfterClear(req[r].seen) IN
       IF next = "mfa" THEN Finish(r) ELSE Goto(r, next)
    /\ UNCHANGED <<alone, tokens, attempts, crashes, granted, confirmed>>

LoginIssue(r) ==
    /\ At(r, "login", "issue")
    /\ Issue(req[r].user, Len(tokens) + 1, req[r].password)
    /\ Finish(r)
    /\ UNCHANGED <<alone, users, attempts, crashes, granted, confirmed>>

-----------------------------------------------------------------------------
(* refresh: the token presented is rotated.  t is a token some client was  *)
(* given; its signature is checked, and with it its age, before the look-  *)
(* up in the database.                                                     *)

Refresh(r, t) ==
    /\ ~tokens[t].expired
    /\ Room
    /\ Begin(r, [op |-> "refresh", pc |-> "find", token |-> t])
    /\ UNCHANGED <<alone, users, tokens, attempts, crashes, granted, confirmed>>

RefreshFind(r) ==
    /\ At(r, "refresh", "find")
    /\ LET found == Holding(tokens[req[r].token].jwt) IN
       \/ found = {} /\ Goto(r, "missing")
       \/ \E t \in found :
             req' = [req EXCEPT ![r].token = t,
                                ![r].pc = IF tokens[t].expired THEN "expired" ELSE "delete"]
    /\ UNCHANGED <<alone, users, tokens, attempts, crashes, granted, confirmed>>

(* A token without a row was used before: unless the user has no token at  *)
(* all, every token of the user is revoked and the user is locked.         *)
RefreshMissing(r) ==
    /\ At(r, "refresh", "missing")
    /\ IF StoredOf(tokens[req[r].token].user) = {} THEN Finish(r) ELSE Goto(r, "revoke")
    /\ UNCHANGED <<alone, users, tokens, attempts, crashes, granted, confirmed>>

RefreshRevoke(r) ==
    /\ At(r, "refresh", "revoke")
    /\ Delete(StoredOf(tokens[req[r].token].user))
    /\ Goto(r, "lock")
    /\ UNCHANGED <<alone, users, attempts, crashes, granted, confirmed>>

RefreshLock(r) ==
    /\ At(r, "refresh", "lock")
    /\ LockIfUser(tokens[req[r].token].user)
    /\ Finish(r)
    /\ UNCHANGED <<alone, tokens, attempts, crashes, granted, confirmed>>

RefreshExpired(r) ==
    /\ At(r, "refresh", "expired")
    /\ Delete({req[r].token})
    /\ Finish(r)
    /\ UNCHANGED <<alone, users, attempts, crashes, granted, confirmed>>

(* The slip of deleting with deleteMany, which does not mind.              *)
RefreshDeleteAnyway(r) ==
    /\ At(r, "refresh", "delete")
    /\ Delete({req[r].token})
    /\ Goto(r, "issue")
    /\ UNCHANGED <<alone, users, attempts, crashes, granted, confirmed>>

(* delete by id fails if the row is already gone: of two requests that     *)
(* found the same row, one is refused.                                     *)
RefreshDelete(r) ==
    /\ At(r, "refresh", "delete")
    /\ LET t == req[r].token IN
       IF tokens[t].stored THEN Delete({t}) /\ Goto(r, "issue")
       ELSE Finish(r) /\ UNCHANGED tokens
    /\ UNCHANGED <<alone, users, attempts, crashes, granted, confirmed>>

RefreshIssue(r) ==
    /\ At(r, "refresh", "issue")
    /\ LET old == tokens[req[r].token] IN
       Issue(old.user, old.family, old.password)
    /\ Finish(r)
    /\ UNCHANGED <<alone, users, attempts, crashes, granted, confirmed>>

Logout(t) ==
    /\ alone => InFlight = {}
    /\ Delete(Holding(t))
    /\ UNCHANGED <<alone, users, attempts, crashes, req, granted, confirmed>>

-----------------------------------------------------------------------------
(* users.service update, resetPassword and remove.                         *)

SetActive(u, active) ==
    /\ alone => InFlight = {}
    /\ users[u].exists
    /\ SetUser(u, [users[u] EXCEPT !.active = active])
    /\ UNCHANGED <<alone, tokens, attempts, crashes, req, granted, confirmed>>

ResetPassword(r, u) ==
    /\ users[u].exists
    /\ users[u].password + Cardinality({ q \in Requests : req[q].op = "reset" })
         < MaxPasswords - 1
    /\ Begin(r, [op |-> "reset", pc |-> "revoke", user |-> u])
    /\ UNCHANGED <<alone, users, tokens, attempts, crashes, granted, confirmed>>

Remove(r, u) ==
    /\ users[u].exists
    /\ Begin(r, [op |-> "remove", pc |-> "revoke", user |-> u])
    /\ UNCHANGED <<alone, users, tokens, attempts, crashes, granted, confirmed>>

(* The slip of revoking the sessions of a removed user only.               *)
RevokeOnRemoval(r) ==
    /\ At(r, "reset", "revoke") \/ At(r, "remove", "revoke")
    /\ Delete(IF req[r].op = "remove" THEN StoredOf(req[r].user) ELSE {})
    /\ Goto(r, "update")
    /\ UNCHANGED <<alone, users, attempts, crashes, granted, confirmed>>

RevokeAll(r) ==
    /\ At(r, "reset", "revoke") \/ At(r, "remove", "revoke")
    /\ Delete(StoredOf(req[r].user))
    /\ Goto(r, "update")
    /\ UNCHANGED <<alone, users, attempts, crashes, granted, confirmed>>

ResetUpdate(r) ==
    /\ At(r, "reset", "update")
    /\ LET u == req[r].user IN
       SetUser(u, [users[u] EXCEPT !.password = users[u].password + 1])
    /\ Finish(r)
    /\ UNCHANGED <<alone, tokens, attempts, crashes, granted, confirmed>>

(* The row of a removed user stays, under an address nobody can log in     *)
(* with.                                                                   *)
RemoveUpdate(r) ==
    /\ At(r, "remove", "update")
    /\ LET u == req[r].user IN
       SetUser(u, [users[u] EXCEPT !.exists = FALSE, !.removed = TRUE,
                                   !.active = FALSE, !.locked = TRUE])
    /\ Finish(r)
    /\ UNCHANGED <<alone, tokens, attempts, crashes, granted, confirmed>>

-----------------------------------------------------------------------------
(* admin.service assignRoles: the roles are deleted and created in two     *)
(* statements.  Names that are no role are left out; none left is refused. *)

AssignRoles(r, u, names) ==
    /\ users[u].exists
    /\ names \intersect Roles # {}
    /\ Begin(r, [op |-> "assign", pc |-> "delete", user |-> u, roles |-> names \intersect Roles])
    /\ UNCHANGED <<alone, users, tokens, attempts, crashes, granted, confirmed>>

(* The slip of adding the roles to those the user has.                     *)
AssignDeleteNothing(r) ==
    /\ At(r, "assign", "delete")
    /\ Goto(r, "create")
    /\ UNCHANGED <<alone, users, tokens, attempts, crashes, granted, confirmed>>

AssignDelete(r) ==
    /\ At(r, "assign", "delete")
    /\ SetUser(req[r].user, [users[req[r].user] EXCEPT !.roles = {}])
    /\ Goto(r, "create")
    /\ UNCHANGED <<alone, tokens, attempts, crashes, granted, confirmed>>

AssignCreate(r) ==
    /\ At(r, "assign", "create")
    /\ LET u == req[r].user IN
       /\ SetUser(u, [users[u] EXCEPT !.roles = users[u].roles \union req[r].roles])
       /\ granted' = [granted EXCEPT ![u] = req[r].roles]
    /\ Finish(r)
    /\ UNCHANGED <<alone, tokens, attempts, crashes, confirmed>>

-----------------------------------------------------------------------------
(* MFA.  A code is one of the secret it was computed from.                 *)

MfaSetup(r, u) ==
    /\ users[u].exists /\ ~users[u].mfaEnabled
    /\ users[u].secrets + Cardinality({ q \in Requests : req[q].op = "mfaSetup" }) < MaxSecrets
    /\ Begin(r, [op |-> "mfaSetup", pc |-> "store", user |-> u])
    /\ UNCHANGED <<alone, users, tokens, attempts, crashes, granted, confirmed>>

MfaStore(r) ==
    /\ At(r, "mfaSetup", "store")
    /\ LET u == req[r].user IN
       /\ SetUser(u, [users[u] EXCEPT !.secrets = users[u].secrets + 1,
                                      !.mfaSecret = users[u].secrets + 1,
                                      !.mfaEnabled = FALSE])
    /\ Finish(r)
    /\ UNCHANGED <<alone, tokens, attempts, crashes, granted, confirmed>>

MfaActivate(r, u, code) ==
    /\ users[u].exists
    /\ users[u].mfaSecret # 0 /\ code = users[u].mfaSecret
    /\ Begin(r, [op |-> "mfaActivate", pc |-> "enable", user |-> u])
    /\ UNCHANGED <<alone, users, tokens, attempts, crashes, granted, confirmed>>

MfaEnable(r) ==
    /\ At(r, "mfaActivate", "enable")
    /\ SetUser(req[r].user, [users[req[r].user] EXCEPT !.mfaEnabled = TRUE])
    /\ confirmed' = [confirmed EXCEPT ![req[r].user] = TRUE]
    /\ Finish(r)
    /\ UNCHANGED <<alone, tokens, attempts, crashes, granted>>

MfaDisable(r, u, code, password) ==
    /\ users[u].exists /\ users[u].mfaEnabled
    /\ password = users[u].password
    /\ users[u].mfaSecret # 0 /\ code = users[u].mfaSecret
    /\ Begin(r, [op |-> "mfaDisable", pc |-> "clear", user |-> u])
    /\ UNCHANGED <<alone, users, tokens, attempts, crashes, granted, confirmed>>

MfaClear(r) ==
    /\ At(r, "mfaDisable", "clear")
    /\ SetUser(req[r].user, [users[req[r].user] EXCEPT !.mfaEnabled = FALSE, !.mfaSecret = 0])
    /\ confirmed' = [confirmed EXCEPT ![req[r].user] = FALSE]
    /\ Finish(r)
    /\ UNCHANGED <<alone, tokens, attempts, crashes, granted>>

-----------------------------------------------------------------------------
(* Time and crashes.                                                       *)

(* A second is over, while nobody is between signing a token and storing   *)
(* it: what is signed from here on is another string.                      *)
SecondPasses ==
    /\ \E t \in DOMAIN tokens : tokens[t].now
    /\ \A r \in Requests : req[r] # Idle => req[r].pc # "issue"
    /\ tokens' = [ t \in DOMAIN tokens |-> [tokens[t] EXCEPT !.now = FALSE] ]
    /\ UNCHANGED <<alone, users, attempts, crashes, req, granted, confirmed>>

(* The oldest attempt leaves the window of 15 minutes.                     *)
AttemptAges ==
    /\ attempts # <<>>
    /\ attempts' = Tail(attempts)
    /\ UNCHANGED <<alone, users, tokens, crashes, req, granted, confirmed>>

(* A token is 7 days old: the string is, and its rows are.                 *)
TokenExpires(t) ==
    /\ ~tokens[t].expired /\ ~tokens[t].now
    /\ tokens' = [ v \in DOMAIN tokens |->
                     IF tokens[v].jwt = t THEN [tokens[v] EXCEPT !.expired = TRUE]
                     ELSE tokens[v] ]
    /\ UNCHANGED <<alone, users, attempts, crashes, req, granted, confirmed>>

Crash ==
    /\ crashes < MaxCrashes
    /\ InFlight # {}
    /\ crashes' = crashes + 1
    /\ req' = [r \in Requests |-> Idle]
    /\ UNCHANGED <<alone, users, tokens, attempts, granted, confirmed>>

-----------------------------------------------------------------------------
Init ==
    /\ alone \in BOOLEAN
    /\ users = [u \in Users |-> NoUser]
    /\ tokens = <<>>
    /\ attempts = <<>>
    /\ crashes = 0
    /\ req = [r \in Requests |-> Idle]
    /\ granted = [u \in Users |-> {}]
    /\ confirmed = [u \in Users |-> FALSE]

Registration(r) ==
    \/ \E u \in Users, role \in Roles, ip \in Addresses : Register(r, u, role, ip)
    \/ RegisterCreate(r) \/ RegisterIssue(r) \/ RegisterClear(r)

Accounts(r) ==
    \/ \E u \in Users : ResetPassword(r, u) \/ Remove(r, u)
    \/ RevokeAll(r) \/ ResetUpdate(r) \/ RemoveUpdate(r)

RoleRequests(r) ==
    \/ \E u \in Users, names \in SUBSET (Roles \union {None}) : AssignRoles(r, u, names)
    \/ AssignDelete(r) \/ AssignCreate(r)

LoginRequests(r) ==
    \/ \E u \in Users, ip \in Addresses, password \in 0 .. MaxPasswords - 1 :
          Login(r, u, ip, password)
    \/ LoginCount(r) \/ LoginRecord(r) \/ LoginRecount(r)
    \/ LoginClear(r) \/ LoginUnlock(r) \/ LoginIssue(r)

RefreshRequests(r) ==
    \/ \E t \in Strings : Refresh(r, t)
    \/ RefreshFind(r) \/ RefreshMissing(r) \/ RefreshRevoke(r) \/ RefreshLock(r)
    \/ RefreshExpired(r) \/ RefreshDelete(r) \/ RefreshIssue(r)

MfaRequests(r) ==
    \/ \E u \in Users : MfaSetup(r, u)
    \/ \E u \in Users, code \in 1 .. MaxSecrets : MfaActivate(r, u, code)
    \/ \E u \in Users, code \in 1 .. MaxSecrets, password \in 0 .. MaxPasswords - 1 :
          MfaDisable(r, u, code, password)
    \/ MfaStore(r) \/ MfaEnable(r) \/ MfaClear(r)

Handle(r) ==
    \/ Registration(r) \/ Accounts(r) \/ RoleRequests(r)
    \/ LoginRequests(r) \/ RefreshRequests(r) \/ MfaRequests(r)

Next ==
    \/ \E r \in Requests : Handle(r)
    \/ \E u \in Users, role \in Roles : CreateUser(u, role)
    \/ \E u \in Users, active \in BOOLEAN : SetActive(u, active)
    \/ \E t \in Strings : Logout(t) \/ TokenExpires(t)
    \/ SecondPasses \/ AttemptAges
    \/ Crash

(* Time passes: whatever else happens, an attempt gets 15 minutes old.     *)
Spec == Init /\ [][Next]_sessionVars /\ WF_sessionVars(AttemptAges)

-----------------------------------------------------------------------------
(* The logins ever opened, and who holds the right to go on with one: the  *)
(* stored tokens of its family, and the requests between the two           *)
(* statements of a rotation.                                               *)
Logins == { tokens[t].family : t \in DOMAIN tokens }

Right(form, id, token) ==
    [form |-> form, id |-> id, user |-> token.user, password |-> token.password]

StoredOfLogin(l) == { t \in DOMAIN tokens : tokens[t].stored /\ tokens[t].family = l }

RotatingLogin(l) ==
    { r \in Requests : At(r, "refresh", "issue") /\ tokens[req[r].token].family = l }

RightsOf(l) ==
    { Right("token", tokens[t].jwt, tokens[t]) : t \in StoredOfLogin(l) }
      \union { Right("request", r, tokens[req[r].token]) : r \in RotatingLogin(l) }

Chain ==
    INSTANCE TokenRotation WITH rights <- [l \in Logins |-> RightsOf(l)],
                                given <- Strings,
                                recent <- Recent

(* However many requests present the same refresh token, and whenever, a   *)
(* login is one chain: refresh deletes the row it found by its id, only    *)
(* one request can, and what it issues is of the same login, the same user *)
(* and the same password.  It is a new string, or one that was signed for  *)
(* the user in the same second and that no login keeps; a login that is    *)
(* revoked, pruned or refused its next token stays so.                     *)
ImplementsTokenRotation == Chain!Spec

(* Of the tokens of a login at most one works.                             *)
OneTokenPerLogin ==
    \A t, v \in DOMAIN tokens :
        (tokens[t].stored /\ tokens[v].stored /\ tokens[t].family = tokens[v].family)
            => t = v

(* The lock-out holds against requests sent together: the failures that    *)
(* count against a user or an address never exceed the limit by more than  *)
(* the other requests that were already past the count.                    *)
FailuresBounded ==
    /\ \A u \in Users : ByUser(u) <= MaxFailed + Cardinality(Requests) - 1
    /\ \A ip \in Addresses : ByAddress(ip) <= MaxFailed + Cardinality(Requests) - 1

(* While requests do not overlap, a reset password ends every session that *)
(* was opened with an older one, and a removed user has none, also while   *)
(* the request is under way and wherever the server stops.                 *)
ResetEndsSessions ==
    alone =>
        \A t \in DOMAIN tokens : tokens[t].stored =>
            /\ tokens[t].password = users[tokens[t].user].password
            /\ ~users[tokens[t].user].removed

(* While requests do not overlap, what the API last answered is so: MFA is *)
(* on exactly if the user was told it is, with a secret to check codes     *)
(* against, and, unless the server stopped between the two statements of   *)
(* assignRoles, a user has the roles the administrator was last told.      *)
AnswersHold ==
    alone =>
        \A u \in Users :
            /\ users[u].mfaEnabled = confirmed[u]
            /\ users[u].mfaEnabled => users[u].mfaSecret # 0
            /\ InFlight = {} /\ crashes = 0 => users[u].roles = granted[u]

(* A lock-out ends: attempts on a locked user, or from a locked address,   *)
(* are not recorded, so they do not prolong it.                            *)
LockOutEnds ==
    /\ \A u \in Users : ByUser(u) >= MaxFailed ~> ByUser(u) < MaxFailed
    /\ \A ip \in Addresses : ByAddress(ip) >= MaxFailed ~> ByAddress(ip) < MaxFailed

=============================================================================
