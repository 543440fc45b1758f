----------------------------- MODULE MCSessions -----------------------------
(***************************************************************************)
(* Sessions in small instances.  A behaviour is about one desk, chosen at  *)
(* the start: failed logins and the lock-out, refresh tokens, roles, or    *)
(* MFA.  u1 is the first user.                                             *)
(***************************************************************************)
EXTENDS Sessions

CONSTANTS u1, u2

VARIABLE desk

mcVars == <<sessionVars, desk>>

MCInit == Init /\ desk \in {"lockout", "tokens", "roles", "mfa"}

AnyLogin(r) ==
    \/ \E ip \in Addresses : Login(r, u2, ip, 1) \/ \E p \in {0, 1} : Login(r, u1, ip, p)
    \/ LoginCount(r) \/ LoginRecord(r) \/ LoginRecount(r)
    \/ LoginClear(r) \/ LoginUnlock(r) \/ LoginIssue(r)

RightLogin(r) ==
    \/ users[u1].exists /\ Login(r, u1, "a1", users[u1].password)
    \/ LoginCount(r) \/ LoginClear(r) \/ LoginUnlock(r) \/ LoginIssue(r)

Keeping(A) == A /\ UNCHANGED desk

MCNext ==
    \/ \E r \in Requests :
          \/ Keeping(Register(r, u1, "Administrator", "a1"))
          \/ desk = "roles" /\ Keeping(Register(r, u1, "Viewer", "a1"))
          \/ Keeping(RegisterCreate(r) \/ RegisterIssue(r) \/ RegisterClear(r))
          \/ desk = "lockout" /\ Keeping(AnyLogin(r))
          \/ desk = "tokens" /\ Keeping(RightLogin(r) \/ RefreshRequests(r) \/ Accounts(r))
          \/ desk = "roles" /\ Keeping(RoleRequests(r))
          \/ desk = "mfa" /\ Keeping(MfaRequests(r) \/ RightLogin(r))
    \/ desk = "roles" /\ Keeping(\E u \in Users, role \in Roles : CreateUser(u, role))
    \/ desk = "tokens" /\ Keeping(\E u \in Users, active \in BOOLEAN : SetActive(u, active))
    \/ desk = "tokens" /\ Keeping(\E t \in Strings : Logout(t) \/ TokenExpires(t))
    \/ desk = "tokens" /\ Keeping(SecondPasses)
    \/ Keeping(AttemptAges)
    \/ desk \in {"tokens", "roles"} /\ Keeping(Crash)

(* Bound: at the desk of the refresh tokens a second has one string.       *)
OneStringASecond == desk = "tokens" => \A u \in Users : Cardinality(SignedNow(u)) <= 1

MCSpec == MCInit /\ [][MCNext]_mcVars /\ WF_mcVars(Keeping(AttemptAges))
=============================================================================
