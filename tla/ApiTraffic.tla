---------------------------- MODULE ApiTraffic -----------------------------
(***************************************************************************)
(* A request of the web application on its way through the API:            *)
(*   the limiter, the router, JwtAuthGuard, PermissionsGuard, RolesGuard,  *)
(*   the pipes, the handler, AuditInterceptor and GlobalErrorFilter        *)
(*   (apps/api/src/main.ts, app.module.ts, middleware/*.ts,                *)
(*    modules/auth/permissions.*.ts)                                       *)
(* while an administrator changes the roles of the user, the access token  *)
(* expires and is refreshed, and the process may be restarted.             *)
(*                                                                         *)
(* Two sources say what a user may do: RolesGuard believes the role in the *)
(* access token, PermissionsGuard reads the roles of the database.  A      *)
(* guard is passed before the next one is asked, and each await between    *)
(* them lets the others step.  What the handlers do is modelled by the     *)
(* other modules: here one serves the request or refuses it.               *)
(***************************************************************************)
EXTENDS ApiClient

CONSTANTS
    Roles,          \* the roles an administrator can assign, by name
    SecurityRole,   \* normalizeRoleName: the security role of each
    Grants,         \* the permission codes of each
    Requests,       \* the requests that may be on their way at once
    Calls,          \* what the web application calls
    Sample          \* the calls that meet a change of roles

ASSUME RolesHaveSecurityRoles ==
    SecurityRole \in [Roles -> {"ADMIN", "FINANCE", "HR", "WAREHOUSE", "VIEWER"}]

ASSUME SampleIsCalled == Sample \subseteq Calls

VARIABLES
    held,       \* the roles of the user in the database
    change,     \* the roles assignRoles is about to create; none: {}
    token,      \* the role in the access token of the client, or None
    refreshing, \* the roles the refresh has read, as <<roles>>; none: <<>>
    req         \* the requests

vars == <<held, change, token, refreshing, req>>

Idle == [pc |-> "idle"]

(* GlobalErrorFilter answers what was thrown; the answers are told apart   *)
(* by who threw.                                                           *)
Answers == { "throttled", "no route", "unauthorized", "forbidden", "malformed",
             "broken", "refused", "served" }

Contract == [call \in Calls |-> RouteOf(call.method, call.path)]

(* ParseIntPipe, and the pipe on the query of a GET or on the body.        *)
WellFormed ==
    [ call \in Calls, extent \in Extents |->
        /\ Contract[call].numbers
        /\ Validates(Contract[call].takes,
                     IF call.method = "GET" THEN call.query ELSE call.body, extent) ]

Permissions(roles) == UNION { Grants[r] : r \in roles }

(* normalizeRoleNames(...)[0] ?? 'VIEWER': the rows come in any order.     *)
ClaimOf(roles) == IF roles = {} THEN {"VIEWER"} ELSE { SecurityRole[r] : r \in roles }

(* The ImportsService lacks the methods these handlers call.               *)
NotBuilt == { "importChartOfAccounts", "importCustomers", "importSuppliers", "importProducts",
              "importTaxConfigs", "importAssetCategories", "importGLOpeningBalances",
              "importAROpeningBalances", "importAPOpeningBalances", "importCustomerReceipts",
              "importSupplierPayments", "importFixedAssets", "importStockOpeningBalances" }

Audited(call) == call.method \in {"POST", "PUT", "PATCH", "DELETE"}

-----------------------------------------------------------------------------
(* The requests.  since is the ghost of what the user was permitted at     *)
(* some time since the request was sent; rows counts its audit rows, lost  *)
(* says that the write of one failed.                                      *)

InFlight == { r \in Requests : req[r].pc \notin {"idle", "answered"} }

Become(r, q) == req' = [req EXCEPT ![r] = q]

At(r, pc) == req[r].pc = pc

Answered(q, answer) == [q EXCEPT !.pc = "answered", !.answer = answer]

(* Bound: a call that is no part of the sample is made alone, by a user    *)
(* who holds every role, and nothing else happens meanwhile.               *)
Quiet ==
    held = Roles /\ change = {} /\ refreshing = <<>> /\ \A r \in Requests : req[r] = Idle

Undisturbed == \A r \in Requests : req[r] # Idle => req[r].call \in Sample

Dispatch(r, call, extent) ==
    /\ At(r, "idle")
    /\ call \in Sample \/ Quiet
    /\ Undisturbed
    /\ Become(r, [ pc |-> "sent", call |-> call, extent |-> extent, role |-> token,
                   since |-> Permissions(held), rows |-> 0, lost |-> FALSE, answer |-> None ])
    /\ UNCHANGED <<held, change, token, refreshing>>

(* The limiter may refuse any request: what else was sent from the address *)
(* in the window is not known.  Then the router, then JwtAuthGuard: the    *)
(* token may have expired on the way.                                      *)
Arrive(r) ==
    /\ At(r, "sent")
    /\ LET q == req[r]  route == Contract[q.call] IN
       \/ Become(r, Answered(q, "throttled"))
       \/ ~route.found /\ Become(r, Answered(q, "no route"))
       \/ route.found /\ ~route.public /\ Become(r, Answered(q, "unauthorized"))
       \/ route.found /\ (route.public \/ q.role # None)
            /\ Become(r, [q EXCEPT !.pc = "permissions"])
    /\ UNCHANGED <<held, change, token, refreshing>>

(* A slip: permissions taken from the role in the token.                   *)
PermissionsByClaim(q) ==
    \/ Contract[q.call].permission = None
    \/ \E role \in Roles :
         SecurityRole[role] = q.role /\ Contract[q.call].permission \in Grants[role]

(* PermissionsGuard reads the roles of the user and their permissions.     *)
PermissionsGuard(q) ==
    \/ Contract[q.call].permission = None
    \/ Contract[q.call].permission \in Permissions(held)

RolesGuard(q) == Contract[q.call].roles = {} \/ q.role \in Contract[q.call].roles

(* The guards of the application: permissions, then role.                  *)
CheckGlobally(r) ==
    /\ At(r, "permissions")
    /\ Become(r, IF PermissionsGuard(req[r]) /\ RolesGuard(req[r])
                 THEN [req[r] EXCEPT !.pc = "again"]
                 ELSE Answered(req[r], "forbidden"))
    /\ UNCHANGED <<held, change, token, refreshing>>

(* The guards the controllers name again, role and then permissions, and   *)
(* the pipes.                                                              *)
CheckAgain(r) ==
    /\ At(r, "again")
    /\ Become(r, IF ~RolesGuard(req[r]) \/ ~PermissionsGuard(req[r])
                 THEN Answered(req[r], "forbidden")
                 ELSE IF WellFormed[req[r].call, req[r].extent]
                      THEN [req[r] EXCEPT !.pc = "handling"]
                      ELSE Answered(req[r], "malformed"))
    /\ UNCHANGED <<held, change, token, refreshing>>

(* A slip: the row is written on the way in, before the handler is asked.  *)
HandleAuditedFirst(r) ==
    /\ At(r, "handling")
    /\ \E answer \in {"served", "refused"} :
         Become(r, Answered([req[r] EXCEPT !.rows = IF Audited(req[r].call) THEN 1 ELSE 0], answer))
    /\ UNCHANGED <<held, change, token, refreshing>>

(* The handler has its effect, or throws and has none.                     *)
Handle(r) ==
    /\ At(r, "handling")
    /\ LET q == req[r] IN
       IF Contract[q.call].handler \in NotBuilt
       THEN Become(r, Answered(q, "broken"))
       ELSE \/ Become(r, Answered(q, "refused"))
            \/ Audited(q.call) /\ Become(r, [q EXCEPT !.pc = "auditing"])
            \/ ~Audited(q.call) /\ Become(r, Answered(q, "served"))
    /\ UNCHANGED <<held, change, token, refreshing>>

(* AuditInterceptor: the row is written before the answer is sent; a write *)
(* that fails is logged, and the answer is sent all the same.              *)
Audit(r) ==
    /\ At(r, "auditing")
    /\ \/ Become(r, Answered([req[r] EXCEPT !.rows = req[r].rows + 1], "served"))
       \/ Become(r, Answered([req[r] EXCEPT !.lost = TRUE], "served"))
    /\ UNCHANGED <<held, change, token, refreshing>>

Collect(r) ==
    /\ At(r, "answered")
    /\ Become(r, Idle)
    /\ UNCHANGED <<held, change, token, refreshing>>

-----------------------------------------------------------------------------
(* The administrator, the token and the process.                           *)

WithPermissions(roles) ==
    [ r \in Requests |-> IF req[r] = Idle THEN Idle
                         ELSE [req[r] EXCEPT !.since = @ \cup Permissions(roles)] ]

(* assignRoles deletes the user's roles, then creates the new ones.        *)
AssignDelete(roles) ==
    /\ change = {}
    /\ roles # {}
    /\ Undisturbed
    /\ held' = {}
    /\ change' = roles
    /\ UNCHANGED <<token, refreshing, req>>

AssignCreate ==
    /\ change # {}
    /\ held' = change
    /\ change' = {}
    /\ req' = WithPermissions(change)
    /\ UNCHANGED <<token, refreshing>>

(* The access token is good for fifteen minutes.                           *)
Expire ==
    /\ token # None
    /\ Undisturbed
    /\ token' = None
    /\ UNCHANGED <<held, change, refreshing, req>>

(* A slip: the roles the user had when logging in.                         *)
RefreshReadLogin ==
    /\ refreshing = <<>>
    /\ Undisturbed
    /\ refreshing' = <<Roles>>
    /\ UNCHANGED <<held, change, token, req>>

(* refresh reads the token row with the user's roles, then signs.          *)
RefreshRead ==
    /\ refreshing = <<>>
    /\ Undisturbed
    /\ refreshing' = <<held>>
    /\ UNCHANGED <<held, change, token, req>>

RefreshIssue ==
    /\ refreshing # <<>>
    /\ token' \in ClaimOf(refreshing[1])
    /\ refreshing' = <<>>
    /\ UNCHANGED <<held, change, req>>

(* A restart: nothing of what was on its way is answered.                  *)
Restart ==
    /\ change # {} \/ refreshing # <<>> \/ InFlight # {}
    /\ change' = {}
    /\ refreshing' = <<>>
    /\ req' = [r \in Requests |-> IF r \in InFlight THEN Idle ELSE req[r]]
    /\ UNCHANGED <<held, token>>

Serve(r) ==
    Arrive(r) \/ CheckGlobally(r) \/ CheckAgain(r) \/ Handle(r) \/ Audit(r) \/ Collect(r)

Init ==
    /\ held = Roles
    /\ change = {}
    /\ token \in ClaimOf(Roles)
    /\ refreshing = <<>>
    /\ req = [r \in Requests |-> Idle]

Next ==
    \/ \E r \in Requests, call \in Calls, extent \in Extents : Dispatch(r, call, extent)
    \/ \E r \in Requests : Serve(r)
    \/ \E roles \in SUBSET Roles : AssignDelete(roles)
    \/ AssignCreate \/ Expire \/ RefreshRead \/ RefreshIssue \/ Restart

(* The clock goes on, and the server handles what has arrived.             *)
Fairness == WF_vars(Expire) /\ \A r \in Requests : WF_vars(Serve(r))

TrafficSpec == Init /\ [][Next]_vars /\ Fairness

-----------------------------------------------------------------------------
(* Properties.                                                             *)

(* The calls the API as it stands never serves: it has no notifications,   *)
(* ImportsService lacks the method, the DTO has no decorators, or the page *)
(* sends fields the DTO of an edited journal does not have.                *)
Unserved ==
    { "getNotifications", "updateJournalDraft", "handleActivate", "handleDisable",
      "upsertCompanySettings", "createApprovalRule",
      "importChartOfAccounts", "importCustomers", "importSuppliers", "importProducts",
      "importTaxConfigs", "importGLOpeningBalances", "importAROpeningBalances",
      "importAPOpeningBalances", "importCustomerReceipts", "importSupplierPayments",
      "importFixedAssets", "importStockOpeningBalances" }

(* The tables let the call through: there is a route, its pipes take the   *)
(* payload and its handler is written.                                     *)
Kept(call, extent) ==
    Contract[call].found /\ WellFormed[call, extent] /\ Contract[call].handler \notin NotBuilt

(* What the client and the server say of each call, side by side.          *)
ContractAgrees ==
    \A call \in Calls, extent \in Extents : Kept(call, extent) <=> call.name \notin Unserved

(* The client and the server agree: whatever fields a payload has room     *)
(* for, no call but the unserved ones meets a missing route, a refusal of  *)
(* the pipes or a missing method, and the unserved ones always do.         *)
ContractHolds ==
    /\ ContractAgrees
    /\ \A r \in Requests :
         At(r, "answered") =>
           /\ req[r].answer \in {"no route", "malformed", "broken"} => req[r].call.name \in Unserved
           /\ req[r].answer = "served" => req[r].call.name \notin Unserved

(* A role taken away is felt at once, whatever the token says: a request   *)
(* whose handler is reached, or was, needs a permission the user held at   *)
(* some time since it was sent (PermissionsGuard reads the database).      *)
ServedByPermission ==
    \A r \in Requests :
      (\/ req[r].pc \in {"handling", "auditing"}
       \/ At(r, "answered") /\ req[r].answer \in {"served", "refused", "broken"}) =>
        Contract[req[r].call].permission \in req[r].since \cup {None}

(* Each change the API acknowledges has its one audit row, unless writing  *)
(* it failed, and nothing else has one (AuditInterceptor).                 *)
ServedIsAudited ==
    \A r \in Requests :
      At(r, "answered") =>
        req[r].rows = IF req[r].answer = "served" /\ Audited(req[r].call) /\ ~req[r].lost
                      THEN 1 ELSE 0

(* A role that is gone for good is gone from the access tokens, the one    *)
(* the client has and those under way: each refresh reads the roles anew,  *)
(* and a token a slow refresh issued late expires (tokens.ts, issueAuth-   *)
(* Tokens).  A user without roles is a VIEWER.                             *)
Claimed(role) ==
    token = role \/ \E r \in InFlight : req[r].role = role

StaleRoleExpires ==
    \A role \in { SecurityRole[r] : r \in Roles } \ {"VIEWER"} :
      <>[](\A r \in held : SecurityRole[r] # role) => <>[]~Claimed(role)

=============================================================================
