----------------------------- MODULE Workspace ------------------------------
(***************************************************************************)
(* The browser's side of a session:                                        *)
(*   apps/web/lib/session.ts, hooks/use-workspace.ts,                      *)
(*   components/login-screen.tsx, components/workspace-shell.tsx           *)
(* over the token handlers of Sessions.                                    *)
(*                                                                         *)
(* The access token lives in a variable of the page, what is selected in   *)
(* localStorage, the refresh token in a cookie.  Every page shows the      *)
(* shell, and both use the hook useWorkspace, each an instance with state  *)
(* of its own: it refreshes the token, loads the companies and writes the  *)
(* session back.  An instance that is unmounted meanwhile goes on as a     *)
(* closure nobody sees; hook[i] is an instance, and req[i] its refresh.    *)
(* The page and the shell refresh at the same time, with the same cookie:  *)
(* requests overlap here, always.                                          *)
(* An access token is named by the refresh token issued with it, that is   *)
(* what the cookie holds.                                                  *)
(***************************************************************************)
EXTENDS Sessions

CONSTANTS
    Companies,          \* the companies there may be
    BranchesOf,         \* the branches of each, the first one first
    Shows               \* the instances a page mounts: shell and page

ASSUME ShowsTheShell == "shell" \in Shows
ASSUME NoneIsNoToken == None \notin Nat
ASSUME CompaniesHaveBranches ==
    /\ None \notin Companies
    /\ \A c \in Companies : BranchesOf[c] = <<>> \/ 1 \in DOMAIN BranchesOf[c]

VARIABLES
    where,      \* "login", "choosing" a company, "app", or "leaving" it
    signedIn,   \* the access token in the state of the login screen
    cookie, memory, storage,
    hook,       \* the instances of useWorkspace
    answer,     \* the answer to the refresh of an instance, on its way back
    offered,    \* the companies the API lists
    signedOut   \* ghost: signed out with nothing on its way

screen == <<where, signedIn>>
browserVars == <<screen, cookie, memory, storage, hook, answer, offered, signedOut>>
workspaceVars == <<sessionVars, browserVars>>

Nothing == [company |-> None, branch |-> None]

Gone == [kind |-> None, pc |-> "gone"]

Refused == 0

Instances == Requests

FirstBranch(c) == IF BranchesOf[c] = <<>> THEN None ELSE BranchesOf[c][1]

BranchSet(c) == { BranchesOf[c][k] : k \in DOMAIN BranchesOf[c] }

-----------------------------------------------------------------------------
(* Mounting.  An instance reads the session once, when it is mounted.      *)

Mounted(i) == hook[i].pc # "gone" /\ ~hook[i].cancelled

Busy(i) == hook[i].pc \in {"refresh", "waiting", "companies"}

FreshInstance(kind, token, chosen) ==
    [ kind |-> kind, cancelled |-> FALSE,
      pc |-> IF token = None THEN "loaded" ELSE "refresh",
      stored |-> chosen, session |-> [token |-> token, chosen |-> chosen],
      token |-> token, listed |-> {} ]

(* Unmounting sets cancelled; an instance with nothing on its way is gone. *)
Unmounted(i) ==
    IF Busy(i) THEN [hook[i] EXCEPT !.cancelled = TRUE] ELSE Gone

FreeSlots == { i \in Instances : ~Busy(i) /\ req[i] = Idle }

Pending == { i \in Instances : Busy(i) \/ req[i] # Idle }

(* Which instance shows what: any that is free.                            *)
Placements(slots) ==
    { place \in [Shows -> slots] : \A s, t \in Shows : place[s] = place[t] => s = t }

(* Bound: a page is opened while there are instances and tokens for it.    *)
MayOpen ==
    /\ Placements(FreeSlots) # {}
    /\ Len(tokens) + Cardinality(Pending) + Cardinality(Shows) <= MaxTokens

Placement(slots) == CHOOSE place \in Placements(slots) : TRUE

Placed(place, token, chosen, others) ==
    [ i \in Instances |->
        IF \E s \in Shows : place[s] = i
        THEN FreshInstance(CHOOSE s \in Shows : place[s] = i, token, chosen)
        ELSE others[i] ]

OpenPage(token, chosen) ==
    hook' = Placed(Placement(FreeSlots), token, chosen, [i \in Instances |-> Unmounted(i)])

ClosePage == hook' = [i \in Instances |-> Unmounted(i)]

WriteSession(token, chosen) == memory' = token /\ storage' = chosen

-----------------------------------------------------------------------------
(* The login screen.                                                       *)

(* handleLogin: the cookie comes with the answer, the access token stays   *)
(* in the state of the screen until a company is entered.  An answer on    *)
(* its way to a page that was left may still replace the cookie.           *)
SignIn(u) ==
    /\ where = "login"
    /\ Len(tokens) + Cardinality(Pending) + Cardinality(Shows) < MaxTokens
    /\ SetUser(u, [users[u] EXCEPT !.locked = FALSE])
    /\ Issue(u, Len(tokens) + 1, users[u].password)
    /\ IF Created
       THEN /\ cookie' = tokens'[Len(tokens')].jwt
            /\ signedIn' = cookie' /\ where' = "choosing" /\ signedOut' = FALSE
       ELSE UNCHANGED <<cookie, signedIn, where, signedOut>>      \* the error is shown
    /\ UNCHANGED <<alone, attempts, crashes, req, granted, confirmed,
                   memory, storage, hook, answer, offered>>

(* enterWorkspace.                                                         *)
EnterWorkspace(c) ==
    /\ where = "choosing"
    /\ MayOpen
    /\ c \in offered
    /\ LET chosen == [company |-> c, branch |-> FirstBranch(c)] IN
       WriteSession(signedIn, chosen) /\ OpenPage(signedIn, chosen)
    /\ where' = "app" /\ signedIn' = None
    /\ UNCHANGED <<sessionVars, cookie, answer, offered, signedOut>>

(* The screen looks for a session when it is mounted.                      *)
LoginMounts ==
    /\ where = "leaving"
    /\ IF memory # None /\ storage.company # None
       THEN MayOpen /\ where' = "app" /\ OpenPage(memory, storage)
       ELSE where' = "login" /\ UNCHANGED hook
    /\ UNCHANGED <<sessionVars, signedIn, cookie, memory, storage, answer, offered, signedOut>>

-----------------------------------------------------------------------------
(* The shell.                                                              *)

Navigate ==
    /\ where = "app"
    /\ MayOpen
    /\ OpenPage(memory, storage)
    /\ UNCHANGED <<sessionVars, screen, cookie, memory, storage, answer, offered, signedOut>>

(* A reload starts with an empty memory; what was on its way is dropped.   *)
Reload ==
    /\ where = "app"
    /\ MayOpen
    /\ memory' = None
    /\ hook' = Placed(Placement({ i \in Instances : req[i] = Idle }), None, storage,
                      [i \in Instances |-> Gone])
    /\ answer' = [i \in Instances |-> None]
    /\ UNCHANGED <<sessionVars, screen, cookie, storage, offered, signedOut>>

Leave ==
    /\ where' = "leaving"
    /\ ClosePage

(* The shell without a token leads back to the login screen.               *)
Redirect(i) ==
    /\ where = "app"
    /\ Mounted(i) /\ hook[i].kind = "shell"
    /\ hook[i].pc = "loaded" /\ hook[i].session.token = None
    /\ Leave
    /\ UNCHANGED <<sessionVars, signedIn, cookie, memory, storage, answer, offered, signedOut>>

(* The slip of clearing only what is in localStorage.                      *)
SignOutKeepsToken(i) ==
    /\ where = "app"
    /\ Mounted(i) /\ hook[i].kind = "shell" /\ hook[i].session.token # None
    /\ WriteSession(memory, Nothing)
    /\ Leave
    /\ signedOut' = \A j \in Instances : ~Busy(j)
    /\ UNCHANGED <<sessionVars, signedIn, cookie, answer, offered>>

(* signOut: clearSession; nothing is said to the API.                      *)
SignOut(i) ==
    /\ where = "app"
    /\ Mounted(i) /\ hook[i].kind = "shell" /\ hook[i].session.token # None
    /\ WriteSession(None, Nothing)
    /\ Leave
    /\ signedOut' = \A j \in Instances : ~Busy(j)
    /\ UNCHANGED <<sessionVars, signedIn, cookie, answer, offered>>

(* setCompany, setBranch of an instance: its own copy of the session is    *)
(* changed and written back, token included.                               *)
Update(i, chosen) ==
    /\ hook' = [hook EXCEPT ![i].session.chosen = chosen]
    /\ WriteSession(hook[i].session.token, chosen)
    /\ UNCHANGED <<sessionVars, screen, cookie, answer, offered, signedOut>>

(* The slip of keeping the branch that was selected.                       *)
SetCompanyKeepsBranch(i, c) ==
    /\ where = "app"
    /\ Mounted(i) /\ hook[i].kind = "shell"
    /\ hook[i].session.token # None
    /\ c \in hook[i].listed
    /\ Update(i, [hook[i].session.chosen EXCEPT !.company = c])

SetCompany(i, c) ==
    /\ where = "app"
    /\ Mounted(i) /\ hook[i].kind = "shell"
    /\ hook[i].session.token # None
    /\ c \in hook[i].listed
    /\ Update(i, [company |-> c, branch |-> FirstBranch(c)])

SetBranch(i, b) ==
    /\ where = "app"
    /\ Mounted(i) /\ hook[i].kind = "shell"
    /\ hook[i].session.token # None
    /\ LET active == hook[i].session.chosen.company IN
       /\ active \in hook[i].listed
       /\ b \in BranchSet(active)
       /\ Update(i, [company |-> active, branch |-> b])

(* setPeriod of a page (the tax and report pages): the period is no part   *)
(* of the model, the rest of the session is written back as the page's     *)
(* instance remembers it.                                                  *)
SetPeriod(i) ==
    /\ where = "app"
    /\ Mounted(i) /\ hook[i].session.token # None
    /\ Update(i, hook[i].session.chosen)

-----------------------------------------------------------------------------
(* The hook: load.                                                         *)

Goes(i, pc) == hook' = [hook EXCEPT ![i].pc = pc]

(* POST /auth/refresh with the cookie as it is now.                        *)
HookRefresh(i) ==
    /\ hook[i].pc = "refresh"
    /\ Goes(i, "waiting")
    /\ IF cookie = None \/ tokens[cookie].expired
       THEN answer' = [answer EXCEPT ![i] = Refused] /\ UNCHANGED sessionVars
       ELSE Refresh(i, cookie) /\ UNCHANGED answer
    /\ UNCHANGED <<screen, cookie, memory, storage, offered, signedOut>>

(* A statement of the handler, with its answer if it is the last; if the   *)
(* page was reloaded meanwhile, nobody waits for it.                       *)
ServerRefresh(i) ==
    /\ \/ RefreshFind(i) \/ RefreshMissing(i) \/ RefreshRevoke(i) \/ RefreshLock(i)
       \/ RefreshExpired(i) \/ RefreshDelete(i) \/ RefreshIssue(i)
    /\ answer' = IF req'[i] = Idle /\ hook[i].pc = "waiting"
                 THEN [answer EXCEPT ![i] = IF req[i].pc = "issue" /\ Created
                                            THEN tokens'[Len(tokens')].jwt ELSE Refused]
                 ELSE answer
    /\ UNCHANGED <<screen, cookie, memory, storage, hook, offered, signedOut>>

(* The answer arrives: the browser takes the cookie, and the session as it *)
(* was read is written back with the new token, mounted or not.            *)
HookAnswered(i) ==
    /\ hook[i].pc = "waiting" /\ answer[i] # None
    /\ answer' = [answer EXCEPT ![i] = None]
    /\ IF answer[i] = Refused
       THEN Goes(i, "companies") /\ UNCHANGED <<cookie, memory, storage>>
       ELSE /\ cookie' = answer[i]
            /\ WriteSession(answer[i], hook[i].stored)
            /\ hook' = [hook EXCEPT ![i].pc = "companies", ![i].token = answer[i],
                          ![i].session = IF hook[i].cancelled THEN @
                            ELSE [token |-> answer[i], chosen |-> hook[i].stored] ]
    /\ UNCHANGED <<sessionVars, screen, offered, signedOut>>

(* The refresh could not be sent, or its answer was lost on the way.       *)
HookUnanswered(i) ==
    /\ hook[i].pc = "waiting" /\ answer[i] # None
    /\ answer' = [answer EXCEPT ![i] = None]
    /\ Goes(i, "companies")
    /\ UNCHANGED <<sessionVars, screen, cookie, memory, storage, offered, signedOut>>

Selected(stored) ==
    LET company == IF stored.company \in offered THEN stored.company
                   ELSE CHOOSE c \in offered : TRUE
    IN [ company |-> company,
         branch |-> IF stored.branch \in BranchSet(company) THEN stored.branch
                    ELSE FirstBranch(company) ]

(* getCompanies, answered; an instance unmounted meanwhile stops here.     *)
HookCompanies(i) ==
    /\ hook[i].pc = "companies"
    /\ IF hook[i].cancelled
       THEN hook' = [hook EXCEPT ![i] = Gone] /\ UNCHANGED <<memory, storage>>
       ELSE IF offered = {}
       THEN Goes(i, "loaded") /\ UNCHANGED <<memory, storage>>
       ELSE LET next == Selected(hook[i].stored) IN
            /\ WriteSession(hook[i].token, next)
            /\ hook' = [hook EXCEPT ![i].pc = "loaded", ![i].listed = offered,
                          ![i].stored = next,
                          ![i].session = [token |-> hook[i].token, chosen |-> next]]
    /\ UNCHANGED <<sessionVars, screen, cookie, answer, offered, signedOut>>

(* The slip of ending the loading only when all went well.                 *)
HookFailsSilently(i) ==
    /\ hook[i].pc = "companies"
    /\ hook' = [hook EXCEPT ![i] = IF hook[i].cancelled THEN Gone
                                   ELSE [hook[i] EXCEPT !.pc = "waiting"]]
    /\ UNCHANGED <<sessionVars, screen, cookie, memory, storage, answer, offered, signedOut>>

(* getCompanies fails: the error is shown, loading ends.                   *)
HookFails(i) ==
    /\ hook[i].pc = "companies"
    /\ hook' = [hook EXCEPT ![i] = IF hook[i].cancelled THEN Gone
                                   ELSE [hook[i] EXCEPT !.pc = "loaded"]]
    /\ UNCHANGED <<sessionVars, screen, cookie, memory, storage, answer, offered, signedOut>>

(* A second is over.                                                       *)
ClockTicks == SecondPasses /\ UNCHANGED browserVars

(* The refresh token of the cookie is 7 days old; no answer takes as long. *)
CookieExpires ==
    /\ cookie # None
    /\ Pending = {}
    /\ TokenExpires(cookie)
    /\ UNCHANGED browserVars

(* An administrator deactivates a company.  Bound: one.                    *)
Deactivate(c) ==
    /\ offered = Companies
    /\ offered' = offered \ {c}
    /\ UNCHANGED <<sessionVars, screen, cookie, memory, storage, hook, answer, signedOut>>

-----------------------------------------------------------------------------
WorkspaceInit ==
    /\ alone = FALSE
    /\ users = [u \in Users |-> NewUser(Roles)]
    /\ tokens = <<>>
    /\ attempts = <<>>
    /\ crashes = 0
    /\ req = [r \in Requests |-> Idle]
    /\ granted = [u \in Users |-> Roles]
    /\ confirmed = [u \in Users |-> FALSE]
    /\ where = "login"
    /\ signedIn = None
    /\ cookie = None
    /\ memory = None
    /\ storage = Nothing
    /\ hook = [i \in Instances |-> Gone]
    /\ answer = [i \in Instances |-> None]
    /\ offered = Companies
    /\ signedOut = FALSE

HookStep(i) ==
    \/ HookRefresh(i) \/ ServerRefresh(i) \/ HookAnswered(i) \/ HookUnanswered(i)
    \/ HookCompanies(i) \/ HookFails(i)

UserStep(i) ==
    \/ Redirect(i) \/ SignOut(i)
    \/ \E c \in Companies : SetCompany(i, c)
    \/ \E c \in Companies : \E b \in BranchSet(c) : SetBranch(i, b)
    \/ SetPeriod(i)

WorkspaceNext ==
    \/ \E u \in Users : users[u].exists /\ SignIn(u)
    \/ \E c \in Companies : EnterWorkspace(c) \/ Deactivate(c)
    \/ LoginMounts \/ Navigate \/ Reload \/ ClockTicks \/ CookieExpires
    \/ \E i \in Instances : HookStep(i) \/ UserStep(i)

(* A request that was sent is answered, or fails, in the end.              *)
WorkspaceSpec ==
    /\ WorkspaceInit
    /\ [][WorkspaceNext]_workspaceVars
    /\ \A i \in Instances : WF_workspaceVars(HookStep(i))

-----------------------------------------------------------------------------
Fits(chosen) ==
    IF chosen.company = None THEN chosen.branch = None
    ELSE \/ chosen.branch \in BranchSet(chosen.company)
         \/ chosen.branch = None /\ BranchesOf[chosen.company] = <<>>

(* The branch that is selected belongs to the company that is selected, in *)
(* localStorage and in what every instance shows, whoever wrote last.      *)
BranchOfCompany ==
    /\ Fits(storage)
    /\ \A i \in Instances : hook[i].pc # "gone" => Fits(hook[i].session.chosen)

(* After a sign-out with nothing on its way, nothing of the session comes  *)
(* back before the next sign-in.                                           *)
SignedOutStaysOut ==
    signedOut => memory = None /\ storage = Nothing /\ where # "app"

(* No page loads for ever: an instance that is shown gets to know its      *)
(* companies, or the error, or is left.                                    *)
LoadingEnds ==
    \A i \in Instances : Busy(i) /\ Mounted(i) ~> ~(Busy(i) /\ Mounted(i))

(* lib/session.ts 3-8: "The token is re-acquired via silent refresh        *)
(* (httpOnly refresh cookie) after a page reload".  Who is sent back to    *)
(* the login screen has no refresh token that works.                       *)
ReloadKeepsSession ==
    where = "leaving" /\ memory = None /\ storage # Nothing =>
        cookie = None \/ tokens[cookie].expired \/ Holding(cookie) = {}

=============================================================================
