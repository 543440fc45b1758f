--------------------------- MODULE SessionsProofs ----------------------------
(***************************************************************************)
(* Proofs about Sessions, for any users, roles, addresses and any number   *)
(* of requests under way together, and about the browser over it           *)
(* (Workspace), for any companies and any instances of its hook.           *)
(*                                                                         *)
(* A login has one refresh token at most.  A token and a request that is   *)
(* about to replace it are the same thing: the right to go on with a       *)
(* login.  The invariant is that only one of either is there for each      *)
(* login, its family.                                                      *)
(*                                                                         *)
(* While requests do not overlap, what a request has read is still so when *)
(* it comes to the statement that uses it (Calm): hence what the API       *)
(* answered last holds, and a reset password leaves no older session.      *)
(*                                                                         *)
(* However requests overlap, failures that are recorded and requests about *)
(* to record one are bounded together (FailuresInv).                       *)
(*                                                                         *)
(* In the browser, where refreshes always overlap, whatever is selected is *)
(* one of the choices there are, and when the user has signed out with     *)
(* nothing on its way, nothing gets on its way (Quiet).                    *)
(***************************************************************************)
EXTENDS Workspace, TLAPS, SequenceTheorems, FiniteSetTheorems, FunctionTheorems

UserRow ==
    [ exists : BOOLEAN, removed : BOOLEAN, password : Nat, active : BOOLEAN, locked : BOOLEAN,
      roles : SUBSET Roles, mfaEnabled : BOOLEAN, mfaSecret : Nat, secrets : Nat ]

TokenRow ==
    [ user : Users, family : Nat, password : Nat, jwt : Nat,
      stored : BOOLEAN, now : BOOLEAN, expired : BOOLEAN ]

Steps ==
    { "create", "issue", "clear", "count", "record", "recount", "unlock", "find", "missing",
      "expired", "delete", "revoke", "lock", "update", "store", "enable" }

RefreshWork == [ op : {"refresh"}, pc : Steps, token : Nat ]
RegisterWork ==
    [ op : {"register"}, pc : Steps, user : Users, roles : SUBSET Roles, ip : Addresses ]
LoginWork ==
    [ op : {"login"}, pc : Steps, user : Users, ip : Addresses, password : Nat, seen : UserRow ]
AssignWork == [ op : {"assign"}, pc : Steps, user : Users, roles : SUBSET Roles ]
UserWork ==
    [ op : {"reset", "remove", "mfaSetup", "mfaActivate", "mfaDisable"}, pc : Steps,
      user : Users ]

Work == RefreshWork \union RegisterWork \union LoginWork \union AssignWork \union UserWork

TypeOK ==
    /\ users \in [Users -> UserRow]
    /\ tokens \in Seq(TokenRow)
    /\ req \in [Requests -> Work \union {Idle}]

(* The old token is deleted, the new one not created yet. *)
Rotating(w) == w.op = "refresh" /\ w.pc = "issue"

TokensKnown ==
    \A r \in Requests : req[r].op = "refresh" => req[r].token \in DOMAIN tokens

FamiliesAreOld == \A t \in DOMAIN tokens : tokens[t].family \in 1 .. t

(* A string is named by its first row. *)
StringsAreRows == \A t \in DOMAIN tokens : tokens[t].jwt \in 1 .. t

(* A login whose token is being replaced has no token. *)
RotatedIsGone ==
    \A r \in Requests : Rotating(req[r]) =>
        \A t \in DOMAIN tokens :
            tokens[t].stored => tokens[t].family # tokens[req[r].token].family

(* Two requests never replace the token of one login. *)
RotatedOnce ==
    \A r, s \in Requests :
        /\ Rotating(req[r]) /\ Rotating(req[s])
        /\ tokens[req[r].token].family = tokens[req[s].token].family
        => r = s

SessionInv ==
    /\ TypeOK /\ TokensKnown /\ FamiliesAreOld /\ StringsAreRows
    /\ OneTokenPerLogin /\ RotatedIsGone /\ RotatedOnce

-----------------------------------------------------------------------------
(* The chain of rights of a login (TokenRotation).                         *)

(* A step, as TokenRotation sees it. *)
ChainStep == [Chain!Next]_(Chain!rotationVars)

(* What each step of the API is shown to do. *)
Continues == SessionInv' /\ ChainStep

(* The rows of the tokens stay, and none that was deleted comes back. *)
RowsStay ==
    \A t \in DOMAIN tokens :
        /\ t \in DOMAIN tokens'
        /\ tokens'[t].family = tokens[t].family
        /\ tokens'[t].user = tokens[t].user
        /\ tokens'[t].password = tokens[t].password
        /\ tokens'[t].jwt = tokens[t].jwt
        /\ tokens'[t].stored => tokens[t].stored

(* It is the same second. *)
NowStays == \A t \in DOMAIN tokens : tokens'[t].now = tokens[t].now

LEMMA OneRight ==
  ASSUME SessionInv, NEW l, NEW a \in RightsOf(l), NEW b \in RightsOf(l)
  PROVE  a = b
  <1>1. \A r \in Requests : At(r, "refresh", "issue") => Rotating(req[r])
    BY DEF At, Rotating
  <1>2. ASSUME NEW t \in StoredOfLogin(l), NEW v \in StoredOfLogin(l)
        PROVE  t = v
    BY DEF StoredOfLogin, SessionInv, OneTokenPerLogin
  <1>3. ASSUME NEW r \in RotatingLogin(l), NEW s \in RotatingLogin(l)
        PROVE  r = s
    BY <1>1 DEF RotatingLogin, SessionInv, RotatedOnce
  <1>4. ASSUME NEW t \in StoredOfLogin(l), NEW r \in RotatingLogin(l)
        PROVE  FALSE
    BY <1>1 DEF StoredOfLogin, RotatingLogin, SessionInv, RotatedIsGone
  <1> QED
    BY <1>2, <1>3, <1>4 DEF RightsOf

(* A login that gets no new token, and no new request to rotate one, goes  *)
(* on as it is or ends.                                                    *)
LEMMA LoginLeftAlone ==
  ASSUME SessionInv, RowsStay, NEW l,
         \A t \in DOMAIN tokens' :
             tokens'[t].stored /\ tokens'[t].family = l => t \in DOMAIN tokens,
         \A r \in Requests :
             Rotating(req'[r]) /\ tokens'[req'[r].token].family = l => req'[r] = req[r]
  PROVE  RightsOf(l)' = RightsOf(l) \/ RightsOf(l)' = {}
  <1>1. ASSUME NEW t \in StoredOfLogin(l)'
        PROVE  /\ t \in StoredOfLogin(l)
               /\ Right("token", tokens'[t].jwt, tokens'[t])
                    = Right("token", tokens[t].jwt, tokens[t])
    BY DEF StoredOfLogin, RowsStay, Right
  <1>2. ASSUME NEW r \in RotatingLogin(l)'
        PROVE  /\ r \in RotatingLogin(l)
               /\ Right("request", r, tokens'[req'[r].token])
                    = Right("request", r, tokens[req[r].token])
    <2>1. r \in Requests /\ req'[r] = req[r] /\ Rotating(req[r]) /\ At(r, "refresh", "issue")
      BY DEF RotatingLogin, At, Rotating
    <2>2. req[r].token \in DOMAIN tokens
      BY <2>1 DEF SessionInv, TokensKnown, Rotating
    <2> QED
      BY <2>1, <2>2 DEF RotatingLogin, RowsStay, Right
  <1>3. RightsOf(l)' \subseteq RightsOf(l)
    BY <1>1, <1>2 DEF RightsOf
  <1>4. \A a, b \in RightsOf(l) : a = b
    BY OneRight
  <1> QED
    BY <1>3, <1>4

LEMMA LoginsStay ==
  ASSUME RowsStay, DOMAIN tokens' = DOMAIN tokens
  PROVE  Logins' = Logins /\ Strings' = Strings /\ (NowStays => Recent' = Recent)
  BY DEF Logins, Strings, Recent, RowsStay, NowStays

(* Tokens go, and requests: logins end. *)
LEMMA LoginsEnd ==
  ASSUME SessionInv, RowsStay, NowStays, DOMAIN tokens' = DOMAIN tokens,
         \A r \in Requests : Rotating(req'[r]) => req'[r] = req[r]
  PROVE  ChainStep
  <1>1. \A l : RightsOf(l)' = RightsOf(l) \/ RightsOf(l)' = {}
    BY LoginLeftAlone
  <1>2. Chain!End
    BY <1>1, LoginsStay DEF Chain!End, Chain!LeftAlone
  <1> QED
    BY <1>2 DEF ChainStep, Chain!Next

(* A step that hands out one token, to login l: a new string, or one of    *)
(* this second that no row has.                                            *)
HandsOut(new, l) ==
    /\ RowsStay /\ NowStays
    /\ new \notin DOMAIN tokens
    /\ DOMAIN tokens' = DOMAIN tokens \union {new}
    /\ tokens'[new].stored /\ tokens'[new].family = l
    /\ tokens'[new].now
    /\ tokens'[new].jwt \in Strings => <<tokens'[new].jwt, tokens'[new].user>> \in Recent
    /\ Holding(tokens'[new].jwt) = {}

LEMMA OnlyOneLogin ==
  ASSUME SessionInv, NEW new, NEW l, HandsOut(new, l),
         \A r \in Requests : Rotating(req'[r]) => req'[r] = req[r]
  PROVE  Chain!OnlyOf(l)
  <1>1. Logins' = Logins \union {l}
    BY DEF Logins, HandsOut, RowsStay
  <1>2. ASSUME NEW m \in Logins \ {l}
        PROVE  RightsOf(m)' = RightsOf(m) \/ RightsOf(m)' = {}
    <2>1. \A t \in DOMAIN tokens' :
             tokens'[t].stored /\ tokens'[t].family = m => t \in DOMAIN tokens
      BY <1>2 DEF HandsOut
    <2> QED
      BY <2>1, LoginLeftAlone DEF HandsOut
  <1> QED
    BY <1>1, <1>2 DEF Chain!OnlyOf, Chain!LeftAlone

(* The login that gets the token has that and nothing else, if no other    *)
(* token of it is stored and no request rotates one.                       *)
LEMMA TokenIsTheRight ==
  ASSUME NEW new, NEW l, HandsOut(new, l),
         \A t \in DOMAIN tokens : tokens[t].stored => tokens[t].family # l,
         \A r \in Requests : Rotating(req'[r]) => tokens'[req'[r].token].family # l
  PROVE  RightsOf(l)' = {Right("token", tokens'[new].jwt, tokens'[new])}
  <1>1. StoredOfLogin(l)' = {new}
    BY DEF StoredOfLogin, HandsOut, RowsStay
  <1>2. RotatingLogin(l)' = {}
    BY DEF RotatingLogin, At, Rotating
  <1> QED
    BY <1>1, <1>2 DEF RightsOf

LEMMA TokenMayBeHandedOut ==
  ASSUME NEW new, NEW l, HandsOut(new, l)
  PROVE  Chain!HandOut(Right("token", tokens'[new].jwt, tokens'[new]))
  <1>1. PICK jwt, user : jwt = tokens'[new].jwt /\ user = tokens'[new].user
    OBVIOUS
  <1>2. PICK g : g = Right("token", jwt, tokens'[new])
    OBVIOUS
  <1>3. g.form = "token" /\ g.id = jwt /\ g.user = user
    BY <1>1, <1>2 DEF Right
  <1>4. Strings' = Strings \union {jwt}
    BY <1>1 DEF Strings, HandsOut, RowsStay
  <1>5. Recent' = Recent \union {<<jwt, user>>}
    BY <1>1 DEF Recent, HandsOut, RowsStay, NowStays
  <1>6. ASSUME NEW m, NEW right \in RightsOf(m), right.form = "token"
        PROVE  right.id # jwt
    <2>1. PICK t \in StoredOfLogin(m) : right = Right("token", tokens[t].jwt, tokens[t])
      BY <1>6 DEF RightsOf, Right
    <2>2. t \in DOMAIN tokens /\ tokens[t].stored /\ right.id = tokens[t].jwt
      BY <2>1 DEF StoredOfLogin, Right
    <2> QED
      BY <1>1, <2>2 DEF HandsOut, Holding
  <1>7. \A m \in Logins : ~Chain!KeptBy(m, jwt)
    BY <1>6 DEF Chain!KeptBy
  <1>8. jwt \in Strings => <<jwt, user>> \in Recent
    BY <1>1 DEF HandsOut
  <1> QED
    BY <1>1, <1>2, <1>3, <1>4, <1>5, <1>7, <1>8 DEF Chain!HandOut

LEMMA LoginOpens ==
  ASSUME SessionInv, NEW new, NEW l, HandsOut(new, l), l \notin Logins,
         \A r \in Requests : Rotating(req'[r]) => req'[r] = req[r]
  PROVE  ChainStep
  <1>1. ASSUME NEW r \in Requests, Rotating(req'[r])
        PROVE  tokens'[req'[r].token].family # l
    <2>1. req'[r] = req[r] /\ req[r].token \in DOMAIN tokens
      BY <1>1 DEF SessionInv, TokensKnown, Rotating
    <2> QED
      BY <2>1 DEF HandsOut, RowsStay, Logins
  <1>2. RightsOf(l)' = {Right("token", tokens'[new].jwt, tokens'[new])}
    BY <1>1, TokenIsTheRight DEF Logins
  <1>3. Chain!OnlyOf(l) /\ l \in Logins'
    BY OnlyOneLogin DEF HandsOut, Logins
  <1>4. Chain!HandOut(Right("token", tokens'[new].jwt, tokens'[new]))
    BY TokenMayBeHandedOut
  <1>5. Chain!Open(l)
    BY <1>2, <1>3, <1>4 DEF Chain!Open
  <1> QED
    BY <1>3, <1>5 DEF ChainStep, Chain!Next

(* The second statement of a rotation: the request hands its right to the  *)
(* new token.                                                              *)
LEMMA RightIsHandedOut ==
  ASSUME SessionInv, NEW r \in Requests, Rotating(req[r]),
         NEW old, old = tokens[req[r].token],
         NEW new, HandsOut(new, old.family),
         tokens'[new].user = old.user, tokens'[new].password = old.password,
         \A s \in Requests : Rotating(req'[s]) => s # r /\ req'[s] = req[s]
  PROVE  ChainStep
  <1> DEFINE l == old.family
  <1>1. /\ \A t \in DOMAIN tokens : tokens[t].stored => tokens[t].family # l
        /\ \A s \in Requests \ {r} : Rotating(req[s]) => tokens[req[s].token].family # l
    BY DEF SessionInv, RotatedIsGone, RotatedOnce
  <1>2. ASSUME NEW s \in Requests, Rotating(req'[s])
        PROVE  tokens'[req'[s].token].family # l
    <2>1. s # r /\ req'[s] = req[s] /\ req[s].token \in DOMAIN tokens
      BY <1>2 DEF SessionInv, TokensKnown, Rotating
    <2> QED
      BY <1>1, <1>2, <2>1 DEF HandsOut, RowsStay
  <1>3. RightsOf(l)' = {Right("token", tokens'[new].jwt, tokens'[new])}
    BY <1>1, <1>2, TokenIsTheRight
  <1>4. RightsOf(l) = {Right("request", r, old)}
    <2>1. At(r, "refresh", "issue")
      BY DEF At, Rotating
    <2>2. r \in RotatingLogin(l)
      BY <2>1 DEF RotatingLogin
    <2>3. Right("request", r, old) \in RightsOf(l)
      BY <2>2 DEF RightsOf
    <2> QED
      BY <2>3, OneRight
  <1>5. Chain!OnlyOf(l) /\ l \in Logins /\ l \in Logins'
    <2>1. req[r].token \in DOMAIN tokens
      BY DEF SessionInv, TokensKnown, Rotating
    <2> QED
      BY <2>1, OnlyOneLogin DEF HandsOut, Logins
  <1>6. Chain!HandOut(Right("token", tokens'[new].jwt, tokens'[new]))
    BY TokenMayBeHandedOut
  <1>7. Chain!Pass(l)
    <2>1. PICK g : g = Right("request", r, old)
      OBVIOUS
    <2>2. PICK h : h = Right("token", tokens'[new].jwt, tokens'[new])
      OBVIOUS
    <2>3. /\ g.form = "request" /\ g.user = old.user /\ g.password = old.password
          /\ h.user = old.user /\ h.password = old.password
      BY <2>1, <2>2 DEF Right
    <2> QED
      BY <1>3, <1>4, <1>5, <1>6, <2>1, <2>2, <2>3 DEF Chain!Pass
  <1> QED
    BY <1>5, <1>7 DEF ChainStep, Chain!Next

(* The first statement of a rotation: the token gives its right up to the  *)
(* request.                                                                *)
LEMMA RightIsGivenUp ==
  ASSUME SessionInv, RowsStay, NowStays, DOMAIN tokens' = DOMAIN tokens,
         NEW r \in Requests, NEW t \in DOMAIN tokens,
         tokens[t].stored, ~tokens'[t].stored, Rotating(req'[r]), req'[r].token = t,
         \A s \in Requests \ {r} : Rotating(req'[s]) => req'[s] = req[s]
  PROVE  ChainStep
  <1>0. PICK l : l = tokens[t].family
    OBVIOUS
  <1>1. ASSUME NEW s \in Requests \ {r}, Rotating(req'[s])
        PROVE  tokens'[req'[s].token].family # l
    <2>1. req'[s] = req[s] /\ req[s].token \in DOMAIN tokens
      BY <1>1 DEF SessionInv, TokensKnown, Rotating
    <2> QED
      BY <1>0, <1>1, <2>1 DEF SessionInv, RotatedIsGone, RowsStay
  <1>2. RightsOf(l) = {Right("token", tokens[t].jwt, tokens[t])}
    <2>1. t \in StoredOfLogin(l)
      BY <1>0 DEF StoredOfLogin
    <2>2. Right("token", tokens[t].jwt, tokens[t]) \in RightsOf(l)
      BY <2>1 DEF RightsOf
    <2> QED
      BY <2>2, OneRight
  <1>3. RightsOf(l)' = {Right("request", r, tokens'[t])}
    <2>1. StoredOfLogin(l)' = {}
      BY <1>0 DEF StoredOfLogin, RowsStay, SessionInv, OneTokenPerLogin
    <2>2. At(r, "refresh", "issue")'
      BY DEF At, Rotating
    <2>3. RotatingLogin(l)' = {r}
      BY <1>0, <1>1, <2>2 DEF RotatingLogin, At, Rotating, RowsStay
    <2> QED
      BY <2>1, <2>3 DEF RightsOf
  <1>4. PICK g, h : g = Right("token", tokens[t].jwt, tokens[t]) /\ h = Right("request", r, tokens'[t])
    OBVIOUS
  <1>5. Chain!OnlyOf(l) /\ l \in Logins /\ l \in Logins'
    <2>1. ASSUME NEW m \in Logins \ {l}
          PROVE  RightsOf(m)' = RightsOf(m) \/ RightsOf(m)' = {}
      <3>1. \A s \in Requests :
               Rotating(req'[s]) /\ tokens'[req'[s].token].family = m => req'[s] = req[s]
        BY <1>0, <2>1 DEF RowsStay
      <3> QED
        BY <3>1, LoginLeftAlone
    <2>2. l \in Logins
      BY <1>0 DEF Logins
    <2> QED
      BY <2>1, <2>2, LoginsStay DEF Chain!OnlyOf, Chain!LeftAlone
  <1>6. /\ g.form = "token" /\ h.form = "request"
        /\ h.user = g.user /\ h.password = g.password
    BY <1>4 DEF Right, RowsStay
  <1>7. UNCHANGED <<Strings, Recent>>
    BY LoginsStay
  <1>8. Chain!Pass(l)
    BY <1>2, <1>3, <1>4, <1>5, <1>6, <1>7 DEF Chain!Pass
  <1> QED
    BY <1>5, <1>8 DEF ChainStep, Chain!Next

-----------------------------------------------------------------------------
(* What most steps do: no token appears and no request begins to replace   *)
(* one.                                                                    *)

TokensOnlyGo ==
    /\ tokens' \in Seq(TokenRow)
    /\ DOMAIN tokens' = DOMAIN tokens
    /\ \A t \in DOMAIN tokens :
          /\ tokens'[t].family = tokens[t].family
          /\ tokens'[t].user = tokens[t].user
          /\ tokens'[t].password = tokens[t].password
          /\ tokens'[t].jwt = tokens[t].jwt
          /\ tokens'[t].stored => tokens[t].stored

Harmless(w) == w.op = "refresh" => w.pc # "issue" /\ w.token \in DOMAIN tokens

RequestsMove ==
    /\ req' \in [Requests -> Work \union {Idle}]
    /\ \A r \in Requests : req'[r] = req[r] \/ Harmless(req'[r])

UsersTyped == users' \in [Users -> UserRow]

LEMMA NobodyRotates ==
  ASSUME SessionInv, TokensOnlyGo, RequestsMove, UsersTyped
  PROVE  /\ SessionInv' /\ RowsStay /\ DOMAIN tokens' = DOMAIN tokens
         /\ \A r \in Requests : Rotating(req'[r]) => req'[r] = req[r]
  <1>1. TypeOK'
    BY DEF TokensOnlyGo, RequestsMove, UsersTyped, TypeOK
  <1>2. TokensKnown'
    BY DEF SessionInv, TokensKnown, TokensOnlyGo, RequestsMove, Harmless
  <1>3. FamiliesAreOld' /\ StringsAreRows'
    BY DEF SessionInv, FamiliesAreOld, StringsAreRows, TokensOnlyGo
  <1>4. OneTokenPerLogin'
    BY DEF SessionInv, OneTokenPerLogin, TokensOnlyGo
  <1>5. ASSUME NEW r \in Requests, Rotating(req'[r])
        PROVE  req'[r] = req[r] /\ Rotating(req[r]) /\ req[r].token \in DOMAIN tokens
    BY <1>5 DEF SessionInv, TokensKnown, RequestsMove, Harmless, Rotating
  <1>6. RotatedIsGone'
    BY <1>5 DEF SessionInv, RotatedIsGone, TokensOnlyGo
  <1>7. RotatedOnce'
    BY <1>5 DEF SessionInv, RotatedOnce, TokensOnlyGo
  <1>8. RowsStay
    BY DEF RowsStay, TokensOnlyGo
  <1>9. DOMAIN tokens' = DOMAIN tokens
    BY DEF TokensOnlyGo
  <1> QED
    BY <1>1, <1>2, <1>3, <1>4, <1>5, <1>6, <1>7, <1>8, <1>9 DEF SessionInv

LEMMA NoNewHolder ==
  ASSUME SessionInv, TokensOnlyGo, NowStays, RequestsMove, UsersTyped
  PROVE  Continues
  BY NobodyRotates, LoginsEnd DEF Continues

LEMMA KeepingTokens ==
  ASSUME TypeOK, UNCHANGED tokens
  PROVE  TokensOnlyGo /\ NowStays
  BY DEF TypeOK, TokensOnlyGo, NowStays

LEMMA DeletingTokens ==
  ASSUME TypeOK, NEW rows, Delete(rows)
  PROVE  TokensOnlyGo /\ NowStays
  <1>1. tokens \in Seq(TokenRow) /\ DOMAIN tokens = 1 .. Len(tokens) /\ Len(tokens) \in Nat
    BY LenProperties DEF TypeOK
  <1>2. ASSUME NEW t \in DOMAIN tokens
        PROVE  /\ tokens'[t] \in TokenRow
               /\ tokens'[t].family = tokens[t].family
               /\ tokens'[t].user = tokens[t].user
               /\ tokens'[t].password = tokens[t].password
               /\ tokens'[t].jwt = tokens[t].jwt
               /\ tokens'[t].stored => tokens[t].stored
               /\ tokens'[t].now = tokens[t].now
    <2>1. tokens[t] \in TokenRow
      BY <1>1, ElementOfSeq
    <2>2. tokens'[t] = IF t \in rows THEN [tokens[t] EXCEPT !.stored = FALSE] ELSE tokens[t]
      BY DEF Delete
    <2> QED
      BY <2>1, <2>2 DEF TokenRow
  <1>3. DOMAIN tokens' = 1 .. Len(tokens)
    BY <1>1 DEF Delete
  <1>4. tokens' = [t \in 1 .. Len(tokens) |-> tokens'[t]]
    BY <1>1, <1>3 DEF Delete
  <1>5. tokens' \in [1 .. Len(tokens) -> TokenRow]
    BY <1>1, <1>2, <1>4
  <1>6. tokens' \in Seq(TokenRow)
    BY <1>1, <1>5, SeqDef
  <1> QED
    BY <1>1, <1>2, <1>3, <1>6 DEF TokensOnlyGo, NowStays

(* Rows get too old, or a second passes: for each row, is it so? *)
LEMMA TokensAge ==
  ASSUME TypeOK, DOMAIN tokens' = DOMAIN tokens,
         tokens' = [t \in DOMAIN tokens |-> tokens'[t]],
         \A t \in DOMAIN tokens :
            \/ tokens'[t] = tokens[t]
            \/ tokens'[t] = [tokens[t] EXCEPT !.expired = TRUE]
            \/ tokens'[t] = [tokens[t] EXCEPT !.now = FALSE]
  PROVE  TokensOnlyGo
  <1>1. tokens \in Seq(TokenRow) /\ DOMAIN tokens = 1 .. Len(tokens) /\ Len(tokens) \in Nat
    BY LenProperties DEF TypeOK
  <1>2. ASSUME NEW t \in DOMAIN tokens
        PROVE  /\ tokens'[t] \in TokenRow
               /\ tokens'[t].family = tokens[t].family
               /\ tokens'[t].user = tokens[t].user
               /\ tokens'[t].password = tokens[t].password
               /\ tokens'[t].jwt = tokens[t].jwt
               /\ tokens'[t].stored => tokens[t].stored
    <2>1. tokens[t] \in TokenRow
      BY <1>1, ElementOfSeq
    <2> QED
      BY <2>1 DEF TokenRow
  <1>3. tokens' \in [1 .. Len(tokens) -> TokenRow]
    BY <1>1, <1>2
  <1>4. tokens' \in Seq(TokenRow)
    BY <1>1, <1>3, SeqDef
  <1> QED
    BY <1>2, <1>4 DEF TokensOnlyGo

LEMMA ExpiringTokens ==
  ASSUME TypeOK, NEW t, TokenExpires(t)
  PROVE  TokensOnlyGo /\ NowStays
  <1>1. tokens \in Seq(TokenRow) /\ DOMAIN tokens = 1 .. Len(tokens)
    BY LenProperties DEF TypeOK
  <1>2. \A v \in DOMAIN tokens : tokens[v] \in TokenRow
    BY <1>1, ElementOfSeq
  <1>3. /\ DOMAIN tokens' = DOMAIN tokens
        /\ tokens' = [v \in DOMAIN tokens |-> tokens'[v]]
        /\ \A v \in DOMAIN tokens :
              tokens'[v] = tokens[v] \/ tokens'[v] = [tokens[v] EXCEPT !.expired = TRUE]
    BY DEF TokenExpires
  <1>4. NowStays
    BY <1>2, <1>3 DEF NowStays, TokenRow
  <1> QED
    BY <1>3, <1>4, TokensAge

LEMMA OneRequestMoves ==
  ASSUME TypeOK, NEW r \in Requests, NEW w \in Work \union {Idle},
         req' = [req EXCEPT ![r] = w], Harmless(w)
  PROVE  RequestsMove
  BY DEF TypeOK, RequestsMove

LEMMA Finishing ==
  ASSUME TypeOK, NEW r \in Requests, Finish(r)
  PROVE  RequestsMove
  <1>1. Harmless(Idle)
    BY DEF Harmless, Idle
  <1> QED
    BY <1>1, OneRequestMoves DEF Finish

LEMMA KeepingRequests ==
  ASSUME TypeOK, UNCHANGED req
  PROVE  RequestsMove
  BY DEF TypeOK, RequestsMove

LEMMA KeepingUsers ==
  ASSUME TypeOK, UNCHANGED users
  PROVE  UsersTyped
  BY DEF TypeOK, UsersTyped

LEMMA SettingUser ==
  ASSUME TypeOK, NEW u \in Users, NEW row \in UserRow, SetUser(u, row)
  PROVE  UsersTyped
  BY DEF TypeOK, UsersTyped, SetUser

(* A second passes: no token of it may be handed out again. *)
LEMMA ASecondPasses ==
  ASSUME SessionInv, SecondPasses
  PROVE  Continues /\ TokensOnlyGo
  <1>1. tokens \in Seq(TokenRow) /\ DOMAIN tokens = 1 .. Len(tokens)
    BY LenProperties DEF SessionInv, TypeOK
  <1>2. \A v \in DOMAIN tokens : tokens[v] \in TokenRow
    BY <1>1, ElementOfSeq
  <1>3. /\ DOMAIN tokens' = DOMAIN tokens
        /\ tokens' = [v \in DOMAIN tokens |-> tokens'[v]]
        /\ \A v \in DOMAIN tokens : tokens'[v] = [tokens[v] EXCEPT !.now = FALSE]
    BY DEF SecondPasses
  <1>4. TokensOnlyGo
    BY <1>3, TokensAge DEF SessionInv
  <1>5. RequestsMove /\ UsersTyped /\ UNCHANGED req
    BY KeepingRequests, KeepingUsers DEF SessionInv, SecondPasses
  <1>6. SessionInv' /\ RowsStay
    BY <1>4, <1>5, NobodyRotates
  <1>7. \A v \in DOMAIN tokens : ~tokens'[v].now /\ tokens'[v].stored = tokens[v].stored
    BY <1>2, <1>3 DEF TokenRow
  <1>8. Recent' = {}
    BY <1>3, <1>7 DEF Recent
  <1>9. Logins' = Logins /\ Strings' = Strings
    BY <1>3, <1>6, LoginsStay
  <1>10. ASSUME NEW l
         PROVE  RightsOf(l)' = RightsOf(l)
    <2>1. StoredOfLogin(l)' = StoredOfLogin(l)
      BY <1>3, <1>6, <1>7 DEF StoredOfLogin, RowsStay
    <2>2. \A t \in StoredOfLogin(l) :
             Right("token", tokens'[t].jwt, tokens'[t]) = Right("token", tokens[t].jwt, tokens[t])
      BY <1>6 DEF StoredOfLogin, RowsStay, Right
    <2>3. \A r \in Requests : At(r, "refresh", "issue") => req[r].token \in DOMAIN tokens
      BY DEF SessionInv, TokensKnown, At
    <2>4. RotatingLogin(l)' = RotatingLogin(l)
      BY <1>5, <1>6, <2>3 DEF RotatingLogin, At, RowsStay
    <2>5. \A r \in RotatingLogin(l) :
             Right("request", r, tokens'[req'[r].token]) = Right("request", r, tokens[req[r].token])
      BY <1>5, <1>6, <2>3 DEF RotatingLogin, RowsStay, Right
    <2> QED
      BY <2>1, <2>2, <2>4, <2>5 DEF RightsOf
  <1>11. Chain!SecondPasses
    BY <1>8, <1>9, <1>10 DEF Chain!SecondPasses
  <1> QED
    BY <1>4, <1>6, <1>11 DEF Continues, ChainStep, Chain!Next

LEMMA WorkNotIdle == Idle \notin Work
  BY DEF Work, RefreshWork, RegisterWork, LoginWork, AssignWork, UserWork, Idle

(* A request at a step of an operation is one of that operation. *)
LEMMA WorkAt ==
  ASSUME TypeOK, NEW r \in Requests, NEW op, NEW pc, op # "idle", At(r, op, pc)
  PROVE  /\ req[r] \in Work /\ req[r].op = op /\ req[r].pc = pc
         /\ op = "refresh" => req[r] \in RefreshWork
         /\ op = "register" => req[r] \in RegisterWork
         /\ op = "login" => req[r] \in LoginWork
         /\ op = "assign" => req[r] \in AssignWork
         /\ op \in {"reset", "remove", "mfaSetup", "mfaActivate", "mfaDisable"}
              => req[r] \in UserWork
  <1>1. req[r] \in Work \union {Idle} /\ req[r].op = op /\ req[r].pc = pc
    BY DEF TypeOK, At
  <1>2. req[r] # Idle
    BY <1>1 DEF Idle
  <1>3. PICK w : w = req[r]
    OBVIOUS
  <1>4. w \in Work /\ w.op = op
    BY <1>1, <1>2, <1>3
  <1>5. /\ w \in RefreshWork => w.op = "refresh"
        /\ w \in RegisterWork => w.op = "register"
        /\ w \in LoginWork => w.op = "login"
        /\ w \in AssignWork => w.op = "assign"
        /\ w \in UserWork => w.op \in {"reset", "remove", "mfaSetup", "mfaActivate", "mfaDisable"}
    BY DEF RefreshWork, RegisterWork, LoginWork, AssignWork, UserWork
  <1> QED
    BY <1>1, <1>3, <1>4, <1>5 DEF Work

LEMMA NextStep ==
  ASSUME NEW w \in Work, NEW pc \in Steps, NEW v, v = [w EXCEPT !.pc = pc]
  PROVE  /\ v \in Work /\ v.op = w.op /\ v.pc = pc
         /\ w.op = "refresh" => v.token = w.token
         /\ w.op # "refresh" => v.user = w.user
         /\ w.op = "login" => v.password = w.password /\ v.seen = w.seen /\ v.ip = w.ip
  <1>1. CASE w \in RefreshWork
    BY <1>1 DEF Work, RefreshWork
  <1>2. CASE w \in RegisterWork
    BY <1>2 DEF Work, RegisterWork
  <1>3. CASE w \in LoginWork
    BY <1>3 DEF Work, LoginWork
  <1>4. CASE w \in AssignWork
    BY <1>4 DEF Work, AssignWork
  <1>5. CASE w \in UserWork
    BY <1>5 DEF Work, UserWork
  <1> QED
    BY <1>1, <1>2, <1>3, <1>4, <1>5 DEF Work

(* A request goes on, but not to replace a token. *)
LEMMA GoingOn ==
  ASSUME SessionInv, NEW r \in Requests, req[r] \in Work, NEW pc \in Steps, Goto(r, pc),
         req[r].op # "refresh" \/ pc # "issue"
  PROVE  RequestsMove
  <1>1. PICK v : v = [req[r] EXCEPT !.pc = pc]
    OBVIOUS
  <1>2. /\ v \in Work /\ v.op = req[r].op /\ v.pc = pc
        /\ req[r].op = "refresh" => v.token = req[r].token
    BY <1>1, NextStep
  <1>3. Harmless(v)
    BY <1>2 DEF Harmless, SessionInv, TokensKnown
  <1>4. req' = [req EXCEPT ![r] = v]
    BY <1>1 DEF Goto
  <1> QED
    BY <1>2, <1>3, <1>4, OneRequestMoves DEF SessionInv

(* A request begins. *)
LEMMA Beginning ==
  ASSUME TypeOK, NEW r \in Requests, NEW w \in Work, Begin(r, w), Harmless(w)
  PROVE  RequestsMove
  BY OneRequestMoves DEF Begin

-----------------------------------------------------------------------------
(* A new token: of a login that has none, nor is about to get another.     *)

LEMMA IssuedTokens ==
  ASSUME TypeOK, NEW u \in Users, NEW family \in Nat, NEW password \in Nat,
         NEW jwt \in Nat, tokens' = Issued(u, family, password, jwt)
  PROVE  /\ tokens' \in Seq(TokenRow)
         /\ DOMAIN tokens' = 1 .. Len(tokens) + 1
         /\ \A t \in DOMAIN tokens :
               /\ t \in 1 .. Len(tokens) /\ t # Len(tokens) + 1
               /\ tokens'[t].family = tokens[t].family
               /\ tokens'[t].user = tokens[t].user
               /\ tokens'[t].password = tokens[t].password
               /\ tokens'[t].jwt = tokens[t].jwt
               /\ tokens'[t].now = tokens[t].now
               /\ tokens'[t].stored => tokens[t].stored
         /\ tokens'[Len(tokens) + 1].family = family
         /\ tokens'[Len(tokens) + 1].user = u
         /\ tokens'[Len(tokens) + 1].password = password
         /\ tokens'[Len(tokens) + 1].jwt = jwt
         /\ tokens'[Len(tokens) + 1].now
         /\ tokens'[Len(tokens) + 1].stored
  <1>1. tokens \in Seq(TokenRow) /\ DOMAIN tokens = 1 .. Len(tokens) /\ Len(tokens) \in Nat
    BY LenProperties DEF TypeOK
  <1>2. PICK old : old = [ t \in DOMAIN tokens |->
                             IF tokens[t].user = u /\ tokens[t].expired
                             THEN [tokens[t] EXCEPT !.stored = FALSE] ELSE tokens[t] ]
    OBVIOUS
  <1>3. PICK row : row = [ user |-> u, family |-> family, password |-> password,
                           jwt |-> jwt, stored |-> TRUE, now |-> TRUE, expired |-> FALSE ]
    OBVIOUS
  <1>4. tokens' = Append(old, row)
    BY <1>2, <1>3 DEF Issued
  <1>5. ASSUME NEW t \in DOMAIN tokens
        PROVE  /\ old[t] \in TokenRow
               /\ old[t].family = tokens[t].family
               /\ old[t].user = tokens[t].user
               /\ old[t].password = tokens[t].password
               /\ old[t].jwt = tokens[t].jwt
               /\ old[t].now = tokens[t].now
               /\ old[t].stored => tokens[t].stored
    <2>1. tokens[t] \in TokenRow
      BY <1>1, ElementOfSeq
    <2>2. old[t] = tokens[t] \/ old[t] = [tokens[t] EXCEPT !.stored = FALSE]
      BY <1>2
    <2> QED
      BY <2>1, <2>2 DEF TokenRow
  <1>6. DOMAIN old = 1 .. Len(tokens) /\ old = [t \in 1 .. Len(tokens) |-> old[t]]
    BY <1>1, <1>2
  <1>7. old \in [1 .. Len(tokens) -> TokenRow]
    BY <1>1, <1>5, <1>6
  <1>8. old \in Seq(TokenRow)
    BY <1>1, <1>7, SeqDef
  <1>9. Len(old) = Len(tokens)
    BY <1>1, <1>6, <1>8, LenProperties
  <1>10. /\ row \in TokenRow /\ row.family = family /\ row.user = u /\ row.password = password
         /\ row.jwt = jwt /\ row.now /\ row.stored
    BY <1>3 DEF TokenRow
  <1>11. /\ tokens' \in Seq(TokenRow) /\ Len(tokens') = Len(tokens) + 1
         /\ \A t \in 1 .. Len(tokens) : tokens'[t] = old[t]
         /\ tokens'[Len(tokens) + 1] = row
    BY <1>4, <1>8, <1>9, <1>10, AppendProperties
  <1>12. DOMAIN tokens' = 1 .. Len(tokens) + 1
    BY <1>11, LenProperties
  <1> QED
    BY <1>1, <1>5, <1>10, <1>11, <1>12

(* The token opens a login, or follows the one the request has given up. *)
Entitled(r, u, family, password) ==
    \/ family \notin Logins
    \/ /\ Rotating(req[r])
       /\ \E old : /\ old = tokens[req[r].token] /\ family = old.family
                   /\ u = old.user /\ password = old.password

(* What is signed: a new string, or one of this second. *)
LEMMA SignedStrings ==
  ASSUME SessionInv, NEW u, NEW jwt \in Signed(u)
  PROVE  /\ jwt \in 1 .. Len(tokens) + 1
         /\ jwt \in Strings => <<jwt, u>> \in Recent
  <1>1. Len(tokens) \in Nat /\ DOMAIN tokens = 1 .. Len(tokens)
    BY LenProperties DEF SessionInv, TypeOK
  <1>2. \A string \in Strings : string \in 1 .. Len(tokens)
    BY <1>1 DEF SessionInv, StringsAreRows, Strings
  <1> QED
    BY <1>1, <1>2 DEF Signed, SignedNow

LEMMA Issuing ==
  ASSUME SessionInv, NEW r \in Requests, NEW w \in Work \union {Idle}, Harmless(w),
         req' = [req EXCEPT ![r] = w], UsersTyped,
         NEW u \in Users, NEW family \in 1 .. Len(tokens) + 1, NEW password \in Nat,
         NEW jwt \in Signed(u), Holding(jwt) = {}, tokens' = Issued(u, family, password, jwt),
         \A t \in DOMAIN tokens : tokens[t].stored => tokens[t].family # family,
         \A s \in Requests \ {r} :
            Rotating(req[s]) => tokens[req[s].token].family # family,
         Entitled(r, u, family, password)
  PROVE  Continues
  <1>1. Len(tokens) \in Nat /\ DOMAIN tokens = 1 .. Len(tokens)
    BY LenProperties DEF SessionInv, TypeOK
  <1>2. PICK new \in Nat : new = Len(tokens) + 1
    BY <1>1
  <1>0. jwt \in 1 .. new /\ jwt \in Nat /\ (jwt \in Strings => <<jwt, u>> \in Recent)
    BY <1>1, <1>2, SignedStrings
  <1>3. /\ tokens' \in Seq(TokenRow)
        /\ DOMAIN tokens' = 1 .. new
        /\ \A t \in DOMAIN tokens :
              /\ t # new
              /\ tokens'[t].family = tokens[t].family
              /\ tokens'[t].jwt = tokens[t].jwt
              /\ tokens'[t].stored => tokens[t].stored
        /\ tokens'[new].family = family /\ tokens'[new].jwt = jwt
    BY <1>0, <1>1, <1>2, IssuedTokens DEF SessionInv
  <1>4. DOMAIN tokens' = DOMAIN tokens \union {new} /\ family \in 1 .. new
    BY <1>1, <1>2, <1>3
  <1>5. ASSUME NEW s \in Requests
        PROVE  \/ s # r /\ req'[s] = req[s]
               \/ s = r /\ req'[s] = w
    BY DEF SessionInv, TypeOK
  <1>6. TypeOK'
    BY <1>3 DEF SessionInv, TypeOK, UsersTyped
  <1>7. TokensKnown'
    BY <1>4, <1>5 DEF SessionInv, TokensKnown, Harmless
  <1>8. FamiliesAreOld' /\ StringsAreRows'
    <2>1. \A t \in DOMAIN tokens : tokens'[t].family \in 1 .. t /\ tokens'[t].jwt \in 1 .. t
      BY <1>3 DEF SessionInv, FamiliesAreOld, StringsAreRows
    <2>2. tokens'[new].family \in 1 .. new /\ tokens'[new].jwt \in 1 .. new
      BY <1>0, <1>3, <1>4
    <2>3. \A t \in DOMAIN tokens' :
             tokens'[t].family \in 1 .. t /\ tokens'[t].jwt \in 1 .. t
      BY <1>4, <2>1, <2>2
    <2> QED
      BY <2>3 DEF FamiliesAreOld, StringsAreRows
  <1>9. OneTokenPerLogin'
    <2> SUFFICES ASSUME NEW t \in DOMAIN tokens', NEW v \in DOMAIN tokens',
                        tokens'[t].stored, tokens'[v].stored,
                        tokens'[t].family = tokens'[v].family
                 PROVE  t = v
      BY DEF OneTokenPerLogin
    <2>1. CASE t \in DOMAIN tokens /\ v \in DOMAIN tokens
      BY <1>3, <2>1 DEF SessionInv, OneTokenPerLogin
    <2>2. ASSUME NEW x \in DOMAIN tokens
          PROVE  ~ (tokens'[x].stored /\ tokens'[x].family = tokens'[new].family)
      BY <1>3
    <2>3. CASE t = new \/ v = new
      BY <1>4, <2>2, <2>3, Zenon
    <2> QED
      BY <1>4, <2>1, <2>3
  <1>10. ASSUME NEW s \in Requests, Rotating(req'[s])
         PROVE  /\ s # r /\ req'[s] = req[s] /\ Rotating(req[s])
                /\ req[s].token \in DOMAIN tokens
                /\ tokens'[req[s].token].family = tokens[req[s].token].family
                /\ tokens[req[s].token].family # family
    BY <1>3, <1>5, <1>10 DEF SessionInv, TokensKnown, Harmless, Rotating
  <1>11. RotatedIsGone'
    <2> SUFFICES ASSUME NEW s \in Requests, Rotating(req'[s]), NEW t \in DOMAIN tokens',
                        tokens'[t].stored
                 PROVE  tokens'[t].family # tokens'[req'[s].token].family
      BY DEF RotatedIsGone
    <2>1. CASE t = new
      BY <1>3, <1>10, <2>1
    <2>2. CASE t \in DOMAIN tokens
      BY <1>3, <1>10, <2>2 DEF SessionInv, RotatedIsGone
    <2> QED
      BY <1>4, <2>1, <2>2
  <1>12. RotatedOnce'
    BY <1>10 DEF SessionInv, RotatedOnce
  <1>13. /\ HandsOut(new, family)
         /\ tokens'[new].user = u /\ tokens'[new].password = password
    <2>0. TypeOK /\ family \in Nat
      BY <1>1 DEF SessionInv
    <2>1. \A t \in DOMAIN tokens :
               /\ tokens'[t].user = tokens[t].user
               /\ tokens'[t].password = tokens[t].password
               /\ tokens'[t].now = tokens[t].now
      BY <1>0, <2>0, IssuedTokens
    <2>2. /\ tokens'[new].stored /\ tokens'[new].now
          /\ tokens'[new].user = u /\ tokens'[new].password = password
      BY <1>0, <1>2, <2>0, IssuedTokens
    <2> QED
      BY <1>0, <1>3, <1>4, <2>1, <2>2 DEF HandsOut, RowsStay, NowStays
  <1>14. ChainStep
    <2>1. CASE family \notin Logins
      BY <1>10, <1>13, <2>1, LoginOpens
    <2>2. ASSUME Rotating(req[r]), NEW old, old = tokens[req[r].token], family = old.family,
                 u = old.user, password = old.password
          PROVE  ChainStep
      <3>1. \A s \in Requests : Rotating(req'[s]) => s # r /\ req'[s] = req[s]
        BY <1>10
      <3>2. /\ HandsOut(new, old.family)
            /\ tokens'[new].user = old.user /\ tokens'[new].password = old.password
        BY <1>13, <2>2
      <3> QED
        BY <2>2, <3>1, <3>2, RightIsHandedOut
    <2> QED
      BY <2>1, <2>2 DEF Entitled
  <1> QED
    BY <1>6, <1>7, <1>8, <1>9, <1>11, <1>12, <1>14 DEF SessionInv, Continues

(* The create may also fail, and leave the tokens as they are. *)
LEMMA IssuingOrFailing ==
  ASSUME SessionInv, NEW r \in Requests, NEW w \in Work \union {Idle}, Harmless(w),
         req' = [req EXCEPT ![r] = w], UsersTyped,
         NEW u \in Users, NEW family \in 1 .. Len(tokens) + 1, NEW password \in Nat,
         Issue(u, family, password),
         \A t \in DOMAIN tokens : tokens[t].stored => tokens[t].family # family,
         \A s \in Requests \ {r} :
            Rotating(req[s]) => tokens[req[s].token].family # family,
         Entitled(r, u, family, password)
  PROVE  Continues
  <1>1. CASE UNCHANGED tokens
    <2>1. RequestsMove /\ TokensOnlyGo /\ NowStays
      BY <1>1, OneRequestMoves, KeepingTokens DEF SessionInv
    <2> QED
      BY <2>1, NoNewHolder
  <1>2. ASSUME NEW jwt \in Signed(u), Holding(jwt) = {},
               tokens' = Issued(u, family, password, jwt)
        PROVE  Continues
    BY <1>2, Issuing
  <1> QED
    BY <1>1, <1>2 DEF Issue

(* A login opens a family of its own, the number of its first token.       *)
LEMMA NewFamily ==
  ASSUME SessionInv
  PROVE  /\ Len(tokens) + 1 \in 1 .. Len(tokens) + 1
         /\ Len(tokens) + 1 \notin Logins
         /\ \A t \in DOMAIN tokens : tokens[t].family # Len(tokens) + 1
         /\ \A s \in Requests :
              Rotating(req[s]) => tokens[req[s].token].family # Len(tokens) + 1
  <1>1. Len(tokens) \in Nat /\ DOMAIN tokens = 1 .. Len(tokens)
    BY LenProperties DEF SessionInv, TypeOK
  <1>2. \A t \in DOMAIN tokens : tokens[t].family # Len(tokens) + 1
    BY <1>1 DEF SessionInv, FamiliesAreOld
  <1> QED
    BY <1>1, <1>2 DEF SessionInv, TokensKnown, Rotating, Logins

-----------------------------------------------------------------------------
(* The handlers.                                                           *)

LEMMA RowOf ==
  ASSUME TypeOK, NEW u \in Users
  PROVE  users[u] \in UserRow
  BY DEF TypeOK

LEMMA Locking ==
  ASSUME TypeOK, NEW u \in Users \union {None}, LockIfUser(u)
  PROVE  UsersTyped
  <1>1. CASE UNCHANGED users
    BY <1>1, KeepingUsers
  <1>2. CASE u # None /\ SetUser(u, [users[u] EXCEPT !.locked = TRUE])
    <2>1. u \in Users
      BY <1>2
    <2>2. [users[u] EXCEPT !.locked = TRUE] \in UserRow
      BY <2>1, RowOf DEF UserRow
    <2> QED
      BY <1>2, <2>1, <2>2, SettingUser
  <1> QED
    BY <1>1, <1>2 DEF LockIfUser

LEMMA TokenUser ==
  ASSUME SessionInv, NEW t \in DOMAIN tokens
  PROVE  /\ tokens[t] \in TokenRow /\ tokens[t].user \in Users
         /\ tokens[t].password \in Nat /\ tokens[t].family \in 1 .. Len(tokens) + 1
         /\ t \in Nat
  <1>1. tokens \in Seq(TokenRow) /\ DOMAIN tokens = 1 .. Len(tokens) /\ Len(tokens) \in Nat
    BY LenProperties DEF SessionInv, TypeOK
  <1>2. tokens[t] \in TokenRow
    BY <1>1, ElementOfSeq
  <1>3. tokens[t].family \in 1 .. t
    BY DEF SessionInv, FamiliesAreOld
  <1> QED
    BY <1>1, <1>2, <1>3 DEF TokenRow

LEMMA StringsHaveRows ==
  ASSUME SessionInv
  PROVE  \A jwt \in Strings : jwt \in DOMAIN tokens
  <1>1. DOMAIN tokens = 1 .. Len(tokens) /\ Len(tokens) \in Nat
    BY LenProperties DEF SessionInv, TypeOK
  <1> QED
    BY <1>1 DEF SessionInv, StringsAreRows, Strings

(* A step of one request that leaves the users and the tokens. *)
LEMMA OnlyRequests ==
  ASSUME SessionInv, RequestsMove, UNCHANGED <<users, tokens>>
  PROVE  Continues
  BY NoNewHolder, KeepingTokens, KeepingUsers DEF SessionInv

LEMMA RegistrationKeeps ==
  ASSUME SessionInv, NEW r \in Requests, Registration(r)
  PROVE  Continues
  <1> USE DEF Steps
  <1>0. TypeOK
    BY DEF SessionInv
  <1>1. ASSUME NEW u \in Users, NEW role \in Roles, NEW ip \in Addresses, Register(r, u, role, ip)
        PROVE  Continues
    <2>1. PICK w : w = [ op |-> "register", pc |-> "create", user |-> u, roles |-> {role}, ip |-> ip ]
      OBVIOUS
    <2>2. w \in Work /\ Harmless(w)
      BY <2>1 DEF Work, RegisterWork, Harmless
    <2>3. Begin(r, w) /\ UNCHANGED <<users, tokens>>
      BY <1>1, <2>1 DEF Register
    <2> QED
      BY <1>0, <2>2, <2>3, Beginning, OnlyRequests
  <1>2. CASE RegisterCreate(r)
    <2>1. req[r] \in RegisterWork /\ req[r] \in Work /\ req[r].op = "register"
      BY <1>0, <1>2, WorkAt DEF RegisterCreate
    <2>2. PICK u : u = req[r].user
      OBVIOUS
    <2>3. u \in Users /\ req[r].roles \subseteq Roles
      BY <2>1, <2>2 DEF RegisterWork
    <2>4. NewUser(req[r].roles) \in UserRow
      BY <2>3 DEF NewUser, NoUser, UserRow
    <2>5. UNCHANGED tokens
      BY <1>2 DEF RegisterCreate
    <2>6. RequestsMove /\ UsersTyped
      <3>1. CASE Finish(r) /\ UNCHANGED users
        BY <1>0, <3>1, Finishing, KeepingUsers
      <3>2. CASE SetUser(u, NewUser(req[r].roles)) /\ Goto(r, "issue")
        BY <1>0, <2>1, <2>3, <2>4, <3>2, GoingOn, SettingUser
      <3> QED
        BY <1>2, <2>2, <3>1, <3>2 DEF RegisterCreate
    <2> QED
      BY <1>0, <2>5, <2>6, KeepingTokens, NoNewHolder
  <1>3. CASE RegisterIssue(r)
    <2>1. req[r] \in RegisterWork /\ req[r] \in Work /\ req[r].op = "register"
      BY <1>0, <1>3, WorkAt DEF RegisterIssue
    <2>2. req[r].user \in Users
      BY <2>1 DEF RegisterWork
    <2>3. PICK w : w = IF Created THEN [req[r] EXCEPT !.pc = "clear"] ELSE Idle
      OBVIOUS
    <2>4. w = Idle \/ (w \in Work /\ w.op = "register")
      BY <2>1, <2>3, NextStep
    <2>5. req' = [req EXCEPT ![r] = w] /\ Harmless(w) /\ w \in Work \union {Idle}
      BY <1>3, <2>3, <2>4 DEF RegisterIssue, Goto, Finish, Harmless, Idle
    <2>6. Issue(req[r].user, Len(tokens) + 1, 0) /\ UsersTyped
      BY <1>0, <1>3, KeepingUsers DEF RegisterIssue
    <2> QED
      BY <2>2, <2>5, <2>6, NewFamily, IssuingOrFailing DEF Entitled
  <1>4. CASE RegisterClear(r)
    BY <1>0, <1>4, Finishing, OnlyRequests DEF RegisterClear
  <1> QED
    BY <1>1, <1>2, <1>3, <1>4 DEF Registration

LEMMA LoginsKeep ==
  ASSUME SessionInv, NEW r \in Requests, LoginRequests(r)
  PROVE  Continues
  <1> USE DEF Steps
  <1>0. TypeOK
    BY DEF SessionInv
  <1>1. ASSUME NEW u \in Users, NEW ip \in Addresses, NEW password \in 0 .. MaxPasswords - 1,
               Login(r, u, ip, password)
        PROVE  Continues
    <2>1. PICK w : w = [ op |-> "login", pc |-> "count", user |-> u, ip |-> ip,
                         password |-> password, seen |-> users[u] ]
      OBVIOUS
    <2>2. password \in Nat /\ users[u] \in UserRow
      BY <1>0, PasswordsAreNumbered, RowOf
    <2>3. w \in Work /\ Harmless(w)
      BY <2>1, <2>2 DEF Work, LoginWork, Harmless
    <2>4. Begin(r, w) /\ UNCHANGED <<users, tokens>>
      BY <1>1, <2>1 DEF Login
    <2> QED
      BY <1>0, <2>3, <2>4, Beginning, OnlyRequests
  <1>2. ASSUME NEW pc, At(r, "login", pc)
        PROVE  /\ req[r] \in Work /\ req[r].op = "login"
               /\ req[r].user \in Users /\ req[r].password \in Nat
               /\ Known(r) \in Users \union {None}
    <2>1. req[r] \in LoginWork /\ req[r] \in Work /\ req[r].op = "login"
      BY <1>0, <1>2, WorkAt
    <2> QED
      BY <2>1 DEF LoginWork, Known
  <1>3. CASE LoginCount(r)
    <2>1. UNCHANGED tokens
      BY <1>3 DEF LoginCount
    <2>2. RequestsMove
      <3>1. CASE Finish(r)
        BY <1>0, <3>1, Finishing
      <3>2. CASE Goto(r, "record")
        BY <1>2, <1>3, <3>2, GoingOn DEF LoginCount
      <3>3. CASE Goto(r, "clear")
        BY <1>2, <1>3, <3>3, GoingOn DEF LoginCount
      <3> QED
        BY <1>3, <3>1, <3>2, <3>3 DEF LoginCount
    <2>3. UsersTyped
      <3>1. LockIfUser(Known(r)) \/ UNCHANGED users
        BY <1>3 DEF LoginCount
      <3> QED
        BY <1>0, <1>2, <1>3, <3>1, Locking, KeepingUsers DEF LoginCount
    <2> QED
      BY <1>0, <2>1, <2>2, <2>3, KeepingTokens, NoNewHolder
  <1>4. CASE LoginRecord(r)
    <2>1. UNCHANGED <<users, tokens>>
      BY <1>4 DEF LoginRecord
    <2>2. CASE Finish(r)
      BY <1>0, <2>1, <2>2, Finishing, OnlyRequests
    <2>3. CASE Goto(r, "recount")
      BY <1>2, <1>4, <2>1, <2>3, GoingOn, OnlyRequests DEF LoginRecord
    <2> QED
      BY <1>4, <2>2, <2>3 DEF LoginRecord
  <1>5. CASE LoginRecount(r)
    <2>1. UNCHANGED tokens /\ Finish(r) /\ (LockIfUser(req[r].user) \/ UNCHANGED users)
      BY <1>5 DEF LoginRecount
    <2>2. UsersTyped
      BY <1>0, <1>2, <1>5, <2>1, Locking, KeepingUsers DEF LoginRecount
    <2> QED
      BY <1>0, <2>1, <2>2, Finishing, KeepingTokens, NoNewHolder
  <1>6. CASE LoginClear(r)
    <2>1. UNCHANGED <<users, tokens>>
      BY <1>6 DEF LoginClear
    <2>2. CASE Finish(r)
      BY <1>0, <2>1, <2>2, Finishing, OnlyRequests
    <2>3. ASSUME NEW pc \in Steps, Goto(r, pc)
          PROVE  Continues
      BY <1>2, <1>6, <2>1, <2>3, GoingOn, OnlyRequests DEF LoginClear
    <2> QED
      BY <1>6, <2>2, <2>3 DEF LoginClear, AfterClear
  <1>7. CASE LoginUnlock(r)
    <2>1. UNCHANGED tokens /\ req[r].user \in Users
      BY <1>2, <1>7 DEF LoginUnlock
    <2>2. [users[req[r].user] EXCEPT !.locked = FALSE] \in UserRow
      BY <1>0, <2>1, RowOf DEF UserRow
    <2>3. UsersTyped
      BY <1>0, <1>7, <2>1, <2>2, SettingUser DEF LoginUnlock
    <2>4. CASE Finish(r)
      BY <1>0, <2>1, <2>3, <2>4, Finishing, KeepingTokens, NoNewHolder
    <2>5. ASSUME NEW pc \in Steps, Goto(r, pc)
          PROVE  Continues
      BY <1>0, <1>2, <1>7, <2>1, <2>3, <2>5, GoingOn, KeepingTokens, NoNewHolder DEF LoginUnlock
    <2> QED
      BY <1>7, <2>4, <2>5 DEF LoginUnlock, AfterClear
  <1>8. CASE LoginIssue(r)
    <2>1. req[r].user \in Users /\ req[r].password \in Nat
      BY <1>2, <1>8 DEF LoginIssue
    <2>2. req' = [req EXCEPT ![r] = Idle] /\ Harmless(Idle) /\ Idle \in Work \union {Idle}
      BY <1>8 DEF LoginIssue, Finish, Harmless, Idle
    <2>3. Issue(req[r].user, Len(tokens) + 1, req[r].password) /\ UsersTyped
      BY <1>0, <1>8, KeepingUsers DEF LoginIssue
    <2> QED
      BY <2>1, <2>2, <2>3, NewFamily, IssuingOrFailing DEF Entitled
  <1> QED
    BY <1>1, <1>3, <1>4, <1>5, <1>6, <1>7, <1>8 DEF LoginRequests

(* The delete by id lets one request pass, and its login has no token left. *)
LEMMA Rotation ==
  ASSUME SessionInv, NEW r \in Requests, At(r, "refresh", "delete"),
         tokens[req[r].token].stored, Delete({req[r].token}), Goto(r, "issue"),
         UNCHANGED users
  PROVE  Continues
  <1>1. TypeOK
    BY DEF SessionInv
  <1>2. PICK t : t = req[r].token
    OBVIOUS
  <1>3. req[r] \in Work /\ req[r].op = "refresh" /\ req[r].pc = "delete"
    BY <1>1, WorkAt
  <1>4. t \in DOMAIN tokens /\ tokens[t].stored
    BY <1>2, <1>3 DEF SessionInv, TokensKnown
  <1>5. TokensOnlyGo /\ NowStays
    BY <1>1, DeletingTokens
  <1>6. ~tokens'[t].stored
    <2>1. tokens[t] \in TokenRow
      BY <1>4, TokenUser
    <2>2. tokens'[t] = [tokens[t] EXCEPT !.stored = FALSE]
      BY <1>2, <1>4 DEF Delete
    <2> QED
      BY <2>1, <2>2 DEF TokenRow
  <1>7. PICK w : w = [req[r] EXCEPT !.pc = "issue"]
    OBVIOUS
  <1>8. w \in Work /\ w.op = "refresh" /\ w.token = t /\ w.pc = "issue"
    BY <1>2, <1>3, <1>7, NextStep DEF Steps
  <1>9. req' = [req EXCEPT ![r] = w]
    BY <1>7 DEF Goto
  <1>10. \A s \in Requests : req'[s] = IF s = r THEN w ELSE req[s]
    BY <1>1, <1>9 DEF TypeOK
  <1>11. TypeOK'
    BY <1>1, <1>5, <1>8, <1>9 DEF TypeOK, TokensOnlyGo
  <1>12. TokensKnown'
    BY <1>4, <1>5, <1>8, <1>10 DEF SessionInv, TokensKnown, TokensOnlyGo
  <1>13. FamiliesAreOld' /\ StringsAreRows' /\ OneTokenPerLogin'
    BY <1>5 DEF SessionInv, FamiliesAreOld, StringsAreRows, OneTokenPerLogin, TokensOnlyGo
  <1>14. \A v \in DOMAIN tokens : v # t /\ tokens[v].stored => tokens[v].family # tokens[t].family
    BY <1>4 DEF SessionInv, OneTokenPerLogin
  <1>15. ASSUME NEW s \in Requests, s # r, Rotating(req'[s])
         PROVE  /\ req'[s] = req[s] /\ Rotating(req[s]) /\ req[s].token \in DOMAIN tokens
                /\ tokens[req[s].token].family # tokens[t].family
    BY <1>4, <1>10, <1>15 DEF SessionInv, TokensKnown, RotatedIsGone, Rotating
  <1>16. RotatedIsGone'
    <2> SUFFICES ASSUME NEW s \in Requests, Rotating(req'[s]), NEW v \in DOMAIN tokens',
                        tokens'[v].stored
                 PROVE  tokens'[v].family # tokens'[req'[s].token].family
      BY DEF RotatedIsGone
    <2>1. v \in DOMAIN tokens /\ tokens[v].stored /\ tokens'[v].family = tokens[v].family /\ v # t
      BY <1>5, <1>6 DEF TokensOnlyGo
    <2>2. CASE s = r
      BY <1>4, <1>5, <1>8, <1>10, <1>14, <2>1, <2>2 DEF TokensOnlyGo
    <2>3. CASE s # r
      BY <1>5, <1>15, <2>1, <2>3 DEF SessionInv, RotatedIsGone, TokensOnlyGo
    <2> QED
      BY <2>2, <2>3
  <1>17. RotatedOnce'
    <2> SUFFICES ASSUME NEW s \in Requests, NEW q \in Requests,
                        Rotating(req'[s]), Rotating(req'[q]),
                        tokens'[req'[s].token].family = tokens'[req'[q].token].family
                 PROVE  s = q
      BY DEF RotatedOnce
    <2>1. CASE s = r \/ q = r
      BY <1>4, <1>5, <1>8, <1>10, <1>15, <2>1 DEF TokensOnlyGo
    <2>2. CASE s # r /\ q # r
      BY <1>5, <1>15, <2>2 DEF SessionInv, RotatedOnce, TokensOnlyGo
    <2> QED
      BY <2>1, <2>2
  <1>18. ChainStep
    <2>1. RowsStay /\ DOMAIN tokens' = DOMAIN tokens
      BY <1>5 DEF RowsStay, TokensOnlyGo
    <2>2. Rotating(req'[r]) /\ req'[r].token = t
      BY <1>8, <1>10 DEF Rotating
    <2> QED
      BY <1>4, <1>5, <1>6, <1>15, <2>1, <2>2, RightIsGivenUp
  <1> QED
    BY <1>11, <1>12, <1>13, <1>16, <1>17, <1>18 DEF SessionInv, Continues

LEMMA RefreshesKeep ==
  ASSUME SessionInv, NEW r \in Requests, RefreshRequests(r)
  PROVE  Continues
  <1> USE DEF Steps
  <1>0. TypeOK
    BY DEF SessionInv
  <1>1. ASSUME NEW t \in Strings, Refresh(r, t)
        PROVE  Continues
    <2>0. t \in DOMAIN tokens
      BY StringsHaveRows
    <2>1. PICK w : w = [op |-> "refresh", pc |-> "find", token |-> t]
      OBVIOUS
    <2>2. w \in Work /\ Harmless(w)
      BY <2>0, <2>1, TokenUser DEF Work, RefreshWork, Harmless
    <2>3. Begin(r, w) /\ UNCHANGED <<users, tokens>>
      BY <1>1, <2>1 DEF Refresh
    <2> QED
      BY <1>0, <2>2, <2>3, Beginning, OnlyRequests
  <1>2. ASSUME NEW pc, At(r, "refresh", pc)
        PROVE  /\ req[r] \in Work /\ req[r].op = "refresh" /\ req[r].pc = pc
               /\ req[r].token \in DOMAIN tokens
               /\ tokens[req[r].token].user \in Users
    <2>1. req[r] \in Work /\ req[r].op = "refresh" /\ req[r].pc = pc
      BY <1>0, <1>2, WorkAt
    <2>2. req[r].token \in DOMAIN tokens
      BY <2>1 DEF SessionInv, TokensKnown
    <2> QED
      BY <2>1, <2>2, TokenUser
  <1>3. ASSUME NEW pc \in Steps, pc # "issue", req[r] \in Work, Goto(r, pc)
        PROVE  RequestsMove
    BY <1>3, GoingOn
  <1>4. CASE RefreshFind(r)
    <2>1. CASE Goto(r, "missing")
      BY <1>2, <1>3, <1>4, <2>1, OnlyRequests DEF RefreshFind
    <2>2. ASSUME NEW t \in DOMAIN tokens, NEW pc \in {"expired", "delete"},
                 req' = [req EXCEPT ![r].token = t, ![r].pc = pc]
          PROVE  Continues
      <3>1. PICK w : w = [req[r] EXCEPT !.token = t, !.pc = pc]
        OBVIOUS
      <3>2. req[r] \in RefreshWork /\ t \in Nat
        BY <1>0, <1>4, WorkAt, TokenUser DEF RefreshFind
      <3>3. w \in Work /\ Harmless(w)
        BY <3>1, <3>2 DEF Work, RefreshWork, Harmless
      <3>4. req' = [req EXCEPT ![r] = w]
        BY <1>0, <2>2, <3>1 DEF TypeOK
      <3>5. RequestsMove
        BY <1>0, <3>3, <3>4, OneRequestMoves
      <3> QED
        BY <1>4, <3>5, OnlyRequests DEF RefreshFind
    <2> QED
      BY <1>4, <2>1, <2>2 DEF RefreshFind, Holding
  <1>5. CASE RefreshMissing(r)
    <2>1. CASE Finish(r)
      BY <1>0, <1>5, <2>1, Finishing, OnlyRequests DEF RefreshMissing
    <2>2. CASE Goto(r, "revoke")
      BY <1>2, <1>3, <1>5, <2>2, OnlyRequests DEF RefreshMissing
    <2> QED
      BY <1>5, <2>1, <2>2 DEF RefreshMissing
  <1>6. CASE RefreshRevoke(r)
    <2>1. TokensOnlyGo /\ NowStays /\ UsersTyped
      BY <1>0, <1>6, DeletingTokens, KeepingUsers DEF RefreshRevoke
    <2>2. RequestsMove
      BY <1>2, <1>3, <1>6 DEF RefreshRevoke
    <2> QED
      BY <2>1, <2>2, NoNewHolder
  <1>7. CASE RefreshLock(r)
    <2>1. UsersTyped
      BY <1>0, <1>2, <1>7, Locking DEF RefreshLock
    <2>2. RequestsMove /\ TokensOnlyGo /\ NowStays
      BY <1>0, <1>7, Finishing, KeepingTokens DEF RefreshLock
    <2> QED
      BY <2>1, <2>2, NoNewHolder
  <1>8. CASE RefreshExpired(r)
    <2>1. TokensOnlyGo /\ NowStays /\ UsersTyped /\ RequestsMove
      BY <1>0, <1>8, DeletingTokens, KeepingUsers, Finishing DEF RefreshExpired
    <2> QED
      BY <2>1, NoNewHolder
  <1>9. CASE RefreshDelete(r)
    <2>1. CASE Finish(r) /\ UNCHANGED tokens
      BY <1>0, <1>9, <2>1, Finishing, OnlyRequests DEF RefreshDelete
    <2>2. CASE tokens[req[r].token].stored /\ Delete({req[r].token}) /\ Goto(r, "issue")
      BY <1>9, <2>2, Rotation DEF RefreshDelete
    <2> QED
      BY <1>9, <2>1, <2>2 DEF RefreshDelete
  <1>10. CASE RefreshIssue(r)
    <2>1. PICK t : t = req[r].token
      OBVIOUS
    <2>2. t \in DOMAIN tokens /\ Rotating(req[r])
      BY <1>2, <1>10, <2>1 DEF RefreshIssue, Rotating
    <2>3. PICK old : old = tokens[t]
      OBVIOUS
    <2>4. old.user \in Users /\ old.password \in Nat /\ old.family \in 1 .. Len(tokens) + 1
      BY <2>2, <2>3, TokenUser
    <2>5. Issue(old.user, old.family, old.password) /\ UsersTyped
      BY <1>0, <1>10, <2>1, <2>3, KeepingUsers DEF RefreshIssue
    <2>6. req' = [req EXCEPT ![r] = Idle] /\ Harmless(Idle) /\ Idle \in Work \union {Idle}
      BY <1>10 DEF RefreshIssue, Finish, Harmless, Idle
    <2>7. \A v \in DOMAIN tokens : tokens[v].stored => tokens[v].family # old.family
      BY <2>1, <2>2, <2>3 DEF SessionInv, RotatedIsGone
    <2>8. \A s \in Requests \ {r} :
             Rotating(req[s]) => tokens[req[s].token].family # old.family
      BY <2>1, <2>2, <2>3 DEF SessionInv, RotatedOnce
    <2>9. Entitled(r, old.user, old.family, old.password)
      BY <2>1, <2>2, <2>3 DEF Entitled
    <2> QED
      BY <2>4, <2>5, <2>6, <2>7, <2>8, <2>9, IssuingOrFailing
  <1> QED
    BY <1>1, <1>4, <1>5, <1>6, <1>7, <1>8, <1>9, <1>10 DEF RefreshRequests

LEMMA AccountsKeep ==
  ASSUME SessionInv, NEW r \in Requests, Accounts(r)
  PROVE  Continues
  <1> USE DEF Steps
  <1>0. TypeOK
    BY DEF SessionInv
  <1>1. ASSUME NEW u \in Users, ResetPassword(r, u) \/ Remove(r, u)
        PROVE  Continues
    <2>1. PICK w : /\ w \in { [op |-> "reset", pc |-> "revoke", user |-> u],
                              [op |-> "remove", pc |-> "revoke", user |-> u] }
                   /\ Begin(r, w)
      BY <1>1 DEF ResetPassword, Remove
    <2>2. w \in Work /\ Harmless(w)
      BY <2>1 DEF Work, UserWork, Harmless
    <2>3. UNCHANGED <<users, tokens>>
      BY <1>1 DEF ResetPassword, Remove
    <2> QED
      BY <1>0, <2>1, <2>2, <2>3, Beginning, OnlyRequests
  <1>2. ASSUME NEW op \in {"reset", "remove"}, NEW pc, At(r, op, pc)
        PROVE  req[r] \in Work /\ req[r].op = op /\ req[r].user \in Users
    <2>1. req[r] \in UserWork /\ req[r] \in Work /\ req[r].op = op
      BY <1>0, <1>2, WorkAt
    <2> QED
      BY <2>1 DEF UserWork
  <1>3. CASE RevokeAll(r)
    <2>1. req[r] \in Work /\ req[r].op # "refresh"
      BY <1>2, <1>3 DEF RevokeAll
    <2>2. TokensOnlyGo /\ NowStays /\ UsersTyped /\ RequestsMove
      BY <1>0, <1>3, <2>1, DeletingTokens, KeepingUsers, GoingOn DEF RevokeAll
    <2> QED
      BY <2>2, NoNewHolder
  <1>4. CASE ResetUpdate(r)
    <2>1. PICK u : u = req[r].user
      OBVIOUS
    <2>2. u \in Users /\ users[u] \in UserRow
      BY <1>0, <1>2, <1>4, <2>1, RowOf DEF ResetUpdate
    <2>3. PICK n : n = users[u].password + 1
      OBVIOUS
    <2>4. n \in Nat
      BY <2>2, <2>3 DEF UserRow
    <2>5. [users[u] EXCEPT !.password = n] \in UserRow
      BY <2>2, <2>4 DEF UserRow
    <2>6. UsersTyped
      BY <1>0, <1>4, <2>1, <2>2, <2>3, <2>5, SettingUser DEF ResetUpdate
    <2>7. TokensOnlyGo /\ NowStays /\ RequestsMove
      BY <1>0, <1>4, KeepingTokens, Finishing DEF ResetUpdate
    <2> QED
      BY <2>6, <2>7, NoNewHolder
  <1>5. CASE RemoveUpdate(r)
    <2>1. PICK u : u = req[r].user
      OBVIOUS
    <2>2. u \in Users /\ users[u] \in UserRow
      BY <1>0, <1>2, <1>5, <2>1, RowOf DEF RemoveUpdate
    <2>3. [users[u] EXCEPT !.exists = FALSE, !.removed = TRUE,
                           !.active = FALSE, !.locked = TRUE] \in UserRow
      BY <2>2 DEF UserRow
    <2>4. UsersTyped
      BY <1>0, <1>5, <2>1, <2>2, <2>3, SettingUser DEF RemoveUpdate
    <2>5. TokensOnlyGo /\ NowStays /\ RequestsMove
      BY <1>0, <1>5, KeepingTokens, Finishing DEF RemoveUpdate
    <2> QED
      BY <2>4, <2>5, NoNewHolder
  <1> QED
    BY <1>1, <1>3, <1>4, <1>5 DEF Accounts

LEMMA RolesKeep ==
  ASSUME SessionInv, NEW r \in Requests, RoleRequests(r)
  PROVE  Continues
  <1> USE DEF Steps
  <1>0. TypeOK
    BY DEF SessionInv
  <1>1. ASSUME NEW u \in Users, NEW names, AssignRoles(r, u, names)
        PROVE  Continues
    <2>1. PICK w : w = [ op |-> "assign", pc |-> "delete", user |-> u, roles |-> names \intersect Roles ]
      OBVIOUS
    <2>2. w \in Work /\ Harmless(w)
      BY <2>1 DEF Work, AssignWork, Harmless
    <2>3. Begin(r, w) /\ UNCHANGED <<users, tokens>>
      BY <1>1, <2>1 DEF AssignRoles
    <2> QED
      BY <1>0, <2>2, <2>3, Beginning, OnlyRequests
  <1>2. ASSUME NEW pc, At(r, "assign", pc)
        PROVE  /\ req[r] \in Work /\ req[r].op = "assign" /\ req[r].user \in Users
               /\ req[r].roles \subseteq Roles /\ users[req[r].user] \in UserRow
    <2>1. req[r] \in AssignWork /\ req[r] \in Work /\ req[r].op = "assign"
      BY <1>0, <1>2, WorkAt
    <2> QED
      BY <1>0, <2>1, RowOf DEF AssignWork
  <1>3. CASE AssignDelete(r)
    <2>1. At(r, "assign", "delete") /\ UNCHANGED tokens
      BY <1>3 DEF AssignDelete
    <2>2. [users[req[r].user] EXCEPT !.roles = {}] \in UserRow
      BY <1>2, <2>1 DEF UserRow
    <2>3. UsersTyped
      BY <1>0, <1>2, <1>3, <2>1, <2>2, SettingUser DEF AssignDelete
    <2>4. TokensOnlyGo /\ NowStays /\ RequestsMove
      BY <1>0, <1>2, <1>3, <2>1, KeepingTokens, GoingOn DEF AssignDelete
    <2> QED
      BY <2>3, <2>4, NoNewHolder
  <1>4. CASE AssignCreate(r)
    <2>1. PICK u : u = req[r].user
      OBVIOUS
    <2>2. u \in Users /\ users[u] \in UserRow /\ req[r].roles \subseteq Roles
      BY <1>2, <1>4, <2>1 DEF AssignCreate
    <2>3. PICK roles : roles = users[u].roles \union req[r].roles
      OBVIOUS
    <2>4. roles \subseteq Roles
      BY <2>2, <2>3 DEF UserRow
    <2>5. [users[u] EXCEPT !.roles = roles] \in UserRow
      BY <2>2, <2>4 DEF UserRow
    <2>6. UsersTyped
      BY <1>0, <1>4, <2>1, <2>2, <2>3, <2>5, SettingUser DEF AssignCreate
    <2>7. TokensOnlyGo /\ NowStays /\ RequestsMove
      BY <1>0, <1>4, KeepingTokens, Finishing DEF AssignCreate
    <2> QED
      BY <2>6, <2>7, NoNewHolder
  <1> QED
    BY <1>1, <1>3, <1>4 DEF RoleRequests

LEMMA MfaKeeps ==
  ASSUME SessionInv, NEW r \in Requests, MfaRequests(r)
  PROVE  Continues
  <1> USE DEF Steps
  <1>0. TypeOK
    BY DEF SessionInv
  <1>1. ASSUME NEW u \in Users, NEW code, NEW password,
               MfaSetup(r, u) \/ MfaActivate(r, u, code) \/ MfaDisable(r, u, code, password)
        PROVE  Continues
    <2>1. PICK w : /\ w \in { [op |-> "mfaSetup", pc |-> "store", user |-> u],
                              [op |-> "mfaActivate", pc |-> "enable", user |-> u],
                              [op |-> "mfaDisable", pc |-> "clear", user |-> u] }
                   /\ Begin(r, w)
      BY <1>1 DEF MfaSetup, MfaActivate, MfaDisable
    <2>2. w \in Work /\ Harmless(w)
      BY <2>1 DEF Work, UserWork, Harmless
    <2>3. UNCHANGED <<users, tokens>>
      BY <1>1 DEF MfaSetup, MfaActivate, MfaDisable
    <2> QED
      BY <1>0, <2>1, <2>2, <2>3, Beginning, OnlyRequests
  <1>2. ASSUME NEW op \in {"mfaSetup", "mfaActivate", "mfaDisable"}, NEW pc, At(r, op, pc)
        PROVE  req[r].user \in Users /\ users[req[r].user] \in UserRow
    <2>1. req[r] \in UserWork
      BY <1>0, <1>2, WorkAt
    <2> QED
      BY <1>0, <2>1, RowOf DEF UserWork
  <1>3. CASE MfaStore(r)
    <2>1. PICK u : u = req[r].user
      OBVIOUS
    <2>2. u \in Users /\ users[u] \in UserRow
      BY <1>2, <1>3, <2>1 DEF MfaStore
    <2>3. PICK n : n = users[u].secrets + 1
      OBVIOUS
    <2>4. n \in Nat
      BY <2>2, <2>3 DEF UserRow
    <2>5. [users[u] EXCEPT !.secrets = n, !.mfaSecret = n, !.mfaEnabled = FALSE] \in UserRow
      BY <2>2, <2>4 DEF UserRow
    <2>6. UsersTyped
      BY <1>0, <1>3, <2>1, <2>2, <2>3, <2>5, SettingUser DEF MfaStore
    <2>7. TokensOnlyGo /\ NowStays /\ RequestsMove
      BY <1>0, <1>3, KeepingTokens, Finishing DEF MfaStore
    <2> QED
      BY <2>6, <2>7, NoNewHolder
  <1>4. CASE MfaEnable(r)
    <2>1. req[r].user \in Users /\ users[req[r].user] \in UserRow
      BY <1>2, <1>4 DEF MfaEnable
    <2>2. [users[req[r].user] EXCEPT !.mfaEnabled = TRUE] \in UserRow
      BY <2>1 DEF UserRow
    <2>3. UsersTyped /\ TokensOnlyGo /\ NowStays /\ RequestsMove
      BY <1>0, <1>4, <2>1, <2>2, SettingUser, KeepingTokens, Finishing DEF MfaEnable
    <2> QED
      BY <2>3, NoNewHolder
  <1>5. CASE MfaClear(r)
    <2>1. req[r].user \in Users /\ users[req[r].user] \in UserRow
      BY <1>2, <1>5 DEF MfaClear
    <2>2. [users[req[r].user] EXCEPT !.mfaEnabled = FALSE, !.mfaSecret = 0] \in UserRow
      BY <2>1 DEF UserRow
    <2>3. UsersTyped /\ TokensOnlyGo /\ NowStays /\ RequestsMove
      BY <1>0, <1>5, <2>1, <2>2, SettingUser, KeepingTokens, Finishing DEF MfaClear
    <2> QED
      BY <2>3, NoNewHolder
  <1> QED
    BY <1>1, <1>3, <1>4, <1>5 DEF MfaRequests

(* What is one statement, time and crashes. *)
LEMMA OthersKeep ==
  ASSUME SessionInv,
         \/ \E u \in Users, role \in Roles : CreateUser(u, role)
         \/ \E u \in Users, active \in BOOLEAN : SetActive(u, active)
         \/ \E t \in Strings : Logout(t) \/ TokenExpires(t)
         \/ SecondPasses
         \/ AttemptAges
         \/ Crash
         \/ UNCHANGED sessionVars
  PROVE  Continues
  <1>0. TypeOK
    BY DEF SessionInv
  <1>1. ASSUME NEW u \in Users, NEW role \in Roles, CreateUser(u, role)
        PROVE  Continues
    <2>1. NewUser({role}) \in UserRow
      BY DEF NewUser, NoUser, UserRow
    <2>2. UsersTyped /\ TokensOnlyGo /\ NowStays /\ RequestsMove
      BY <1>0, <1>1, <2>1, SettingUser, KeepingTokens, KeepingRequests DEF CreateUser
    <2> QED
      BY <2>2, NoNewHolder
  <1>2. ASSUME NEW u \in Users, NEW active \in BOOLEAN, SetActive(u, active)
        PROVE  Continues
    <2>1. [users[u] EXCEPT !.active = active] \in UserRow
      BY <1>0, RowOf DEF UserRow
    <2>2. UsersTyped /\ TokensOnlyGo /\ NowStays /\ RequestsMove
      BY <1>0, <1>2, <2>1, SettingUser, KeepingTokens, KeepingRequests DEF SetActive
    <2> QED
      BY <2>2, NoNewHolder
  <1>3. ASSUME NEW t, Logout(t)
        PROVE  Continues
    <2>1. UsersTyped /\ TokensOnlyGo /\ NowStays /\ RequestsMove
      BY <1>0, <1>3, DeletingTokens, KeepingUsers, KeepingRequests DEF Logout
    <2> QED
      BY <2>1, NoNewHolder
  <1>4. ASSUME NEW t, TokenExpires(t)
        PROVE  Continues
    <2>1. UsersTyped /\ TokensOnlyGo /\ NowStays /\ RequestsMove
      BY <1>0, <1>4, ExpiringTokens, KeepingUsers, KeepingRequests DEF TokenExpires
    <2> QED
      BY <2>1, NoNewHolder
  <1>5. CASE Crash
    <2>1. \A r \in Requests : Harmless(Idle)
      BY DEF Harmless, Idle
    <2>2. RequestsMove
      BY <1>5, <2>1 DEF Crash, RequestsMove
    <2> QED
      BY <1>5, <2>2, OnlyRequests DEF Crash
  <1>6. CASE AttemptAges \/ UNCHANGED sessionVars
    <2>1. UNCHANGED <<users, tokens, req>>
      BY <1>6 DEF AttemptAges, sessionVars
    <2> QED
      BY <1>0, <2>1, KeepingRequests, OnlyRequests
  <1> QED
    BY <1>1, <1>2, <1>3, <1>4, <1>5, <1>6, ASecondPasses

-----------------------------------------------------------------------------
(* The theorems.                                                           *)

(* The tokens and the requests at first. *)
LEMMA SessionsStart ==
  ASSUME Init
  PROVE  SessionInv
  <1>1. NoUser \in UserRow
    BY DEF NoUser, UserRow
  <1>2. tokens \in Seq(TokenRow) /\ DOMAIN tokens = {}
    BY EmptySeq, LenProperties DEF Init
  <1>3. TypeOK
    BY <1>1, <1>2 DEF Init, TypeOK
  <1>4. \A r \in Requests : req[r].op # "refresh"
    BY DEF Init, Idle
  <1> QED
    BY <1>2, <1>3, <1>4 DEF SessionInv, TokensKnown, FamiliesAreOld, StringsAreRows,
                            OneTokenPerLogin,
                            RotatedIsGone, RotatedOnce, Rotating

LEMMA SessionsContinue ==
  ASSUME SessionInv, [Next]_sessionVars
  PROVE  Continues
  <1>1. ASSUME NEW r \in Requests, Handle(r)
        PROVE  Continues
    BY <1>1, RegistrationKeeps, AccountsKeep, RolesKeep, LoginsKeep, RefreshesKeep, MfaKeeps
       DEF Handle
  <1> QED
    BY <1>1, OthersKeep DEF Next

LEMMA SessionInvHolds == Spec => []SessionInv
  <1>1. SessionInv /\ [Next]_sessionVars => SessionInv'
    BY SessionsContinue DEF Continues
  <1> QED
    BY <1>1, SessionsStart, PTL DEF Spec

(* No login is opened, and no token handed out, when there is none. *)
LEMMA ChainStarts ==
  ASSUME tokens = <<>>
  PROVE  Chain!Init
  <1>1. DOMAIN tokens = {} /\ Logins = {} /\ Strings = {} /\ Recent = {}
    BY EmptySeq, LenProperties DEF Logins, Strings, Recent
  <1>2. [l \in {} |-> RightsOf(l)] = <<>>
    BY EmptySeq
  <1> QED
    BY <1>1, <1>2 DEF Chain!Init

(* The rows of users and tokens and what requests hold have their types,   *)
(* whatever overlaps.                                                      *)
THEOREM TypeCorrect == Spec => []TypeOK
  <1>1. SessionInv => TypeOK
    BY DEF SessionInv
  <1> QED
    BY <1>1, SessionInvHolds, PTL

(* However many requests present one refresh token together, and wherever  *)
(* the server stops: a login never has two tokens that work, for any       *)
(* number of users, of requests and of tokens.                             *)
THEOREM LoginsNeverSplit == Spec => []OneTokenPerLogin
  <1>1. SessionInv => OneTokenPerLogin
    BY DEF SessionInv
  <1> QED
    BY <1>1, SessionInvHolds, PTL

(* Sessions implements TokenRotation, for any users, any requests under    *)
(* way together, any number of tokens, and wherever the server stops: the  *)
(* rotation of auth.service.ts, refresh, hands the one right of a login on *)
(* and never doubles it.                                                   *)
THEOREM SessionsRotate == Spec => ImplementsTokenRotation
  <1>1. Init => Chain!Init
    BY ChainStarts DEF Init
  <1>2. SessionInv /\ [Next]_sessionVars => [Chain!Next]_(Chain!rotationVars)
    BY SessionsContinue DEF Continues, ChainStep
  <1> QED
    BY <1>1, <1>2, SessionInvHolds, PTL DEF Spec, ImplementsTokenRotation, Chain!Spec

-----------------------------------------------------------------------------
(* Requests that do not overlap.  What a request has read is then still so *)
(* when it comes to the statement that uses it.                            *)

UpToDate(row, us) == row.password = us[row.user].password /\ ~us[row.user].removed

Assigning(w) == w.op = "assign" /\ w.pc = "create"

Relies(w, us, ts) ==
    /\ w.op = "register" /\ w.pc = "issue" =>
          us[w.user].password = 0 /\ ~us[w.user].removed
    /\ w.op = "login" /\ w.pc = "count" =>
          /\ w.seen.exists = us[w.user].exists
          /\ w.seen.password = us[w.user].password
    /\ w.op = "login" /\ w.pc \in {"clear", "unlock", "issue"} =>
          us[w.user].exists /\ us[w.user].password = w.password
    /\ w.op = "refresh" /\ w.pc = "issue" => UpToDate(ts[w.token], us)
    /\ w.op \in {"reset", "remove"} /\ w.pc = "update" =>
          \A t \in DOMAIN ts : ts[t].stored => ts[t].user # w.user
    /\ w.op = "mfaActivate" => us[w.user].mfaSecret # 0
    /\ w.op = "mfaSetup" => ~us[w.user].mfaEnabled
    /\ Assigning(w) => us[w.user].roles = {}

Sole == \A r, s \in Requests : req[r] # Idle /\ req[s] # Idle => r = s

AllRely == \A r \in Requests : Relies(req[r], users, tokens)

TokensFit ==
    \A t \in DOMAIN tokens : tokens[t].stored => UpToDate(tokens[t], users)

RemovedAreGone == \A u \in Users : users[u].exists => ~users[u].removed

MfaTold ==
    /\ confirmed \in [Users -> BOOLEAN]
    /\ \A u \in Users :
          /\ users[u].mfaEnabled = confirmed[u]
          /\ users[u].mfaEnabled => users[u].mfaSecret # 0

(* The roles of a user are gone between the two statements of assignRoles. *)
RolesTold ==
    /\ granted \in [Users -> SUBSET Roles] /\ crashes \in Nat
    /\ crashes = 0 =>
         \A u \in Users :
            \/ users[u].roles = granted[u]
            \/ \E r \in Requests : Assigning(req[r]) /\ req[r].user = u

Calm == Sole /\ AllRely /\ TokensFit /\ RemovedAreGone /\ MfaTold /\ RolesTold

CalmInv == alone => Calm

(* What most steps leave of a user. *)
SameUsers ==
    \A u \in Users :
        /\ users'[u].exists = users[u].exists
        /\ users'[u].removed = users[u].removed
        /\ users'[u].password = users[u].password
        /\ users'[u].roles = users[u].roles
        /\ users'[u].mfaEnabled = users[u].mfaEnabled
        /\ users'[u].mfaSecret = users[u].mfaSecret

(* One request moves, and no other is under way. *)
OnlyMove(r, w) ==
    /\ req' = [req EXCEPT ![r] = w]
    /\ req[r] # Idle \/ InFlight = {}

LEMMA OnlyOne ==
  ASSUME TypeOK, Sole, NEW r \in Requests, NEW w \in Work \union {Idle}, OnlyMove(r, w)
  PROVE  /\ req'[r] = w
         /\ \A s \in Requests : s # r => req[s] = Idle /\ req'[s] = Idle
  BY DEF TypeOK, Sole, OnlyMove, InFlight

LEMMA IdleRelies ==
  ASSUME NEW us, NEW ts
  PROVE  Relies(Idle, us, ts) /\ ~Assigning(Idle)
  BY DEF Relies, Idle, Assigning

LEMMA SoleStays ==
  ASSUME SessionInv, Calm, NEW r \in Requests, NEW w \in Work \union {Idle}, OnlyMove(r, w),
         Relies(w, users', tokens')
  PROVE  Sole' /\ AllRely'
  <1>1. /\ req'[r] = w
        /\ \A s \in Requests : s # r => req'[s] = Idle
    BY OnlyOne DEF SessionInv, Calm
  <1>2. Sole'
    BY <1>1 DEF Sole
  <1>3. ASSUME NEW s \in Requests
        PROVE  Relies(req'[s], users', tokens')
    BY <1>1, IdleRelies
  <1> QED
    BY <1>2, <1>3 DEF AllRely

LEMMA TokensStillFit ==
  ASSUME SessionInv, TokensFit, TokensOnlyGo, SameUsers
  PROVE  TokensFit'
  <1> SUFFICES ASSUME NEW t \in DOMAIN tokens', tokens'[t].stored
               PROVE  UpToDate(tokens'[t], users')
    BY DEF TokensFit
  <1>1. t \in DOMAIN tokens /\ tokens[t].user \in Users
    BY TokenUser DEF TokensOnlyGo
  <1> QED
    BY <1>1 DEF TokensFit, TokensOnlyGo, SameUsers, UpToDate

LEMMA MfaStaysTold ==
  ASSUME MfaTold, SameUsers, UNCHANGED confirmed
  PROVE  MfaTold'
  BY DEF MfaTold, SameUsers

LEMMA RolesStayTold ==
  ASSUME SessionInv, Sole, RolesTold, SameUsers, UNCHANGED <<granted, crashes>>,
         NEW r \in Requests, NEW w \in Work \union {Idle}, OnlyMove(r, w), ~Assigning(req[r])
  PROVE  RolesTold'
  <1>1. \A s \in Requests : ~Assigning(req[s])
    BY OnlyOne, IdleRelies DEF SessionInv
  <1> QED
    BY <1>1 DEF RolesTold, SameUsers

(* A step that leaves what the answers are about. *)
LEMMA PlainStep ==
  ASSUME SessionInv, Calm, NEW r \in Requests, NEW w \in Work \union {Idle}, OnlyMove(r, w),
         ~Assigning(req[r]), UNCHANGED <<granted, crashes, confirmed>>,
         SameUsers, TokensOnlyGo, Relies(w, users', tokens')
  PROVE  Calm'
  <1>1. Sole' /\ AllRely'
    BY SoleStays
  <1>2. TokensFit' /\ MfaTold' /\ RolesTold'
    BY TokensStillFit, MfaStaysTold, RolesStayTold DEF Calm
  <1>3. RemovedAreGone'
    BY DEF Calm, RemovedAreGone, SameUsers
  <1> QED
    BY <1>1, <1>2, <1>3 DEF Calm

LEMMA SettledUser ==
  ASSUME TypeOK, NEW u \in Users, NEW row, SetUser(u, row)
  PROVE  \A v \in Users : users'[v] = IF v = u THEN row ELSE users[v]
  BY DEF TypeOK, SetUser

LEMMA LockedOnly ==
  ASSUME TypeOK, NEW u \in Users \union {None}, LockIfUser(u)
  PROVE  SameUsers
  <1>1. CASE UNCHANGED users
    BY <1>1 DEF SameUsers
  <1>2. CASE u # None /\ SetUser(u, [users[u] EXCEPT !.locked = TRUE])
    <2>1. u \in Users
      BY <1>2
    <2>2. users[u] \in UserRow
      BY <2>1, RowOf
    <2>3. PICK row : row = [users[u] EXCEPT !.locked = TRUE]
      OBVIOUS
    <2>4. /\ row.exists = users[u].exists /\ row.removed = users[u].removed
          /\ row.password = users[u].password /\ row.roles = users[u].roles
          /\ row.mfaEnabled = users[u].mfaEnabled /\ row.mfaSecret = users[u].mfaSecret
      BY <2>2, <2>3 DEF UserRow
    <2>5. \A v \in Users : users'[v] = IF v = u THEN row ELSE users[v]
      BY <1>2, <2>1, <2>3, SettledUser
    <2> QED
      BY <2>4, <2>5 DEF SameUsers
  <1> QED
    BY <1>1, <1>2 DEF LockIfUser

LEMMA Going ==
  ASSUME TypeOK, NEW r \in Requests, req[r] \in Work, NEW pc \in Steps, Goto(r, pc)
  PROVE  \E w \in Work :
            /\ OnlyMove(r, w) /\ w.op = req[r].op /\ w.pc = pc
            /\ w.op = "refresh" => w.token = req[r].token
            /\ w.op # "refresh" => w.user = req[r].user
            /\ w.op = "login" => /\ w.password = req[r].password
                                 /\ w.seen = req[r].seen /\ w.ip = req[r].ip
  <1>1. PICK w : w = [req[r] EXCEPT !.pc = pc]
    OBVIOUS
  <1>2. /\ w \in Work /\ w.op = req[r].op /\ w.pc = pc
        /\ w.op = "refresh" => w.token = req[r].token
        /\ w.op # "refresh" => w.user = req[r].user
        /\ w.op = "login" => /\ w.password = req[r].password
                             /\ w.seen = req[r].seen /\ w.ip = req[r].ip
    BY <1>1, NextStep
  <1>3. req[r] # Idle
    <2>1. Idle \notin Work
      BY DEF Work, RefreshWork, RegisterWork, LoginWork, AssignWork, UserWork, Idle
    <2> QED
      BY <2>1
  <1>4. OnlyMove(r, w)
    BY <1>1, <1>3 DEF OnlyMove, Goto
  <1> QED
    BY <1>2, <1>4

LEMMA Ending ==
  ASSUME NEW r \in Requests, req[r] \in Work, Finish(r)
  PROVE  OnlyMove(r, Idle)
  BY WorkNotIdle DEF OnlyMove, Finish

(* A token is issued to a user whose password is the one it stands for. *)
LEMMA IssuedFits ==
  ASSUME SessionInv, Calm, NEW r \in Requests, req[r] \in Work, ~Assigning(req[r]),
         UNCHANGED <<users, crashes, granted, confirmed>>,
         NEW w \in Work \union {Idle}, OnlyMove(r, w), Relies(w, users', tokens'),
         NEW u \in Users, NEW family \in Nat, NEW password \in Nat,
         NEW jwt \in Signed(u), tokens' = Issued(u, family, password, jwt),
         users[u].password = password, ~users[u].removed
  PROVE  Calm'
  <1>1. SameUsers /\ TypeOK
    BY DEF SameUsers, SessionInv
  <1>2. Sole' /\ AllRely'
    BY SoleStays
  <1>3. PICK new : new = Len(tokens) + 1
    OBVIOUS
  <1>0. jwt \in Nat
    <2>1. Len(tokens) \in Nat
      BY <1>1, LenProperties DEF TypeOK
    <2>2. jwt \in 1 .. Len(tokens) + 1
      BY <1>1, SignedStrings, Zenon
    <2> QED
      BY <2>1, <2>2
  <1>4. /\ DOMAIN tokens = 1 .. Len(tokens) /\ Len(tokens) \in Nat
        /\ DOMAIN tokens' = 1 .. new
        /\ \A t \in DOMAIN tokens :
              /\ tokens'[t].user = tokens[t].user
              /\ tokens'[t].password = tokens[t].password
              /\ tokens'[t].stored => tokens[t].stored
        /\ tokens'[new].user = u /\ tokens'[new].password = password
    BY <1>0, <1>1, <1>3, IssuedTokens, LenProperties DEF TypeOK
  <1>5. TokensFit'
    <2> SUFFICES ASSUME NEW t \in DOMAIN tokens', tokens'[t].stored
                 PROVE  UpToDate(tokens'[t], users')
      BY DEF TokensFit
    <2>1. CASE t = new
      BY <1>4, <2>1 DEF UpToDate
    <2>2. CASE t \in DOMAIN tokens
      BY <1>4, <2>2 DEF Calm, TokensFit, UpToDate
    <2>3. t = new \/ t \in DOMAIN tokens
      BY <1>3, <1>4
    <2> QED
      BY <2>1, <2>2, <2>3
  <1>6. RemovedAreGone' /\ MfaTold'
    BY <1>1, MfaStaysTold DEF Calm, RemovedAreGone, SameUsers
  <1>7. RolesTold'
    BY <1>1, RolesStayTold DEF Calm
  <1> QED
    BY <1>2, <1>5, <1>6, <1>7 DEF Calm

LEMMA IssueFits ==
  ASSUME SessionInv, Calm, NEW r \in Requests, req[r] \in Work, ~Assigning(req[r]),
         UNCHANGED <<users, crashes, granted, confirmed>>,
         NEW w \in Work \union {Idle}, OnlyMove(r, w), Relies(w, users', tokens'),
         NEW u \in Users, NEW family \in Nat, NEW password \in Nat,
         Issue(u, family, password),
         users[u].password = password, ~users[u].removed
  PROVE  Calm'
  <1>1. CASE UNCHANGED tokens
    <2>1. SameUsers /\ TokensOnlyGo
      BY <1>1, KeepingTokens DEF SameUsers, SessionInv
    <2> QED
      BY <2>1, PlainStep
  <1>2. ASSUME NEW jwt \in Signed(u), tokens' = Issued(u, family, password, jwt)
        PROVE  Calm'
    BY <1>2, IssuedFits
  <1> QED
    BY <1>1, <1>2 DEF Issue

LEMMA Starting ==
  ASSUME alone, NEW r \in Requests, NEW w, Begin(r, w)
  PROVE  OnlyMove(r, w) /\ ~Assigning(req[r])
  BY IdleRelies DEF OnlyMove, Begin, MayBegin

LEMMA Unchanged ==
  ASSUME TypeOK, UNCHANGED <<users, tokens>>
  PROVE  SameUsers /\ TokensOnlyGo
  BY KeepingTokens DEF SameUsers

LEMMA LoginsCalm ==
  ASSUME SessionInv, Calm, alone, NEW r \in Requests, LoginRequests(r)
  PROVE  Calm'
  <1> USE DEF Steps
  <1>0. TypeOK
    BY DEF SessionInv
  <1>1. ASSUME NEW u \in Users, NEW ip \in Addresses, NEW password \in 0 .. MaxPasswords - 1,
               Login(r, u, ip, password)
        PROVE  Calm'
    <2>1. PICK w : w = [ op |-> "login", pc |-> "count", user |-> u, ip |-> ip,
                         password |-> password, seen |-> users[u] ]
      OBVIOUS
    <2>2. password \in Nat /\ users[u] \in UserRow
      BY <1>0, PasswordsAreNumbered, RowOf
    <2>3. w \in Work
      BY <2>1, <2>2 DEF Work, LoginWork
    <2>4. Begin(r, w) /\ UNCHANGED <<users, tokens, crashes, granted, confirmed>>
      BY <1>1, <2>1 DEF Login
    <2>5. Relies(w, users', tokens')
      BY <2>1, <2>4 DEF Relies, Assigning
    <2>6. SameUsers /\ TokensOnlyGo /\ OnlyMove(r, w) /\ ~Assigning(req[r])
      BY <1>0, <2>4, Unchanged, Starting
    <2> QED
      BY <2>3, <2>4, <2>5, <2>6, PlainStep
  <1>2. ASSUME NEW pc, At(r, "login", pc)
        PROVE  /\ req[r] \in Work /\ req[r].op = "login" /\ req[r].pc = pc
               /\ req[r].user \in Users /\ req[r].password \in Nat
               /\ Known(r) \in Users \union {None} /\ ~Assigning(req[r])
    <2>1. req[r] \in LoginWork /\ req[r] \in Work /\ req[r].op = "login" /\ req[r].pc = pc
      BY <1>0, <1>2, WorkAt
    <2> QED
      BY <2>1 DEF LoginWork, Known, Assigning
  <1>3. Relies(req[r], users, tokens)
    BY DEF Calm, AllRely
  <1>4. ASSUME SameUsers, TokensOnlyGo, UNCHANGED <<crashes, granted, confirmed>>, Finish(r),
               req[r] \in Work, ~Assigning(req[r])
        PROVE  Calm'
    BY <1>4, Ending, IdleRelies, PlainStep
  <1>5. ASSUME SameUsers, TokensOnlyGo, UNCHANGED <<crashes, granted, confirmed>>,
               NEW pc \in Steps, Goto(r, pc), req[r] \in Work, req[r].op = "login",
               ~Assigning(req[r]), req[r].user \in Users, pc # "count",
               pc \in {"clear", "unlock", "issue"} =>
                  /\ users[req[r].user].exists
                  /\ users[req[r].user].password = req[r].password
        PROVE  Calm'
    <2>1. PICK w \in Work :
            /\ OnlyMove(r, w) /\ w.op = "login" /\ w.pc = pc
            /\ w.user = req[r].user /\ w.password = req[r].password
      BY <1>0, <1>5, Going
    <2>2. Relies(w, users', tokens')
      BY <1>5, <2>1 DEF Relies, Assigning, SameUsers
    <2> QED
      BY <1>5, <2>1, <2>2, PlainStep
  <1>6. CASE LoginCount(r)
    <2>1. At(r, "login", "count") /\ UNCHANGED <<tokens, crashes, granted, confirmed>>
      BY <1>6 DEF LoginCount
    <2>2. CASE Finish(r)
      <3>1. LockIfUser(Known(r)) \/ UNCHANGED users
        BY <1>6 DEF LoginCount
      <3>2. SameUsers /\ TokensOnlyGo
        BY <1>0, <1>2, <2>1, <3>1, LockedOnly, KeepingTokens, Unchanged
      <3> QED
        BY <1>2, <1>4, <2>1, <2>2, <3>2
    <2>3. CASE Goto(r, "record") /\ UNCHANGED users
      BY <1>0, <1>2, <1>5, <2>1, <2>3, Unchanged
    <2>4. CASE /\ Goto(r, "clear") /\ UNCHANGED users
               /\ req[r].seen.exists /\ req[r].password = req[r].seen.password
      <3>1. users[req[r].user].exists /\ users[req[r].user].password = req[r].password
        BY <1>2, <1>3, <2>1, <2>4 DEF Relies
      <3> QED
        BY <1>0, <1>2, <1>5, <2>1, <2>4, <3>1, Unchanged
    <2> QED
      BY <1>6, <2>2, <2>3, <2>4 DEF LoginCount
  <1>7. CASE LoginRecord(r)
    <2>1. /\ At(r, "login", "record") /\ UNCHANGED <<users, tokens, crashes, granted, confirmed>>
          /\ Goto(r, "recount") \/ Finish(r)
      BY <1>7 DEF LoginRecord
    <2> QED
      BY <1>0, <1>2, <1>4, <1>5, <2>1, Unchanged
  <1>8. CASE LoginRecount(r)
    <2>1. /\ At(r, "login", "recount") /\ UNCHANGED <<tokens, crashes, granted, confirmed>>
          /\ LockIfUser(req[r].user) \/ UNCHANGED users
          /\ Finish(r)
      BY <1>8 DEF LoginRecount
    <2>2. SameUsers /\ TokensOnlyGo
      BY <1>0, <1>2, <2>1, LockedOnly, KeepingTokens, Unchanged
    <2> QED
      BY <1>2, <1>4, <2>1, <2>2
  <1>9. CASE LoginClear(r)
    <2>1. /\ At(r, "login", "clear") /\ UNCHANGED <<users, tokens, crashes, granted, confirmed>>
          /\ Finish(r) \/ Goto(r, "unlock") \/ Goto(r, "issue")
      BY <1>9 DEF LoginClear, AfterClear
    <2>2. users[req[r].user].exists /\ users[req[r].user].password = req[r].password
      BY <1>2, <1>3, <2>1 DEF Relies
    <2>3. SameUsers /\ TokensOnlyGo
      BY <1>0, <2>1, Unchanged
    <2> QED
      BY <1>2, <1>4, <1>5, <2>1, <2>2, <2>3
  <1>10. CASE LoginUnlock(r)
    <2>1. /\ At(r, "login", "unlock") /\ UNCHANGED <<tokens, crashes, granted, confirmed>>
          /\ SetUser(req[r].user, [users[req[r].user] EXCEPT !.locked = FALSE])
          /\ Finish(r) \/ Goto(r, "issue")
      BY <1>10 DEF LoginUnlock, AfterClear
    <2>2. users[req[r].user].exists /\ users[req[r].user].password = req[r].password
      BY <1>2, <1>3, <2>1 DEF Relies
    <2>3. SameUsers
      <3>1. PICK u \in Users : u = req[r].user
        BY <1>2, <2>1
      <3>2. PICK row : row = [users[u] EXCEPT !.locked = FALSE]
        OBVIOUS
      <3>3. users[u] \in UserRow
        BY <1>0, RowOf
      <3>4. /\ row.exists = users[u].exists /\ row.removed = users[u].removed
            /\ row.password = users[u].password /\ row.roles = users[u].roles
            /\ row.mfaEnabled = users[u].mfaEnabled /\ row.mfaSecret = users[u].mfaSecret
        BY <3>2, <3>3 DEF UserRow
      <3>5. \A v \in Users : users'[v] = IF v = u THEN row ELSE users[v]
        BY <1>0, <2>1, <3>1, <3>2, SettledUser
      <3> QED
        BY <3>4, <3>5 DEF SameUsers
    <2>4. TokensOnlyGo
      BY <1>0, <2>1, KeepingTokens
    <2> QED
      BY <1>2, <1>4, <1>5, <2>1, <2>2, <2>3, <2>4
  <1>11. CASE LoginIssue(r)
    <2>1. /\ At(r, "login", "issue") /\ UNCHANGED <<users, crashes, granted, confirmed>>
          /\ Finish(r)
          /\ Issue(req[r].user, Len(tokens) + 1, req[r].password)
      BY <1>11 DEF LoginIssue
    <2>2. PICK u \in Users : u = req[r].user
      BY <1>2, <2>1
    <2>3. PICK password \in Nat : password = req[r].password
      BY <1>2, <2>1
    <2>4. PICK family : family \in Nat /\ family = Len(tokens) + 1
      <3>1. Len(tokens) \in Nat
        BY <1>0, LenProperties DEF TypeOK
      <3> QED
        BY <3>1
    <2>5. users[u].exists /\ users[u].password = password
      BY <1>2, <1>3, <2>1, <2>2, <2>3 DEF Relies
    <2>6. ~users[u].removed
      BY <2>5 DEF Calm, RemovedAreGone
    <2> QED
      <3>1. OnlyMove(r, Idle) /\ Relies(Idle, users', tokens') /\ Idle \in Work \union {Idle}
        BY <1>2, <2>1, Ending, IdleRelies
      <3>2. Issue(u, family, password)
        BY <2>1, <2>2, <2>3, <2>4
      <3> QED
        BY <1>2, <2>1, <2>4, <2>5, <2>6, <3>1, <3>2, IssueFits
  <1> QED
    BY <1>1, <1>6, <1>7, <1>8, <1>9, <1>10, <1>11 DEF LoginRequests

(* A user nobody has a token, roles or MFA of. *)
LEMMA NewRow ==
  ASSUME SessionInv, Calm, UNCHANGED <<tokens, crashes, confirmed>>,
         NEW u \in Users, users[u] = NoUser, NEW roles \in SUBSET Roles,
         SetUser(u, NewUser(roles)), granted' = [granted EXCEPT ![u] = roles],
         \A r \in Requests : ~Assigning(req[r])
  PROVE  /\ TokensFit' /\ RemovedAreGone' /\ MfaTold' /\ RolesTold'
         /\ users'[u].password = 0 /\ ~users'[u].removed
  <1>1. TypeOK
    BY DEF SessionInv
  <1>2. \A v \in Users : users'[v] = IF v = u THEN NewUser(roles) ELSE users[v]
    BY <1>1, SettledUser
  <1>3. PICK row : row = NewUser(roles)
    OBVIOUS
  <1>4. /\ row.password = 0 /\ ~row.removed /\ row.roles = roles /\ ~row.mfaEnabled
        /\ row.mfaEnabled = FALSE
    BY <1>3 DEF NewUser, NoUser
  <1>5. /\ users[u].password = 0 /\ ~users[u].removed /\ ~users[u].mfaEnabled
        /\ users[u].mfaEnabled = FALSE
    BY DEF NoUser
  <1>6. TokensFit'
    <2> SUFFICES ASSUME NEW t \in DOMAIN tokens, tokens[t].stored
                 PROVE  UpToDate(tokens[t], users')
      BY DEF TokensFit
    <2>1. tokens[t].user \in Users /\ UpToDate(tokens[t], users)
      BY TokenUser DEF Calm, TokensFit
    <2> QED
      BY <1>2, <1>3, <1>4, <1>5, <2>1 DEF UpToDate
  <1>7. RemovedAreGone'
    BY <1>2, <1>3, <1>4 DEF Calm, RemovedAreGone
  <1>8. MfaTold'
    BY <1>2, <1>3, <1>4, <1>5 DEF Calm, MfaTold
  <1>9. RolesTold'
    BY <1>2, <1>3, <1>4 DEF Calm, RolesTold
  <1> QED
    BY <1>2, <1>3, <1>4, <1>6, <1>7, <1>8, <1>9

LEMMA RegistrationCalm ==
  ASSUME SessionInv, Calm, alone, NEW r \in Requests, Registration(r)
  PROVE  Calm'
  <1> USE DEF Steps
  <1>0. TypeOK
    BY DEF SessionInv
  <1>1. ASSUME NEW u \in Users, NEW role \in Roles, NEW ip \in Addresses, Register(r, u, role, ip)
        PROVE  Calm'
    <2>1. PICK w : w = [ op |-> "register", pc |-> "create", user |-> u, roles |-> {role}, ip |-> ip ]
      OBVIOUS
    <2>2. w \in Work
      BY <2>1 DEF Work, RegisterWork
    <2>3. Begin(r, w) /\ UNCHANGED <<users, tokens, crashes, granted, confirmed>>
      BY <1>1, <2>1 DEF Register
    <2>4. Relies(w, users', tokens')
      BY <2>1 DEF Relies, Assigning
    <2>5. SameUsers /\ TokensOnlyGo /\ OnlyMove(r, w) /\ ~Assigning(req[r])
      BY <1>0, <2>3, Unchanged, Starting
    <2> QED
      BY <2>2, <2>3, <2>4, <2>5, PlainStep
  <1>2. ASSUME NEW pc, At(r, "register", pc)
        PROVE  /\ req[r] \in Work /\ req[r].op = "register" /\ req[r].pc = pc
               /\ req[r].user \in Users /\ req[r].roles \in SUBSET Roles /\ ~Assigning(req[r])
    <2>1. req[r] \in RegisterWork /\ req[r] \in Work /\ req[r].op = "register" /\ req[r].pc = pc
      BY <1>0, <1>2, WorkAt
    <2> QED
      BY <2>1 DEF RegisterWork, Assigning
  <1>3. Relies(req[r], users, tokens)
    BY DEF Calm, AllRely
  <1>4. ASSUME UNCHANGED <<users, tokens, crashes, granted, confirmed>>, Finish(r),
               req[r] \in Work, ~Assigning(req[r])
        PROVE  Calm'
    BY <1>0, <1>4, Unchanged, Ending, IdleRelies, PlainStep
  <1>5. CASE RegisterCreate(r)
    <2>1. At(r, "register", "create") /\ UNCHANGED <<tokens, crashes, confirmed>>
      BY <1>5 DEF RegisterCreate
    <2>2. CASE Finish(r) /\ UNCHANGED <<users, granted>>
      BY <1>2, <1>4, <2>1, <2>2
    <2>3. CASE /\ users[req[r].user] = NoUser
               /\ SetUser(req[r].user, NewUser(req[r].roles))
               /\ granted' = [granted EXCEPT ![req[r].user] = req[r].roles]
               /\ Goto(r, "issue")
      <3>1. PICK u \in Users : u = req[r].user
        BY <1>2, <2>1
      <3>2. PICK roles \in SUBSET Roles : roles = req[r].roles
        BY <1>2, <2>1
      <3>3. PICK w \in Work :
              OnlyMove(r, w) /\ w.op = "register" /\ w.pc = "issue" /\ w.user = u
        BY <1>0, <1>2, <2>1, <2>3, <3>1, Going
      <3>4. \A s \in Requests : ~Assigning(req[s])
        BY <1>0, <1>2, <2>1, <3>3, OnlyOne, IdleRelies DEF Calm
      <3>5. /\ users[u] = NoUser /\ SetUser(u, NewUser(roles))
            /\ granted' = [granted EXCEPT ![u] = roles]
        BY <2>3, <3>1, <3>2
      <3>6. /\ TokensFit' /\ RemovedAreGone' /\ MfaTold' /\ RolesTold'
            /\ users'[u].password = 0 /\ ~users'[u].removed
        BY <2>1, <3>4, <3>5, NewRow
      <3>7. Relies(w, users', tokens')
        BY <3>3, <3>6 DEF Relies, Assigning
      <3>8. Sole' /\ AllRely'
        BY <3>3, <3>7, SoleStays
      <3> QED
        BY <3>6, <3>8 DEF Calm
    <2> QED
      BY <1>5, <2>2, <2>3 DEF RegisterCreate
  <1>6. CASE RegisterIssue(r)
    <2>1. /\ At(r, "register", "issue") /\ UNCHANGED <<users, crashes, granted, confirmed>>
          /\ Goto(r, "clear") \/ Finish(r)
          /\ Issue(req[r].user, Len(tokens) + 1, 0)
      BY <1>6 DEF RegisterIssue
    <2>2. PICK u \in Users : u = req[r].user
      BY <1>2, <2>1
    <2>3. PICK family : family \in Nat /\ family = Len(tokens) + 1
      <3>1. Len(tokens) \in Nat
        BY <1>0, LenProperties DEF TypeOK
      <3> QED
        BY <3>1
    <2>4. users[u].password = 0 /\ ~users[u].removed
      BY <1>2, <1>3, <2>1, <2>2 DEF Relies
    <2>5. PICK w \in Work \union {Idle} :
            OnlyMove(r, w) /\ (w = Idle \/ (w.op = "register" /\ w.pc = "clear"))
      BY <1>0, <1>2, <2>1, Going, Ending
    <2>6. Relies(w, users', tokens')
      BY <2>5, IdleRelies DEF Relies, Assigning
    <2>7. Issue(u, family, 0) /\ 0 \in Nat
      BY <2>1, <2>2, <2>3
    <2> QED
      BY <1>2, <2>1, <2>3, <2>4, <2>5, <2>6, <2>7, IssueFits
  <1>7. CASE RegisterClear(r)
    BY <1>2, <1>4, <1>7 DEF RegisterClear
  <1> QED
    BY <1>1, <1>5, <1>6, <1>7 DEF Registration

LEMMA RefreshesCalm ==
  ASSUME SessionInv, Calm, alone, NEW r \in Requests, RefreshRequests(r)
  PROVE  Calm'
  <1> USE DEF Steps
  <1>0. TypeOK
    BY DEF SessionInv
  <1>1. ASSUME NEW t \in Strings, Refresh(r, t)
        PROVE  Calm'
    <2>0. t \in DOMAIN tokens
      BY StringsHaveRows
    <2>1. PICK w : w = [op |-> "refresh", pc |-> "find", token |-> t]
      OBVIOUS
    <2>2. w \in Work
      BY <2>0, <2>1, TokenUser DEF Work, RefreshWork
    <2>3. Begin(r, w) /\ UNCHANGED <<users, tokens, crashes, granted, confirmed>>
      BY <1>1, <2>1 DEF Refresh
    <2>4. Relies(w, users', tokens')
      BY <2>1 DEF Relies, Assigning
    <2>5. SameUsers /\ TokensOnlyGo /\ OnlyMove(r, w) /\ ~Assigning(req[r])
      BY <1>0, <2>3, Unchanged, Starting
    <2> QED
      BY <2>2, <2>3, <2>4, <2>5, PlainStep
  <1>2. ASSUME NEW pc, At(r, "refresh", pc)
        PROVE  /\ req[r] \in Work /\ req[r].op = "refresh" /\ req[r].pc = pc
               /\ req[r].token \in DOMAIN tokens /\ tokens[req[r].token].user \in Users
               /\ ~Assigning(req[r])
    <2>1. req[r] \in Work /\ req[r].op = "refresh" /\ req[r].pc = pc
      BY <1>0, <1>2, WorkAt
    <2>2. req[r].token \in DOMAIN tokens
      BY <2>1 DEF SessionInv, TokensKnown
    <2> QED
      BY <2>1, <2>2, TokenUser DEF Assigning
  <1>3. Relies(req[r], users, tokens)
    BY DEF Calm, AllRely
  <1>4. ASSUME SameUsers, TokensOnlyGo, UNCHANGED <<crashes, granted, confirmed>>, Finish(r),
               req[r] \in Work, ~Assigning(req[r])
        PROVE  Calm'
    BY <1>4, Ending, IdleRelies, PlainStep
  <1>5. ASSUME SameUsers, TokensOnlyGo, UNCHANGED <<crashes, granted, confirmed>>,
               NEW pc \in Steps, Goto(r, pc), req[r] \in Work, req[r].op = "refresh",
               req[r].token \in DOMAIN tokens,
               tokens[req[r].token].user \in Users, ~Assigning(req[r]),
               pc = "issue" => UpToDate(tokens[req[r].token], users)
        PROVE  Calm'
    <2>1. PICK w \in Work :
            OnlyMove(r, w) /\ w.op = "refresh" /\ w.pc = pc /\ w.token = req[r].token
      BY <1>0, <1>5, Going
    <2>2. Relies(w, users', tokens')
      BY <1>5, <2>1 DEF Relies, Assigning, SameUsers, TokensOnlyGo, UpToDate
    <2> QED
      BY <1>5, <2>1, <2>2, PlainStep
  <1>6. CASE RefreshFind(r)
    <2>1. /\ At(r, "refresh", "find") /\ UNCHANGED <<users, tokens, crashes, granted, confirmed>>
      BY <1>6 DEF RefreshFind
    <2>2. CASE Goto(r, "missing")
      BY <1>0, <1>2, <1>5, <2>1, <2>2, Unchanged
    <2>3. ASSUME NEW t \in DOMAIN tokens, NEW pc \in {"expired", "delete"},
                 req' = [req EXCEPT ![r].token = t, ![r].pc = pc]
          PROVE  Calm'
      <3>1. PICK w : w = [req[r] EXCEPT !.token = t, !.pc = pc]
        OBVIOUS
      <3>2. req[r] \in RefreshWork /\ t \in Nat
        BY <1>0, <2>1, WorkAt, TokenUser
      <3>3. w \in Work /\ w.op = "refresh" /\ w.pc = pc
        BY <3>1, <3>2 DEF Work, RefreshWork
      <3>4. OnlyMove(r, w)
        BY <1>0, <1>2, <2>1, <2>3, <3>1, WorkNotIdle DEF TypeOK, OnlyMove
      <3>5. Relies(w, users', tokens')
        BY <3>3 DEF Relies, Assigning
      <3> QED
        BY <1>0, <1>2, <2>1, <3>3, <3>4, <3>5, Unchanged, PlainStep
    <2> QED
      BY <1>6, <2>2, <2>3 DEF RefreshFind, Holding
  <1>7. CASE RefreshMissing(r)
    <2>1. /\ At(r, "refresh", "missing")
          /\ UNCHANGED <<users, tokens, crashes, granted, confirmed>>
          /\ Finish(r) \/ Goto(r, "revoke")
      BY <1>7 DEF RefreshMissing
    <2> QED
      BY <1>0, <1>2, <1>4, <1>5, <2>1, Unchanged
  <1>8. CASE RefreshRevoke(r)
    <2>1. /\ At(r, "refresh", "revoke") /\ UNCHANGED <<users, crashes, granted, confirmed>>
          /\ Goto(r, "lock") /\ TokensOnlyGo /\ SameUsers
      BY <1>0, <1>8, DeletingTokens DEF RefreshRevoke, SameUsers
    <2> QED
      BY <1>2, <1>5, <2>1
  <1>9. CASE RefreshLock(r)
    <2>1. /\ At(r, "refresh", "lock") /\ UNCHANGED <<tokens, crashes, granted, confirmed>>
          /\ LockIfUser(tokens[req[r].token].user) /\ Finish(r)
      BY <1>9 DEF RefreshLock
    <2>2. SameUsers /\ TokensOnlyGo
      BY <1>0, <1>2, <2>1, LockedOnly, KeepingTokens
    <2> QED
      BY <1>2, <1>4, <2>1, <2>2
  <1>10. CASE RefreshExpired(r)
    <2>1. /\ At(r, "refresh", "expired") /\ UNCHANGED <<users, crashes, granted, confirmed>>
          /\ Finish(r) /\ TokensOnlyGo /\ SameUsers
      BY <1>0, <1>10, DeletingTokens DEF RefreshExpired, SameUsers
    <2> QED
      BY <1>2, <1>4, <2>1
  <1>11. CASE RefreshDelete(r)
    <2>1. At(r, "refresh", "delete") /\ UNCHANGED <<users, crashes, granted, confirmed>>
      BY <1>11 DEF RefreshDelete
    <2>2. CASE Finish(r) /\ UNCHANGED tokens
      BY <1>0, <1>2, <1>4, <2>1, <2>2, Unchanged
    <2>3. CASE tokens[req[r].token].stored /\ Delete({req[r].token}) /\ Goto(r, "issue")
      <3>1. TokensOnlyGo /\ SameUsers
        BY <1>0, <2>1, <2>3, DeletingTokens DEF SameUsers
      <3>2. UpToDate(tokens[req[r].token], users)
        BY <1>2, <2>1, <2>3 DEF Calm, TokensFit
      <3> QED
        BY <1>2, <1>5, <2>1, <2>3, <3>1, <3>2
    <2> QED
      BY <1>11, <2>2, <2>3 DEF RefreshDelete
  <1>12. CASE RefreshIssue(r)
    <2>1. PICK old : old = tokens[req[r].token]
      OBVIOUS
    <2>2. /\ At(r, "refresh", "issue") /\ UNCHANGED <<users, crashes, granted, confirmed>>
          /\ Finish(r)
          /\ Issue(old.user, old.family, old.password)
      BY <1>12, <2>1 DEF RefreshIssue
    <2>3. old \in TokenRow
      BY <1>2, <2>1, <2>2, TokenUser
    <2>4. PICK u \in Users, family \in Nat, password \in Nat :
            u = old.user /\ family = old.family /\ password = old.password
      BY <2>3 DEF TokenRow
    <2>5. users[u].password = password /\ ~users[u].removed
      BY <1>2, <1>3, <2>1, <2>2, <2>4 DEF Relies, UpToDate
    <2>6. OnlyMove(r, Idle) /\ Relies(Idle, users', tokens') /\ Idle \in Work \union {Idle}
      BY <1>2, <2>2, Ending, IdleRelies
    <2>7. Issue(u, family, password)
      BY <2>2, <2>4
    <2> QED
      BY <1>2, <2>2, <2>5, <2>6, <2>7, IssueFits
  <1> QED
    BY <1>1, <1>6, <1>7, <1>8, <1>9, <1>10, <1>11, <1>12 DEF RefreshRequests

LEMMA AccountsCalm ==
  ASSUME SessionInv, Calm, alone, NEW r \in Requests, Accounts(r)
  PROVE  Calm'
  <1> USE DEF Steps
  <1>0. TypeOK
    BY DEF SessionInv
  <1>1. ASSUME NEW u \in Users, ResetPassword(r, u) \/ Remove(r, u)
        PROVE  Calm'
    <2>1. PICK w : /\ w \in { [op |-> "reset", pc |-> "revoke", user |-> u],
                              [op |-> "remove", pc |-> "revoke", user |-> u] }
                   /\ Begin(r, w)
      BY <1>1 DEF ResetPassword, Remove
    <2>2. w \in Work
      BY <2>1 DEF Work, UserWork
    <2>3. UNCHANGED <<users, tokens, crashes, granted, confirmed>>
      BY <1>1 DEF ResetPassword, Remove
    <2>4. Relies(w, users', tokens')
      BY <2>1 DEF Relies, Assigning
    <2>5. SameUsers /\ TokensOnlyGo /\ OnlyMove(r, w) /\ ~Assigning(req[r])
      BY <1>0, <2>1, <2>3, Unchanged, Starting
    <2> QED
      BY <2>2, <2>3, <2>4, <2>5, PlainStep
  <1>2. ASSUME NEW op \in {"reset", "remove"}, NEW pc, At(r, op, pc)
        PROVE  /\ req[r] \in Work /\ req[r].op = op /\ req[r].pc = pc /\ req[r].user \in Users
               /\ ~Assigning(req[r])
    <2>1. req[r] \in UserWork /\ req[r] \in Work /\ req[r].op = op /\ req[r].pc = pc
      BY <1>0, <1>2, WorkAt
    <2> QED
      BY <2>1 DEF UserWork, Assigning
  <1>3. Relies(req[r], users, tokens)
    BY DEF Calm, AllRely
  <1>4. CASE RevokeAll(r)
    <2>1. PICK op \in {"reset", "remove"} : At(r, op, "revoke")
      BY <1>4 DEF RevokeAll
    <2>2. /\ UNCHANGED <<users, crashes, granted, confirmed>>
          /\ Delete(StoredOf(req[r].user)) /\ Goto(r, "update")
      BY <1>4 DEF RevokeAll
    <2>3. TokensOnlyGo /\ SameUsers
      BY <1>0, <2>2, DeletingTokens DEF SameUsers
    <2>4. PICK w \in Work :
            OnlyMove(r, w) /\ w.op = op /\ w.pc = "update" /\ w.user = req[r].user
      BY <1>0, <1>2, <2>1, <2>2, Going
    <2>5. ASSUME NEW t \in DOMAIN tokens', tokens'[t].stored
          PROVE  tokens'[t].user # w.user
      <3>1. t \in DOMAIN tokens /\ tokens[t].stored /\ tokens'[t].user = tokens[t].user
        BY <2>3, <2>5 DEF TokensOnlyGo
      <3>2. tokens[t] \in TokenRow
        BY <3>1, TokenUser
      <3>3. CASE t \in StoredOf(req[r].user)
        <4>1. tokens'[t] = [tokens[t] EXCEPT !.stored = FALSE]
          BY <2>2, <3>1, <3>3 DEF Delete
        <4> QED
          BY <2>5, <3>2, <4>1 DEF TokenRow
      <3>4. CASE t \notin StoredOf(req[r].user)
        BY <2>4, <3>1, <3>4 DEF StoredOf
      <3> QED
        BY <3>3, <3>4
    <2>6. Relies(w, users', tokens')
      BY <2>1, <2>4, <2>5 DEF Relies, Assigning
    <2> QED
      BY <1>2, <2>1, <2>2, <2>3, <2>4, <2>6, PlainStep
  <1>5. ASSUME NEW op \in {"reset", "remove"}, At(r, op, "update"), Finish(r),
               UNCHANGED <<tokens, crashes, granted, confirmed>>,
               NEW row, SetUser(req[r].user, row),
               row.roles = users[req[r].user].roles,
               row.mfaEnabled = users[req[r].user].mfaEnabled,
               row.mfaSecret = users[req[r].user].mfaSecret,
               row.exists => ~row.removed
        PROVE  Calm'
    <2>1. PICK u \in Users : u = req[r].user
      BY <1>2, <1>5
    <2>2. OnlyMove(r, Idle) /\ ~Assigning(req[r]) /\ req[r].op = op /\ req[r].pc = "update"
      BY <1>2, <1>5, Ending
    <2>3. \A v \in Users : users'[v] = IF v = u THEN row ELSE users[v]
      BY <1>0, <1>5, <2>1, SettledUser
    <2>4. Sole' /\ AllRely'
      BY <2>2, IdleRelies, SoleStays
    <2>5. TokensFit'
      <3> SUFFICES ASSUME NEW t \in DOMAIN tokens, tokens[t].stored
                   PROVE  UpToDate(tokens[t], users')
        BY <1>5 DEF TokensFit
      <3>1. tokens[t].user \in Users /\ UpToDate(tokens[t], users)
        BY TokenUser DEF Calm, TokensFit
      <3>2. tokens[t].user # u
        BY <1>3, <2>1, <2>2 DEF Relies
      <3> QED
        BY <2>3, <3>1, <3>2 DEF UpToDate
    <2>6. RemovedAreGone'
      BY <1>5, <2>3 DEF Calm, RemovedAreGone
    <2>7. MfaTold'
      BY <1>5, <2>1, <2>3 DEF Calm, MfaTold
    <2>8. \A s \in Requests : ~Assigning(req[s])
      BY <1>0, <2>2, OnlyOne, IdleRelies DEF Calm
    <2>9. RolesTold'
      BY <1>5, <2>1, <2>3, <2>8 DEF Calm, RolesTold
    <2> QED
      BY <2>4, <2>5, <2>6, <2>7, <2>9 DEF Calm
  <1>6. CASE ResetUpdate(r)
    <2>1. At(r, "reset", "update") /\ UNCHANGED <<tokens, crashes, granted, confirmed>> /\ Finish(r)
      BY <1>6 DEF ResetUpdate
    <2>2. PICK u \in Users : u = req[r].user
      BY <1>2, <2>1
    <2>3. PICK n : n = users[u].password + 1
      OBVIOUS
    <2>4. PICK row : row = [users[u] EXCEPT !.password = n]
      OBVIOUS
    <2>5. users[u] \in UserRow
      BY <1>0, RowOf
    <2>6. /\ row.roles = users[u].roles /\ row.mfaEnabled = users[u].mfaEnabled
          /\ row.mfaSecret = users[u].mfaSecret
          /\ row.exists = users[u].exists /\ row.removed = users[u].removed
      BY <2>4, <2>5 DEF UserRow
    <2>7. row.exists => ~row.removed
      BY <2>6 DEF Calm, RemovedAreGone
    <2>8. SetUser(req[r].user, row)
      BY <1>6, <2>2, <2>3, <2>4 DEF ResetUpdate
    <2> QED
      BY <1>5, <2>1, <2>2, <2>6, <2>7, <2>8
  <1>7. CASE RemoveUpdate(r)
    <2>1. /\ At(r, "remove", "update") /\ UNCHANGED <<tokens, crashes, granted, confirmed>>
          /\ Finish(r)
      BY <1>7 DEF RemoveUpdate
    <2>2. PICK u \in Users : u = req[r].user
      BY <1>2, <2>1
    <2>3. PICK row : row = [users[u] EXCEPT !.exists = FALSE, !.removed = TRUE,
                                            !.active = FALSE, !.locked = TRUE]
      OBVIOUS
    <2>4. users[u] \in UserRow
      BY <1>0, RowOf
    <2>5. /\ row.roles = users[u].roles /\ row.mfaEnabled = users[u].mfaEnabled
          /\ row.mfaSecret = users[u].mfaSecret /\ ~row.exists
      BY <2>3, <2>4 DEF UserRow
    <2>6. SetUser(req[r].user, row)
      BY <1>7, <2>2, <2>3 DEF RemoveUpdate
    <2> QED
      BY <1>5, <2>1, <2>2, <2>5, <2>6
  <1> QED
    BY <1>1, <1>4, <1>6, <1>7 DEF Accounts

LEMMA RolesCalm ==
  ASSUME SessionInv, Calm, alone, NEW r \in Requests, RoleRequests(r)
  PROVE  Calm'
  <1> USE DEF Steps
  <1>0. TypeOK
    BY DEF SessionInv
  <1>1. ASSUME NEW u \in Users, NEW names, AssignRoles(r, u, names)
        PROVE  Calm'
    <2>1. PICK w : w = [ op |-> "assign", pc |-> "delete", user |-> u, roles |-> names \intersect Roles ]
      OBVIOUS
    <2>2. w \in Work
      BY <2>1 DEF Work, AssignWork
    <2>3. Begin(r, w) /\ UNCHANGED <<users, tokens, crashes, granted, confirmed>>
      BY <1>1, <2>1 DEF AssignRoles
    <2>4. Relies(w, users', tokens')
      BY <2>1 DEF Relies, Assigning
    <2>5. SameUsers /\ TokensOnlyGo /\ OnlyMove(r, w) /\ ~Assigning(req[r])
      BY <1>0, <2>3, Unchanged, Starting
    <2> QED
      BY <2>2, <2>3, <2>4, <2>5, PlainStep
  <1>2. ASSUME NEW pc, At(r, "assign", pc)
        PROVE  /\ req[r] \in Work /\ req[r].op = "assign" /\ req[r].pc = pc
               /\ req[r].user \in Users /\ req[r].roles \in SUBSET Roles
    <2>1. req[r] \in AssignWork /\ req[r] \in Work /\ req[r].op = "assign" /\ req[r].pc = pc
      BY <1>0, <1>2, WorkAt
    <2> QED
      BY <2>1 DEF AssignWork
  <1>3. Relies(req[r], users, tokens)
    BY DEF Calm, AllRely
  <1>4. ASSUME NEW u \in Users, NEW roles,
               SetUser(u, [users[u] EXCEPT !.roles = roles]),
               UNCHANGED <<tokens, confirmed>>
        PROVE  /\ TokensFit' /\ RemovedAreGone' /\ MfaTold'
               /\ users'[u].roles = roles
               /\ \A v \in Users : v # u => users'[v] = users[v]
    <2>1. PICK row : row = [users[u] EXCEPT !.roles = roles]
      OBVIOUS
    <2>2. users[u] \in UserRow
      BY <1>0, RowOf
    <2>3. /\ row.roles = roles /\ row.mfaEnabled = users[u].mfaEnabled
          /\ row.mfaSecret = users[u].mfaSecret /\ row.exists = users[u].exists
          /\ row.removed = users[u].removed /\ row.password = users[u].password
      BY <2>1, <2>2 DEF UserRow
    <2>4. \A v \in Users : users'[v] = IF v = u THEN row ELSE users[v]
      BY <1>0, <1>4, <2>1, SettledUser
    <2>5. TokensFit'
      <3> SUFFICES ASSUME NEW t \in DOMAIN tokens, tokens[t].stored
                   PROVE  UpToDate(tokens[t], users')
        BY <1>4 DEF TokensFit
      <3>1. tokens[t].user \in Users /\ UpToDate(tokens[t], users)
        BY TokenUser DEF Calm, TokensFit
      <3> QED
        BY <2>3, <2>4, <3>1 DEF UpToDate
    <2>6. RemovedAreGone'
      BY <2>3, <2>4 DEF Calm, RemovedAreGone
    <2>7. MfaTold'
      BY <1>4, <2>3, <2>4 DEF Calm, MfaTold
    <2> QED
      BY <2>3, <2>4, <2>5, <2>6, <2>7
  <1>5. CASE AssignDelete(r)
    <2>1. /\ At(r, "assign", "delete") /\ UNCHANGED <<tokens, crashes, granted, confirmed>>
          /\ Goto(r, "create")
      BY <1>5 DEF AssignDelete
    <2>2. PICK u \in Users : u = req[r].user
      BY <1>2, <2>1
    <2>3. SetUser(u, [users[u] EXCEPT !.roles = {}])
      BY <1>5, <2>2 DEF AssignDelete
    <2>4. /\ TokensFit' /\ RemovedAreGone' /\ MfaTold' /\ users'[u].roles = {}
          /\ \A v \in Users : v # u => users'[v] = users[v]
      BY <1>4, <2>1, <2>3
    <2>5. PICK w \in Work :
            OnlyMove(r, w) /\ w.op = "assign" /\ w.pc = "create" /\ w.user = u
      BY <1>0, <1>2, <2>1, <2>2, Going
    <2>6. Relies(w, users', tokens')
      BY <2>4, <2>5 DEF Relies
    <2>7. Sole' /\ AllRely'
      BY <2>5, <2>6, SoleStays
    <2>8. ~Assigning(req[r])
      BY <1>2, <2>1 DEF Assigning
    <2>9. \A s \in Requests : ~Assigning(req[s])
      BY <1>0, <2>5, <2>8, OnlyOne, IdleRelies DEF Calm
    <2>10. req'[r] = w /\ Assigning(w)
      BY <1>0, <2>5, OnlyOne DEF Calm, Assigning
    <2>11. RolesTold'
      BY <2>1, <2>4, <2>5, <2>9, <2>10 DEF Calm, RolesTold
    <2> QED
      BY <2>4, <2>7, <2>11 DEF Calm
  <1>6. CASE AssignCreate(r)
    <2>1. /\ At(r, "assign", "create") /\ UNCHANGED <<tokens, crashes, confirmed>>
          /\ Finish(r)
      BY <1>6 DEF AssignCreate
    <2>2. PICK u \in Users, roles \in SUBSET Roles : u = req[r].user /\ roles = req[r].roles
      BY <1>2, <2>1
    <2>3. users[u].roles = {}
      BY <1>2, <1>3, <2>1, <2>2 DEF Relies, Assigning
    <2>4. PICK all : all = users[u].roles \union roles
      OBVIOUS
    <2>5. all = roles
      BY <2>3, <2>4
    <2>6. SetUser(u, [users[u] EXCEPT !.roles = all]) /\ granted' = [granted EXCEPT ![u] = roles]
      BY <1>6, <2>2, <2>4 DEF AssignCreate
    <2>7. /\ TokensFit' /\ RemovedAreGone' /\ MfaTold' /\ users'[u].roles = roles
          /\ \A v \in Users : v # u => users'[v] = users[v]
      BY <1>4, <2>1, <2>5, <2>6
    <2>8. OnlyMove(r, Idle) /\ req[r].user = u
      BY <1>2, <2>1, <2>2, Ending
    <2>9. Sole' /\ AllRely'
      BY <2>8, IdleRelies, SoleStays
    <2>10. \A s \in Requests : s # r => ~Assigning(req[s])
      BY <1>0, <2>8, OnlyOne, IdleRelies DEF Calm
    <2>11. RolesTold'
      BY <2>1, <2>6, <2>7, <2>8, <2>10 DEF Calm, RolesTold
    <2> QED
      BY <2>7, <2>9, <2>11 DEF Calm
  <1> QED
    BY <1>1, <1>5, <1>6 DEF RoleRequests

LEMMA MfaCalm ==
  ASSUME SessionInv, Calm, alone, NEW r \in Requests, MfaRequests(r)
  PROVE  Calm'
  <1> USE DEF Steps
  <1>0. TypeOK
    BY DEF SessionInv
  <1>1. ASSUME NEW u \in Users, NEW code, NEW password,
               MfaSetup(r, u) \/ MfaActivate(r, u, code) \/ MfaDisable(r, u, code, password)
        PROVE  Calm'
    <2>1. PICK w : /\ w \in { [op |-> "mfaSetup", pc |-> "store", user |-> u],
                              [op |-> "mfaActivate", pc |-> "enable", user |-> u],
                              [op |-> "mfaDisable", pc |-> "clear", user |-> u] }
                   /\ Begin(r, w)
                   /\ w.op = "mfaSetup" => ~users[u].mfaEnabled
                   /\ w.op = "mfaActivate" => users[u].mfaSecret # 0
      BY <1>1 DEF MfaSetup, MfaActivate, MfaDisable
    <2>2. w \in Work
      BY <2>1 DEF Work, UserWork
    <2>3. UNCHANGED <<users, tokens, crashes, granted, confirmed>>
      BY <1>1 DEF MfaSetup, MfaActivate, MfaDisable
    <2>4. Relies(w, users', tokens')
      BY <2>1, <2>3 DEF Relies, Assigning
    <2>5. SameUsers /\ TokensOnlyGo /\ OnlyMove(r, w) /\ ~Assigning(req[r])
      BY <1>0, <2>1, <2>3, Unchanged, Starting
    <2> QED
      BY <2>2, <2>3, <2>4, <2>5, PlainStep
  <1>2. ASSUME NEW op \in {"mfaSetup", "mfaActivate", "mfaDisable"}, NEW pc, At(r, op, pc)
        PROVE  /\ req[r] \in Work /\ req[r].op = op /\ req[r].user \in Users
               /\ ~Assigning(req[r])
    <2>1. req[r] \in UserWork /\ req[r] \in Work /\ req[r].op = op
      BY <1>0, <1>2, WorkAt
    <2> QED
      BY <2>1 DEF UserWork, Assigning
  <1>3. Relies(req[r], users, tokens)
    BY DEF Calm, AllRely
  <1>4. ASSUME NEW op \in {"mfaSetup", "mfaActivate", "mfaDisable"}, NEW pc, At(r, op, pc),
               Finish(r), UNCHANGED <<tokens, crashes, granted>>,
               NEW u \in Users, u = req[r].user, NEW row, SetUser(u, row),
               row.exists = users[u].exists, row.removed = users[u].removed,
               row.password = users[u].password, row.roles = users[u].roles,
               NEW on \in BOOLEAN, row.mfaEnabled = on, on => row.mfaSecret # 0,
               confirmed' = [confirmed EXCEPT ![u] = on]
        PROVE  Calm'
    <2>1. OnlyMove(r, Idle) /\ ~Assigning(req[r])
      BY <1>2, <1>4, Ending
    <2>2. \A v \in Users : users'[v] = IF v = u THEN row ELSE users[v]
      BY <1>0, <1>4, SettledUser
    <2>3. Sole' /\ AllRely'
      BY <2>1, IdleRelies, SoleStays
    <2>4. TokensFit'
      <3> SUFFICES ASSUME NEW t \in DOMAIN tokens, tokens[t].stored
                   PROVE  UpToDate(tokens[t], users')
        BY <1>4 DEF TokensFit
      <3>1. tokens[t].user \in Users /\ UpToDate(tokens[t], users)
        BY TokenUser DEF Calm, TokensFit
      <3> QED
        BY <1>4, <2>2, <3>1 DEF UpToDate
    <2>5. RemovedAreGone'
      BY <1>4, <2>2 DEF Calm, RemovedAreGone
    <2>6. MfaTold'
      BY <1>4, <2>2 DEF Calm, MfaTold
    <2>7. \A s \in Requests : ~Assigning(req[s])
      BY <1>0, <2>1, OnlyOne, IdleRelies DEF Calm
    <2>8. RolesTold'
      BY <1>4, <2>2, <2>7 DEF Calm, RolesTold
    <2> QED
      BY <2>3, <2>4, <2>5, <2>6, <2>8 DEF Calm
  <1>5. CASE MfaStore(r)
    <2>1. /\ At(r, "mfaSetup", "store") /\ UNCHANGED <<tokens, crashes, granted, confirmed>>
          /\ Finish(r)
      BY <1>5 DEF MfaStore
    <2>2. PICK u \in Users : u = req[r].user
      BY <1>2, <2>1
    <2>3. PICK n : n = users[u].secrets + 1
      OBVIOUS
    <2>4. PICK row : row = [users[u] EXCEPT !.secrets = n, !.mfaSecret = n, !.mfaEnabled = FALSE]
      OBVIOUS
    <2>5. users[u] \in UserRow
      BY <1>0, RowOf
    <2>6. /\ row.roles = users[u].roles /\ row.mfaEnabled = FALSE
          /\ row.exists = users[u].exists /\ row.removed = users[u].removed
          /\ row.password = users[u].password
      BY <2>4, <2>5 DEF UserRow
    <2>7. SetUser(u, row)
      BY <1>5, <2>2, <2>3, <2>4 DEF MfaStore
    <2>8. ~users[u].mfaEnabled
      BY <1>2, <1>3, <2>1, <2>2 DEF Relies
    <2>9. confirmed \in [Users -> BOOLEAN] /\ confirmed[u] = FALSE
      BY <2>8 DEF Calm, MfaTold
    <2>10. confirmed' = [confirmed EXCEPT ![u] = FALSE]
      BY <2>1, <2>9
    <2> QED
      BY <1>4, <2>1, <2>2, <2>6, <2>7, <2>10
  <1>6. CASE MfaEnable(r)
    <2>1. At(r, "mfaActivate", "enable") /\ UNCHANGED <<tokens, crashes, granted>> /\ Finish(r)
      BY <1>6 DEF MfaEnable
    <2>2. PICK u \in Users : u = req[r].user
      BY <1>2, <2>1
    <2>3. PICK row : row = [users[u] EXCEPT !.mfaEnabled = TRUE]
      OBVIOUS
    <2>4. users[u] \in UserRow
      BY <1>0, RowOf
    <2>5. /\ row.roles = users[u].roles /\ row.mfaEnabled = TRUE
          /\ row.exists = users[u].exists /\ row.removed = users[u].removed
          /\ row.password = users[u].password /\ row.mfaSecret = users[u].mfaSecret
      BY <2>3, <2>4 DEF UserRow
    <2>6. users[u].mfaSecret # 0
      BY <1>2, <1>3, <2>1, <2>2 DEF Relies
    <2>7. SetUser(u, row) /\ confirmed' = [confirmed EXCEPT ![u] = TRUE]
      BY <1>6, <2>2, <2>3 DEF MfaEnable
    <2> QED
      BY <1>4, <2>1, <2>2, <2>5, <2>6, <2>7
  <1>7. CASE MfaClear(r)
    <2>1. At(r, "mfaDisable", "clear") /\ UNCHANGED <<tokens, crashes, granted>> /\ Finish(r)
      BY <1>7 DEF MfaClear
    <2>2. PICK u \in Users : u = req[r].user
      BY <1>2, <2>1
    <2>3. PICK row : row = [users[u] EXCEPT !.mfaEnabled = FALSE, !.mfaSecret = 0]
      OBVIOUS
    <2>4. users[u] \in UserRow
      BY <1>0, RowOf
    <2>5. /\ row.roles = users[u].roles /\ row.mfaEnabled = FALSE
          /\ row.exists = users[u].exists /\ row.removed = users[u].removed
          /\ row.password = users[u].password
      BY <2>3, <2>4 DEF UserRow
    <2>6. SetUser(u, row) /\ confirmed' = [confirmed EXCEPT ![u] = FALSE]
      BY <1>7, <2>2, <2>3 DEF MfaClear
    <2> QED
      BY <1>4, <2>1, <2>2, <2>5, <2>6
  <1> QED
    BY <1>1, <1>5, <1>6, <1>7 DEF MfaRequests

(* Tokens that expire or go take nothing from the request under way. *)
LEMMA StillRely ==
  ASSUME SessionInv, AllRely, TokensOnlyGo, UNCHANGED <<users, req>>
  PROVE  AllRely'
  <1> SUFFICES ASSUME NEW r \in Requests
               PROVE  Relies(req[r], users, tokens')
    BY DEF AllRely
  <1>1. Relies(req[r], users, tokens)
    BY DEF AllRely
  <1>2. req[r].op = "refresh" => req[r].token \in DOMAIN tokens
    BY DEF SessionInv, TokensKnown
  <1>3. ASSUME req[r].op = "refresh", req[r].pc = "issue"
        PROVE  UpToDate(tokens'[req[r].token], users)
    BY <1>1, <1>2, <1>3 DEF Relies, TokensOnlyGo, UpToDate
  <1>4. ASSUME req[r].op \in {"reset", "remove"}, req[r].pc = "update", NEW t \in DOMAIN tokens',
               tokens'[t].stored
        PROVE  tokens'[t].user # req[r].user
    BY <1>1, <1>4 DEF Relies, TokensOnlyGo
  <1> QED
    BY <1>1, <1>3, <1>4 DEF Relies

(* What is one statement, time and crashes. *)
LEMMA OthersCalm ==
  ASSUME SessionInv, Calm, alone,
         \/ \E u \in Users, role \in Roles : CreateUser(u, role)
         \/ \E u \in Users, active \in BOOLEAN : SetActive(u, active)
         \/ \E t \in Strings : Logout(t) \/ TokenExpires(t)
         \/ SecondPasses
         \/ AttemptAges
         \/ Crash
         \/ UNCHANGED sessionVars
  PROVE  Calm'
  <1>0. TypeOK
    BY DEF SessionInv
  <1>1. ASSUME InFlight = {}, UNCHANGED req
        PROVE  /\ \A s \in Requests : ~Assigning(req[s])
               /\ Sole' /\ AllRely'
    <2>1. \A s \in Requests : req[s] = Idle /\ req'[s] = Idle
      BY <1>1 DEF InFlight
    <2>2. Sole'
      BY <2>1 DEF Sole
    <2>3. ASSUME NEW s \in Requests
          PROVE  Relies(req'[s], users', tokens')
      BY <2>1, IdleRelies
    <2>4. AllRely'
      BY <2>3 DEF AllRely
    <2> QED
      BY <2>1, <2>2, <2>4, IdleRelies
  <1>2. ASSUME SameUsers, TokensOnlyGo, UNCHANGED <<crashes, granted, confirmed, req>>,
               Sole', AllRely'
        PROVE  Calm'
    <2>1. TokensFit' /\ MfaTold'
      BY <1>2, TokensStillFit, MfaStaysTold DEF Calm
    <2>2. RemovedAreGone' /\ RolesTold'
      BY <1>2 DEF Calm, RemovedAreGone, RolesTold, SameUsers
    <2> QED
      BY <1>2, <2>1, <2>2 DEF Calm
  <1>3. ASSUME NEW u \in Users, NEW role \in Roles, CreateUser(u, role)
        PROVE  Calm'
    <2>1. PICK roles \in SUBSET Roles : roles = {role}
      OBVIOUS
    <2>2. /\ InFlight = {} /\ UNCHANGED <<req, tokens, crashes, confirmed>> /\ users[u] = NoUser
          /\ SetUser(u, NewUser(roles)) /\ granted' = [granted EXCEPT ![u] = roles]
      BY <1>3, <2>1 DEF CreateUser
    <2>3. /\ \A s \in Requests : ~Assigning(req[s])
          /\ Sole' /\ AllRely'
      BY <1>1, <2>2
    <2>4. TokensFit' /\ RemovedAreGone' /\ MfaTold' /\ RolesTold'
      BY <2>2, <2>3, NewRow
    <2> QED
      BY <2>3, <2>4 DEF Calm
  <1>4. ASSUME NEW u \in Users, NEW active \in BOOLEAN, SetActive(u, active)
        PROVE  Calm'
    <2>1. InFlight = {} /\ UNCHANGED <<req, tokens, crashes, granted, confirmed>>
      BY <1>4 DEF SetActive
    <2>2. PICK row : row = [users[u] EXCEPT !.active = active]
      OBVIOUS
    <2>3. users[u] \in UserRow
      BY <1>0, RowOf
    <2>4. /\ row.exists = users[u].exists /\ row.removed = users[u].removed
          /\ row.password = users[u].password /\ row.roles = users[u].roles
          /\ row.mfaEnabled = users[u].mfaEnabled /\ row.mfaSecret = users[u].mfaSecret
      BY <2>2, <2>3 DEF UserRow
    <2>5. \A v \in Users : users'[v] = IF v = u THEN row ELSE users[v]
      BY <1>0, <1>4, <2>2, SettledUser DEF SetActive
    <2>6. SameUsers /\ TokensOnlyGo
      BY <1>0, <2>1, <2>4, <2>5, KeepingTokens DEF SameUsers
    <2> QED
      BY <1>1, <1>2, <2>1, <2>6
  <1>5. ASSUME NEW t, Logout(t)
        PROVE  Calm'
    <2>1. InFlight = {} /\ UNCHANGED <<users, req, crashes, granted, confirmed>>
      BY <1>5 DEF Logout
    <2>2. SameUsers /\ TokensOnlyGo
      BY <1>0, <1>5, DeletingTokens DEF Logout, SameUsers
    <2> QED
      BY <1>1, <1>2, <2>1, <2>2
  <1>6. ASSUME TokensOnlyGo, UNCHANGED <<users, req, crashes, granted, confirmed>>
        PROVE  Calm'
    <2>1. AllRely' /\ Sole' /\ SameUsers
      BY <1>6, StillRely DEF Calm, Sole, SameUsers
    <2> QED
      BY <1>2, <1>6, <2>1
  <1>7. ASSUME NEW t, TokenExpires(t)
        PROVE  Calm'
    BY <1>0, <1>6, <1>7, ExpiringTokens DEF TokenExpires
  <1>10. CASE SecondPasses
    BY <1>6, <1>10, ASecondPasses DEF SecondPasses
  <1>8. CASE AttemptAges \/ UNCHANGED sessionVars
    <2>1. UNCHANGED <<users, tokens, req, crashes, granted, confirmed>>
      BY <1>8 DEF AttemptAges, sessionVars
    <2> QED
      BY <1>0, <1>6, <2>1, KeepingTokens
  <1>9. CASE Crash
    <2>1. /\ UNCHANGED <<users, tokens, granted, confirmed>>
          /\ crashes' = crashes + 1
          /\ \A s \in Requests : req'[s] = Idle
      BY <1>9 DEF Crash
    <2>2. SameUsers /\ TokensOnlyGo
      BY <1>0, <2>1, Unchanged
    <2>3. TokensFit' /\ MfaTold' /\ RemovedAreGone'
      BY <2>1, <2>2, TokensStillFit, MfaStaysTold DEF Calm, RemovedAreGone, SameUsers
    <2>4. RolesTold'
      BY <2>1 DEF Calm, RolesTold
    <2>5. Sole'
      BY <2>1 DEF Sole
    <2>6. ASSUME NEW s \in Requests
          PROVE  Relies(req'[s], users', tokens')
      BY <2>1, IdleRelies
    <2>7. AllRely'
      BY <2>6 DEF AllRely
    <2> QED
      BY <2>3, <2>4, <2>5, <2>7 DEF Calm
  <1> QED
    BY <1>3, <1>4, <1>5, <1>7, <1>8, <1>9, <1>10

LEMMA AloneStays ==
  ASSUME [Next]_sessionVars
  PROVE  alone' = alone
  <1>1. ASSUME NEW r \in Requests, Handle(r)
        PROVE  alone' = alone
    <2>1. CASE Registration(r)
      BY <2>1 DEF Registration, Register, RegisterCreate, RegisterIssue, RegisterClear
    <2>2. CASE Accounts(r)
      BY <2>2 DEF Accounts, ResetPassword, Remove, RevokeAll, ResetUpdate, RemoveUpdate
    <2>3. CASE RoleRequests(r)
      BY <2>3 DEF RoleRequests, AssignRoles, AssignDelete, AssignCreate
    <2>4. CASE LoginRequests(r)
      BY <2>4 DEF LoginRequests, Login, LoginCount, LoginRecord, LoginRecount, LoginClear,
                  LoginUnlock, LoginIssue
    <2>5. CASE RefreshRequests(r)
      BY <2>5 DEF RefreshRequests, Refresh, RefreshFind, RefreshMissing, RefreshRevoke,
                  RefreshLock, RefreshExpired, RefreshDelete, RefreshIssue
    <2>6. CASE MfaRequests(r)
      BY <2>6 DEF MfaRequests, MfaSetup, MfaActivate, MfaDisable, MfaStore, MfaEnable, MfaClear
    <2> QED
      BY <1>1, <2>1, <2>2, <2>3, <2>4, <2>5, <2>6 DEF Handle
  <1> QED
    BY <1>1 DEF Next, CreateUser, SetActive, Logout, TokenExpires, SecondPasses, AttemptAges,
                 Crash, sessionVars

LEMMA CalmInvHolds == Spec => []CalmInv
  <1>1. Init => CalmInv
    <2> SUFFICES ASSUME Init
                 PROVE  Calm
      BY DEF CalmInv
    <2>1. \A r \in Requests : req[r] = Idle
      BY DEF Init
    <2>2. Sole /\ AllRely
      BY <2>1, IdleRelies DEF Sole, AllRely
    <2>3. DOMAIN tokens = {}
      BY EmptySeq, LenProperties DEF Init
    <2>4. TokensFit /\ RemovedAreGone
      BY <2>3 DEF TokensFit, RemovedAreGone, Init, NoUser
    <2>5. MfaTold /\ RolesTold
      BY DEF MfaTold, RolesTold, Init, NoUser
    <2> QED
      BY <2>2, <2>4, <2>5 DEF Calm
  <1>2. SessionInv /\ CalmInv /\ [Next]_sessionVars => CalmInv'
    <2> SUFFICES ASSUME SessionInv, Calm, alone, [Next]_sessionVars
                 PROVE  Calm'
      BY AloneStays DEF CalmInv
    <2>1. ASSUME NEW r \in Requests, Handle(r)
          PROVE  Calm'
      BY <2>1, RegistrationCalm, AccountsCalm, RolesCalm, LoginsCalm, RefreshesCalm, MfaCalm
         DEF Handle
    <2> QED
      BY <2>1, OthersCalm DEF Next
  <1> QED
    BY <1>1, <1>2, SessionInvHolds, PTL DEF Spec

(* While requests do not overlap, a token that works was opened with the   *)
(* password its user has now, and its user is not removed: for any number  *)
(* of users, logins and resets, and wherever the server stops.             *)
THEOREM ResetsEndSessions == Spec => []ResetEndsSessions
  <1>1. CalmInv => ResetEndsSessions
    BY DEF CalmInv, Calm, TokensFit, UpToDate, ResetEndsSessions
  <1> QED
    BY <1>1, CalmInvHolds, PTL

(* While requests do not overlap, MFA is on exactly if its user was told   *)
(* so, and while the server does not stop a user has the roles the         *)
(* administrator was told of.                                              *)
THEOREM AnswersAreTrue == Spec => []AnswersHold
  <1>1. CalmInv => AnswersHold
    <2> SUFFICES ASSUME CalmInv, alone, NEW u \in Users
                 PROVE  /\ users[u].mfaEnabled = confirmed[u]
                        /\ users[u].mfaEnabled => users[u].mfaSecret # 0
                        /\ InFlight = {} /\ crashes = 0 => users[u].roles = granted[u]
      BY DEF AnswersHold
    <2>1. InFlight = {} => \A r \in Requests : ~Assigning(req[r])
      BY IdleRelies DEF InFlight
    <2> QED
      BY <2>1 DEF CalmInv, Calm, MfaTold, RolesTold
  <1> QED
    BY <1>1, CalmInvHolds, PTL

-----------------------------------------------------------------------------
(* The elements of a sequence that are kept: each is one of its elements,  *)
(* and none is there more often than before.                               *)

Places(s, M) == { i \in DOMAIN s : s[i] \in M }

Held(s, M) == Cardinality(Places(s, M))

LEMMA PlacesFinite ==
  ASSUME NEW S, NEW s \in Seq(S), NEW M
  PROVE  IsFiniteSet(Places(s, M)) /\ Held(s, M) \in Nat
  <1>1. Len(s) \in Nat /\ DOMAIN s = 1 .. Len(s)
    BY LenProperties
  <1>2. 1 \in Int /\ Len(s) \in Int
    BY <1>1
  <1>3. IsFiniteSet(1 .. Len(s))
    BY <1>2, FS_Interval, Zenon
  <1>4. Places(s, M) \in SUBSET (1 .. Len(s))
    BY <1>1 DEF Places
  <1>5. IsFiniteSet(Places(s, M))
    BY <1>3, <1>4, FS_Subset
  <1> QED
    BY <1>5, FS_CardinalityType DEF Held

LEMMA FewerHeld ==
  ASSUME NEW S, NEW s \in Seq(S), NEW t, NEW at \in Injection(DOMAIN t, DOMAIN s),
         \A k \in DOMAIN t : t[k] = s[at[k]], NEW M
  PROVE  Held(t, M) <= Held(s, M)
  <1>1. PICK T : T = Places(t, M)
    OBVIOUS
  <1>2. PICK R : R = Places(s, M)
    OBVIOUS
  <1>3. PICK f : f = [k \in T |-> at[k]]
    OBVIOUS
  <1>4. /\ at \in [DOMAIN t -> DOMAIN s]
        /\ \A j, k \in DOMAIN t : at[j] = at[k] => j = k
    BY DEF Injection, IsInjective
  <1>5. T \subseteq DOMAIN t /\ \A k \in T : at[k] \in R
    BY <1>1, <1>2, <1>4 DEF Places
  <1>6. f \in Injection(T, R)
    BY <1>3, <1>4, <1>5 DEF Injection, IsInjective
  <1>7. IsFiniteSet(R)
    BY <1>2, PlacesFinite
  <1>8. Cardinality(T) <= Cardinality(R)
    BY <1>6, <1>7, FS_Injection
  <1> QED
    BY <1>1, <1>2, <1>8 DEF Held

LEMMA KeptElements ==
  ASSUME NEW S, NEW s \in Seq(S), NEW places \in SUBSET DOMAIN s
  PROVE  /\ Kept(s, places) \in Seq(S)
         /\ \E at \in Injection(DOMAIN Kept(s, places), DOMAIN s) :
              \A k \in DOMAIN Kept(s, places) : Kept(s, places)[k] = s[at[k]]
  <1> DEFINE Up(i) == { j \in places : j <= i }
  <1>1. Len(s) \in Nat /\ DOMAIN s = 1 .. Len(s)
    BY LenProperties
  <1>2. IsFiniteSet(places)
    <2>1. 1 \in Int /\ Len(s) \in Int
      BY <1>1
    <2>2. IsFiniteSet(1 .. Len(s))
      BY <2>1, FS_Interval, Zenon
    <2> QED
      BY <1>1, <2>2, FS_Subset
  <1>3. PICK n : n = Cardinality(places)
    OBVIOUS
  <1>4. n \in Nat
    BY <1>2, <1>3, FS_CardinalityType
  <1>5. ASSUME NEW i \in places
        PROVE  IsFiniteSet(Up(i)) /\ Cardinality(Up(i)) \in 1 .. n
    <2>1. Up(i) \in SUBSET places
      OBVIOUS
    <2>2. IsFiniteSet(Up(i)) /\ Cardinality(Up(i)) <= n
      BY <1>2, <1>3, <2>1, FS_Subset
    <2>3. Up(i) # {}
      BY <1>1
    <2>4. Cardinality(Up(i)) \in Nat /\ Cardinality(Up(i)) # 0
      BY <2>2, <2>3, FS_CardinalityType, FS_EmptySet
    <2> HIDE DEF Up
    <2> QED
      BY <1>4, <2>2, <2>4
  <1>6. ASSUME NEW i \in places, NEW j \in places, i < j
        PROVE  Cardinality(Up(i)) # Cardinality(Up(j))
    <2>1. Up(i) \in SUBSET Up(j) /\ j \in Up(j) /\ j \notin Up(i)
      BY <1>1, <1>6
    <2>2. IsFiniteSet(Up(j))
      BY <1>5
    <2> HIDE DEF Up
    <2> QED
      BY <2>1, <2>2, FS_Subset
  <1>7. PICK f : f = [i \in places |-> Cardinality(Up(i))]
    OBVIOUS
  <1>8. f \in [places -> 1 .. n]
    BY <1>5, <1>7
  <1>9. ASSUME NEW i \in places, NEW j \in places, f[i] = f[j]
        PROVE  i = j
    <2>1. \A p, q \in places : p < q => f[p] # f[q]
      BY <1>6, <1>7
    <2>2. i \in Int /\ j \in Int
      BY <1>1
    <2> QED
      BY <1>9, <2>1, <2>2
  <1>10. f \in Injection(places, 1 .. n)
    BY <1>8, <1>9 DEF Injection, IsInjective
  <1>11. f \in Surjection(places, 1 .. n)
    <2>1. 1 \in Int /\ n \in Int
      BY <1>4
    <2>2. IsFiniteSet(1 .. n) /\ Cardinality(1 .. n) = IF 1 > n THEN 0 ELSE n - 1 + 1
      BY <2>1, FS_Interval, Zenon
    <2>3. Cardinality(1 .. n) = n
      BY <1>4, <2>2
    <2> QED
      BY <1>3, <1>10, <2>2, <2>3, FS_Injection
  <1>12. \A k \in 1 .. n : \E i \in places : Cardinality(Up(i)) = k
    BY <1>7, <1>11 DEF Surjection
  <1>13. PICK at : at = [k \in 1 .. n |-> CHOOSE i \in places : Cardinality(Up(i)) = k]
    OBVIOUS
  <1>14. \A k \in 1 .. n : at[k] \in places /\ Cardinality(Up(at[k])) = k
    BY <1>12, <1>13
  <1>15. Kept(s, places) = [k \in 1 .. n |-> s[at[k]]]
    BY <1>3, <1>13 DEF Kept
  <1>16. DOMAIN Kept(s, places) = 1 .. n
    BY <1>15
  <1>17. Kept(s, places) \in Seq(S)
    <2>1. \A k \in 1 .. n : s[at[k]] \in S
      BY <1>1, <1>14, ElementOfSeq
    <2> QED
      BY <1>4, <1>15, <2>1, SeqDef
  <1>18. at \in Injection(1 .. n, DOMAIN s)
    <2>1. at \in [1 .. n -> DOMAIN s]
      BY <1>13, <1>14
    <2>2. \A j, k \in 1 .. n : at[j] = at[k] => j = k
      BY <1>14
    <2> QED
      BY <2>1, <2>2 DEF Injection, IsInjective
  <1> QED
    BY <1>15, <1>16, <1>17, <1>18

LEMMA KeepingSome ==
  ASSUME NEW S, NEW s \in Seq(S), NEW places \in SUBSET DOMAIN s, NEW t, t = Kept(s, places)
  PROVE  t \in Seq(S) /\ \A M : Held(t, M) <= Held(s, M)
  <1>1. /\ t \in Seq(S)
        /\ \E at \in Injection(DOMAIN t, DOMAIN s) : \A k \in DOMAIN t : t[k] = s[at[k]]
    BY KeptElements
  <1> QED
    BY <1>1, FewerHeld

LEMMA LosingFirst ==
  ASSUME NEW S, NEW s \in Seq(S), s # <<>>, NEW t, t = Tail(s)
  PROVE  t \in Seq(S) /\ \A M : Held(t, M) <= Held(s, M)
  <1>1. /\ t \in Seq(S) /\ Len(t) = Len(s) - 1 /\ Len(s) \in Nat \ {0}
        /\ \A k \in 1 .. Len(t) : t[k] = s[k + 1]
    BY EmptySeq, LenProperties, HeadTailProperties
  <1>2. DOMAIN t = 1 .. Len(s) - 1 /\ DOMAIN s = 1 .. Len(s)
    BY <1>1, LenProperties
  <1>3. PICK at : at = [k \in DOMAIN t |-> k + 1]
    OBVIOUS
  <1>4. at \in Injection(DOMAIN t, DOMAIN s)
    BY <1>1, <1>2, <1>3 DEF Injection, IsInjective
  <1>5. \A k \in DOMAIN t : t[k] = s[at[k]]
    BY <1>1, <1>2, <1>3
  <1> QED
    BY <1>1, <1>4, <1>5, FewerHeld

LEMMA AddingOne ==
  ASSUME NEW s, NEW t, NEW D, NEW E, DOMAIN s = D, DOMAIN t = E, IsFiniteSet(D),
         NEW new, new \notin D, E = D \union {new}, \A k \in D : t[k] = s[k], NEW M
  PROVE  /\ t[new] \in M => Held(t, M) = Held(s, M) + 1
         /\ t[new] \notin M => Held(t, M) = Held(s, M)
  <1>1. PICK R : R = Places(s, M)
    OBVIOUS
  <1>2. IsFiniteSet(R) /\ new \notin R
    <2>1. R \in SUBSET D
      BY <1>1 DEF Places
    <2> QED
      BY <2>1, FS_Subset
  <1>3. CASE t[new] \in M
    <2>1. Places(t, M) = R \union {new}
      BY <1>1, <1>3 DEF Places
    <2>2. Cardinality(R \union {new}) = Cardinality(R) + 1
      BY <1>2, FS_AddElement
    <2> QED
      BY <1>1, <1>3, <2>1, <2>2 DEF Held
  <1>4. CASE t[new] \notin M
    <2>1. Places(t, M) = R
      BY <1>1, <1>4 DEF Places
    <2> QED
      BY <1>1, <1>4, <2>1 DEF Held
  <1> QED
    BY <1>3, <1>4

Grown(s, t, a) ==
    \A M : /\ a \in M => Held(t, M) = Held(s, M) + 1
           /\ a \notin M => Held(t, M) = Held(s, M)

LEMMA Growing ==
  ASSUME NEW S, NEW s \in Seq(S), NEW a \in S
  PROVE  Append(s, a) \in Seq(S) /\ Grown(s, Append(s, a), a)
  <1>1. PICK t : t = Append(s, a)
    OBVIOUS
  <1>2. PICK n : n = Len(s)
    OBVIOUS
  <1>3. PICK new : new = n + 1
    OBVIOUS
  <1>4. /\ t \in Seq(S) /\ DOMAIN t = 1 .. new /\ t[new] = a /\ n \in Nat
        /\ DOMAIN s = 1 .. n
        /\ \A k \in 1 .. n : t[k] = s[k]
    BY <1>1, <1>2, <1>3, AppendProperties, LenProperties
  <1>5. PICK D : DOMAIN s = D
    OBVIOUS
  <1>6. PICK E : DOMAIN t = E
    OBVIOUS
  <1>7. E = D \union {new} /\ new \notin D /\ \A k \in D : t[k] = s[k]
    BY <1>3, <1>4, <1>5, <1>6
  <1>8. IsFiniteSet(D)
    <2>1. 1 \in Int /\ n \in Int
      BY <1>4
    <2> QED
      BY <1>4, <1>5, <2>1, FS_Interval, Zenon
  <1>9. ASSUME NEW M
        PROVE  /\ t[new] \in M => Held(t, M) = Held(s, M) + 1
               /\ t[new] \notin M => Held(t, M) = Held(s, M)
    BY <1>5, <1>6, <1>7, <1>8, AddingOne, SMT
  <1>10. Grown(s, t, a)
    BY <1>4, <1>9, Zenon DEF Grown
  <1> QED
    BY <1>1, <1>4, <1>10, Zenon

-----------------------------------------------------------------------------
(* Failures that count and those about to be recorded, against a user or   *)
(* an address: at the count one is below the limit, and after it each of   *)
(* the requests is about to record one failure at most.                    *)

AttemptRow == [ user : Users \union {None}, ip : Addresses ]

Against(u) == { a \in AttemptRow : a.user = u }
From(ip) == { a \in AttemptRow : a.ip = ip }
Marks == { Against(u) : u \in Users } \union { From(ip) : ip \in Addresses }

Waits(w) == w.op = "login" /\ w.pc = "record"

Recorded(w) == [ user |-> IF w.seen.exists THEN w.user ELSE None, ip |-> w.ip ]

Waiting(q, M) == { r \in Requests : Waits(q[r]) /\ Recorded(q[r]) \in M }

Most == MaxFailed - 1 + Cardinality(Requests)

FailuresInv ==
    /\ attempts \in Seq(AttemptRow)
    /\ \A M \in Marks : Held(attempts, M) + Cardinality(Waiting(req, M)) <= Most

LEMMA MostIsANumber == Most \in Nat /\ Cardinality(Requests) \in Nat /\ MaxFailed \in Nat
  <1>1. Cardinality(Requests) \in Nat /\ MaxFailed \in Nat \ {0}
    BY RequestsFinite, MaxFailedPositive, FS_CardinalityType
  <1> QED
    BY <1>1 DEF Most

LEMMA WaitingFinite ==
  ASSUME NEW q, NEW M
  PROVE  /\ IsFiniteSet(Waiting(q, M)) /\ Cardinality(Waiting(q, M)) \in Nat
         /\ Cardinality(Waiting(q, M)) <= Cardinality(Requests)
  <1>1. Waiting(q, M) \in SUBSET Requests
    BY DEF Waiting
  <1>2. IsFiniteSet(Waiting(q, M)) /\ Cardinality(Waiting(q, M)) <= Cardinality(Requests)
    BY <1>1, RequestsFinite, FS_Subset
  <1> QED
    BY <1>2, FS_CardinalityType

(* Neither more failures nor more requests that are about to record one. *)
Quieter ==
    /\ \/ attempts' = attempts
       \/ \E places \in SUBSET DOMAIN attempts : attempts' = Kept(attempts, places)
       \/ attempts # <<>> /\ attempts' = Tail(attempts)
    /\ \A r \in Requests : req'[r] = req[r] \/ ~Waits(req'[r])

LEMMA QuieterKeeps ==
  ASSUME FailuresInv, Quieter
  PROVE  FailuresInv'
  <1>1. PICK s : s = attempts
    OBVIOUS
  <1>2. PICK t : t = attempts'
    OBVIOUS
  <1>3. s \in Seq(AttemptRow)
    BY <1>1 DEF FailuresInv
  <1>4. t \in Seq(AttemptRow) /\ \A M : Held(t, M) <= Held(s, M)
    <2>1. CASE t = s
      <3>1. \A M : Held(s, M) \in Nat
        BY <1>3, PlacesFinite
      <3> QED
        BY <1>3, <2>1, <3>1
    <2>2. ASSUME NEW places \in SUBSET DOMAIN s, t = Kept(s, places)
          PROVE  t \in Seq(AttemptRow) /\ \A M : Held(t, M) <= Held(s, M)
      BY <1>3, <2>2, KeepingSome
    <2>3. CASE s # <<>> /\ t = Tail(s)
      BY <1>3, <2>3, LosingFirst
    <2> QED
      BY <1>1, <1>2, <2>1, <2>2, <2>3 DEF Quieter
  <1>5. ASSUME NEW M \in Marks
        PROVE  Held(t, M) + Cardinality(Waiting(req', M)) <= Most
    <2>1. PICK p : p = Waiting(req, M)
      OBVIOUS
    <2>2. PICK q : q = Waiting(req', M)
      OBVIOUS
    <2>3. q \in SUBSET p
      BY <2>1, <2>2 DEF Waiting, Quieter
    <2>4. IsFiniteSet(p) /\ Cardinality(p) \in Nat /\ Cardinality(q) \in Nat
      BY <2>1, <2>2, WaitingFinite
    <2>5. Cardinality(q) <= Cardinality(p)
      BY <2>3, <2>4, FS_Subset
    <2>6. Held(s, M) \in Nat /\ Held(t, M) \in Nat /\ Held(t, M) <= Held(s, M)
      BY <1>3, <1>4, PlacesFinite
    <2>7. Held(s, M) + Cardinality(p) <= Most
      BY <1>1, <2>1 DEF FailuresInv
    <2>8. Held(t, M) + Cardinality(q) <= Most
      BY <2>4, <2>5, <2>6, <2>7, MostIsANumber
    <2> QED
      BY <2>2, <2>8
  <1> QED
    BY <1>2, <1>4, <1>5 DEF FailuresInv

LEMMA LessThanTheLimit ==
  ASSUME FailuresInv, NEW u \in Users \union {None}, NEW ip \in Addresses, ~TooMany(u, ip),
         NEW M \in Marks, [user |-> u, ip |-> ip] \in M
  PROVE  Held(attempts, M) <= MaxFailed - 1
  <1>1. PICK s : s = attempts /\ s \in Seq(AttemptRow)
    BY DEF FailuresInv
  <1>2. PICK all : all = { i \in DOMAIN s : (u # None /\ s[i].user = u) \/ s[i].ip = ip }
    OBVIOUS
  <1>3. Places(s, M) \subseteq all
    <2>1. CASE \E v \in Users : M = Against(v)
      <3>1. PICK v \in Users : M = Against(v)
        BY <2>1
      <3>2. u = v /\ u # None
        BY <3>1, NobodyIsNoUser DEF Against
      <3> QED
        BY <1>2, <3>1, <3>2 DEF Places, Against
    <2>2. CASE \E a \in Addresses : M = From(a)
      BY <1>2, <2>2 DEF Places, From
    <2> QED
      BY <2>1, <2>2 DEF Marks
  <1>4. IsFiniteSet(all)
    <2>1. all = Places(s, { a \in AttemptRow : (u # None /\ a.user = u) \/ a.ip = ip })
      <3>1. \A i \in DOMAIN s : s[i] \in AttemptRow
        BY <1>1, ElementOfSeq, LenProperties
      <3> QED
        BY <1>2, <3>1 DEF Places
    <2> QED
      BY <1>1, <2>1, PlacesFinite
  <1>5. Cardinality(all) \in Nat /\ Cardinality(Places(s, M)) <= Cardinality(all)
    BY <1>3, <1>4, FS_Subset, FS_CardinalityType
  <1>6. Cardinality(all) < MaxFailed
    BY <1>1, <1>2, <1>5, MostIsANumber DEF TooMany, Attempts
  <1>7. Held(s, M) \in Nat /\ Held(s, M) <= Cardinality(all)
    BY <1>1, <1>5, PlacesFinite DEF Held
  <1> QED
    BY <1>1, <1>5, <1>6, <1>7, MostIsANumber

(* A request that counted and is about to record. *)
LEMMA CountedKeeps ==
  ASSUME FailuresInv, NEW r \in Requests, NEW w, NEW u \in Users \union {None},
         NEW ip \in Addresses, ~TooMany(u, ip),
         Recorded(w) = [user |-> u, ip |-> ip],
         req \in [Requests -> Work \union {Idle}],
         req' = [req EXCEPT ![r] = w], UNCHANGED attempts
  PROVE  FailuresInv'
  <1> SUFFICES ASSUME NEW M \in Marks
               PROVE  Held(attempts, M) + Cardinality(Waiting(req', M)) <= Most
    BY DEF FailuresInv
  <1>1. PICK p : p = Waiting(req, M)
    OBVIOUS
  <1>2. PICK q : q = Waiting(req', M)
    OBVIOUS
  <1>3. /\ Cardinality(p) \in Nat /\ Cardinality(q) \in Nat /\ IsFiniteSet(p)
        /\ Cardinality(q) <= Cardinality(Requests)
    BY <1>1, <1>2, WaitingFinite
  <1>4. Held(attempts, M) \in Nat
    BY PlacesFinite DEF FailuresInv
  <1>5. CASE Recorded(w) \in M
    <2>1. Held(attempts, M) <= MaxFailed - 1
      BY <1>5, LessThanTheLimit
    <2> QED
      BY <1>2, <1>3, <1>4, <2>1, MostIsANumber DEF Most
  <1>6. CASE Recorded(w) \notin M
    <2>1. \A s \in Requests : req'[s] = IF s = r THEN w ELSE req[s]
      OBVIOUS
    <2>2. q \in SUBSET p
      BY <1>1, <1>2, <1>6, <2>1 DEF Waiting
    <2>3. Cardinality(q) <= Cardinality(p)
      BY <1>3, <2>2, FS_Subset
    <2>4. Held(attempts, M) + Cardinality(p) <= Most
      BY <1>1 DEF FailuresInv
    <2> QED
      BY <1>2, <1>3, <1>4, <2>3, <2>4, MostIsANumber
  <1> QED
    BY <1>5, <1>6

(* A request that records the failure it was about to record. *)
LEMMA RecordedKeeps ==
  ASSUME FailuresInv, NEW r \in Requests, Waits(req[r]), Recorded(req[r]) \in AttemptRow,
         NEW w, ~Waits(w), req \in [Requests -> Work \union {Idle}],
         req' = [req EXCEPT ![r] = w], attempts' = Append(attempts, Recorded(req[r]))
  PROVE  FailuresInv'
  <1>1. PICK a \in AttemptRow : a = Recorded(req[r])
    OBVIOUS
  <1>2. PICK s : s = attempts
    OBVIOUS
  <1>3. PICK t : t = attempts'
    OBVIOUS
  <1>4. s \in Seq(AttemptRow) /\ t = Append(s, a)
    BY <1>1, <1>2, <1>3 DEF FailuresInv
  <1>5. t \in Seq(AttemptRow) /\ Grown(s, t, a)
    BY <1>4, Growing, Zenon
  <1>6. ASSUME NEW M \in Marks
        PROVE  Held(t, M) + Cardinality(Waiting(req', M)) <= Most
    <2>1. PICK p : p = Waiting(req, M)
      OBVIOUS
    <2>2. PICK q : q = Waiting(req', M)
      OBVIOUS
    <2>3. /\ Cardinality(p) \in Nat /\ Cardinality(q) \in Nat /\ IsFiniteSet(p)
      BY <2>1, <2>2, WaitingFinite
    <2>4. Held(s, M) \in Nat
      BY <1>4, PlacesFinite
    <2>5. /\ a \in M => Held(t, M) = Held(s, M) + 1
          /\ a \notin M => Held(t, M) = Held(s, M)
      BY <1>5 DEF Grown
    <2>6. \A x \in Requests : req'[x] = IF x = r THEN w ELSE req[x]
      OBVIOUS
    <2>7. q = p \ {r} /\ (r \in p <=> a \in M)
      BY <1>1, <2>1, <2>2, <2>6 DEF Waiting
    <2>8. Cardinality(q) = IF r \in p THEN Cardinality(p) - 1 ELSE Cardinality(p)
      BY <2>3, <2>7, FS_RemoveElement
    <2>9. Held(s, M) + Cardinality(p) <= Most
      BY <1>2, <2>1 DEF FailuresInv
    <2>10. Held(t, M) + Cardinality(q) <= Most
      <3>1. CASE a \in M
        BY <2>3, <2>4, <2>5, <2>7, <2>8, <2>9, <3>1, MostIsANumber
      <3>2. CASE a \notin M
        BY <2>3, <2>4, <2>5, <2>7, <2>8, <2>9, <3>2, MostIsANumber
      <3> QED
        BY <3>1, <3>2
    <2> QED
      BY <2>2, <2>10
  <1> QED
    BY <1>3, <1>5, <1>6 DEF FailuresInv

LEMMA Unwaiting ==
  ASSUME TypeOK, NEW r \in Requests, NEW w, ~Waits(w), req' = [req EXCEPT ![r] = w]
  PROVE  \A s \in Requests : req'[s] = req[s] \/ ~Waits(req'[s])
  BY DEF TypeOK

LEMMA BeginsQuietly ==
  ASSUME TypeOK, NEW r \in Requests, NEW w, Begin(r, w), ~Waits(w), UNCHANGED attempts
  PROVE  Quieter
  BY Unwaiting DEF Begin, Quieter

LEMMA EndsQuietly ==
  ASSUME TypeOK, NEW r \in Requests, Finish(r)
  PROVE  \A s \in Requests : req'[s] = req[s] \/ ~Waits(req'[s])
  <1>1. ~Waits(Idle)
    BY DEF Waits, Idle
  <1> QED
    BY <1>1, Unwaiting DEF Finish

LEMMA GoesQuietly ==
  ASSUME TypeOK, NEW r \in Requests, req[r] \in Work, NEW pc \in Steps, pc # "record",
         Goto(r, pc)
  PROVE  \A s \in Requests : req'[s] = req[s] \/ ~Waits(req'[s])
  <1>1. PICK w \in Work : OnlyMove(r, w) /\ w.op = req[r].op /\ w.pc = pc
    BY Going
  <1>2. ~Waits(w) /\ req' = [req EXCEPT ![r] = w]
    BY <1>1 DEF Waits, OnlyMove
  <1> QED
    BY <1>2, Unwaiting

(* Every step of a request but the count and the record of a failed login. *)
LEMMA LeftQuietly ==
  ASSUME NEW u, NEW ip, attempts' = AttemptsLeft(u, ip)
  PROVE  \E places \in SUBSET DOMAIN attempts : attempts' = Kept(attempts, places)
  BY DEF AttemptsLeft

LEMMA OthersQuiet ==
  ASSUME SessionInv, NEW r \in Requests,
         Registration(r) \/ Accounts(r) \/ RoleRequests(r) \/ RefreshRequests(r)
            \/ MfaRequests(r)
  PROVE  Quieter
  <1> USE DEF Steps
  <1>0. TypeOK
    BY DEF SessionInv
  <1>1. ASSUME NEW op, op # "idle", NEW pc, At(r, op, pc)
        PROVE  req[r] \in Work
    BY <1>0, <1>1, WorkAt
  <1>2. CASE Registration(r)
    <2>1. ASSUME NEW u \in Users, NEW role \in Roles, NEW ip \in Addresses,
                 Register(r, u, role, ip)
          PROVE  Quieter
      BY <1>0, <2>1, BeginsQuietly DEF Register, Waits
    <2>2. CASE RegisterCreate(r)
      BY <1>0, <1>1, <2>2, EndsQuietly, GoesQuietly DEF RegisterCreate, Quieter
    <2>3. CASE RegisterIssue(r)
      BY <1>0, <1>1, <2>3, GoesQuietly, EndsQuietly DEF RegisterIssue, Quieter
    <2>4. CASE RegisterClear(r)
      BY <1>0, <2>4, EndsQuietly, LeftQuietly DEF RegisterClear, Quieter
    <2> QED
      BY <1>2, <2>1, <2>2, <2>3, <2>4 DEF Registration
  <1>3. CASE Accounts(r)
    <2>1. ASSUME NEW u \in Users, ResetPassword(r, u) \/ Remove(r, u)
          PROVE  Quieter
      BY <1>0, <2>1, BeginsQuietly DEF ResetPassword, Remove, Waits
    <2>2. CASE RevokeAll(r)
      BY <1>0, <1>1, <2>2, GoesQuietly DEF RevokeAll, Quieter
    <2>3. CASE ResetUpdate(r) \/ RemoveUpdate(r)
      BY <1>0, <2>3, EndsQuietly DEF ResetUpdate, RemoveUpdate, Quieter
    <2> QED
      BY <1>3, <2>1, <2>2, <2>3 DEF Accounts
  <1>4. CASE RoleRequests(r)
    <2>1. ASSUME NEW u \in Users, NEW names, AssignRoles(r, u, names)
          PROVE  Quieter
      BY <1>0, <2>1, BeginsQuietly DEF AssignRoles, Waits
    <2>2. CASE AssignDelete(r)
      BY <1>0, <1>1, <2>2, GoesQuietly DEF AssignDelete, Quieter
    <2>3. CASE AssignCreate(r)
      BY <1>0, <2>3, EndsQuietly DEF AssignCreate, Quieter
    <2> QED
      BY <1>4, <2>1, <2>2, <2>3 DEF RoleRequests
  <1>5. CASE RefreshRequests(r)
    <2>1. ASSUME NEW t, Refresh(r, t)
          PROVE  Quieter
      BY <1>0, <2>1, BeginsQuietly DEF Refresh, Waits
    <2>2. CASE RefreshFind(r)
      <3>1. At(r, "refresh", "find") /\ UNCHANGED attempts
        BY <2>2 DEF RefreshFind
      <3>2. CASE Goto(r, "missing")
        BY <1>0, <1>1, <3>1, <3>2, GoesQuietly DEF Quieter
      <3>3. ASSUME NEW t, NEW pc, req' = [req EXCEPT ![r].token = t, ![r].pc = pc]
            PROVE  Quieter
        <4>1. PICK w : w = [req[r] EXCEPT !.token = t, !.pc = pc]
          OBVIOUS
        <4>2. req[r] \in RefreshWork
          BY <1>0, <3>1, WorkAt
        <4>3. ~Waits(w) /\ req' = [req EXCEPT ![r] = w]
          BY <1>0, <3>3, <4>1, <4>2 DEF Waits, RefreshWork, TypeOK
        <4> QED
          BY <1>0, <3>1, <4>3, Unwaiting DEF Quieter
      <3> QED
        BY <2>2, <3>2, <3>3 DEF RefreshFind
    <2>3. CASE RefreshMissing(r)
      BY <1>0, <1>1, <2>3, GoesQuietly, EndsQuietly DEF RefreshMissing, Quieter
    <2>4. CASE RefreshRevoke(r)
      BY <1>0, <1>1, <2>4, GoesQuietly DEF RefreshRevoke, Quieter
    <2>5. CASE RefreshLock(r) \/ RefreshExpired(r) \/ RefreshIssue(r)
      BY <1>0, <2>5, EndsQuietly DEF RefreshLock, RefreshExpired, RefreshIssue, Quieter
    <2>6. CASE RefreshDelete(r)
      BY <1>0, <1>1, <2>6, GoesQuietly, EndsQuietly DEF RefreshDelete, Quieter
    <2> QED
      BY <1>5, <2>1, <2>2, <2>3, <2>4, <2>5, <2>6 DEF RefreshRequests
  <1>6. CASE MfaRequests(r)
    <2>1. ASSUME NEW u \in Users, NEW code, NEW password,
                 MfaSetup(r, u) \/ MfaActivate(r, u, code) \/ MfaDisable(r, u, code, password)
          PROVE  Quieter
      BY <1>0, <2>1, BeginsQuietly DEF MfaSetup, MfaActivate, MfaDisable, Waits
    <2>2. CASE MfaStore(r) \/ MfaEnable(r) \/ MfaClear(r)
      BY <1>0, <2>2, EndsQuietly DEF MfaStore, MfaEnable, MfaClear, Quieter
    <2> QED
      BY <1>6, <2>1, <2>2 DEF MfaRequests
  <1> QED
    BY <1>2, <1>3, <1>4, <1>5, <1>6

LEMMA LoginsCount ==
  ASSUME SessionInv, FailuresInv, NEW r \in Requests, LoginRequests(r)
  PROVE  FailuresInv'
  <1> USE DEF Steps
  <1>0. TypeOK
    BY DEF SessionInv
  <1>1. ASSUME NEW pc, At(r, "login", pc)
        PROVE  /\ req[r] \in Work /\ req[r].op = "login" /\ req[r].pc = pc
               /\ Known(r) \in Users \union {None} /\ req[r].ip \in Addresses
               /\ Recorded(req[r]) = [user |-> Known(r), ip |-> req[r].ip]
    <2>1. req[r] \in LoginWork /\ req[r] \in Work /\ req[r].op = "login" /\ req[r].pc = pc
      BY <1>0, <1>1, WorkAt
    <2> QED
      BY <2>1 DEF LoginWork, Known, Recorded
  <1>2. ASSUME NEW u \in Users, NEW ip \in Addresses, NEW password,
               Login(r, u, ip, password)
        PROVE  Quieter
    BY <1>0, <1>2, BeginsQuietly DEF Login, Waits
  <1>3. CASE LoginCount(r)
    <2>1. At(r, "login", "count") /\ UNCHANGED attempts
      BY <1>3 DEF LoginCount
    <2>2. CASE Finish(r) \/ Goto(r, "clear")
      <3>1. Quieter
        BY <1>0, <1>1, <2>1, <2>2, EndsQuietly, GoesQuietly DEF Quieter
      <3> QED
        BY <3>1, QuieterKeeps
    <2>3. CASE ~TooMany(Known(r), req[r].ip) /\ Goto(r, "record")
      <3>1. PICK w \in Work :
              OnlyMove(r, w) /\ w.op = "login" /\ w.user = req[r].user
                /\ w.seen = req[r].seen /\ w.ip = req[r].ip
        BY <1>0, <1>1, <2>1, <2>3, Going
      <3>2. PICK u \in Users \union {None}, ip \in Addresses : u = Known(r) /\ ip = req[r].ip
        BY <1>1, <2>1
      <3>3. Recorded(w) = [user |-> u, ip |-> ip]
        BY <3>1, <3>2 DEF Recorded, Known
      <3>4. ~TooMany(u, ip) /\ req' = [req EXCEPT ![r] = w]
        BY <2>3, <3>1, <3>2 DEF OnlyMove
      <3> QED
        BY <1>0, <2>1, <3>3, <3>4, CountedKeeps DEF TypeOK
    <2> QED
      BY <1>3, <2>2, <2>3 DEF LoginCount
  <1>4. CASE LoginRecord(r)
    <2>1. /\ At(r, "login", "record")
          /\ attempts' = Append(attempts, [user |-> Known(r), ip |-> req[r].ip])
          /\ Goto(r, "recount") \/ Finish(r)
      BY <1>4 DEF LoginRecord
    <2>2. /\ Waits(req[r]) /\ Recorded(req[r]) \in AttemptRow
          /\ attempts' = Append(attempts, Recorded(req[r]))
      BY <1>1, <2>1 DEF Waits, AttemptRow
    <2>3. \E w : req' = [req EXCEPT ![r] = w] /\ ~Waits(w)
      <3>1. CASE Finish(r)
        <4>1. ~Waits(Idle)
          BY DEF Waits, Idle
        <4> QED
          BY <3>1, <4>1 DEF Finish
      <3>2. CASE Goto(r, "recount")
        <4>1. PICK w \in Work : OnlyMove(r, w) /\ w.pc = "recount"
          BY <1>0, <1>1, <2>1, <3>2, Going
        <4> QED
          BY <4>1 DEF OnlyMove, Waits
      <3> QED
        BY <2>1, <3>1, <3>2
    <2> QED
      BY <1>0, <2>2, <2>3, RecordedKeeps DEF TypeOK
  <1>5. CASE LoginRecount(r) \/ LoginIssue(r)
    BY <1>0, <1>5, EndsQuietly, QuieterKeeps DEF LoginRecount, LoginIssue, Quieter
  <1>6. CASE LoginClear(r)
    <2>1. /\ At(r, "login", "clear")
          /\ attempts' = AttemptsLeft(req[r].user, req[r].ip)
          /\ Finish(r) \/ Goto(r, "unlock") \/ Goto(r, "issue")
      BY <1>6 DEF LoginClear, AfterClear
    <2>2. Quieter
      BY <1>0, <1>1, <2>1, EndsQuietly, GoesQuietly, LeftQuietly DEF Quieter
    <2> QED
      BY <2>2, QuieterKeeps
  <1>7. CASE LoginUnlock(r)
    <2>1. /\ At(r, "login", "unlock") /\ UNCHANGED attempts
          /\ Finish(r) \/ Goto(r, "issue")
      BY <1>7 DEF LoginUnlock, AfterClear
    <2>2. Quieter
      BY <1>0, <1>1, <2>1, EndsQuietly, GoesQuietly DEF Quieter
    <2> QED
      BY <2>2, QuieterKeeps
  <1> QED
    BY <1>2, <1>3, <1>4, <1>5, <1>6, <1>7, QuieterKeeps DEF LoginRequests

LEMMA FailuresInvHolds == Spec => []FailuresInv
  <1>1. Init => FailuresInv
    <2> SUFFICES ASSUME Init
                 PROVE  FailuresInv
      OBVIOUS
    <2>1. attempts \in Seq(AttemptRow) /\ DOMAIN attempts = {}
      BY EmptySeq, LenProperties DEF Init
    <2>2. ASSUME NEW M
          PROVE  Held(attempts, M) = 0 /\ Cardinality(Waiting(req, M)) = 0
      <3>1. Places(attempts, M) = {}
        BY <2>1 DEF Places
      <3>2. Waiting(req, M) = {}
        BY DEF Waiting, Waits, Init, Idle
      <3> QED
        BY <3>1, <3>2, FS_EmptySet DEF Held
    <2> QED
      BY <2>1, <2>2, MostIsANumber DEF FailuresInv
  <1>2. SessionInv /\ FailuresInv /\ [Next]_sessionVars => FailuresInv'
    <2> SUFFICES ASSUME SessionInv, FailuresInv, [Next]_sessionVars
                 PROVE  FailuresInv'
      OBVIOUS
    <2>1. ASSUME NEW r \in Requests, Handle(r)
          PROVE  FailuresInv'
      BY <2>1, OthersQuiet, QuieterKeeps, LoginsCount DEF Handle
    <2>2. ASSUME UNCHANGED <<attempts, req>>
          PROVE  FailuresInv'
      BY <2>2, QuieterKeeps DEF Quieter
    <2>3. CASE AttemptAges
      BY <2>3, QuieterKeeps DEF Quieter, AttemptAges
    <2>4. CASE Crash
      <3>1. ~Waits(Idle)
        BY DEF Waits, Idle
      <3> QED
        BY <2>4, <3>1, QuieterKeeps DEF Quieter, Crash
    <2> QED
      BY <2>1, <2>2, <2>3, <2>4
         DEF Next, CreateUser, SetActive, Logout, TokenExpires, SecondPasses, sessionVars
  <1> QED
    BY <1>1, <1>2, SessionInvHolds, PTL DEF Spec

(* However many logins are sent together: the failures that count against  *)
(* a user or an address are at most the limit and one for each of the      *)
(* other requests.                                                         *)
THEOREM FailuresStayBounded == Spec => []FailuresBounded
  <1>1. FailuresInv => FailuresBounded
    <2> SUFFICES ASSUME FailuresInv
                 PROVE  FailuresBounded
      OBVIOUS
    <2>1. PICK s : s = attempts /\ s \in Seq(AttemptRow)
      BY DEF FailuresInv
    <2>2. \A i \in DOMAIN s : s[i] \in AttemptRow
      BY <2>1, ElementOfSeq, LenProperties
    <2>3. ASSUME NEW M \in Marks
          PROVE  Held(s, M) <= MaxFailed + Cardinality(Requests) - 1
      <3>1. Held(s, M) \in Nat /\ Cardinality(Waiting(req, M)) \in Nat
        BY <2>1, PlacesFinite, WaitingFinite
      <3>2. Held(s, M) + Cardinality(Waiting(req, M)) <= Most
        BY <2>1 DEF FailuresInv
      <3> QED
        BY <3>1, <3>2, MostIsANumber DEF Most
    <2>4. ASSUME NEW u \in Users
          PROVE  ByUser(u) <= MaxFailed + Cardinality(Requests) - 1
      <3>1. Places(s, Against(u)) = { i \in DOMAIN attempts : attempts[i].user = u }
        BY <2>1, <2>2 DEF Places, Against
      <3>2. ByUser(u) = Held(s, Against(u)) /\ Against(u) \in Marks
        BY <3>1 DEF ByUser, Held, Marks
      <3> QED
        BY <2>3, <3>2
    <2>5. ASSUME NEW ip \in Addresses
          PROVE  ByAddress(ip) <= MaxFailed + Cardinality(Requests) - 1
      <3>1. Places(s, From(ip)) = { i \in DOMAIN attempts : attempts[i].ip = ip }
        BY <2>1, <2>2 DEF Places, From
      <3>2. ByAddress(ip) = Held(s, From(ip)) /\ From(ip) \in Marks
        BY <3>1 DEF ByAddress, Held, Marks
      <3> QED
        BY <2>3, <3>2
    <2> QED
      BY <2>4, <2>5 DEF FailuresBounded
  <1> QED
    BY <1>1, FailuresInvHolds, PTL

-----------------------------------------------------------------------------
(* The browser over these handlers (Workspace).                            *)

Branches == {None} \union UNION { BranchSet(c) : c \in Companies }

(* What may be selected: a company with a branch of its own, if it has any.*)
Choices ==
    { chosen \in [company : Companies \union {None}, branch : Branches] : Fits(chosen) }

Names == Nat \union {None}

Instance ==
    [ kind : Shows, cancelled : BOOLEAN, pc : {"refresh", "waiting", "companies", "loaded"},
      stored : Choices, session : [token : Names, chosen : Choices], token : Names,
      listed : SUBSET Companies ]

BrowserTypeOK ==
    /\ signedIn \in Names
    /\ cookie \in Strings \union {None}
    /\ memory \in Names
    /\ storage \in Choices
    /\ hook \in [Instances -> Instance \union {Gone}]
    /\ answer \in [Instances -> Strings \union {None, Refused}]
    /\ offered \subseteq Companies

Quiet ==
    /\ memory = None /\ storage = Nothing /\ where \in {"leaving", "login"}
    /\ \A i \in Instances : ~Busy(i)

BrowserInv ==
    /\ SessionInv
    /\ BrowserTypeOK
    /\ signedOut => Quiet

(* What the first instance of a page shows is what was selected.           *)
LEMMA FreshIsInstance ==
  ASSUME NEW kind \in Shows, NEW token \in Names, NEW chosen \in Choices
  PROVE  FreshInstance(kind, token, chosen) \in Instance
  BY DEF FreshInstance, Instance

LEMMA GoneIsNone == Gone.pc = "gone" /\ Gone \notin Instance
  BY DEF Gone, Instance

(* A page finds an instance for each of what it shows.                     *)
LEMMA PlacementFound ==
  ASSUME NEW free, NEW slots, free \subseteq slots, Placements(free) # {}
  PROVE  /\ Placement(slots) \in [Shows -> slots]
         /\ \A s, t \in Shows : Placement(slots)[s] = Placement(slots)[t] => s = t
  <1>1. PICK place \in Placements(free) : TRUE
    OBVIOUS
  <1>2. place \in Placements(slots)
    BY <1>1 DEF Placements
  <1>3. Placement(slots) \in Placements(slots)
    BY <1>2 DEF Placement
  <1> QED
    BY <1>3 DEF Placements

(* What opening a page leaves of an instance.                              *)
LEMMA PlacedInstances ==
  ASSUME NEW free, NEW slots, free \subseteq slots, Placements(free) # {},
         NEW token \in Names, NEW chosen \in Choices,
         NEW others \in [Instances -> Instance \union {Gone}],
         NEW hooks, hooks = Placed(Placement(slots), token, chosen, others)
  PROVE  hooks \in [Instances -> Instance \union {Gone}]
  <1>1. PICK place : place = Placement(slots)
    OBVIOUS
  <1>2. place \in [Shows -> slots]
    BY <1>1, PlacementFound
  <1>3. hooks = [ i \in Instances |->
                    IF \E s \in Shows : place[s] = i
                    THEN FreshInstance(CHOOSE s \in Shows : place[s] = i, token, chosen)
                    ELSE others[i] ]
    BY <1>1 DEF Placed
  <1>4. ASSUME NEW i \in Instances
        PROVE  hooks[i] \in Instance \union {Gone}
    <2>1. CASE \E s \in Shows : place[s] = i
      <3>1. PICK kind : kind = CHOOSE s \in Shows : place[s] = i
        OBVIOUS
      <3>2. kind \in Shows /\ place[kind] = i
        BY <2>1, <3>1
      <3>3. hooks[i] = FreshInstance(kind, token, chosen)
        BY <1>3, <2>1, <3>1
      <3> QED
        BY <1>2, <3>2, <3>3, FreshIsInstance
    <2>2. CASE ~\E s \in Shows : place[s] = i
      <3>1. hooks[i] = others[i]
        BY <1>3, <2>2
      <3> QED
        BY <3>1
    <2> QED
      BY <2>1, <2>2
  <1> QED
    BY <1>3, <1>4

(* Unmounting leaves an instance that is at work.                          *)
LEMMA UnmountedInstances ==
  ASSUME BrowserTypeOK, NEW i \in Instances
  PROVE  /\ Unmounted(i) \in Instance \union {Gone}
         /\ ~Busy(i) => Unmounted(i) = Gone
  <1>1. CASE Busy(i)
    <2>1. hook[i] \in Instance
      BY <1>1 DEF BrowserTypeOK, Busy, Gone
    <2>2. Unmounted(i) = [hook[i] EXCEPT !.cancelled = TRUE]
      BY <1>1 DEF Unmounted
    <2> QED
      BY <1>1, <2>1, <2>2 DEF Instance
  <1>2. CASE ~Busy(i)
    BY <1>2 DEF Unmounted
  <1> QED
    BY <1>1, <1>2

(* A string is a name, and stays one. *)
LEMMA StringsAreNames ==
  ASSUME SessionInv
  PROVE  Strings \subseteq Names
  BY StringsHaveRows, TokenUser DEF Names

LEMMA StringsStay ==
  ASSUME ChainStep
  PROVE  Strings \subseteq Strings'
  BY DEF ChainStep, Chain!Next, Chain!Open, Chain!Pass, Chain!HandOut, Chain!End,
         Chain!SecondPasses, Chain!rotationVars

LEMMA LastString ==
  ASSUME SessionInv', NEW t \in DOMAIN tokens'
  PROVE  tokens'[Len(tokens')].jwt \in Strings' /\ Strings' \subseteq Names
  <1>1. DOMAIN tokens' = 1 .. Len(tokens') /\ Len(tokens') \in Nat
    BY LenProperties DEF SessionInv, TypeOK
  <1>2. \A v \in DOMAIN tokens' : v \in Nat /\ tokens'[v].jwt \in Nat
    BY <1>1 DEF SessionInv, StringsAreRows
  <1> QED
    BY <1>1, <1>2 DEF Strings, Names

(* To have nothing selected is a choice. *)
LEMMA NothingIsAChoice == Nothing \in Choices
  BY DEF Nothing, Choices, Branches, Fits

(* What setCompany, setBranch and enterWorkspace select.                   *)
LEMMA SelectionFits ==
  ASSUME NEW c \in Companies
  PROVE  /\ [company |-> c, branch |-> FirstBranch(c)] \in Choices
         /\ \A b \in BranchSet(c) : [company |-> c, branch |-> b] \in Choices
  <1>1. c # None
    BY CompaniesHaveBranches
  <1>2. \A b \in BranchSet(c) : b \in Branches
    BY DEF Branches
  <1>3. \/ BranchesOf[c] = <<>> /\ FirstBranch(c) = None
        \/ BranchesOf[c] # <<>> /\ FirstBranch(c) \in BranchSet(c)
    BY CompaniesHaveBranches DEF FirstBranch, BranchSet
  <1>4. FirstBranch(c) \in Branches
    BY <1>2, <1>3 DEF Branches
  <1>5. ASSUME NEW b \in Branches,
               b \in BranchSet(c) \/ (b = None /\ BranchesOf[c] = <<>>),
               NEW chosen, chosen = [company |-> c, branch |-> b]
        PROVE  chosen \in Choices
    <2>1. chosen \in [company : Companies \union {None}, branch : Branches]
      BY <1>5
    <2>2. Fits(chosen)
      BY <1>1, <1>5 DEF Fits
    <2> QED
      BY <2>1, <2>2 DEF Choices
  <1>6. [company |-> c, branch |-> FirstBranch(c)] \in Choices
    BY <1>3, <1>4, <1>5
  <1> QED
    BY <1>2, <1>5, <1>6

(* What is stored is kept as far as it is offered.                         *)
LEMMA SelectedFits ==
  ASSUME offered \subseteq Companies, offered # {}, NEW stored \in Choices
  PROVE  Selected(stored) \in Choices
  <1>1. PICK company : company = IF stored.company \in offered THEN stored.company
                                 ELSE CHOOSE c \in offered : TRUE
    OBVIOUS
  <1>2. company \in Companies
    BY <1>1
  <1>3. Selected(stored) =
          [ company |-> company,
            branch |-> IF stored.branch \in BranchSet(company) THEN stored.branch
                       ELSE FirstBranch(company) ]
    BY <1>1 DEF Selected
  <1> QED
    BY <1>2, <1>3, SelectionFits

(* A step of the browser alone leaves the sessions as they are. *)
LEMMA SessionsUnchanged ==
  ASSUME SessionInv, UNCHANGED sessionVars
  PROVE  SessionInv'
  BY DEF sessionVars, SessionInv, TypeOK, TokensKnown, FamiliesAreOld, StringsAreRows,
         OneTokenPerLogin, RotatedIsGone, RotatedOnce

LEMMA StringsUnchanged ==
  ASSUME UNCHANGED sessionVars
  PROVE  Strings' = Strings
  BY DEF sessionVars, Strings

LEMMA NothingSent ==
  ASSUME BrowserInv, BrowserTypeOK', UNCHANGED sessionVars, signedOut' => Quiet'
  PROVE  BrowserInv'
  BY SessionsUnchanged DEF BrowserInv

(* A page that opens shows instances. *)
LEMMA PageOpened ==
  ASSUME BrowserTypeOK, MayOpen, NEW token \in Names, NEW chosen \in Choices,
         OpenPage(token, chosen)
  PROVE  hook' \in [Instances -> Instance \union {Gone}]
  <1>1. PICK others : others = [i \in Instances |-> Unmounted(i)]
    OBVIOUS
  <1>2. others \in [Instances -> Instance \union {Gone}]
    BY <1>1, UnmountedInstances
  <1>3. PICK slots : slots = FreeSlots
    OBVIOUS
  <1>4. PICK hooks : hooks = hook'
    OBVIOUS
  <1>5. /\ hooks = Placed(Placement(slots), token, chosen, others)
        /\ Placements(slots) # {} /\ slots \subseteq slots
    BY <1>1, <1>3, <1>4 DEF OpenPage, MayOpen
  <1>6. hooks \in [Instances -> Instance \union {Gone}]
    BY <1>2, <1>5, PlacedInstances
  <1> QED
    BY <1>4, <1>6

(* A page that closes leaves only what was at work. *)
LEMMA PageClosed ==
  ASSUME BrowserTypeOK, ClosePage
  PROVE  /\ hook' \in [Instances -> Instance \union {Gone}]
         /\ (\A i \in Instances : ~Busy(i)) => \A i \in Instances : hook'[i] = Gone
  <1>1. \A i \in Instances : hook'[i] = Unmounted(i)
    BY DEF ClosePage
  <1>2. hook' \in [Instances -> Instance \union {Gone}]
    BY <1>1, UnmountedInstances DEF ClosePage
  <1> QED
    BY <1>1, <1>2, UnmountedInstances

(* An instance that is shown has the fields of one.                        *)
LEMMA MountedIsInstance ==
  ASSUME BrowserTypeOK, NEW i \in Instances, hook[i].pc # "gone"
  PROVE  /\ hook[i] \in Instance
         /\ hook[i].stored \in Choices /\ hook[i].token \in Names
         /\ hook[i].session.token \in Names /\ hook[i].session.chosen \in Choices
         /\ hook[i].listed \subseteq Companies
  BY GoneIsNone DEF BrowserTypeOK, Instance

(* setCompany, setBranch and setPeriod.                                    *)
LEMMA Updated ==
  ASSUME BrowserInv, where = "app", NEW i \in Instances, hook[i].pc # "gone",
         NEW chosen \in Choices, Update(i, chosen)
  PROVE  BrowserInv'
  <1> USE DEF screen
  <1>1. BrowserTypeOK
    BY DEF BrowserInv
  <1>2. hook[i] \in Instance /\ hook[i].session.token \in Names
    BY <1>1, MountedIsInstance
  <1>3. PICK h : h = [hook[i] EXCEPT !.session.chosen = chosen]
    OBVIOUS
  <1>4. h \in Instance
    <2>1. PICK session : session = [hook[i].session EXCEPT !.chosen = chosen]
      OBVIOUS
    <2>2. session \in [token : Names, chosen : Choices]
      BY <1>2, <2>1 DEF Instance
    <2>3. h = [hook[i] EXCEPT !.session = session]
      BY <1>2, <1>3, <2>1 DEF Instance
    <2> QED
      BY <1>2, <2>2, <2>3 DEF Instance
  <1>5. hook' = [hook EXCEPT ![i] = h]
    BY <1>1, <1>3 DEF Update, BrowserTypeOK
  <1>6. BrowserTypeOK'
    BY <1>1, <1>2, <1>4, <1>5 DEF Update, WriteSession, BrowserTypeOK, sessionVars, Strings
  <1>7. ~signedOut'
    BY DEF BrowserInv, Quiet, Update
  <1> QED
    BY <1>6, <1>7, NothingSent DEF Update

(* Opening, leaving and changing pages.                                    *)
LEMMA PagesKeep ==
  ASSUME BrowserInv,
         \/ \E c \in Companies : EnterWorkspace(c)
         \/ LoginMounts \/ Navigate
  PROVE  BrowserInv'
  <1> USE DEF screen
  <1>0. BrowserTypeOK
    BY DEF BrowserInv
  <1>1. ASSUME NEW c \in Companies, EnterWorkspace(c)
        PROVE  BrowserInv'
    <2>1. PICK chosen : chosen = [company |-> c, branch |-> FirstBranch(c)]
      OBVIOUS
    <2>2. chosen \in Choices
      BY <2>1, SelectionFits
    <2>3. signedIn \in Names /\ None \in Names
      BY <1>0 DEF BrowserTypeOK, Names
    <2>4. /\ OpenPage(signedIn, chosen) /\ MayOpen
          /\ memory' = signedIn /\ storage' = chosen /\ signedIn' = None
      BY <1>1, <2>1 DEF EnterWorkspace, WriteSession
    <2>5. hook' \in [Instances -> Instance \union {Gone}]
      BY <1>0, <2>2, <2>3, <2>4, PageOpened
    <2>6. BrowserTypeOK'
      BY <1>0, <1>1, <2>2, <2>3, <2>4, <2>5 DEF EnterWorkspace, BrowserTypeOK, sessionVars, Strings
    <2>7. ~signedOut'
      BY <1>1 DEF BrowserInv, Quiet, EnterWorkspace
    <2> QED
      BY <1>1, <2>6, <2>7, NothingSent DEF EnterWorkspace
  <1>2. ASSUME LoginMounts
        PROVE  BrowserInv'
    <2>1. /\ hook' \in [Instances -> Instance \union {Gone}]
          /\ \/ where' = "app" /\ memory # None
             \/ where' = "login" /\ UNCHANGED hook
      <3>1. CASE memory # None /\ storage.company # None
        <4>1. MayOpen /\ OpenPage(memory, storage) /\ where' = "app"
          BY <1>2, <3>1 DEF LoginMounts
        <4> QED
          BY <1>0, <3>1, <4>1, PageOpened DEF BrowserTypeOK
      <3>2. CASE ~(memory # None /\ storage.company # None)
        BY <1>0, <1>2, <3>2 DEF LoginMounts, BrowserTypeOK
      <3> QED
        BY <3>1, <3>2
    <2>2. BrowserTypeOK'
      BY <1>0, <1>2, <2>1 DEF LoginMounts, BrowserTypeOK, sessionVars, Strings
    <2>3. signedOut' => Quiet'
      BY <1>2, <2>1 DEF BrowserInv, Quiet, LoginMounts, Busy
    <2> QED
      BY <1>2, <2>2, <2>3, NothingSent DEF LoginMounts
  <1>3. ASSUME Navigate
        PROVE  BrowserInv'
    <2>1. MayOpen /\ OpenPage(memory, storage) /\ memory \in Names /\ storage \in Choices
      BY <1>0, <1>3 DEF Navigate, BrowserTypeOK
    <2>2. hook' \in [Instances -> Instance \union {Gone}]
      BY <1>0, <2>1, PageOpened
    <2>3. BrowserTypeOK'
      BY <1>0, <1>3, <2>2 DEF Navigate, BrowserTypeOK, sessionVars, Strings
    <2>4. ~signedOut'
      BY <1>3 DEF BrowserInv, Quiet, Navigate
    <2> QED
      BY <1>3, <2>3, <2>4, NothingSent DEF Navigate
  <1> QED
    BY <1>1, <1>2, <1>3

(* What is chosen in the shell or on a page.                               *)
LEMMA ChoicesKeep ==
  ASSUME BrowserInv, NEW i \in Instances, UserStep(i)
  PROVE  BrowserInv'
  <1> USE DEF screen
  <1>0. BrowserTypeOK
    BY DEF BrowserInv
  <1>1. ASSUME Redirect(i) \/ SignOut(i)
        PROVE  BrowserInv'
    <2>1. ClosePage /\ where = "app" /\ where' = "leaving"
      BY <1>1 DEF Redirect, SignOut, Leave
    <2>2. /\ hook' \in [Instances -> Instance \union {Gone}]
          /\ (\A j \in Instances : ~Busy(j)) => \A j \in Instances : hook'[j] = Gone
      BY <1>0, <2>1, PageClosed
    <2>3. /\ UNCHANGED <<sessionVars, signedIn, cookie, answer, offered>>
          /\ UNCHANGED <<memory, storage>> \/ (memory' = None /\ storage' = Nothing)
      BY <1>1 DEF Redirect, SignOut, WriteSession
    <2>4. memory' \in Names /\ storage' \in Choices
      BY <1>0, <2>3, NothingIsAChoice DEF BrowserTypeOK, Names
    <2>5. BrowserTypeOK'
      BY <1>0, <2>2, <2>3, <2>4 DEF BrowserTypeOK, sessionVars, Strings
    <2>6. signedOut' => Quiet'
      <3>1. CASE Redirect(i)
        BY <2>1, <3>1 DEF BrowserInv, Quiet, Redirect
      <3>2. CASE SignOut(i)
        <4>1. memory' = None /\ storage' = Nothing
          BY <3>2 DEF SignOut, WriteSession
        <4>2. signedOut' => \A j \in Instances : hook'[j] = Gone
          BY <2>2, <3>2 DEF SignOut
        <4> QED
          BY <2>1, <4>1, <4>2, GoneIsNone DEF Quiet, Busy
      <3> QED
        BY <1>1, <3>1, <3>2
    <2> QED
      BY <2>3, <2>5, <2>6, NothingSent
  <1>2. ASSUME NEW c \in Companies, SetCompany(i, c)
        PROVE  BrowserInv'
    BY <1>2, SelectionFits, Updated DEF SetCompany, Mounted
  <1>3. ASSUME NEW c \in Companies, NEW b \in BranchSet(c), SetBranch(i, b)
        PROVE  BrowserInv'
    <2>1. PICK active : active = hook[i].session.chosen.company
      OBVIOUS
    <2>2. /\ where = "app" /\ hook[i].pc # "gone" /\ active \in hook[i].listed
          /\ b \in BranchSet(active) /\ Update(i, [company |-> active, branch |-> b])
      BY <1>3, <2>1 DEF SetBranch, Mounted
    <2>3. active \in Companies
      BY <1>0, <2>2, MountedIsInstance
    <2> QED
      BY <2>2, <2>3, SelectionFits, Updated
  <1>4. ASSUME SetPeriod(i)
        PROVE  BrowserInv'
    BY <1>0, <1>4, MountedIsInstance, Updated DEF SetPeriod, Mounted
  <1> QED
    BY <1>1, <1>2, <1>3, <1>4 DEF UserStep

(* getCompanies, answered or failed.                                       *)
LEMMA CompaniesKeep ==
  ASSUME BrowserInv, NEW i \in Instances, HookCompanies(i) \/ HookFails(i)
  PROVE  BrowserInv'
  <1> USE DEF screen
  <1>0. BrowserTypeOK
    BY DEF BrowserInv
  <1>1. /\ hook[i].pc = "companies" /\ hook[i] \in Instance
        /\ UNCHANGED <<sessionVars, where, signedIn, cookie, answer, offered, signedOut>>
    BY <1>0, MountedIsInstance DEF HookCompanies, HookFails
  <1>2. ~signedOut
    BY <1>1 DEF BrowserInv, Quiet, Busy
  <1>3. \E h \in Instance \union {Gone} :
           /\ hook' = [hook EXCEPT ![i] = h]
           /\ memory' \in Names /\ storage' \in Choices
    <2>1. ASSUME HookFails(i) \/ hook[i].cancelled \/ offered = {}
          PROVE  /\ \/ hook' = [hook EXCEPT ![i] = Gone]
                    \/ hook' = [hook EXCEPT ![i] = [hook[i] EXCEPT !.pc = "loaded"]]
                 /\ UNCHANGED <<memory, storage>>
      BY <1>0, <2>1 DEF HookFails, HookCompanies, Goes, BrowserTypeOK
    <2>2. CASE HookFails(i) \/ hook[i].cancelled \/ offered = {}
      <3>1. PICK h : h = [hook[i] EXCEPT !.pc = "loaded"]
        OBVIOUS
      <3>2. h \in Instance
        BY <1>1, <3>1 DEF Instance
      <3> QED
        BY <1>0, <2>1, <2>2, <3>1, <3>2 DEF BrowserTypeOK
    <2>3. CASE HookCompanies(i) /\ ~hook[i].cancelled /\ offered # {}
      <3>1. PICK next : next = Selected(hook[i].stored)
        OBVIOUS
      <3>2. next \in Choices
        BY <1>0, <1>1, <2>3, <3>1, SelectedFits DEF BrowserTypeOK, Instance
      <3>3. PICK session : session = [token |-> hook[i].token, chosen |-> next]
        OBVIOUS
      <3>4. PICK h : h = [hook[i] EXCEPT !.pc = "loaded", !.listed = offered,
                            !.stored = next, !.session = session]
        OBVIOUS
      <3>5. h \in Instance
        BY <1>0, <1>1, <3>2, <3>3, <3>4 DEF Instance, BrowserTypeOK
      <3>6. /\ memory' = hook[i].token /\ storage' = next
            /\ hook' = [hook EXCEPT ![i].pc = "loaded", ![i].listed = offered,
                          ![i].stored = next, ![i].session = session]
        BY <2>3, <3>1, <3>3 DEF HookCompanies, WriteSession
      <3>7. hook' = [hook EXCEPT ![i] = h]
        BY <1>0, <1>1, <3>4, <3>6 DEF BrowserTypeOK, Instance
      <3> QED
        BY <1>1, <3>2, <3>5, <3>6, <3>7 DEF Instance
    <2> QED
      BY <2>2, <2>3
  <1>4. BrowserTypeOK'
    BY <1>0, <1>1, <1>3 DEF BrowserTypeOK, sessionVars, Strings
  <1> QED
    BY <1>1, <1>2, <1>4, NothingSent

(* A company that is deactivated is offered no more, and nothing else. *)
LEMMA DeactivationKeeps ==
  ASSUME BrowserInv, NEW c \in Companies, Deactivate(c)
  PROVE  BrowserInv'
  <1> USE DEF screen
  <1>1. BrowserTypeOK'
    BY StringsUnchanged DEF BrowserInv, BrowserTypeOK, Deactivate
  <1>2. signedOut' => Quiet'
    BY DEF BrowserInv, Quiet, Busy, Deactivate
  <1> QED
    BY <1>1, <1>2, NothingSent DEF Deactivate

(* A reload drops what was on its way.                                     *)
LEMMA ReloadKeeps ==
  ASSUME BrowserInv, Reload
  PROVE  BrowserInv'
  <1> USE DEF screen
  <1>0. BrowserTypeOK /\ ~signedOut'
    BY DEF BrowserInv, Reload, Quiet
  <1>1. PICK slots : slots = { i \in Instances : req[i] = Idle }
    OBVIOUS
  <1>2. PICK free : free = FreeSlots
    OBVIOUS
  <1>3. PICK others : others = [i \in Instances |-> Gone]
    OBVIOUS
  <1>4. PICK hooks : hooks = hook'
    OBVIOUS
  <1>5. /\ free \subseteq slots /\ Placements(free) # {}
        /\ others \in [Instances -> Instance \union {Gone}]
        /\ None \in Names /\ storage \in Choices
        /\ hooks = Placed(Placement(slots), None, storage, others)
    BY <1>0, <1>1, <1>2, <1>3, <1>4 DEF Reload, MayOpen, FreeSlots, Names, BrowserTypeOK
  <1>6. hooks \in [Instances -> Instance \union {Gone}]
    BY <1>5, PlacedInstances
  <1>7. BrowserTypeOK'
    BY <1>0, <1>4, <1>6, StringsUnchanged DEF Reload, BrowserTypeOK, Names
  <1> QED
    BY <1>0, <1>7, NothingSent DEF Reload

(* The answer of a refresh, or that there is none.                         *)
LEMMA AnswersKeep ==
  ASSUME BrowserInv, NEW i \in Instances, HookAnswered(i) \/ HookUnanswered(i)
  PROVE  BrowserInv'
  <1> USE DEF screen
  <1>0. BrowserTypeOK
    BY DEF BrowserInv
  <1>1. /\ hook[i].pc = "waiting" /\ answer[i] # None /\ hook[i] \in Instance
        /\ answer' = [answer EXCEPT ![i] = None]
        /\ UNCHANGED <<sessionVars, where, signedIn, offered, signedOut>>
    BY <1>0, MountedIsInstance DEF HookAnswered, HookUnanswered
  <1>2. ~signedOut'
    BY <1>1 DEF BrowserInv, Quiet, Busy
  <1>3. PICK plain : plain = [hook[i] EXCEPT !.pc = "companies"]
    OBVIOUS
  <1>4. plain \in Instance
    BY <1>1, <1>3 DEF Instance
  <1>5. ASSUME HookUnanswered(i) \/ answer[i] = Refused
        PROVE  hook' = [hook EXCEPT ![i] = plain] /\ UNCHANGED <<cookie, memory, storage>>
    BY <1>0, <1>3, <1>5 DEF HookUnanswered, HookAnswered, Goes, BrowserTypeOK
  <1>6. ASSUME HookAnswered(i), answer[i] # Refused
        PROVE  /\ \E h \in Instance : hook' = [hook EXCEPT ![i] = h]
               /\ cookie' = answer[i] /\ memory' = answer[i] /\ storage' = hook[i].stored
               /\ answer[i] \in Strings /\ answer[i] \in Names
    <2>1. cookie' = answer[i] /\ memory' = answer[i] /\ storage' = hook[i].stored
      BY <1>6 DEF HookAnswered, WriteSession
    <2>2. answer[i] \in Strings
      BY <1>0, <1>1, <1>6 DEF BrowserTypeOK
    <2>3. answer[i] \in Names
      BY <2>2, StringsAreNames DEF BrowserInv
    <2>4. PICK session : session = IF hook[i].cancelled THEN hook[i].session
                            ELSE [token |-> answer[i], chosen |-> hook[i].stored]
      OBVIOUS
    <2>5. session \in [token : Names, chosen : Choices]
      BY <1>1, <2>3, <2>4 DEF Instance
    <2>6. PICK h : h = [hook[i] EXCEPT !.pc = "companies", !.token = answer[i],
                                       !.session = session]
      OBVIOUS
    <2>7. h \in Instance
      BY <1>1, <2>3, <2>5, <2>6 DEF Instance
    <2>8. hook' = [hook EXCEPT ![i].pc = "companies", ![i].token = answer[i],
                               ![i].session = session]
      BY <1>0, <1>1, <1>6, <2>4 DEF HookAnswered, BrowserTypeOK, Instance
    <2>9. hook' = [hook EXCEPT ![i] = h]
      BY <1>0, <1>1, <2>6, <2>8 DEF BrowserTypeOK, Instance
    <2> QED
      BY <2>1, <2>2, <2>3, <2>7, <2>9
  <1>7. \E h \in Instance : hook' = [hook EXCEPT ![i] = h]
    BY <1>4, <1>5, <1>6
  <1>8. /\ hook' \in [Instances -> Instance \union {Gone}]
        /\ answer' \in [Instances -> Strings \union {None, Refused}]
    BY <1>0, <1>1, <1>7 DEF BrowserTypeOK
  <1>9. /\ memory' \in Names /\ storage' \in Choices /\ cookie' \in Strings \union {None}
    BY <1>0, <1>1, <1>5, <1>6 DEF BrowserTypeOK, Instance
  <1>10. BrowserTypeOK'
    BY <1>0, <1>1, <1>8, <1>9, StringsUnchanged DEF BrowserTypeOK
  <1> QED
    BY <1>1, <1>2, <1>10, NothingSent

(* A sign-in opens a login of its own, or its create fails.                *)
LEMMA SignInContinues ==
  ASSUME SessionInv, NEW u \in Users, SignIn(u)
  PROVE  Continues
  <1>0. TypeOK /\ UNCHANGED req
    BY DEF SessionInv, SignIn
  <1>1. users[u] \in UserRow /\ users[u].password \in Nat
    BY <1>0, RowOf DEF UserRow
  <1>2. [users[u] EXCEPT !.locked = FALSE] \in UserRow
    BY <1>1 DEF UserRow
  <1>3. UsersTyped /\ RequestsMove
    BY <1>0, <1>2, SettingUser, KeepingRequests DEF SignIn
  <1>4. CASE UNCHANGED tokens
    <2>1. TokensOnlyGo /\ NowStays
      BY <1>0, <1>4, KeepingTokens
    <2> QED
      BY <1>3, <2>1, NoNewHolder
  <1>5. PICK password \in Nat : password = users[u].password
    BY <1>1
  <1>6. ASSUME NEW jwt \in Signed(u), Holding(jwt) = {},
               tokens' = Issued(u, Len(tokens) + 1, password, jwt)
        PROVE  Continues
    <2>1. Len(tokens) \in Nat /\ DOMAIN tokens = 1 .. Len(tokens)
      BY <1>0, LenProperties DEF TypeOK
    <2>2. PICK new \in Nat : new = Len(tokens) + 1
      BY <2>1
    <2>3. jwt \in 1 .. new /\ jwt \in Nat /\ (jwt \in Strings => <<jwt, u>> \in Recent)
      BY <2>1, <2>2, SignedStrings
    <2>4. tokens' = Issued(u, new, password, jwt)
      BY <1>6, <2>2
    <2>5. /\ tokens' \in Seq(TokenRow) /\ DOMAIN tokens' = 1 .. new
          /\ \A t \in DOMAIN tokens :
                /\ t # new
                /\ tokens'[t].family = tokens[t].family
                /\ tokens'[t].user = tokens[t].user
                /\ tokens'[t].password = tokens[t].password
                /\ tokens'[t].jwt = tokens[t].jwt
                /\ tokens'[t].now = tokens[t].now
                /\ tokens'[t].stored => tokens[t].stored
          /\ tokens'[new].family = new /\ tokens'[new].jwt = jwt /\ tokens'[new].user = u
          /\ tokens'[new].now /\ tokens'[new].stored
      BY <1>0, <2>2, <2>3, <2>4, IssuedTokens
    <2>6. DOMAIN tokens' = DOMAIN tokens \union {new} /\ new \in 1 .. new
      BY <2>1, <2>2, <2>5
    <2>7. /\ \A t \in DOMAIN tokens : tokens[t].family # new
          /\ \A s \in Requests : Rotating(req[s]) =>
                req[s].token \in DOMAIN tokens /\ tokens[req[s].token].family # new
      BY <2>2, NewFamily DEF SessionInv, TokensKnown, Rotating
    <2>8. TypeOK' /\ TokensKnown'
      BY <1>0, <1>3, <2>5, <2>6 DEF SessionInv, TypeOK, TokensKnown, UsersTyped
    <2>9. FamiliesAreOld' /\ StringsAreRows'
      BY <2>3, <2>5, <2>6 DEF SessionInv, FamiliesAreOld, StringsAreRows
    <2>10. OneTokenPerLogin'
      <3> SUFFICES ASSUME NEW t \in DOMAIN tokens', NEW v \in DOMAIN tokens',
                          tokens'[t].stored, tokens'[v].stored,
                          tokens'[t].family = tokens'[v].family
                   PROVE  t = v
        BY DEF OneTokenPerLogin
      <3>1. CASE t \in DOMAIN tokens /\ v \in DOMAIN tokens
        BY <2>5, <3>1 DEF SessionInv, OneTokenPerLogin
      <3>2. \A x \in DOMAIN tokens : tokens'[x].family # tokens'[new].family
        BY <2>5, <2>7
      <3> QED
        BY <2>6, <3>1, <3>2
    <2>11. RotatedIsGone'
      <3> SUFFICES ASSUME NEW s \in Requests, Rotating(req'[s]), NEW t \in DOMAIN tokens',
                          tokens'[t].stored
                   PROVE  tokens'[t].family # tokens'[req'[s].token].family
        BY DEF RotatedIsGone
      <3>1. Rotating(req[s]) /\ req'[s] = req[s] /\ req[s].token \in DOMAIN tokens
        BY <1>0, <2>7
      <3>2. CASE t = new
        BY <2>5, <2>7, <3>1, <3>2
      <3>3. CASE t \in DOMAIN tokens
        BY <2>5, <3>1, <3>3 DEF SessionInv, RotatedIsGone
      <3> QED
        BY <2>6, <3>2, <3>3
    <2>12. RotatedOnce'
      BY <1>0, <2>5, <2>7 DEF SessionInv, RotatedOnce
    <2>13. HandsOut(new, new) /\ new \notin Logins
      BY <1>6, <2>3, <2>5, <2>6, <2>7 DEF HandsOut, RowsStay, NowStays, Logins
    <2>14. ChainStep
      BY <1>0, <2>13, LoginOpens
    <2> QED
      BY <2>8, <2>9, <2>10, <2>11, <2>12, <2>14 DEF SessionInv, Continues
  <1> QED
    BY <1>4, <1>5, <1>6 DEF SignIn, Issue

(* A sign-in puts the name of its token in the cookie.                     *)
LEMMA SignInKeeps ==
  ASSUME BrowserInv, NEW u \in Users, SignIn(u)
  PROVE  BrowserInv'
  <1>0. BrowserTypeOK /\ SessionInv /\ TypeOK
    BY DEF BrowserInv, SessionInv
  <1>1. SessionInv' /\ Strings \subseteq Strings'
    BY <1>0, SignInContinues, StringsStay DEF Continues
  <1>2. UNCHANGED <<memory, storage, hook, answer, offered>>
    BY DEF SignIn
  <1>3. CASE Created
    <2>1. cookie' = tokens'[Len(tokens')].jwt /\ signedIn' = cookie' /\ ~signedOut'
      BY <1>3 DEF SignIn
    <2>2. \E t : t \in DOMAIN tokens'
      <3>1. users[u].password \in Nat /\ Len(tokens) \in Nat
        BY <1>0, RowOf, LenProperties DEF UserRow, TypeOK
      <3>2. PICK password \in Nat, new \in Nat :
               password = users[u].password /\ new = Len(tokens) + 1
        BY <3>1
      <3>3. PICK jwt \in Signed(u) : tokens' = Issued(u, new, password, jwt)
        BY <1>3, <3>2 DEF SignIn, Issue, Created
      <3>4. jwt \in 1 .. Len(tokens) + 1
        BY <1>0, SignedStrings, Zenon
      <3>5. jwt \in Nat
        BY <3>1, <3>4
      <3>6. DOMAIN tokens' = 1 .. Len(tokens) + 1
        BY <1>0, <3>2, <3>3, <3>5, IssuedTokens
      <3>7. Len(tokens) + 1 \in DOMAIN tokens'
        BY <3>1, <3>6
      <3> QED
        BY <3>7
    <2>3. cookie' \in Strings' /\ signedIn' \in Names
      <3>1. cookie' \in Strings' /\ Strings' \subseteq Names
        BY <1>1, <2>1, <2>2, LastString
      <3> QED
        BY <2>1, <3>1
    <2>4. BrowserTypeOK'
      BY <1>0, <1>1, <1>2, <2>1, <2>3 DEF BrowserTypeOK
    <2> QED
      BY <1>1, <2>1, <2>4 DEF BrowserInv
  <1>4. CASE ~Created
    <2>1. UNCHANGED <<cookie, where, signedIn, signedOut>>
      BY <1>4 DEF SignIn
    <2>2. BrowserTypeOK' /\ (signedOut' => Quiet')
      BY <1>0, <1>1, <1>2, <2>1 DEF BrowserInv, BrowserTypeOK, Quiet, Busy
    <2> QED
      BY <1>1, <2>2 DEF BrowserInv
  <1> QED
    BY <1>3, <1>4

(* Time passes: a second, or the seven days of the cookie.                 *)
LEMMA TimeKeeps ==
  ASSUME BrowserInv, ClockTicks \/ CookieExpires
  PROVE  BrowserInv' /\ ChainStep
  <1> USE DEF screen
  <1>0. BrowserTypeOK /\ SessionInv
    BY DEF BrowserInv
  <1>1. UNCHANGED <<where, signedIn, cookie, memory, storage, hook, answer, offered, signedOut>>
    BY DEF ClockTicks, CookieExpires, browserVars
  <1>2. Continues
    <2>1. CASE ClockTicks
      BY <1>0, <2>1, ASecondPasses DEF ClockTicks
    <2>2. CASE CookieExpires
      <3>1. cookie \in Strings /\ TokenExpires(cookie)
        BY <1>0, <2>2 DEF CookieExpires, BrowserTypeOK
      <3> QED
        BY <1>0, <3>1, OthersKeep
    <2> QED
      BY <2>1, <2>2
  <1>3. SessionInv' /\ Strings \subseteq Strings'
    BY <1>2, StringsStay DEF Continues
  <1>4. BrowserTypeOK' /\ (signedOut' => Quiet')
    BY <1>0, <1>1, <1>3 DEF BrowserInv, BrowserTypeOK, Quiet, Busy
  <1> QED
    BY <1>2, <1>3, <1>4 DEF BrowserInv, Continues

(* A refresh is sent with the cookie as it is.                             *)
LEMMA HookRefreshKeeps ==
  ASSUME BrowserInv, NEW i \in Instances, HookRefresh(i)
  PROVE  BrowserInv'
  <1> USE DEF screen
  <1>0. BrowserTypeOK /\ SessionInv
    BY DEF BrowserInv
  <1>1. /\ hook[i].pc = "refresh" /\ hook[i] \in Instance
        /\ UNCHANGED <<where, signedIn, cookie, memory, storage, offered, signedOut>>
    BY <1>0, MountedIsInstance DEF HookRefresh
  <1>2. \/ answer' = [answer EXCEPT ![i] = Refused] /\ UNCHANGED sessionVars
        \/ cookie \in Strings /\ Refresh(i, cookie) /\ UNCHANGED answer
    BY <1>0 DEF HookRefresh, BrowserTypeOK
  <1>3. SessionInv' /\ Strings' = Strings
    <2>1. CASE UNCHANGED sessionVars
      BY <1>0, <2>1, SessionsUnchanged, StringsUnchanged
    <2>2. CASE cookie \in Strings /\ Refresh(i, cookie)
      <3>1. RefreshRequests(i) /\ UNCHANGED tokens
        BY <2>2 DEF RefreshRequests, Refresh
      <3> QED
        BY <1>0, <3>1, RefreshesKeep DEF Instances, Continues, Strings
    <2> QED
      BY <1>2, <2>1, <2>2
  <1>4. PICK h : h = [hook[i] EXCEPT !.pc = "waiting"]
    OBVIOUS
  <1>5. h \in Instance
    BY <1>1, <1>4 DEF Instance
  <1>6. hook' = [hook EXCEPT ![i] = h]
    BY <1>0, <1>4 DEF HookRefresh, Goes, BrowserTypeOK
  <1>7. /\ hook' \in [Instances -> Instance \union {Gone}]
        /\ answer' \in [Instances -> Strings \union {None, Refused}]
    BY <1>0, <1>2, <1>5, <1>6 DEF BrowserTypeOK
  <1>8. BrowserTypeOK'
    BY <1>0, <1>1, <1>3, <1>7 DEF BrowserTypeOK
  <1>9. ~signedOut'
    BY <1>1 DEF BrowserInv, Quiet, Busy
  <1> QED
    BY <1>3, <1>8, <1>9 DEF BrowserInv

(* The server's side of a refresh: the answer it ends with is the new      *)
(* token, or a refusal.                                                    *)
LEMMA ServerRefreshKeeps ==
  ASSUME BrowserInv, NEW i \in Instances, ServerRefresh(i)
  PROVE  BrowserInv'
  <1> USE DEF screen
  <1>0. BrowserTypeOK /\ SessionInv /\ TypeOK
    BY DEF BrowserInv, SessionInv
  <1>1. Continues
    BY <1>0, RefreshesKeep DEF ServerRefresh, RefreshRequests, Instances
  <1>2. SessionInv' /\ Strings \subseteq Strings'
    BY <1>1, StringsStay DEF Continues
  <1>3. req[i].token \in DOMAIN tokens
    <2>1. req[i].op = "refresh"
      BY DEF ServerRefresh, RefreshFind, RefreshMissing, RefreshRevoke, RefreshLock,
             RefreshExpired, RefreshDelete, RefreshIssue, At
    <2> QED
      BY <1>0, <2>1 DEF SessionInv, TokensKnown, Instances
  <1>4. tokens'[Len(tokens')].jwt \in Strings'
    <2>1. tokens[req[i].token].jwt \in Strings'
      BY <1>2, <1>3 DEF Strings
    <2>2. \E t : t \in DOMAIN tokens'
      BY <2>1 DEF Strings
    <2> QED
      BY <1>2, <2>2, LastString
  <1>5. /\ UNCHANGED <<where, signedIn, cookie, memory, storage, hook, offered, signedOut>>
        /\ \/ UNCHANGED answer
           \/ \E a \in Strings' \union {Refused} : answer' = [answer EXCEPT ![i] = a]
    BY <1>4 DEF ServerRefresh
  <1>6. answer' \in [Instances -> Strings' \union {None, Refused}]
    BY <1>0, <1>2, <1>5 DEF BrowserTypeOK
  <1>7. BrowserTypeOK' /\ (signedOut' => Quiet')
    BY <1>0, <1>2, <1>5, <1>6 DEF BrowserInv, BrowserTypeOK, Quiet, Busy
  <1> QED
    BY <1>2, <1>7 DEF BrowserInv

(* At first nobody is signed in and nothing is sent. *)
LEMMA BrowserStarts ==
  ASSUME WorkspaceInit
  PROVE  BrowserInv
  <1>1. NewUser(Roles) \in UserRow
    BY DEF NewUser, NoUser, UserRow
  <1>2. tokens \in Seq(TokenRow) /\ DOMAIN tokens = {}
    BY EmptySeq, LenProperties DEF WorkspaceInit
  <1>3. TypeOK
    BY <1>1, <1>2 DEF WorkspaceInit, TypeOK
  <1>4. \A r \in Requests : req[r] = Idle /\ req[r].op # "refresh"
    BY DEF WorkspaceInit, Idle
  <1>5. SessionInv
    BY <1>2, <1>3, <1>4 DEF SessionInv, TokensKnown, FamiliesAreOld, StringsAreRows,
                            OneTokenPerLogin, RotatedIsGone, RotatedOnce, Rotating
  <1>6. BrowserTypeOK
    BY NothingIsAChoice DEF WorkspaceInit, BrowserTypeOK, Names
  <1> QED
    BY <1>5, <1>6 DEF BrowserInv, WorkspaceInit

(* The steps of the browser, one by one. *)
LEMMA BrowserInvKept ==
  ASSUME BrowserInv, [WorkspaceNext]_workspaceVars
  PROVE  BrowserInv'
  <1> USE DEF screen
  <1>1. ASSUME NEW u \in Users, SignIn(u)
        PROVE  BrowserInv'
    BY <1>1, SignInKeeps
  <1>2. ASSUME NEW c \in Companies, EnterWorkspace(c) \/ Deactivate(c)
        PROVE  BrowserInv'
    BY <1>2, PagesKeep, DeactivationKeeps
  <1>3. ASSUME LoginMounts \/ Navigate \/ Reload \/ ClockTicks \/ CookieExpires
        PROVE  BrowserInv'
    BY <1>3, PagesKeep, ReloadKeeps, TimeKeeps
  <1>4. ASSUME NEW i \in Instances, HookStep(i)
        PROVE  BrowserInv'
    BY <1>4, HookRefreshKeeps, ServerRefreshKeeps, AnswersKeep, CompaniesKeep DEF HookStep
  <1>5. ASSUME NEW i \in Instances, UserStep(i)
        PROVE  BrowserInv'
    BY <1>5, ChoicesKeep
  <1>6. CASE UNCHANGED workspaceVars
    <2>1. UNCHANGED <<sessionVars, where, signedIn, cookie, memory, storage, hook, answer, offered,
                      signedOut>>
      BY <1>6 DEF workspaceVars, browserVars
    <2>2. BrowserTypeOK' /\ (signedOut' => Quiet')
      BY <2>1, StringsUnchanged DEF BrowserInv, BrowserTypeOK, Quiet, Busy
    <2> QED
      BY <2>1, <2>2, NothingSent
  <1> QED
    BY <1>1, <1>2, <1>3, <1>4, <1>5, <1>6 DEF WorkspaceNext

(* What the browser does not ask of the API leaves the logins alone.       *)
LEMMA BrowserContinues ==
  ASSUME BrowserInv, [WorkspaceNext]_workspaceVars
  PROVE  ChainStep
  <1>0. SessionInv /\ BrowserTypeOK
    BY DEF BrowserInv
  <1>1. ASSUME UNCHANGED <<tokens, req>>
        PROVE  ChainStep
    <2>1. RowsStay /\ NowStays /\ DOMAIN tokens' = DOMAIN tokens
      BY <1>1 DEF RowsStay, NowStays
    <2> QED
      BY <1>0, <1>1, <2>1, LoginsEnd
  <1>2. ASSUME NEW u \in Users, SignIn(u)
        PROVE  ChainStep
    BY <1>0, <1>2, SignInContinues DEF Continues
  <1>3. ASSUME NEW c \in Companies, EnterWorkspace(c) \/ Deactivate(c)
        PROVE  UNCHANGED sessionVars
    BY <1>3 DEF EnterWorkspace, Deactivate
  <1>4. ASSUME LoginMounts \/ Navigate \/ Reload
        PROVE  UNCHANGED sessionVars
    BY <1>4 DEF LoginMounts, Navigate, Reload
  <1>5. CASE ClockTicks \/ CookieExpires
    BY <1>5, TimeKeeps
  <1>6. ASSUME NEW i \in Instances, HookStep(i)
        PROVE  UNCHANGED sessionVars \/ RefreshRequests(i)
    <2>1. CASE HookRefresh(i)
      BY <1>0, <2>1 DEF HookRefresh, BrowserTypeOK, RefreshRequests
    <2>2. CASE ServerRefresh(i)
      BY <2>2 DEF ServerRefresh, RefreshRequests
    <2> QED
      BY <1>6, <2>1, <2>2
      DEF HookStep, HookAnswered, HookUnanswered, HookCompanies, HookFails
  <1>7. ASSUME NEW i \in Instances, RefreshRequests(i)
        PROVE  ChainStep
    BY <1>0, <1>7, RefreshesKeep DEF Continues, Instances
  <1>8. ASSUME NEW i \in Instances, UserStep(i)
        PROVE  UNCHANGED sessionVars
    BY <1>8 DEF UserStep, Redirect, SignOut, Leave, SetCompany, SetBranch, SetPeriod, Update
  <1>9. UNCHANGED workspaceVars => UNCHANGED sessionVars
    BY DEF workspaceVars
  <1>10. UNCHANGED sessionVars => UNCHANGED <<tokens, req>>
    BY DEF sessionVars
  <1> QED
    BY <1>1, <1>2, <1>3, <1>4, <1>5, <1>6, <1>7, <1>8, <1>9, <1>10 DEF WorkspaceNext

(* What is selected, stored and waited for in the browser stays in step    *)
(* with the tokens of the API: use-workspace.ts, session.ts.               *)
THEOREM BrowserAlways == WorkspaceSpec => []BrowserInv
  <1> QED
    BY BrowserStarts, BrowserInvKept, PTL DEF WorkspaceSpec

(* Whatever the pages, the reloads and the refreshes the browser sends     *)
(* together, the logins behind it are chains too: what SessionsRotate says *)
(* of requests anybody sends holds of those the web application sends,     *)
(* with its cookie as the only token it presents.                          *)
THEOREM BrowserRotates == WorkspaceSpec => ImplementsTokenRotation
  <1>1. WorkspaceInit => Chain!Init
    BY ChainStarts DEF WorkspaceInit
  <1>2. BrowserInv /\ [WorkspaceNext]_workspaceVars => [Chain!Next]_(Chain!rotationVars)
    BY BrowserContinues DEF ChainStep
  <1> QED
    BY <1>1, <1>2, BrowserAlways, PTL DEF WorkspaceSpec, ImplementsTokenRotation, Chain!Spec

(* However instances overlap and companies go, the branch that is selected *)
(* belongs to the company that is selected, in localStorage and on every   *)
(* page: updateSession, load, enterWorkspace.                              *)
THEOREM BranchesBelong == WorkspaceSpec => []BranchOfCompany
  <1>1. ASSUME BrowserInv
        PROVE  BranchOfCompany
    <2>1. BrowserTypeOK
      BY <1>1 DEF BrowserInv
    <2>2. Fits(storage)
      BY <2>1 DEF BrowserTypeOK, Choices
    <2>3. ASSUME NEW i \in Instances, hook[i].pc # "gone"
          PROVE  Fits(hook[i].session.chosen)
      BY <2>1, <2>3, MountedIsInstance DEF Choices
    <2> QED
      BY <2>2, <2>3 DEF BranchOfCompany
  <1> QED
    BY <1>1, BrowserAlways, PTL

(* After a sign-out with nothing on its way, neither token nor selection   *)
(* comes back, nor a page, before the next sign-in: signOut, clearSession. *)
THEOREM SignOutIsFinal == WorkspaceSpec => []SignedOutStaysOut
  <1>1. BrowserInv => SignedOutStaysOut
    BY DEF BrowserInv, Quiet, SignedOutStaysOut
  <1> QED
    BY <1>1, BrowserAlways, PTL

=============================================================================
