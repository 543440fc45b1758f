-------------------------- MODULE ApiTrafficProofs ---------------------------
(***************************************************************************)
(* Proofs about ApiTraffic, for any number of requests under way together, *)
(* any roles and any calls: what is served was permitted, and audited, and *)
(* the answers are those the tables of the client and the server foretell. *)
(***************************************************************************)
EXTENDS ApiTraffic, TLAPS

SecurityRoles == {"ADMIN", "FINANCE", "HR", "WAREHOUSE", "VIEWER"}
Stages == {"sent", "permissions", "again", "handling", "auditing", "answered"}

Travelling ==
    [ pc : Stages, call : Calls, extent : Extents, role : SecurityRoles \union {None},
      since : SUBSET Permissions(Roles), rows : Nat, lost : BOOLEAN,
      answer : Answers \union {None} ]

TypeOK ==
    /\ held \in SUBSET Roles /\ change \in SUBSET Roles
    /\ token \in SecurityRoles \union {None}
    /\ refreshing = <<>> \/ \E roles \in SUBSET Roles : refreshing = <<roles>>
    /\ req \in [Requests -> Travelling \union {Idle}]

WasPermitted(q) == Contract[q.call].permission \in q.since \union {None}

(* The handler is reached, or was. *)
Reached(q) ==
    \/ q.pc \in {"handling", "auditing"}
    \/ q.pc = "answered" /\ q.answer \in {"served", "refused", "broken"}

IsAudited(q) ==
    q.rows = IF q.answer = "served" /\ Audited(q.call) /\ ~q.lost THEN 1 ELSE 0

(* How far a request has come tells what the tables say of its call, and   *)
(* so does its answer.                                                     *)
FollowsTables(q) ==
    /\ q.pc \in {"permissions", "again", "handling", "auditing"} => Contract[q.call].found
    /\ q.pc \in {"handling", "auditing"} => WellFormed[q.call, q.extent]
    /\ q.pc = "auditing" => Kept(q.call, q.extent)
    /\ q.pc = "answered" =>
         /\ q.answer \in {"no route", "malformed", "broken"} => ~Kept(q.call, q.extent)
         /\ q.answer = "served" => Kept(q.call, q.extent)

(* What a request keeps on its way: nothing is audited before it is        *)
(* handled, only changes wait for their row, and what was permitted when   *)
(* the guards let it pass is remembered.                                   *)
Sound(q) ==
    /\ q.pc # "answered" => q.rows = 0 /\ q.lost = FALSE
    /\ q.pc = "auditing" => Audited(q.call)
    /\ q.pc = "answered" => IsAudited(q)
    /\ Reached(q) => WasPermitted(q)
    /\ FollowsTables(q)

RequestInv(q) ==
    q # Idle => Sound(q) /\ Permissions(held) \subseteq q.since

TrafficInv == TypeOK /\ \A r \in Requests : RequestInv(req[r])

LEMMA RequestTypes ==
  ASSUME TypeOK, NEW r \in Requests, req[r].pc # "idle"
  PROVE  req[r] \in Travelling /\ req[r] # Idle
  BY DEF TypeOK, Idle

LEMMA PermissionsGrow ==
  ASSUME NEW few, NEW many, few \subseteq many
  PROVE  Permissions(few) \subseteq Permissions(many)
  BY DEF Permissions

LEMMA ClaimsAreRoles ==
  ASSUME NEW roles \in SUBSET Roles
  PROVE  ClaimOf(roles) \subseteq SecurityRoles
  BY RolesHaveSecurityRoles DEF ClaimOf, SecurityRoles

(* A step that moves one request, and leaves the roles and the token.      *)
LEMMA OneRequestMoves ==
  ASSUME TrafficInv, NEW r \in Requests, NEW q \in Travelling \union {Idle},
         Become(r, q), UNCHANGED <<held, change, token, refreshing>>,
         q # Idle => Sound(q) /\ Permissions(held) \subseteq q.since
  PROVE  TrafficInv'
  <1>1. TypeOK'
    BY DEF TrafficInv, TypeOK, Become
  <1>2. ASSUME NEW s \in Requests
        PROVE  RequestInv(req[s])'
    <2>1. CASE s = r
      <3>1. req'[s] = q
        BY <2>1 DEF TrafficInv, TypeOK, Become
      <3> QED
        BY <3>1 DEF RequestInv
    <2>2. CASE s # r
      <3>1. req'[s] = req[s]
        BY <2>2 DEF TrafficInv, TypeOK, Become
      <3>2. RequestInv(req[s])
        BY DEF TrafficInv
      <3> QED
        BY <3>1, <3>2 DEF RequestInv
    <2> QED
      BY <2>1, <2>2
  <1> QED
    BY <1>1, <1>2 DEF TrafficInv

(* A request that moves on without an answer, or with one that no handler  *)
(* gave, is sound.                                                         *)
LEMMA Moving ==
  ASSUME NEW q \in Travelling, Sound(q), q.pc # "answered", NEW pc \in Stages \ {"answered"},
         pc = "auditing" => Audited(q.call),
         pc \in {"handling", "auditing"} => WasPermitted(q) /\ WellFormed[q.call, q.extent],
         pc # "sent" => Contract[q.call].found,
         pc = "auditing" => Kept(q.call, q.extent)
  PROVE  /\ [q EXCEPT !.pc = pc] \in Travelling
         /\ Sound([q EXCEPT !.pc = pc])
         /\ [q EXCEPT !.pc = pc].since = q.since
  <1>1. [q EXCEPT !.pc = pc] \in Travelling
    BY DEF Travelling
  <1> DEFINE p == [q EXCEPT !.pc = pc]
  <1>2. /\ p.pc = pc /\ p.call = q.call /\ p.since = q.since /\ p.extent = q.extent
        /\ p.rows = q.rows /\ p.lost = q.lost
    BY DEF Travelling
  <1> HIDE DEF p
  <1>3. FollowsTables(p)
    BY <1>2 DEF FollowsTables, Stages
  <1>4. Sound(p)
    BY <1>2, <1>3 DEF Sound, Reached, WasPermitted
  <1> QED
    BY <1>1, <1>2, <1>4 DEF p

LEMMA Refusing ==
  ASSUME NEW q \in Travelling, Sound(q), q.pc # "answered",
         NEW answer \in Answers, answer # "served",
         answer \in {"refused", "broken"} => WasPermitted(q),
         answer \in {"no route", "malformed", "broken"} => ~Kept(q.call, q.extent)
  PROVE  /\ Answered(q, answer) \in Travelling
         /\ Sound(Answered(q, answer))
         /\ Answered(q, answer).since = q.since
  <1>1. Answered(q, answer) \in Travelling
    BY DEF Travelling, Answered, Stages
  <1> DEFINE p == Answered(q, answer)
  <1>2. /\ p.pc = "answered" /\ p.answer = answer /\ p.call = q.call
        /\ p.since = q.since /\ p.rows = q.rows /\ p.lost = q.lost /\ p.extent = q.extent
    BY DEF Travelling, Answered
  <1> HIDE DEF p
  <1>3. FollowsTables(p)
    BY <1>2 DEF FollowsTables
  <1>4. Sound(p)
    BY <1>2, <1>3 DEF Sound, Reached, WasPermitted, IsAudited
  <1> QED
    BY <1>1, <1>2, <1>4 DEF p

(* The handler or the auditor answers.                                     *)
LEMMA Serving ==
  ASSUME NEW q \in Travelling, Sound(q), q.pc \in {"handling", "auditing"},
         Kept(q.call, q.extent), NEW rows \in Nat, NEW lost \in BOOLEAN,
         NEW p, p = [q EXCEPT !.pc = "answered", !.answer = "served",
                              !.rows = rows, !.lost = lost],
         rows = IF Audited(q.call) /\ ~lost THEN 1 ELSE 0
  PROVE  p \in Travelling /\ Sound(p) /\ p.since = q.since
  <1>1. p \in Travelling
    BY DEF Travelling, Answers, Stages
  <1>2. /\ p.pc = "answered" /\ p.answer = "served" /\ p.call = q.call
        /\ p.since = q.since /\ p.rows = rows /\ p.lost = lost /\ p.extent = q.extent
    BY DEF Travelling
  <1>3. FollowsTables(p)
    BY <1>2 DEF FollowsTables
  <1>4. Sound(p)
    BY <1>2, <1>3 DEF Sound, Reached, WasPermitted, IsAudited
  <1> QED
    BY <1>1, <1>2, <1>4

-----------------------------------------------------------------------------
(* The steps of a request.                                                 *)

(* What is known of a request that is to move.                             *)
LEMMA Known ==
  ASSUME TrafficInv, NEW r \in Requests, req[r].pc # "idle"
  PROVE  /\ req[r] \in Travelling
         /\ Sound(req[r])
         /\ Permissions(held) \subseteq req[r].since
  <1>1. req[r] \in Travelling /\ req[r] # Idle
    BY RequestTypes DEF TrafficInv
  <1> QED
    BY <1>1 DEF TrafficInv, RequestInv

LEMMA DispatchKeeps ==
  ASSUME TrafficInv, NEW r \in Requests, NEW call \in Calls, NEW extent \in Extents,
         Dispatch(r, call, extent)
  PROVE  TrafficInv'
  <1> DEFINE q == [ pc |-> "sent", call |-> call, extent |-> extent, role |-> token,
                    since |-> Permissions(held), rows |-> 0, lost |-> FALSE, answer |-> None ]
  <1>1. Permissions(held) \subseteq Permissions(Roles)
    BY PermissionsGrow DEF TrafficInv, TypeOK
  <1>2. q \in Travelling
    BY <1>1 DEF Travelling, Stages, TrafficInv, TypeOK
  <1>3. Sound(q) /\ Permissions(held) \subseteq q.since
    BY DEF Sound, Reached, FollowsTables
  <1>4. Become(r, q) /\ UNCHANGED <<held, change, token, refreshing>>
    BY DEF Dispatch
  <1> HIDE DEF q
  <1> QED
    BY <1>2, <1>3, <1>4, OneRequestMoves

LEMMA ArriveKeeps ==
  ASSUME TrafficInv, NEW r \in Requests, Arrive(r)
  PROVE  TrafficInv'
  <1> DEFINE q == req[r]
  <1>1. q.pc = "sent" /\ UNCHANGED <<held, change, token, refreshing>>
    BY DEF Arrive, At
  <1>2. q \in Travelling /\ Sound(q) /\ Permissions(held) \subseteq q.since
    BY <1>1, Known
  <1>3. \/ \E answer \in {"throttled", "no route", "unauthorized"} :
             /\ answer = "no route" => ~Contract[q.call].found
             /\ Become(r, Answered(q, answer))
        \/ Contract[q.call].found /\ Become(r, [q EXCEPT !.pc = "permissions"])
    BY DEF Arrive
  <1>4. CASE \E answer \in {"throttled", "no route", "unauthorized"} :
               /\ answer = "no route" => ~Contract[q.call].found
               /\ Become(r, Answered(q, answer))
    <2>1. PICK answer \in {"throttled", "no route", "unauthorized"} :
                 /\ answer = "no route" => ~Contract[q.call].found
                 /\ Become(r, Answered(q, answer))
      BY <1>4
    <2>2. /\ Answered(q, answer) \in Travelling /\ Sound(Answered(q, answer))
          /\ Answered(q, answer).since = q.since
      <3>1. /\ answer \in Answers /\ answer # "served" /\ answer \notin {"refused", "broken"}
            /\ answer \in {"no route", "malformed", "broken"} => ~Kept(q.call, q.extent)
        BY <2>1 DEF Answers, Kept
      <3> HIDE DEF q
      <3> QED
        BY <1>1, <1>2, <3>1, Refusing
    <2> HIDE DEF q
    <2> QED
      BY <1>1, <1>2, <2>1, <2>2, OneRequestMoves
  <1>5. CASE Contract[q.call].found /\ Become(r, [q EXCEPT !.pc = "permissions"])
    <2> HIDE DEF q
    <2>1. /\ [q EXCEPT !.pc = "permissions"] \in Travelling
          /\ Sound([q EXCEPT !.pc = "permissions"])
          /\ [q EXCEPT !.pc = "permissions"].since = q.since
      BY <1>1, <1>2, <1>5, Moving DEF Stages
    <2> QED
      BY <1>1, <1>2, <1>5, <2>1, OneRequestMoves
  <1> QED
    BY <1>3, <1>4, <1>5

(* The guards, asked once or again: who is let pass has the permission     *)
(* now, and so at some time since the request was sent.                    *)
LEMMA CheckKeeps ==
  ASSUME TrafficInv, NEW r \in Requests, req[r].pc \in {"permissions", "again"},
         UNCHANGED <<held, change, token, refreshing>>,
         \/ \E answer \in {"forbidden", "malformed"} :
              /\ answer = "malformed" => ~WellFormed[req[r].call, req[r].extent]
              /\ Become(r, Answered(req[r], answer))
         \/ /\ PermissionsGuard(req[r])
            /\ \E pc \in {"again", "handling"} :
                 /\ pc = "handling" => WellFormed[req[r].call, req[r].extent]
                 /\ Become(r, [req[r] EXCEPT !.pc = pc])
  PROVE  TrafficInv'
  <1>1. PICK q : q = req[r]
    OBVIOUS
  <1>2. /\ q \in Travelling /\ Sound(q) /\ Permissions(held) \subseteq q.since
        /\ q.pc \in {"permissions", "again"}
    BY <1>1, Known
  <1>3. CASE \E answer \in {"forbidden", "malformed"} :
               /\ answer = "malformed" => ~WellFormed[q.call, q.extent]
               /\ Become(r, Answered(q, answer))
    <2>1. PICK answer \in {"forbidden", "malformed"} :
                 /\ answer = "malformed" => ~WellFormed[q.call, q.extent]
                 /\ Become(r, Answered(q, answer))
      BY <1>3
    <2>2. /\ answer \in Answers /\ answer # "served" /\ answer \notin {"refused", "broken"}
          /\ answer \in {"no route", "malformed", "broken"} => ~Kept(q.call, q.extent)
      BY <2>1 DEF Answers, Kept
    <2>3. /\ Answered(q, answer) \in Travelling /\ Sound(Answered(q, answer))
          /\ Answered(q, answer).since = q.since
      BY <1>2, <2>2, Refusing
    <2> QED
      BY <1>2, <2>1, <2>3, OneRequestMoves
  <1>4. CASE /\ PermissionsGuard(q)
             /\ \E pc \in {"again", "handling"} :
                  /\ pc = "handling" => WellFormed[q.call, q.extent]
                  /\ Become(r, [q EXCEPT !.pc = pc])
    <2>1. PICK pc \in {"again", "handling"} :
                 /\ pc = "handling" => WellFormed[q.call, q.extent]
                 /\ Become(r, [q EXCEPT !.pc = pc])
      BY <1>4
    <2>2. WasPermitted(q) /\ Contract[q.call].found
      BY <1>2, <1>4 DEF PermissionsGuard, WasPermitted, Sound, FollowsTables
    <2>3. /\ [q EXCEPT !.pc = pc] \in Travelling /\ Sound([q EXCEPT !.pc = pc])
          /\ [q EXCEPT !.pc = pc].since = q.since
      BY <1>2, <2>1, <2>2, Moving DEF Stages
    <2> QED
      BY <1>2, <2>1, <2>3, OneRequestMoves
  <1> QED
    BY <1>1, <1>3, <1>4

LEMMA GuardsKeep ==
  ASSUME TrafficInv, NEW r \in Requests, CheckGlobally(r) \/ CheckAgain(r)
  PROVE  TrafficInv'
  <1>1. CASE CheckGlobally(r)
    BY <1>1, CheckKeeps DEF CheckGlobally, At
  <1>2. CASE CheckAgain(r)
    BY <1>2, CheckKeeps DEF CheckAgain, At
  <1> QED
    BY <1>1, <1>2

LEMMA HandleKeeps ==
  ASSUME TrafficInv, NEW r \in Requests, Handle(r)
  PROVE  TrafficInv'
  <1>1. PICK q : q = req[r]
    OBVIOUS
  <1>2. q.pc = "handling" /\ UNCHANGED <<held, change, token, refreshing>>
    BY <1>1 DEF Handle, At
  <1>3. q \in Travelling /\ Sound(q) /\ Permissions(held) \subseteq q.since
    BY <1>1, <1>2, Known
  <1>4. WasPermitted(q) /\ Contract[q.call].found /\ WellFormed[q.call, q.extent]
    BY <1>2, <1>3 DEF Sound, Reached, FollowsTables
  <1>5. \/ \E answer \in {"broken", "refused"} :
             /\ answer = "broken" => ~Kept(q.call, q.extent)
             /\ Become(r, Answered(q, answer))
        \/ /\ Kept(q.call, q.extent) /\ Audited(q.call)
           /\ Become(r, [q EXCEPT !.pc = "auditing"])
        \/ /\ Kept(q.call, q.extent) /\ ~Audited(q.call)
           /\ Become(r, Answered(q, "served"))
    BY <1>1, <1>4 DEF Handle, Kept
  <1>6. CASE \E answer \in {"broken", "refused"} :
               /\ answer = "broken" => ~Kept(q.call, q.extent)
               /\ Become(r, Answered(q, answer))
    <2>1. PICK answer \in {"broken", "refused"} :
                 /\ answer = "broken" => ~Kept(q.call, q.extent)
                 /\ Become(r, Answered(q, answer))
      BY <1>6
    <2>2. /\ Answered(q, answer) \in Travelling /\ Sound(Answered(q, answer))
          /\ Answered(q, answer).since = q.since
      BY <1>2, <1>3, <1>4, <2>1, Refusing DEF Answers
    <2> QED
      BY <1>2, <1>3, <2>1, <2>2, OneRequestMoves
  <1>7. CASE /\ Kept(q.call, q.extent) /\ Audited(q.call)
             /\ Become(r, [q EXCEPT !.pc = "auditing"])
    <2>1. /\ [q EXCEPT !.pc = "auditing"] \in Travelling
          /\ Sound([q EXCEPT !.pc = "auditing"])
          /\ [q EXCEPT !.pc = "auditing"].since = q.since
      BY <1>2, <1>3, <1>4, <1>7, Moving DEF Stages
    <2> QED
      BY <1>2, <1>3, <1>7, <2>1, OneRequestMoves
  <1>8. CASE /\ Kept(q.call, q.extent) /\ ~Audited(q.call)
             /\ Become(r, Answered(q, "served"))
    <2>1. PICK p : p = Answered(q, "served")
      OBVIOUS
    <2>2. q.rows = 0 /\ q.lost = FALSE
      BY <1>2, <1>3 DEF Sound
    <2>3. p = [q EXCEPT !.pc = "answered", !.answer = "served", !.rows = 0, !.lost = FALSE]
      BY <1>3, <2>1, <2>2 DEF Answered, Travelling
    <2>4. p \in Travelling /\ Sound(p) /\ p.since = q.since
      BY <1>2, <1>3, <1>8, <2>3, Serving
    <2> QED
      BY <1>2, <1>3, <1>8, <2>1, <2>4, OneRequestMoves
  <1> QED
    BY <1>5, <1>6, <1>7, <1>8

LEMMA AuditKeeps ==
  ASSUME TrafficInv, NEW r \in Requests, Audit(r)
  PROVE  TrafficInv'
  <1>1. PICK q : q = req[r]
    OBVIOUS
  <1>2. q.pc = "auditing" /\ UNCHANGED <<held, change, token, refreshing>>
    BY <1>1 DEF Audit, At
  <1>3. q \in Travelling /\ Sound(q) /\ Permissions(held) \subseteq q.since
    BY <1>1, <1>2, Known
  <1>4. q.rows = 0 /\ q.lost = FALSE /\ Audited(q.call) /\ Kept(q.call, q.extent)
    BY <1>2, <1>3 DEF Sound, FollowsTables
  <1>5. PICK p : /\ Become(r, p)
                 /\ \/ p = Answered([q EXCEPT !.rows = q.rows + 1], "served")
                    \/ p = Answered([q EXCEPT !.lost = TRUE], "served")
    BY <1>1 DEF Audit
  <1>6. p \in Travelling /\ Sound(p) /\ p.since = q.since
    <2>1. CASE p = Answered([q EXCEPT !.rows = q.rows + 1], "served")
      <3>1. q.rows + 1 = 1
        BY <1>4
      <3>2. PICK lost \in BOOLEAN, rows \in Nat : ~lost /\ rows = 1
        OBVIOUS
      <3>3. p = Answered([q EXCEPT !.rows = rows], "served")
        BY <2>1, <3>1, <3>2
      <3>4. p = [q EXCEPT !.pc = "answered", !.answer = "served", !.rows = rows, !.lost = lost]
        BY <1>3, <1>4, <3>2, <3>3 DEF Answered, Travelling
      <3> QED
        BY <1>2, <1>3, <1>4, <3>2, <3>4, Serving
    <2>2. CASE p = Answered([q EXCEPT !.lost = TRUE], "served")
      <3>1. p = [q EXCEPT !.pc = "answered", !.answer = "served", !.rows = 0, !.lost = TRUE]
        BY <1>3, <1>4, <2>2 DEF Answered, Travelling
      <3>2. PICK lost \in BOOLEAN, rows \in Nat : lost /\ rows = 0
        OBVIOUS
      <3>3. p = [q EXCEPT !.pc = "answered", !.answer = "served", !.rows = rows, !.lost = lost]
        BY <3>1, <3>2
      <3> QED
        BY <1>2, <1>3, <1>4, <3>2, <3>3, Serving
    <2> QED
      BY <1>5, <2>1, <2>2
  <1> QED
    BY <1>2, <1>3, <1>5, <1>6, OneRequestMoves

LEMMA ServeKeeps ==
  ASSUME TrafficInv, NEW r \in Requests, Serve(r)
  PROVE  TrafficInv'
  <1>1. CASE Collect(r)
    BY <1>1, OneRequestMoves DEF Collect
  <1> QED
    BY <1>1, ArriveKeeps, GuardsKeep, HandleKeeps, AuditKeeps DEF Serve

-----------------------------------------------------------------------------
(* The steps of the others.                                                *)

LEMMA AssignDeleteKeeps ==
  ASSUME TrafficInv, NEW roles \in SUBSET Roles, AssignDelete(roles)
  PROVE  TrafficInv'
  <1>1. held' = {} /\ change' = roles /\ UNCHANGED <<token, refreshing, req>>
    BY DEF AssignDelete
  <1>2. TypeOK'
    BY <1>1 DEF TrafficInv, TypeOK
  <1>3. Permissions(held') = {}
    BY <1>1 DEF Permissions
  <1>4. ASSUME NEW r \in Requests
        PROVE  RequestInv(req[r])'
    <2>1. RequestInv(req[r])
      BY DEF TrafficInv
    <2> QED
      BY <1>1, <1>3, <2>1 DEF RequestInv
  <1> QED
    BY <1>2, <1>4 DEF TrafficInv

LEMMA AssignCreateKeeps ==
  ASSUME TrafficInv, AssignCreate
  PROVE  TrafficInv'
  <1>1. /\ held' = change /\ change' = {} /\ UNCHANGED <<token, refreshing>>
        /\ req' = WithPermissions(change)
    BY DEF AssignCreate
  <1>2. Permissions(change) \subseteq Permissions(Roles)
    BY PermissionsGrow DEF TrafficInv, TypeOK
  <1>3. ASSUME NEW r \in Requests
        PROVE  /\ req'[r] \in Travelling \union {Idle}
               /\ RequestInv(req[r])'
    <2>1. CASE req[r] = Idle
      BY <1>1, <2>1 DEF WithPermissions, RequestInv
    <2>2. CASE req[r] # Idle
      <3>1. PICK q : q = req[r]
        OBVIOUS
      <3>2. q \in Travelling /\ Sound(q)
        BY <2>2, <3>1 DEF TrafficInv, TypeOK, RequestInv
      <3>3. PICK p : p = [q EXCEPT !.since = @ \cup Permissions(change)]
        OBVIOUS
      <3>4. req'[r] = p
        BY <1>1, <2>2, <3>1, <3>3 DEF WithPermissions
      <3>5. p \in Travelling
        BY <1>2, <3>2, <3>3 DEF Travelling
      <3>6. /\ p.pc = q.pc /\ p.call = q.call /\ p.rows = q.rows /\ p.lost = q.lost
            /\ p.extent = q.extent /\ p.answer = q.answer /\ p.since = q.since \cup Permissions(change)
        BY <3>2, <3>3 DEF Travelling
      <3>7. FollowsTables(p)
        BY <3>2, <3>6 DEF Sound, FollowsTables
      <3>8. Sound(p)
        BY <3>2, <3>6, <3>7 DEF Sound, Reached, WasPermitted, IsAudited
      <3> QED
        BY <1>1, <3>4, <3>5, <3>6, <3>8 DEF RequestInv
    <2> QED
      BY <2>1, <2>2
  <1>4. req' \in [Requests -> Travelling \union {Idle}]
    BY <1>1, <1>3 DEF WithPermissions
  <1>5. TypeOK'
    BY <1>1, <1>4 DEF TrafficInv, TypeOK
  <1> QED
    BY <1>3, <1>5 DEF TrafficInv

LEMMA TokenKeeps ==
  ASSUME TrafficInv, Expire \/ RefreshRead \/ RefreshIssue
  PROVE  TrafficInv'
  <1>1. UNCHANGED <<held, change, req>>
    BY DEF Expire, RefreshRead, RefreshIssue
  <1>2. /\ token' \in SecurityRoles \union {None}
        /\ refreshing' = <<>> \/ \E roles \in SUBSET Roles : refreshing' = <<roles>>
    <2>1. CASE Expire
      BY <2>1 DEF Expire, TrafficInv, TypeOK
    <2>2. CASE RefreshRead
      BY <2>2 DEF RefreshRead, TrafficInv, TypeOK
    <2>3. CASE RefreshIssue
      <3>1. PICK roles \in SUBSET Roles : refreshing = <<roles>>
        BY <2>3 DEF RefreshIssue, TrafficInv, TypeOK
      <3>2. token' \in ClaimOf(roles) /\ refreshing' = <<>>
        BY <2>3, <3>1 DEF RefreshIssue
      <3> QED
        BY <3>2, ClaimsAreRoles
    <2> QED
      BY <2>1, <2>2, <2>3
  <1>3. TypeOK'
    BY <1>1, <1>2 DEF TrafficInv, TypeOK
  <1>4. ASSUME NEW r \in Requests
        PROVE  RequestInv(req[r])'
    BY <1>1 DEF TrafficInv, RequestInv
  <1> QED
    BY <1>3, <1>4 DEF TrafficInv

LEMMA RestartKeeps ==
  ASSUME TrafficInv, Restart
  PROVE  TrafficInv'
  <1>1. /\ change' = {} /\ refreshing' = <<>> /\ UNCHANGED <<held, token>>
        /\ req' = [r \in Requests |-> IF r \in InFlight THEN Idle ELSE req[r]]
    BY DEF Restart
  <1>2. TypeOK'
    BY <1>1 DEF TrafficInv, TypeOK
  <1>3. ASSUME NEW r \in Requests
        PROVE  RequestInv(req[r])'
    <2>1. req'[r] = Idle \/ req'[r] = req[r]
      BY <1>1
    <2>2. RequestInv(req[r])
      BY DEF TrafficInv
    <2> QED
      BY <1>1, <2>1, <2>2 DEF RequestInv
  <1> QED
    BY <1>2, <1>3 DEF TrafficInv

LEMMA TrafficInvHolds == TrafficSpec => []TrafficInv
  <1>1. Init => TrafficInv
    <2> SUFFICES ASSUME Init PROVE TrafficInv
      OBVIOUS
    <2>1. TypeOK
      BY ClaimsAreRoles DEF Init, TypeOK
    <2>2. \A r \in Requests : RequestInv(req[r])
      BY DEF Init, RequestInv
    <2> QED
      BY <2>1, <2>2 DEF TrafficInv
  <1>2. TrafficInv /\ [Next]_vars => TrafficInv'
    <2> SUFFICES ASSUME TrafficInv, [Next]_vars PROVE TrafficInv'
      OBVIOUS
    <2>1. CASE UNCHANGED vars
      BY <2>1 DEF TrafficInv, TypeOK, RequestInv, vars
    <2>2. CASE \E r \in Requests, call \in Calls, extent \in Extents :
                 Dispatch(r, call, extent)
      BY <2>2, DispatchKeeps
    <2>3. CASE \E r \in Requests : Serve(r)
      BY <2>3, ServeKeeps
    <2>4. CASE \E roles \in SUBSET Roles : AssignDelete(roles)
      BY <2>4, AssignDeleteKeeps
    <2>5. CASE Restart
      BY <2>5, RestartKeeps
    <2> QED
      BY <2>1, <2>2, <2>3, <2>4, <2>5, AssignCreateKeeps, TokenKeeps DEF Next
  <1> QED
    BY <1>1, <1>2, PTL DEF TrafficSpec

-----------------------------------------------------------------------------
(* The theorems.                                                           *)

(* The types of the state, of any number of requests.                      *)
THEOREM TypeCorrect == TrafficSpec => []TypeOK
  <1>1. TrafficInv => TypeOK
    BY DEF TrafficInv
  <1> QED
    BY <1>1, TrafficInvHolds, PTL

(* However roles change, tokens age and the process restarts while requests*)
(* are on their way: no handler is reached without a permission the user   *)
(* held since the request was sent.                                        *)
THEOREM NothingServedUnpermitted == TrafficSpec => []ServedByPermission
  <1>1. TrafficInv => ServedByPermission
    <2> SUFFICES ASSUME TrafficInv, NEW r \in Requests, Reached(req[r])
                 PROVE  Contract[req[r].call].permission \in req[r].since \cup {None}
      BY DEF ServedByPermission, Reached, At
    <2>1. req[r].pc # "idle"
      BY DEF Reached
    <2> QED
      BY <2>1, Known DEF Sound, WasPermitted
  <1> QED
    BY <1>1, TrafficInvHolds, PTL

(* Every acknowledged change has its one audit row unless the write of the *)
(* row failed, and nothing else has one.                                   *)
THEOREM ChangesAreAudited == TrafficSpec => []ServedIsAudited
  <1>1. TrafficInv => ServedIsAudited
    <2> SUFFICES ASSUME TrafficInv, NEW r \in Requests, req[r].pc = "answered"
                 PROVE  IsAudited(req[r])
      BY DEF ServedIsAudited, IsAudited, At
    <2> QED
      BY Known DEF Sound
  <1> QED
    BY <1>1, TrafficInvHolds, PTL

(* Whatever roles, tokens and restarts do meanwhile, only the tables decide*)
(* whether a call is refused for its shape: if client and server agree on  *)
(* every call but the unserved ones, none of the others is ever answered   *)
(* with a missing route, a malformed payload or a missing method, and an   *)
(* unserved one is never served.                                           *)
THEOREM AnswersFollowTables ==
  ASSUME ContractAgrees
  PROVE  TrafficSpec => []ContractHolds
  <1>1. TrafficInv => ContractHolds
    <2> SUFFICES ASSUME TrafficInv, NEW r \in Requests, req[r].pc = "answered"
                 PROVE  /\ req[r].answer \in {"no route", "malformed", "broken"} =>
                             req[r].call.name \in Unserved
                        /\ req[r].answer = "served" => req[r].call.name \notin Unserved
      BY ContractAgrees DEF ContractHolds, At
    <2>1. req[r] \in Travelling /\ FollowsTables(req[r])
      BY Known DEF Sound
    <2>2. Kept(req[r].call, req[r].extent) <=> req[r].call.name \notin Unserved
      BY <2>1 DEF ContractAgrees, Travelling
    <2> QED
      BY <2>1, <2>2 DEF FollowsTables
  <1> QED
    BY <1>1, TrafficInvHolds, PTL

=============================================================================
