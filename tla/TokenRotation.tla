--------------------------- MODULE TokenRotation ----------------------------
(***************************************************************************)
(* What the API promises of a login: it is one chain of refresh tokens.    *)
(*                                                                         *)
(* A login holds the right to go on: as a refresh token some client keeps, *)
(* or as a request that has given its token up and has not got the next    *)
(* one yet.  The right is handed from one to the other, and never doubled. *)
(* A token handed out is new, or else one handed out to the same user in   *)
(* the same second and kept by no login any more: a token that was given   *)
(* up never works again once its second is over.  The user and the         *)
(* password stay those the login was opened with; and a login that has     *)
(* ended has ended for good.                                               *)
(*                                                                         *)
(* Sessions implements it, however many requests are in flight.            *)
(***************************************************************************)

VARIABLES
    rights,     \* the rights of each login ever opened: one, or none
    given,      \* the tokens ever handed out
    recent      \* those that may be handed out again, and to whom

rotationVars == <<rights, given, recent>>

Init == rights = <<>> /\ given = {} /\ recent = {}

(* A login other than the one that acts goes on as it is, or ends. *)
LeftAlone(l) == rights'[l] = rights[l] \/ rights'[l] = {}

(* Only login m acts; at the same time others may end. *)
OnlyOf(m) ==
    /\ DOMAIN rights' = DOMAIN rights \cup {m}
    /\ \A l \in DOMAIN rights \ {m} : LeftAlone(l)

KeptBy(l, token) == \E right \in rights[l] : right.form = "token" /\ right.id = token

HandOut(right) ==
    /\ right.form = "token"
    /\ right.id \in given => <<right.id, right.user>> \in recent
    /\ \A l \in DOMAIN rights : ~KeptBy(l, right.id)
    /\ given' = given \cup {right.id}
    /\ recent' = recent \cup {<<right.id, right.user>>}

(* A user logs in. *)
Open(l) ==
    /\ l \notin DOMAIN rights
    /\ OnlyOf(l)
    /\ \E right \in rights'[l] : rights'[l] = {right} /\ HandOut(right)

(* A request gives up the token it was sent with, or gets the next one. *)
Pass(l) ==
    /\ l \in DOMAIN rights
    /\ OnlyOf(l)
    /\ \E old \in rights[l], new \in rights'[l] :
         /\ rights[l] = {old} /\ rights'[l] = {new}
         /\ new.user = old.user /\ new.password = old.password
         /\ \/ old.form = "token" /\ new.form = "request" /\ UNCHANGED <<given, recent>>
            \/ old.form = "request" /\ HandOut(new)

(* Logout, a revocation, a token that is pruned, an issue that fails, a    *)
(* crash of the server.                                                    *)
End ==
    /\ DOMAIN rights' = DOMAIN rights
    /\ \A l \in DOMAIN rights : LeftAlone(l)
    /\ UNCHANGED <<given, recent>>

SecondPasses == recent' = {} /\ UNCHANGED <<rights, given>>

Next ==
    \/ \E l \in DOMAIN rights' : Open(l) \/ Pass(l)
    \/ End
    \/ SecondPasses

Spec == Init /\ [][Next]_rotationVars
=============================================================================
