---------------------------- MODULE MCWorkspace -----------------------------
(* One user, two companies with branches, three instances of the hook.      *)
EXTENDS Workspace

CONSTANTS u1, c1, c2, i1, i2, i3

MCBranchesOf == [ c \in Companies |-> IF c = c1 THEN <<"north", "south">> ELSE <<>> ]

(* Bounds: a second has one string; each of a company deactivated, a token *)
(* that got too old and a selection other than the first costs a token.    *)
Cost(event) == IF event THEN 1 ELSE 0

First == {Nothing, [company |-> c1, branch |-> "north"]}

Bounded ==
    /\ Cardinality(SignedNow(u1)) <= 1
    /\ Len(tokens) + Cost(offered # Companies)
                   + Cost(\E t \in DOMAIN tokens : tokens[t].expired)
                   + Cost(storage \notin First) < MaxTokens

=============================================================================
