---------------------------- MODULE MCApiTraffic ----------------------------
(***************************************************************************)
(* A user who is an administrator and an accountant.  Every call of the    *)
(* web application is made, and a change of roles meets one of each kind:  *)
(* read and changed, for the administrator and for both, and public.       *)
(***************************************************************************)
EXTENDS ApiTraffic

CONSTANTS r1

MCSecurityRole == [Administrator |-> "ADMIN", Accountant |-> "FINANCE"]

(* What the seed creates, for the administrator; what the accountant is    *)
(* given of it.                                                            *)
MCGrants ==
    [ Accountant |-> { "accounting:journal", "accounting:voucher" },
      Administrator |->
        { "users:view", "users:create", "users:update", "org:view", "org:create",
          "accounting:coa", "accounting:journal", "accounting:voucher", "sales:view",
          "purchases:view", "inventory:view", "admin:roles", "fixed_assets:create",
          "fixed_assets:view", "depreciation:policy", "depreciation:run", "loans:create",
          "loans:view", "loans:pay" } ]

MCSample ==
    { call \in ClientCalls :
        call.name \in { "createUser", "getUsers", "postJournalEntry", "getTrialBalance",
                        "checkStatus", "getHealth" } }

=============================================================================
