----------------------------- MODULE MCEndpoints -----------------------------
(***************************************************************************)
(* Endpoints that race for a unique index: those that create submissions   *)
(* and those that create accounts.  They share no state, so a behaviour is *)
(* about one kind and the other stays where it began.                      *)
(***************************************************************************)
EXTENDS Submissions, Accounts, TLC

VARIABLE about

endpointVars == <<vars, authVars, about>>

EndpointsInit ==
    /\ about \in {"submissions", "accounts"}
    /\ Init /\ AuthInit
    /\ about = "accounts" =>
         \A r, q \in Requests : local[r].content = local[q].content

OnlySubmissions == about = "submissions" /\ Next /\ UNCHANGED <<authVars, about>>
OnlyAccounts == about = "accounts" /\ AuthNext /\ UNCHANGED <<vars, about>>

EndpointsNext == OnlySubmissions \/ OnlyAccounts

EndpointsSpec == EndpointsInit /\ [][EndpointsNext]_endpointVars

RequestSymmetry == Permutations(Requests) \cup Permutations(Contents)
=============================================================================
