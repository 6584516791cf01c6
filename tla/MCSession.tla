----------------------------- MODULE MCSession ------------------------------
(* An admin, a viewer, and somebody whom Keycloak knows and the program not, *)
(* with two tabs, in one of which requests overlap.                          *)
EXTENDS Session, TLC

CONSTANTS ann, vic, nob, t1, t2

MCRoleOf == ann :> "admin" @@ vic :> "viewer" @@ nob :> "none"
MCMaxRequests == t1 :> 2 @@ t2 :> 1
=============================================================================
