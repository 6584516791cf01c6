---------------------------- MODULE MCAdminPage -----------------------------
(* Two organizations with a cluster each, one of which has no secret.       *)
EXTENDS AdminPage, TLC

CONSTANTS Acme, Globex

MCFirstEnvironments == 1 :> Acme @@ 2 :> Globex @@ 3 :> None @@ 4 :> None
MCFirstClusters ==
    1 :> [environment |-> 1, text |-> 0, secret |-> TRUE]
    @@ 2 :> [environment |-> 2, text |-> 0, secret |-> FALSE] @@ 3 :> None @@ 4 :> None
=============================================================================
