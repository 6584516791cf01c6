----------------------------- MODULE MCOverview -----------------------------
(* Two clusters in two environments with a panel of the same name in each.  *)
EXTENDS Overview, TLC

CONSTANTS c1, c2, dev, prod, Cpu, web, all

MCFirstClusters == c1 :> [environment |-> dev, grafana |-> TRUE]
                @@ c2 :> [environment |-> prod, grafana |-> TRUE]
MCFirstRows == 1 :> [environment |-> dev, name |-> Cpu, expr |-> 1, live |-> TRUE]
            @@ 2 :> [environment |-> prod, name |-> Cpu, expr |-> 2, live |-> TRUE]
            @@ 3 :> None
=============================================================================
