-------------------------- MODULE MCGrafanaClient --------------------------
(***************************************************************************)
(* Instances of GrafanaClient: two clients of one realm, one of which is   *)
(* also a client of another realm.                                         *)
(***************************************************************************)
EXTENDS GrafanaClient, Sequences

CONSTANTS w1, w2

MCConfigs == {<<"grafana", "acme">>, <<"grafana", "globex">>, <<"probe", "acme">>}
MCTwoConfigs == {<<"grafana", "acme">>, <<"probe", "acme">>}
MCKeyOf == [f \in Configs |-> f[1] \o "@" \o f[2]]
MCKeys == {f[1] \o "@" \o f[2] : f \in MCConfigs}
=============================================================================
