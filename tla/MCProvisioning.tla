-------------------------- MODULE MCProvisioning ---------------------------
(***************************************************************************)
(* Instances of Provisioning with one replica, as in docker-compose.yml,   *)
(* or two, as in deploy/api/deployment.yaml, and the first default panels. *)
(***************************************************************************)
EXTENDS Provisioning

CONSTANTS r1, r2

MCDefaults == <<"CPU Usage", "Memory Usage">>
MCOneDefault == <<"CPU Usage">>
=============================================================================
