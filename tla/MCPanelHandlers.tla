-------------------------- MODULE MCPanelHandlers --------------------------
(***************************************************************************)
(* Instances of PanelHandlers: the demo data of api/db/seed.go (two        *)
(* customers with one environment and one cluster each, alice with a grant *)
(* on the first cluster and bob on the second) and the tokens of its users.*)
(***************************************************************************)
EXTENDS PanelHandlers, TLC

CONSTANTS alice, bob, Acme, Globex, Cpu, Memory, w1, w2

MCUsers == {alice, bob}
MCCustomers == {Acme, Globex}
MCEnvironments == {1, 2}
MCCustomerOf == <<Acme, Globex>>
MCSeedClusters == <<1, 2>>
MCSeedGrants == {<<alice, 1>>, <<bob, 2>>}

TokenOf(role, customers) == [role |-> role, customers |-> customers]

\* alice is a viewer, locally or through a group of Acme; bob is an admin, or
\* a viewer with the grant he was seeded with.
MCTokens ==
  alice :> {TokenOf("viewer", {}), TokenOf("viewer", {Acme})}
  @@ bob :> {TokenOf("viewer", {}), TokenOf("admin", {})}

\* alice is a viewer of Acme; bob an admin, or a developer of both customers.
MCThreeTokens ==
  alice :> {TokenOf("viewer", {Acme})}
  @@ bob :> {TokenOf("admin", {}), TokenOf("viewer", {Acme, Globex})}

\* alice is a viewer of Acme and bob an admin.
MCTwoTokens ==
  alice :> {TokenOf("viewer", {Acme})} @@ bob :> {TokenOf("admin", {})}

\* Only the first cluster and alice's grant on it.
MCOneCluster == <<1>>
MCOneGrant == {<<alice, 1>>}

WriteOperations == {"create", "update", "delete"}

-----------------------------------------------------------------------------
Workers2 == Permutations({w1, w2})
=============================================================================
