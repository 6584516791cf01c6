------------------------------- MODULE Tables -------------------------------
(***************************************************************************)
(* The PostgreSQL tables the request handlers share (api/db/migrate.go)    *)
(* and the SQL statements the handlers run on them.  A statement outside a *)
(* transaction commits by itself, so each one is a single atomic step; the *)
(* handlers (module PanelHandlers) interleave between statements.          *)
(*                                                                         *)
(* Ids come from SERIAL columns: a sequence that only grows, so that an id *)
(* is never given out twice, and that reports an error at its last value.  *)
(***************************************************************************)
EXTENDS Integers, Functions

CONSTANTS
  Users,          \* users.id; no handler deletes a user
  Customers,      \* customers.name
  Environments,   \* environments.id
  CustomerOf,     \* environments.customer_id, joined with customers.name
  Bodies,         \* what a panel shows: its name, expression and unit
  MaxClusterId,   \* largest value of clusters.id  (2^31 - 1 in PostgreSQL)
  MaxPanelId,     \* largest value of panels.id    (2^31 - 1)
  MinPosition,    \* the range of panels.position  (-2^31 ..
  MaxPosition     \*                                2^31 - 1)

ASSUME TablesAssumption ==
  /\ Environments \subseteq Nat \ {0}
  /\ CustomerOf \in [Environments -> Customers]
  /\ MaxClusterId \in Nat
  /\ MaxPanelId \in Nat
  /\ MinPosition \in Int /\ MaxPosition \in Int
  /\ MinPosition <= 0 /\ 0 <= MaxPosition

VARIABLES
  clusters,    \* clusters: id -> environment_id
  panels,      \* panels: id -> row
  grants,      \* user_cluster_access: set of <<user_id, cluster_id>>
  clusterSeq,  \* last id given out by clusters_id_seq
  panelSeq,    \* last id given out by panels_id_seq
  placed       \* history: every <<cluster, environment>> pair clusters ever held

tables == <<clusters, panels, grants, clusterSeq, panelSeq, placed>>

ClusterIds == 1..MaxClusterId
PanelIds == 1..MaxPanelId
Positions == MinPosition..MaxPosition
PanelRow == [env: Environments, body: Bodies, position: Positions]

TablesTypeOK ==
  /\ DOMAIN clusters \subseteq 1..clusterSeq
  /\ clusters \in [DOMAIN clusters -> Environments]
  /\ DOMAIN panels \subseteq 1..panelSeq
  /\ panels \in [DOMAIN panels -> PanelRow]
  /\ grants \subseteq Users \X ClusterIds
  /\ clusterSeq \in 0..MaxClusterId
  /\ panelSeq \in 0..MaxPanelId
  /\ placed \subseteq ClusterIds \X Environments

-----------------------------------------------------------------------------
\* Table t with row r under id i.
WithRow(t, i, r) == [j \in DOMAIN t \cup {i} |-> IF j = i THEN r ELSE t[j]]

(* Statements on panels. *)

\* As if an id were MAX(id) + 1, and so given again after a deletion.
InsertPanelReusingId(e, b, n) ==
  /\ \E i \in PanelIds :
       /\ \A q \in DOMAIN panels : q < i
       /\ i = 1 \/ i - 1 \in DOMAIN panels
       /\ panels' = WithRow(panels, i, [env |-> e, body |-> b, position |-> n])
       /\ panelSeq' = IF i > panelSeq THEN i ELSE panelSeq
  /\ UNCHANGED <<clusters, grants, clusterSeq, placed>>

\* INSERT INTO panels ... RETURNING id
InsertPanel(e, b, n) ==
  /\ panelSeq < MaxPanelId
  /\ panelSeq' = panelSeq + 1
  /\ panels' = WithRow(panels, panelSeq + 1, [env |-> e, body |-> b, position |-> n])
  /\ UNCHANGED <<clusters, grants, clusterSeq, placed>>

\* As if a panel that is gone were stored again.
UpsertPanelBody(p, b) ==
  /\ panels' = IF p \in DOMAIN panels
               THEN [panels EXCEPT ![p].body = b]
               ELSE WithRow(panels, p, [env |-> 1, body |-> b, position |-> 0])
  /\ UNCHANGED <<clusters, grants, clusterSeq, panelSeq, placed>>

\* UPDATE panels SET name, expr, unit WHERE id = p: no row, no change
UpdatePanelBody(p, b) ==
  /\ panels' = [q \in DOMAIN panels |->
                  IF q = p THEN [panels[q] EXCEPT !.body = b] ELSE panels[q]]
  /\ UNCHANGED <<clusters, grants, clusterSeq, panelSeq, placed>>

\* UPDATE panels SET name, expr, unit, position WHERE id = p
UpdatePanelRow(p, b, n) ==
  /\ panels' = [q \in DOMAIN panels |->
                  IF q = p THEN [panels[q] EXCEPT !.body = b, !.position = n]
                  ELSE panels[q]]
  /\ UNCHANGED <<clusters, grants, clusterSeq, panelSeq, placed>>

\* As if a panel were deleted by its name.
RemovePanelsNamed(p) ==
  /\ panels' = Restrict(panels, {q \in DOMAIN panels :
                                  p \in DOMAIN panels => panels[q].body # panels[p].body})
  /\ UNCHANGED <<clusters, grants, clusterSeq, panelSeq, placed>>

\* DELETE FROM panels WHERE id = p
RemovePanel(p) ==
  /\ panels' = Restrict(panels, DOMAIN panels \ {p})
  /\ UNCHANGED <<clusters, grants, clusterSeq, panelSeq, placed>>

PanelsOf(e) == {q \in DOMAIN panels : panels[q].env = e}

\* SELECT COALESCE(MAX(position), -1) + 1 FROM panels WHERE environment_id = e
IsNextPosition(e, n) ==
  \/ PanelsOf(e) = {} /\ n = 0
  \/ /\ \E q \in PanelsOf(e) : panels[q].position + 1 = n
     /\ \A q \in PanelsOf(e) : panels[q].position < n

\* SELECT EXISTS(... JOIN clusters c ON c.environment_id = p.environment_id ...)
PanelBelongs(p, c) ==
  /\ p \in DOMAIN panels
  /\ c \in DOMAIN clusters
  /\ panels[p].env = clusters[c]

-----------------------------------------------------------------------------
(* Statements on clusters and grants. *)

\* INSERT INTO clusters ... RETURNING id
InsertCluster(e) ==
  /\ clusterSeq < MaxClusterId
  /\ clusterSeq' = clusterSeq + 1
  /\ clusters' = WithRow(clusters, clusterSeq + 1, e)
  /\ placed' = placed \cup {<<clusterSeq + 1, e>>}
  /\ UNCHANGED <<panels, grants, panelSeq>>

\* UPDATE clusters SET ..., environment_id = e WHERE id = c
MoveCluster(c, e) ==
  /\ c \in DOMAIN clusters
  /\ clusters' = [clusters EXCEPT ![c] = e]
  /\ placed' = placed \cup {<<c, e>>}
  /\ UNCHANGED <<panels, grants, clusterSeq, panelSeq>>

\* As if cluster_id had been given ON DELETE CASCADE with user_id.
RemoveClusterAndGrants(c) ==
  /\ clusters' = Restrict(clusters, DOMAIN clusters \ {c})
  /\ grants' = {g \in grants : g[2] # c}
  /\ UNCHANGED <<panels, clusterSeq, panelSeq, placed>>

\* DELETE FROM clusters WHERE id = c.  user_cluster_access.cluster_id has a
\* plain REFERENCES (only user_id was given ON DELETE CASCADE), so that the
\* statement fails while a grant names the cluster.
RemoveCluster(c) ==
  /\ \A u \in Users : <<u, c>> \notin grants
  /\ clusters' = Restrict(clusters, DOMAIN clusters \ {c})
  /\ UNCHANGED <<panels, grants, clusterSeq, panelSeq, placed>>

\* As if WHERE cu.name were missing.
ClustersOfAnyCustomer(n) == DOMAIN clusters

ClustersOfCustomer(n) ==
  {c \in DOMAIN clusters : CustomerOf[clusters[c]] = n}

\* INSERT INTO user_cluster_access SELECT u, c.id ... WHERE cu.name = n
\* ON CONFLICT DO NOTHING
GrantCustomer(u, n) ==
  /\ grants' = grants \cup ({u} \X ClustersOfCustomer(n))
  /\ UNCHANGED <<clusters, panels, clusterSeq, panelSeq, placed>>

\* SELECT EXISTS(SELECT 1 FROM user_cluster_access WHERE user_id AND cluster_id)
Granted(u, c) == <<u, c>> \in grants

\* The environments that some cluster granted to u is or was in.
Reach(u) == {e \in Environments : \E c \in ClusterIds :
               <<u, c>> \in grants /\ <<c, e>> \in placed}
=============================================================================
