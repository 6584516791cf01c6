---------------------------- MODULE TablesProofs ----------------------------
(***************************************************************************)
(* What every SQL statement of module Tables preserves: the tables stay    *)
(* well formed (TablesInv), and what a request has learned from them is    *)
(* not taken back (Kept).  One lemma per statement.                        *)
(***************************************************************************)
EXTENDS Tables, TLAPS

\* A grant names a cluster that exists.
GrantsNameClusters == \A u \in Users, c \in ClusterIds :
                        <<u, c>> \in grants => c \in DOMAIN clusters

\* The history of placements has every current one.
PlacedHasCurrent == \A c \in DOMAIN clusters : <<c, clusters[c]>> \in placed

TablesInv == TablesTypeOK /\ GrantsNameClusters /\ PlacedHasCurrent

\* Grants, placements and ids given out only grow; a panel keeps its
\* environment, and an id that was given out gets no other panel.
Kept ==
  /\ grants \subseteq grants'
  /\ placed \subseteq placed'
  /\ clusterSeq <= clusterSeq'
  /\ panelSeq <= panelSeq'
  /\ \A p \in 1..panelSeq : p \in DOMAIN panels' =>
       p \in DOMAIN panels /\ panels'[p].env = panels[p].env

\* A request that runs no writing statement keeps everything.
LEMMA UnchangedKeeps ==
  ASSUME TablesInv, UNCHANGED tables
  PROVE  TablesInv' /\ Kept
BY DEF TablesInv, TablesTypeOK, GrantsNameClusters, PlacedHasCurrent, Kept,
       tables, PanelRow, Positions, ClusterIds, PanelIds

\* INSERT INTO panels: the id is larger than every id given out.
LEMMA InsertPanelKeeps ==
  ASSUME TablesInv, TablesAssumption,
         NEW e \in Environments, NEW b \in Bodies, NEW n \in Positions,
         InsertPanel(e, b, n)
  PROVE  TablesInv' /\ Kept
<1> DEFINE row == [env |-> e, body |-> b, position |-> n]
           p == panelSeq + 1
<1>1. panelSeq \in 0..MaxPanelId /\ MaxPanelId \in Nat /\ panelSeq < MaxPanelId
  BY DEF TablesInv, TablesTypeOK, TablesAssumption, InsertPanel
<1>2. p \notin DOMAIN panels
  BY <1>1 DEF TablesInv, TablesTypeOK
<1>3. /\ DOMAIN panels' = DOMAIN panels \cup {p}
      /\ \A q \in DOMAIN panels : panels'[q] = panels[q]
      /\ panels'[p] = row
      /\ panels' \in [DOMAIN panels' -> PanelRow]
  <2>1. row \in PanelRow
    BY DEF PanelRow
  <2>2. panels' = [q \in DOMAIN panels \cup {p} |->
                     IF q = p THEN row ELSE panels[q]]
    BY DEF InsertPanel, WithRow
  <2> QED
    BY <1>2, <2>1, <2>2 DEF TablesInv, TablesTypeOK
<1>4. TablesTypeOK'
  BY <1>1, <1>3 DEF TablesInv, TablesTypeOK, InsertPanel
<1>5. GrantsNameClusters' /\ PlacedHasCurrent'
  BY DEF TablesInv, GrantsNameClusters, PlacedHasCurrent, InsertPanel
<1>6. Kept
  BY <1>1, <1>3 DEF Kept, InsertPanel, TablesInv, TablesTypeOK
<1> QED
  BY <1>4, <1>5, <1>6 DEF TablesInv

\* UPDATE panels of the admin: a panel keeps its environment.
LEMMA UpdatePanelRowKeeps ==
  ASSUME TablesInv, NEW p, NEW b \in Bodies, NEW n \in Positions,
         UpdatePanelRow(p, b, n)
  PROVE  TablesInv' /\ Kept
<1>1. /\ DOMAIN panels' = DOMAIN panels
      /\ \A q \in DOMAIN panels : panels'[q].env = panels[q].env
      /\ panels' \in [DOMAIN panels' -> PanelRow]
      /\ UNCHANGED <<clusters, grants, clusterSeq, panelSeq, placed>>
  BY DEF UpdatePanelRow, TablesInv, TablesTypeOK, PanelRow
<1>2. TablesTypeOK'
  BY <1>1 DEF TablesInv, TablesTypeOK
<1>3. GrantsNameClusters' /\ PlacedHasCurrent'
  BY <1>1 DEF TablesInv, GrantsNameClusters, PlacedHasCurrent
<1>4. Kept
  BY <1>1 DEF TablesInv, TablesTypeOK, Kept
<1> QED
  BY <1>2, <1>3, <1>4 DEF TablesInv

\* UPDATE panels of a viewer: a panel keeps its environment.
LEMMA UpdatePanelBodyKeeps ==
  ASSUME TablesInv, NEW p, NEW b \in Bodies, UpdatePanelBody(p, b)
  PROVE  TablesInv' /\ Kept
<1>1. /\ DOMAIN panels' = DOMAIN panels
      /\ \A q \in DOMAIN panels : panels'[q].env = panels[q].env
      /\ panels' \in [DOMAIN panels' -> PanelRow]
      /\ UNCHANGED <<clusters, grants, clusterSeq, panelSeq, placed>>
  BY DEF UpdatePanelBody, TablesInv, TablesTypeOK, PanelRow
<1>2. TablesTypeOK'
  BY <1>1 DEF TablesInv, TablesTypeOK
<1>3. GrantsNameClusters' /\ PlacedHasCurrent'
  BY <1>1 DEF TablesInv, GrantsNameClusters, PlacedHasCurrent
<1>4. Kept
  BY <1>1 DEF TablesInv, TablesTypeOK, Kept
<1> QED
  BY <1>2, <1>3, <1>4 DEF TablesInv

\* DELETE FROM panels: no other panel changes.
LEMMA RemovePanelKeeps ==
  ASSUME TablesInv, NEW p, RemovePanel(p)
  PROVE  TablesInv' /\ Kept
<1>1. /\ DOMAIN panels' = DOMAIN panels \ {p}
      /\ \A q \in DOMAIN panels' : panels'[q] = panels[q]
      /\ panels' \in [DOMAIN panels' -> PanelRow]
      /\ UNCHANGED <<clusters, grants, clusterSeq, panelSeq, placed>>
  BY DEF RemovePanel, Restrict, TablesInv, TablesTypeOK
<1>2. TablesTypeOK'
  BY <1>1 DEF TablesInv, TablesTypeOK
<1>3. GrantsNameClusters' /\ PlacedHasCurrent'
  BY <1>1 DEF TablesInv, GrantsNameClusters, PlacedHasCurrent
<1>4. Kept
  BY <1>1 DEF TablesInv, TablesTypeOK, Kept
<1> QED
  BY <1>2, <1>3, <1>4 DEF TablesInv

\* INSERT INTO clusters: the new placement is recorded.
LEMMA InsertClusterKeeps ==
  ASSUME TablesInv, TablesAssumption, NEW e \in Environments, InsertCluster(e)
  PROVE  TablesInv' /\ Kept
<1> DEFINE c == clusterSeq + 1
<1>1. clusterSeq \in 0..MaxClusterId /\ MaxClusterId \in Nat /\ clusterSeq < MaxClusterId
  BY DEF TablesInv, TablesTypeOK, TablesAssumption, InsertCluster
<1>2. c \notin DOMAIN clusters
  BY <1>1 DEF TablesInv, TablesTypeOK
<1>3. /\ DOMAIN clusters' = DOMAIN clusters \cup {c}
      /\ \A d \in DOMAIN clusters : clusters'[d] = clusters[d]
      /\ clusters'[c] = e
      /\ clusters' \in [DOMAIN clusters' -> Environments]
  <2>1. clusters' = [d \in DOMAIN clusters \cup {c} |->
                       IF d = c THEN e ELSE clusters[d]]
    BY DEF InsertCluster, WithRow
  <2> QED
    BY <1>2, <2>1 DEF TablesInv, TablesTypeOK
<1>4. TablesTypeOK'
  BY <1>1, <1>3 DEF TablesInv, TablesTypeOK, InsertCluster, ClusterIds
<1>5. GrantsNameClusters' /\ PlacedHasCurrent'
  BY <1>3 DEF TablesInv, GrantsNameClusters, PlacedHasCurrent, InsertCluster
<1>6. Kept
  BY <1>1 DEF Kept, InsertCluster, TablesInv, TablesTypeOK
<1> QED
  BY <1>4, <1>5, <1>6 DEF TablesInv

\* UPDATE clusters: the old placement stays in the history.
LEMMA MoveClusterKeeps ==
  ASSUME TablesInv, NEW c \in ClusterIds, NEW e \in Environments, MoveCluster(c, e)
  PROVE  TablesInv' /\ Kept
<1>1. /\ DOMAIN clusters' = DOMAIN clusters
      /\ \A d \in DOMAIN clusters : clusters'[d] = IF d = c THEN e ELSE clusters[d]
      /\ clusters' \in [DOMAIN clusters' -> Environments]
  BY DEF MoveCluster, TablesInv, TablesTypeOK
<1>2. TablesTypeOK'
  BY <1>1 DEF TablesInv, TablesTypeOK, MoveCluster
<1>3. GrantsNameClusters' /\ PlacedHasCurrent'
  BY <1>1 DEF TablesInv, GrantsNameClusters, PlacedHasCurrent, MoveCluster
<1>4. Kept
  BY DEF Kept, MoveCluster, TablesInv, TablesTypeOK
<1> QED
  BY <1>2, <1>3, <1>4 DEF TablesInv

\* DELETE FROM clusters: the foreign key keeps granted clusters.
LEMMA RemoveClusterKeeps ==
  ASSUME TablesInv, NEW c \in ClusterIds, RemoveCluster(c)
  PROVE  TablesInv' /\ Kept
<1>1. /\ DOMAIN clusters' = DOMAIN clusters \ {c}
      /\ \A d \in DOMAIN clusters' : clusters'[d] = clusters[d]
      /\ clusters' \in [DOMAIN clusters' -> Environments]
  BY DEF RemoveCluster, Restrict, TablesInv, TablesTypeOK
<1>2. TablesTypeOK'
  BY <1>1 DEF TablesInv, TablesTypeOK, RemoveCluster
<1>3. GrantsNameClusters' /\ PlacedHasCurrent'
  BY <1>1 DEF TablesInv, GrantsNameClusters, PlacedHasCurrent, RemoveCluster
<1>4. Kept
  BY DEF Kept, RemoveCluster, TablesInv, TablesTypeOK
<1> QED
  BY <1>2, <1>3, <1>4 DEF TablesInv

\* INSERT INTO user_cluster_access: only clusters that exist.
LEMMA GrantCustomerKeeps ==
  ASSUME TablesInv, TablesAssumption, NEW u \in Users, NEW n, GrantCustomer(u, n)
  PROVE  TablesInv' /\ Kept
<1>1. ClustersOfCustomer(n) \subseteq DOMAIN clusters
  BY DEF ClustersOfCustomer
<1>2. DOMAIN clusters \subseteq ClusterIds
  BY DEF TablesInv, TablesTypeOK, TablesAssumption, ClusterIds
<1>3. TablesTypeOK'
  BY <1>1, <1>2 DEF TablesInv, TablesTypeOK, GrantCustomer
<1>4. GrantsNameClusters' /\ PlacedHasCurrent'
  BY <1>1 DEF TablesInv, GrantsNameClusters, PlacedHasCurrent, GrantCustomer
<1>5. Kept
  BY DEF Kept, GrantCustomer, TablesInv, TablesTypeOK
<1> QED
  BY <1>3, <1>4, <1>5 DEF TablesInv
=============================================================================
