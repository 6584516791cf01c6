------------------------ MODULE PanelHandlersProofs ------------------------
(***************************************************************************)
(* Proofs about PanelHandlers, for any users, tokens, customers, clusters, *)
(* number of requests in flight and ranges of the columns.                 *)
(*                                                                         *)
(* The invariants of a request in flight are not inductive by themselves:  *)
(* what a viewer's write touches is decided by a check that was made some  *)
(* statements ago.  Held(w) says what the request may rely on in between,  *)
(* and Kept (TablesProofs) that no statement of another one takes it back. *)
(***************************************************************************)
EXTENDS PanelHandlers, TablesProofs

\* What a viewer's request w has learned and still holds.
Held(w) ==
  Viewer(w) =>
    /\ ~At(w, "enter") => Granted(req[w].user, req[w].cluster)
    /\ req[w].env # 0 => req[w].env \in Reach(req[w].user)
    /\ req[w].op \in PanelEndpoints /\ At(w, "write") =>
         /\ req[w].panel \in 1..panelSeq
         /\ req[w].panel \in DOMAIN panels =>
              panels[req[w].panel].env \in Reach(req[w].user)

\* A create request has read its cluster's row before it computes a position.
RowRead(w) ==
  req[w].op = "create" /\ (At(w, "position") \/ At(w, "write")) =>
    req[w].env \in Environments

\* A request carries a token of its user, and assigns no other customers.
CarriesToken(w) ==
  Busy(w) => /\ req[w].token \in Tokens[req[w].user]
             /\ req[w].names \subseteq req[w].token.customers

\* A grant was made when its cluster was in an environment of a customer its
\* user belongs to.
GrantsByMembership ==
  \A u \in Users, c \in ClusterIds :
    <<u, c>> \in grants =>
      \E e \in Environments : <<c, e>> \in placed /\ CustomerOf[e] \in MemberOf(u)

IInv ==
  /\ TypeOK
  /\ TablesInv
  /\ GrantsByMembership
  /\ \A w \in Workers : Held(w) /\ CarriesToken(w) /\ (Busy(w) => RowRead(w))

-----------------------------------------------------------------------------
(* Requests. *)

\* A worker that is not idle has a well-formed request.
LEMMA BusyIsRequest ==
  ASSUME TypeOK, NEW w \in Workers, Busy(w)
  PROVE  req[w] \in Request
BY DEF TypeOK, Busy, NoRequest

\* What a user can reach is never taken back.
LEMMA ReachGrows ==
  ASSUME Kept, NEW u \in Users
  PROVE  Reach(u) \subseteq Reach(u)'
BY DEF Kept, Reach

\* A granted cluster exists, and its environment can be reached.
LEMMA GrantedReaches ==
  ASSUME TablesInv, NEW u \in Users, NEW c \in ClusterIds, Granted(u, c)
  PROVE  c \in DOMAIN clusters /\ clusters[c] \in Reach(u)
<1>1. c \in DOMAIN clusters
  BY DEF TablesInv, GrantsNameClusters, Granted
<1>2. clusters[c] \in Environments /\ <<c, clusters[c]>> \in placed
  BY <1>1 DEF TablesInv, TablesTypeOK, PlacedHasCurrent
<1> QED
  BY <1>1, <1>2 DEF Reach, Granted

\* What is the same in a request after one of its steps, and what is new.
Advance(w) ==
  /\ req'[w] \in Request
  /\ req'[w].op = req[w].op /\ req'[w].user = req[w].user
  /\ req'[w].token = req[w].token /\ req'[w].names \subseteq req[w].names
  /\ req'[w].born = req[w].born /\ (req'[w].names = req[w].names \/ Assign(w))
  /\ req'[w].cluster = req[w].cluster /\ req'[w].panel = req[w].panel
  /\ At(w, "enter")' \/ ~At(w, "enter") \/ HasAccess(w)
  /\ \/ req'[w].env = req[w].env
     \/ /\ req'[w].env = clusters[req[w].cluster]
        /\ req[w].cluster \in DOMAIN clusters
        /\ ~At(w, "enter")
  /\ req[w].op \in PanelEndpoints /\ At(w, "write")' =>
       ~At(w, "enter") /\ PanelBelongs(req[w].panel, req[w].cluster)
  /\ RowRead(w)'

\* A step of request w concerns no other request.
Only(w) == req' = [req EXCEPT ![w] = req'[w]]

\* A step of one request leaves the others as they are.
LEMMA OnlyOthers ==
  ASSUME TypeOK, NEW w \in Workers, Only(w), NEW v \in Workers, v # w
  PROVE  req'[v] = req[v]
BY DEF TypeOK, Only

\* An answer ends the request and concerns no other.
LEMMA AnswerOnly ==
  ASSUME TypeOK, NEW w \in Workers, Answer(w)
  PROVE  Only(w) /\ req'[w] = NoRequest
BY DEF TypeOK, Answer, Only

\* Moving on to the next stage, under what that stage relies on.
LEMMA GotoAdvances ==
  ASSUME TypeOK, NEW w \in Workers, Busy(w), NEW s \in Steps, Goto(w, s),
         At(w, "enter") => HasAccess(w),
         req[w].op \in PanelEndpoints /\ s = "write" =>
           ~At(w, "enter") /\ PanelBelongs(req[w].panel, req[w].cluster),
         req[w].op = "create" /\ s \in {"position", "write"} =>
           req[w].env \in Environments
  PROVE  Only(w) /\ Advance(w)
<1>1. req[w] \in Request
  BY BusyIsRequest
<1>2. Only(w) /\ req'[w] = [req[w] EXCEPT !.step = s]
  BY DEF TypeOK, Goto, Only
<1>3. [req[w] EXCEPT !.step = s] \in Request
  BY <1>1 DEF Request
<1> QED
  BY <1>1, <1>2, <1>3 DEF Advance, At, Request, RowRead

\* The access check.
LEMMA CheckAccessAdvances ==
  ASSUME TypeOK, NEW w \in Workers, Busy(w), NEW s \in Steps \ {"position", "write"},
         CheckAccess(w, s)
  PROVE  Only(w) /\ (req'[w] = NoRequest \/ Advance(w))
<1>1. CASE HasAccess(w) /\ Goto(w, s)
  BY <1>1, GotoAdvances
<1>2. CASE Answer(w)
  BY <1>2, AnswerOnly
<1> QED
  BY <1>1, <1>2 DEF CheckAccess

\* The check that a panel belongs to the cluster.
LEMMA CheckBelongsAdvances ==
  ASSUME TypeOK, NEW w \in Workers, Busy(w), req[w].op # "create", CheckBelongs(w)
  PROVE  Only(w) /\ (req'[w] = NoRequest \/ Advance(w))
<1>1. CASE PanelBelongs(req[w].panel, req[w].cluster) /\ Goto(w, "write")
  BY <1>1, GotoAdvances DEF CheckBelongs, At, Steps
<1>2. CASE Answer(w)
  BY <1>2, AnswerOnly
<1> QED
  BY <1>1, <1>2 DEF CheckBelongs

\* Reading the row of the cluster.
LEMMA ReadRowAdvances ==
  ASSUME TypeOK, TablesInv, NEW w \in Workers, Busy(w),
         NEW s \in Steps \ {"write"}, ReadRow(w, s)
  PROVE  Only(w) /\ (req'[w] = NoRequest \/ Advance(w))
<1>1. CASE /\ req[w].cluster \in DOMAIN clusters
           /\ req' = [req EXCEPT ![w].env = clusters[req[w].cluster],
                                 ![w].step = s]
  <2> DEFINE e == clusters[req[w].cluster]
             r == [req[w] EXCEPT !.env = e, !.step = s]
  <2>1. req[w] \in Request /\ e \in Environments
    BY <1>1, BusyIsRequest DEF TablesInv, TablesTypeOK
  <2>2. Only(w) /\ req'[w] = r
    BY <1>1 DEF TypeOK, Only
  <2>3. r \in Request
    BY <2>1 DEF Request
  <2>4. /\ r.op = req[w].op /\ r.user = req[w].user /\ r.token = req[w].token
        /\ r.names = req[w].names /\ r.born = req[w].born /\ r.cluster = req[w].cluster
        /\ r.panel = req[w].panel /\ r.env = e /\ r.step = s
    BY <2>1 DEF Request
  <2>5. RowRead(w)'
    BY <2>1, <2>2, <2>4 DEF RowRead
  <2> HIDE DEF r
  <2> QED
    BY <1>1, <2>2, <2>3, <2>4, <2>5 DEF Advance, At, ReadRow
<1>2. CASE Answer(w)
  BY <1>2, AnswerOnly
<1> QED
  BY <1>1, <1>2 DEF ReadRow

\* Computing the position of a new panel.
LEMMA ReadPositionAdvances ==
  ASSUME TypeOK, NEW w \in Workers, Busy(w), req[w].op = "create", RowRead(w),
         ReadPosition(w)
  PROVE  Only(w) /\ Advance(w)
<1>1. req[w] \in Request
  BY BusyIsRequest
<1>2. CASE Goto(w, "write")
  BY <1>2, GotoAdvances DEF ReadPosition, At, Steps, PanelEndpoints, RowRead
<1>3. ASSUME NEW n \in Positions,
             req' = [req EXCEPT ![w].position = n, ![w].step = "write"]
      PROVE  Only(w) /\ Advance(w)
  <2> DEFINE r == [req[w] EXCEPT !.position = n, !.step = "write"]
  <2>1. Only(w) /\ req'[w] = r
    BY <1>3 DEF TypeOK, Only
  <2>2. r \in Request
    BY <1>1 DEF Request, Steps
  <2> QED
    BY <1>1, <2>1, <2>2 DEF Advance, At, Request, ReadPosition, PanelEndpoints, RowRead
<1> QED
  BY <1>2, <1>3 DEF ReadPosition

\* One statement of the middleware.
LEMMA AssignAdvances ==
  ASSUME TypeOK, NEW w \in Workers, Busy(w), Assign(w)
  PROVE  Only(w) /\ Advance(w)
<1>1. req[w] \in Request /\ At(w, "enter")
  BY BusyIsRequest DEF Assign
<1>2. PICK n \in req[w].names : req' = [req EXCEPT ![w].names = @ \ {n}]
  BY DEF Assign
<1> DEFINE r == [req[w] EXCEPT !.names = req[w].names \ {n}]
<1>3. Only(w) /\ req'[w] = r
  BY <1>2 DEF TypeOK, Only
<1>4. r \in Request
  BY <1>1 DEF Request
<1> QED
  BY <1>1, <1>3, <1>4 DEF Advance, At, Request, RowRead

\* The endpoints that ask Grafana.
LEMMA AskGrafanaAdvances ==
  ASSUME TypeOK, TablesInv, NEW w \in Workers, Busy(w), AskGrafana(w)
  PROVE  Only(w) /\ (req'[w] = NoRequest \/ Advance(w))
<1>1. CASE CheckAccess(w, "row")
  BY <1>1, CheckAccessAdvances DEF Steps
<1>2. CASE ReadRow(w, "ask")
  BY <1>2, ReadRowAdvances DEF Steps
<1>3. CASE Refuse(w)
  BY <1>3, AnswerOnly DEF Refuse
<1> QED
  BY <1>1, <1>2, <1>3 DEF AskGrafana

(* A step of request w either ends it or advances it.                       *)
LEMMA ServeAdvances ==
  ASSUME TypeOK, TablesInv, NEW w \in Workers, Busy(w) => RowRead(w), Serve(w)
  PROVE  Only(w) /\ (req'[w] = NoRequest \/ Advance(w))
<1>0. Busy(w)
  BY DEF Serve
<1> USE <1>0
<1>1. CASE Assign(w)
  BY <1>1, AssignAdvances
<1>2. CASE Me(w) \/ Abort(w)
  BY <1>2, AnswerOnly DEF Me, Abort, Refuse
<1>3. CASE GetPanelsForCluster(w)
  <2>1. CASE CheckAccess(w, "read")
    BY <2>1, CheckAccessAdvances DEF Steps
  <2>2. CASE Refuse(w)
    BY <2>2, AnswerOnly DEF Refuse
  <2> QED
    BY <1>3, <2>1, <2>2 DEF GetPanelsForCluster
<1>4. CASE CreatePanelForCluster(w)
  <2>1. CASE CheckAccess(w, "row")
    BY <2>1, CheckAccessAdvances DEF Steps
  <2>2. CASE ReadRow(w, "position")
    BY <2>2, ReadRowAdvances DEF Steps
  <2>3. CASE ReadPosition(w)
    BY <1>4, <2>3, ReadPositionAdvances DEF CreatePanelForCluster
  <2>4. CASE Answer(w)
    BY <2>4, AnswerOnly
  <2> QED
    BY <1>4, <2>1, <2>2, <2>3, <2>4
       DEF CreatePanelForCluster, BadBody, Refuse, InsertAtPosition
<1>5. CASE UpdatePanelForCluster(w) \/ DeletePanelForCluster(w)
  <2>1. CASE CheckAccess(w, "belongs")
    BY <2>1, CheckAccessAdvances DEF Steps
  <2>2. CASE CheckBelongs(w)
    BY <1>5, <2>2, CheckBelongsAdvances DEF UpdatePanelForCluster, DeletePanelForCluster
  <2>3. CASE Answer(w)
    BY <2>3, AnswerOnly
  <2> QED
    BY <1>5, <2>1, <2>2, <2>3
       DEF UpdatePanelForCluster, DeletePanelForCluster, BadBody, Refuse
<1>6. CASE GetMetrics(w)
  <2>1. CASE CheckAccess(w, "row")
    BY <2>1, CheckAccessAdvances DEF Steps
  <2>2. CASE ReadRow(w, "read")
    BY <2>2, ReadRowAdvances DEF Steps
  <2>3. CASE At(w, "read") /\ Goto(w, "ask")
    BY <2>3, GotoAdvances DEF At, Steps
  <2>4. CASE Refuse(w)
    BY <2>4, AnswerOnly DEF Refuse
  <2> QED
    BY <1>6, <2>1, <2>2, <2>3, <2>4 DEF GetMetrics
<1>7. CASE GetNamespaces(w) \/ GetAlerts(w) \/ TestQueryForCluster(w)
  <2>1. CASE AskGrafana(w)
    BY <2>1, AskGrafanaAdvances
  <2>2. CASE BadBody(w, "row")
    BY <2>2, AnswerOnly DEF BadBody, Refuse
  <2> QED
    BY <1>7, <2>1, <2>2 DEF GetNamespaces, GetAlerts, TestQueryForCluster
<1> QED
  BY <1>1, <1>2, <1>3, <1>4, <1>5, <1>6, <1>7 DEF Serve

-----------------------------------------------------------------------------
(* Tables. *)

\* Every statement a request runs keeps the tables.
LEMMA ServeKeepsTables ==
  ASSUME TypeOK, TablesInv, NEW w \in Workers, Busy(w) => RowRead(w), Serve(w)
  PROVE  TablesInv' /\ Kept
<1>0. Busy(w) /\ req[w] \in Request
  BY BusyIsRequest DEF Serve
<1>1. CASE UNCHANGED tables
  BY <1>1, UnchangedKeeps
<1>2. ASSUME NEW n, GrantCustomer(req[w].user, n)
      PROVE  TablesInv' /\ Kept
  BY <1>0, <1>2, GrantCustomerKeeps, TablesAssumption DEF Request
<1>3. ASSUME NEW b \in Bodies, UpdatePanelBody(req[w].panel, b)
      PROVE  TablesInv' /\ Kept
  BY <1>3, UpdatePanelBodyKeeps
<1>4. CASE RemovePanel(req[w].panel)
  BY <1>4, RemovePanelKeeps
<1>5. ASSUME NEW b \in Bodies, req[w].env \in Environments,
             InsertPanel(req[w].env, b, req[w].position)
      PROVE  TablesInv' /\ Kept
  BY <1>0, <1>5, InsertPanelKeeps, TablesAssumption DEF Request
<1>6. CASE Assign(w)
  BY <1>1, <1>2, <1>6 DEF Assign
<1>7. CASE Me(w) \/ GetPanelsForCluster(w) \/ GetMetrics(w) \/ GetNamespaces(w)
           \/ GetAlerts(w) \/ TestQueryForCluster(w) \/ Abort(w)
  BY <1>1, <1>7 DEF Me, GetPanelsForCluster, GetMetrics, GetNamespaces, GetAlerts,
     TestQueryForCluster, Abort, AskGrafana, CheckAccess, ReadRow, BadBody, Refuse
<1>8. CASE UpdatePanelForCluster(w) \/ DeletePanelForCluster(w)
  BY <1>1, <1>3, <1>4, <1>8
     DEF UpdatePanelForCluster, DeletePanelForCluster, CheckAccess, CheckBelongs,
         BadBody, Refuse
<1>9. CASE CreatePanelForCluster(w)
  BY <1>0, <1>1, <1>5, <1>9
     DEF RowRead, CreatePanelForCluster, CheckAccess, ReadRow, ReadPosition, InsertAtPosition,
         BadBody, Refuse
<1> QED
  BY <1>6, <1>7, <1>8, <1>9 DEF Serve

\* Every statement of the admin keeps the tables and the grants.
LEMMA AdministerKeepsTables ==
  ASSUME TablesInv, Administer
  PROVE  TablesInv' /\ Kept /\ grants' = grants /\ req' = req
<1>1. ASSUME NEW e \in Environments, CreatePanel(e) \/ CreateCluster(e)
      PROVE  TablesInv' /\ Kept /\ grants' = grants /\ req' = req
  BY <1>1, InsertPanelKeeps, InsertClusterKeeps, TablesAssumption
     DEF CreatePanel, CreateCluster, InsertPanel, InsertCluster
<1>2. ASSUME NEW p \in PanelIds, UpdatePanel(p) \/ DeletePanel(p)
      PROVE  TablesInv' /\ Kept /\ grants' = grants /\ req' = req
  <2>1. CASE DeletePanel(p)
    BY <2>1, RemovePanelKeeps DEF DeletePanel, RemovePanel
  <2>2. CASE UpdatePanel(p)
    <3>1. PICK b \in Bodies, n \in Positions : UpdatePanelRow(p, b, n) /\ UNCHANGED req
      BY <2>2 DEF UpdatePanel
    <3>2. TablesInv' /\ Kept
      BY <3>1, UpdatePanelRowKeeps
    <3> QED
      BY <3>1, <3>2 DEF UpdatePanelRow
  <2> QED
    BY <1>2, <2>1, <2>2
<1>3. ASSUME NEW c \in ClusterIds, UpdateCluster(c) \/ DeleteCluster(c)
      PROVE  TablesInv' /\ Kept /\ grants' = grants /\ req' = req
  BY <1>3, MoveClusterKeeps, RemoveClusterKeeps
     DEF UpdateCluster, DeleteCluster, MoveCluster, RemoveCluster
<1> QED
  BY <1>1, <1>2, <1>3 DEF Administer

\* Only the middleware makes grants, for a customer of the token.
LEMMA ServeGrants ==
  ASSUME NEW w \in Workers, Serve(w)
  PROVE  \/ grants' = grants
         \/ \E n \in req[w].names : GrantCustomer(req[w].user, n)
<1>1. CASE Assign(w)
  BY <1>1 DEF Assign, tables
<1>2. CASE Me(w) \/ GetPanelsForCluster(w) \/ GetMetrics(w) \/ GetNamespaces(w)
           \/ GetAlerts(w) \/ TestQueryForCluster(w) \/ Abort(w)
  BY <1>2 DEF Me, GetPanelsForCluster, GetMetrics, GetNamespaces, GetAlerts,
     TestQueryForCluster, Abort, AskGrafana, CheckAccess, ReadRow, BadBody, Refuse, tables
<1>3. CASE UpdatePanelForCluster(w) \/ DeletePanelForCluster(w)
  BY <1>3
     DEF UpdatePanelForCluster, DeletePanelForCluster, CheckAccess, CheckBelongs,
         BadBody, Refuse, tables, UpdatePanelBody, RemovePanel
<1>4. CASE CreatePanelForCluster(w)
  BY <1>4
     DEF CreatePanelForCluster, CheckAccess, ReadRow, ReadPosition, InsertAtPosition,
         BadBody, Refuse, tables, InsertPanel
<1> QED
  BY <1>1, <1>2, <1>3, <1>4 DEF Serve

-----------------------------------------------------------------------------
(* The inductive invariant. *)

\* The seeded database satisfies the invariant.
LEMMA InitHolds == Init => IInv
<1> SUFFICES ASSUME Init PROVE IInv
  OBVIOUS
<1>1. /\ clusterSeq \in 0..MaxClusterId /\ DOMAIN SeedClusters = 1..clusterSeq
      /\ MaxClusterId \in Nat /\ MaxPanelId \in Nat
  BY TablesAssumption DEF Init
<1>2. TablesTypeOK
  <2>1. clusters \in [DOMAIN clusters -> Environments]
    BY PanelHandlersAssumption DEF Init
  <2>2. panels \in [DOMAIN panels -> PanelRow] /\ DOMAIN panels = {}
    BY DEF Init
  <2>3. grants \subseteq Users \X ClusterIds /\ placed \subseteq ClusterIds \X Environments
    BY <1>1, <2>1, PanelHandlersAssumption DEF Init, ClusterIds
  <2> QED
    BY <1>1, <2>1, <2>2, <2>3 DEF TablesTypeOK, Init
<1>3. TypeOK
  BY <1>2 DEF TypeOK, Init
<1>4. TablesInv
  BY <1>2, PanelHandlersAssumption
     DEF TablesInv, GrantsNameClusters, PlacedHasCurrent, Init
<1>5. GrantsByMembership
  <2> SUFFICES ASSUME NEW u \in Users, NEW c \in ClusterIds, <<u, c>> \in grants
               PROVE  \E e \in Environments :
                        <<c, e>> \in placed /\ CustomerOf[e] \in MemberOf(u)
    BY DEF GrantsByMembership
  <2>1. c \in DOMAIN SeedClusters /\ <<u, c>> \in SeedGrants
    BY PanelHandlersAssumption DEF Init
  <2>2. SeedClusters[c] \in Environments /\ <<c, SeedClusters[c]>> \in placed
    BY <2>1, PanelHandlersAssumption DEF Init
  <2>3. CustomerOf[SeedClusters[c]] \in MemberOf(u)
    BY <2>1, <2>2, TablesAssumption DEF MemberOf
  <2> QED
    BY <2>2, <2>3
<1>6. \A w \in Workers : ~Busy(w)
  BY DEF Init, Busy, NoRequest
<1> QED
  BY <1>3, <1>4, <1>5, <1>6 DEF IInv, Held, CarriesToken, Viewer

\* What a request relies on is not taken back by a step of another.
LEMMA OthersHold ==
  ASSUME IInv, TablesInv', Kept, NEW w \in Workers, req'[w] = req[w]
  PROVE  Held(w)' /\ CarriesToken(w)' /\ (Busy(w) => RowRead(w))'
<1>1. CarriesToken(w)' /\ (Busy(w) => RowRead(w))'
  BY DEF IInv, CarriesToken, Busy, RowRead, At
<1>2. Held(w)'
  <2> SUFFICES ASSUME Viewer(w)' PROVE Held(w)'
    BY DEF Held
  <2>1. Viewer(w) /\ Held(w) /\ req[w] \in Request
    BY BusyIsRequest DEF IInv, Viewer, Busy
  <2>2. req[w].user \in Users /\ Reach(req[w].user) \subseteq Reach(req[w].user)'
    BY <2>1, ReachGrows DEF Request
  <2>3. (~At(w, "enter") => Granted(req[w].user, req[w].cluster))'
    BY <2>1 DEF Held, At, Granted, Kept
  <2>4. (req[w].env # 0 => req[w].env \in Reach(req[w].user))'
    BY <2>1, <2>2 DEF Held
  <2>5. ASSUME req[w].op \in PanelEndpoints, At(w, "write")
        PROVE  /\ req[w].panel \in 1..panelSeq'
               /\ req[w].panel \in DOMAIN panels' =>
                    panels'[req[w].panel].env \in Reach(req[w].user)'
    <3>1. req[w].panel \in 1..panelSeq
      BY <2>1, <2>5 DEF Held
    <3>2. panelSeq \in Nat /\ panelSeq' \in Nat /\ panelSeq <= panelSeq'
      BY DEF IInv, Kept, TablesInv, TablesTypeOK
    <3> QED
      BY <2>1, <2>2, <2>5, <3>1, <3>2 DEF Held, Kept
  <2> QED
    BY <2>3, <2>4, <2>5 DEF Held, At
<1> QED
  BY <1>1, <1>2

\* A step of a request leaves it with what its next statement relies on.
LEMMA AdvanceHolds ==
  ASSUME IInv, TablesInv', Kept, NEW w \in Workers, Busy(w), Advance(w)
  PROVE  Held(w)' /\ CarriesToken(w)' /\ (Busy(w) => RowRead(w))'
<1>1. CarriesToken(w)' /\ (Busy(w) => RowRead(w))'
  BY DEF IInv, CarriesToken, Advance
<1>2. Held(w)'
  <2> SUFFICES ASSUME Viewer(w)' PROVE Held(w)'
    BY DEF Held
  <2> DEFINE u == req[w].user
             c == req[w].cluster
             p == req[w].panel
  <2>1. Viewer(w) /\ Held(w) /\ req[w] \in Request
    BY BusyIsRequest DEF IInv, Viewer, Advance
  <2>2. /\ u \in Users /\ c \in ClusterIds /\ Reach(u) \subseteq Reach(u)'
        /\ req'[w].user = u /\ req'[w].cluster = c /\ req'[w].panel = p
    BY <2>1, ReachGrows DEF Request, Advance
  <2>3. HasAccess(w) => Granted(u, c)
    BY <2>1 DEF HasAccess, Viewer
  <2>4. ~At(w, "enter") => Granted(u, c)
    BY <2>1 DEF Held
  <2>5. (~At(w, "enter") => Granted(req[w].user, req[w].cluster))'
    BY <2>2, <2>3, <2>4 DEF Advance, Granted, Kept
  <2>6. ~At(w, "enter") => c \in DOMAIN clusters /\ clusters[c] \in Reach(u)
    BY <2>2, <2>4, GrantedReaches DEF IInv
  <2>7. (req[w].env # 0 => req[w].env \in Reach(req[w].user))'
    BY <2>1, <2>2, <2>6 DEF Held, Advance
  <2>8. ASSUME req[w].op \in PanelEndpoints, At(w, "write")'
        PROVE  /\ p \in 1..panelSeq'
               /\ p \in DOMAIN panels' => panels'[p].env \in Reach(u)'
    <3>1. p \in DOMAIN panels /\ panels[p].env \in Reach(u)
      BY <2>6, <2>8 DEF Advance, PanelBelongs
    <3>2. p \in 1..panelSeq /\ panelSeq \in Nat
      BY <3>1 DEF IInv, TablesInv, TablesTypeOK
    <3>3. panelSeq' \in Nat /\ panelSeq <= panelSeq'
      BY DEF TablesInv, TablesTypeOK, Kept
    <3> QED
      BY <2>2, <3>1, <3>2, <3>3 DEF Kept
  <2> QED
    BY <2>2, <2>5, <2>7, <2>8 DEF Held, Advance
<1> QED
  BY <1>1, <1>2

\* A new request relies on nothing yet.
LEMMA BeginHolds ==
  ASSUME IInv, NEW w \in Workers, Begin(w)
  PROVE  IInv'
<1>1. PICK o \in Operations, u \in Users, c \in ClusterIds :
        \E t \in Tokens[u], p \in IF o \in PanelEndpoints THEN PanelIds ELSE {0} :
          req' = [req EXCEPT ![w] =
                   [op |-> o, user |-> u, token |-> t, names |-> t.customers,
                    born |-> clusterSeq, cluster |-> c, panel |-> p,
                    env |-> 0, position |-> 0, step |-> "enter"]]
  BY DEF Begin
<1>2. PICK t \in Tokens[u], p \in IF o \in PanelEndpoints THEN PanelIds ELSE {0} :
        req' = [req EXCEPT ![w] =
                 [op |-> o, user |-> u, token |-> t, names |-> t.customers,
                  born |-> clusterSeq, cluster |-> c, panel |-> p,
                  env |-> 0, position |-> 0, step |-> "enter"]]
  BY <1>1
<1> DEFINE r == [op |-> o, user |-> u, token |-> t, names |-> t.customers,
                 born |-> clusterSeq, cluster |-> c, panel |-> p,
                 env |-> 0, position |-> 0, step |-> "enter"]
<1>3. UNCHANGED tables /\ TablesInv' /\ Kept
  BY UnchangedKeeps DEF Begin, IInv
<1>4. t \in Token
  BY PanelHandlersAssumption
<1>5. r \in Request
  <2>1. t.customers \in SUBSET Customers
    BY <1>4 DEF Token
  <2>2. 0 \in Positions
    BY TablesAssumption DEF Positions
  <2>3. clusterSeq \in 0..MaxClusterId
    BY DEF IInv, TablesInv, TablesTypeOK
  <2> QED
    BY <1>4, <2>1, <2>2, <2>3 DEF Request, Steps
<1>6. Only(w) /\ req'[w] = r
  BY <1>2 DEF IInv, TypeOK, Only
<1>7. TypeOK'
  BY <1>2, <1>3, <1>5 DEF IInv, TypeOK, TablesInv
<1>8. Held(w)' /\ CarriesToken(w)' /\ (Busy(w) => RowRead(w))'
  BY <1>6 DEF Held, CarriesToken, RowRead, At
<1>9. GrantsByMembership'
  BY <1>3 DEF IInv, GrantsByMembership, tables
<1> QED
  <2>1. \A v \in Workers \ {w} :
          Held(v)' /\ CarriesToken(v)' /\ (Busy(v) => RowRead(v))'
    BY <1>3, <1>6, OnlyOthers, OthersHold DEF IInv
  <2> QED
    BY <1>3, <1>7, <1>8, <1>9, <2>1 DEF IInv

\* A step of a request keeps the invariant.
LEMMA ServeHolds ==
  ASSUME IInv, NEW w \in Workers, Serve(w)
  PROVE  IInv'
<1>1. Only(w) /\ (req'[w] = NoRequest \/ Advance(w))
  BY ServeAdvances DEF IInv
<1>2. TablesInv' /\ Kept
  BY ServeKeepsTables DEF IInv
<1>3. Busy(w) /\ req[w] \in Request
  BY BusyIsRequest DEF Serve, IInv
<1>4. req' \in [Workers -> Request \cup {NoRequest}]
  <2>1. req'[w] \in Request \cup {NoRequest}
    BY <1>1 DEF Advance
  <2> QED
    BY <1>1, <2>1 DEF Only, IInv, TypeOK
<1>5. TypeOK'
  BY <1>2, <1>4 DEF TypeOK, TablesInv
<1>6. Held(w)' /\ CarriesToken(w)' /\ (Busy(w) => RowRead(w))'
  <2>1. CASE req'[w] = NoRequest
    BY <2>1 DEF Held, CarriesToken, Viewer, Busy, NoRequest
  <2>2. CASE Advance(w)
    BY <1>2, <1>3, <2>2, AdvanceHolds
  <2> QED
    BY <1>1, <2>1, <2>2
<1>7. GrantsByMembership'
  <2>1. CASE grants' = grants
    BY <1>2, <2>1 DEF IInv, GrantsByMembership, Kept
  <2>2. ASSUME NEW n \in req[w].names, GrantCustomer(req[w].user, n)
        PROVE  GrantsByMembership'
    <3> SUFFICES ASSUME NEW u \in Users, NEW c \in ClusterIds, <<u, c>> \in grants'
                 PROVE  \E e \in Environments :
                          <<c, e>> \in placed' /\ CustomerOf[e] \in MemberOf(u)
      BY DEF GrantsByMembership
    <3>1. CASE <<u, c>> \in grants
      BY <1>2, <3>1 DEF IInv, GrantsByMembership, Kept
    <3>2. CASE u = req[w].user /\ c \in ClustersOfCustomer(n)
      <4>1. n \in MemberOf(u)
        BY <1>3, <2>2, <3>2 DEF IInv, CarriesToken, MemberOf, Request
      <4>2. c \in DOMAIN clusters /\ CustomerOf[clusters[c]] = n
        BY <3>2 DEF ClustersOfCustomer
      <4>3. clusters[c] \in Environments /\ <<c, clusters[c]>> \in placed'
        BY <1>2, <4>2 DEF IInv, TablesInv, TablesTypeOK, PlacedHasCurrent, Kept
      <4> QED
        BY <4>1, <4>2, <4>3
    <3> QED
      BY <2>2, <3>1, <3>2 DEF GrantCustomer
  <2> QED
    BY <2>1, <2>2, ServeGrants
<1> QED
  <2>1. \A v \in Workers \ {w} :
          Held(v)' /\ CarriesToken(v)' /\ (Busy(v) => RowRead(v))'
    BY <1>1, <1>2, OnlyOthers, OthersHold DEF IInv
  <2> QED
    BY <1>2, <1>5, <1>6, <1>7, <2>1 DEF IInv

\* A step of the admin keeps it, for every request in flight.
LEMMA AdministerHolds ==
  ASSUME IInv, Administer
  PROVE  IInv'
<1>1. TablesInv' /\ Kept /\ grants' = grants /\ req' = req
  BY AdministerKeepsTables DEF IInv
<1>2. TypeOK'
  BY <1>1 DEF IInv, TypeOK, TablesInv
<1>3. GrantsByMembership'
  BY <1>1 DEF IInv, GrantsByMembership, Kept
<1>4. \A w \in Workers : Held(w)' /\ CarriesToken(w)' /\ (Busy(w) => RowRead(w))'
  BY <1>1, OthersHold
<1> QED
  BY <1>1, <1>2, <1>3, <1>4 DEF IInv

\* Nothing happens.
LEMMA StutterHolds ==
  ASSUME IInv, UNCHANGED vars
  PROVE  IInv'
<1>1. UNCHANGED tables /\ req' = req
  BY DEF vars
<1>2. TablesInv' /\ Kept
  BY <1>1, UnchangedKeeps DEF IInv
<1>3. TypeOK' /\ GrantsByMembership'
  BY <1>1, <1>2 DEF IInv, TypeOK, TablesInv, GrantsByMembership, tables
<1>4. \A w \in Workers : Held(w)' /\ CarriesToken(w)' /\ (Busy(w) => RowRead(w))'
  BY <1>1, <1>2, OthersHold
<1> QED
  BY <1>2, <1>3, <1>4 DEF IInv

(* The inductive invariant holds in every reachable state of Spec, whatever *)
(* the number of requests in flight and the order of their statements.      *)
THEOREM Invariance == Spec => []IInv
<1>1. IInv /\ [Next]_vars => IInv'
  BY BeginHolds, ServeHolds, AdministerHolds, StutterHolds DEF Next
<1> QED
  BY <1>1, InitHolds, PTL DEF Spec

-----------------------------------------------------------------------------
(* What the invariant implies. *)

(* The state stays well formed: rows, requests, and sequences within the    *)
(* columns' ranges.                                                         *)
THEOREM TypeCorrect == Spec => []TypeOK
<1>1. IInv => TypeOK
  BY DEF IInv
<1> QED
  BY <1>1, Invariance, PTL

\* What a request holds includes the grant and the cluster.
LEMMA HeldImpliesAccess == IInv => AccessHeld
<1> SUFFICES ASSUME IInv, NEW w \in Workers, Viewer(w), ~At(w, "enter")
             PROVE  Granted(req[w].user, req[w].cluster) /\ req[w].cluster \in DOMAIN clusters
  BY DEF AccessHeld
<1>1. req[w] \in Request
  BY BusyIsRequest DEF IInv, Viewer
<1>2. Granted(req[w].user, req[w].cluster)
  BY DEF IInv, Held
<1> QED
  BY <1>1, <1>2, GrantedReaches DEF IInv, Request

(* A viewer that passed the access check keeps the grant and the cluster    *)
(* until it is answered (panels.go:160-176 against admin_clusters.go:126).  *)
THEOREM AccessIsHeld == Spec => []AccessHeld
BY HeldImpliesAccess, Invariance, PTL

\* What a request holds bounds what it touches.
LEMMA HeldImpliesConfined == IInv => Confined
<1> SUFFICES ASSUME IInv, NEW w \in Workers, Viewer(w)
             PROVE  Touches(w) \subseteq Reach(req[w].user)
  BY DEF Confined
<1>1. req[w] \in Request
  BY BusyIsRequest DEF IInv, Viewer
<1>2. Held(w)
  BY DEF IInv
<1>3. Granted(req[w].user, req[w].cluster) => clusters[req[w].cluster] \in Reach(req[w].user)
  BY <1>1, GrantedReaches DEF IInv, Request
<1>4. 0 \notin Environments
  BY TablesAssumption
<1> QED
  BY <1>2, <1>3, <1>4 DEF Touches, Held, At

(* Whatever happens between a viewer's check and its write, the write is to *)
(* an environment that one of the viewer's clusters is or was in            *)
(* (panels.go:178-208, 298-314).                                            *)
THEOREM ViewerIsConfined == Spec => []Confined
BY HeldImpliesConfined, Invariance, PTL

\* What a user can reach belongs to a customer of the user.
LEMMA ReachIsMembership ==
  ASSUME IInv, ClustersKeepCustomer, NEW u \in Users, NEW e \in Reach(u)
  PROVE  CustomerOf[e] \in MemberOf(u)
<1>1. e \in Environments
  BY DEF Reach
<1>2. PICK c \in ClusterIds : <<u, c>> \in grants /\ <<c, e>> \in placed
  BY DEF Reach
<1>3. PICK d \in Environments : <<c, d>> \in placed /\ CustomerOf[d] \in MemberOf(u)
  BY <1>2 DEF IInv, GrantsByMembership
<1>4. CustomerOf[e] = CustomerOf[d]
  BY <1>2, <1>3 DEF ClustersKeepCustomer
<1> QED
  BY <1>3, <1>4

\* Grants by membership bound the customers that are touched.
LEMMA MembershipImpliesIsolation == IInv => TenantIsolation
<1> SUFFICES ASSUME IInv, ClustersKeepCustomer,
                    NEW w \in Workers, Viewer(w), NEW e \in Touches(w)
             PROVE  CustomerOf[e] \in MemberOf(req[w].user)
  BY DEF TenantIsolation
<1>1. req[w].user \in Users
  BY BusyIsRequest DEF IInv, Viewer, Request
<1>2. e \in Reach(req[w].user)
  BY HeldImpliesConfined DEF Confined
<1> QED
  BY <1>1, <1>2, ReachIsMembership

(* Tenants are isolated as long as no cluster changes customer: nothing a   *)
(* viewer's request touches belongs to a customer that neither the viewer's *)
(* groups nor the seeded grants name.                                       *)
THEOREM TenantsAreIsolated == Spec => []TenantIsolation
BY MembershipImpliesIsolation, Invariance, PTL

(* An id that was given out and deleted never names a panel again           *)
(* (panels.go:201, 261, 310; migrate.go:47).                                *)
THEOREM DeletionIsFinal == Spec => DeletedPanelStaysDeleted
<1>1. IInv /\ [Next]_vars =>
        [\A p \in 1..panelSeq : p \notin DOMAIN panels => p \notin DOMAIN panels']_vars
  <2> SUFFICES ASSUME IInv, Next, NEW p \in 1..panelSeq, p \notin DOMAIN panels
               PROVE  p \notin DOMAIN panels'
    OBVIOUS
  <2>1. ASSUME NEW w \in Workers, Begin(w) PROVE Kept
    BY <2>1, UnchangedKeeps DEF Begin, IInv
  <2>2. ASSUME NEW w \in Workers, Serve(w) PROVE Kept
    BY <2>2, ServeKeepsTables DEF IInv
  <2>3. CASE Administer
    BY <2>3, AdministerKeepsTables DEF IInv, Kept
  <2> QED
    BY <2>1, <2>2, <2>3 DEF Next, Kept
<1> QED
  BY <1>1, Invariance, PTL DEF Spec, DeletedPanelStaysDeleted

-----------------------------------------------------------------------------
(* The loop of grants, when no statement fails.                             *)

\* A cluster that is there had its row before this step, or gets a new id.
NoneReturns == \A c \in DOMAIN clusters' : c \in DOMAIN clusters \/ c > clusterSeq

\* A request knows no ids that are yet to be given out.
Born(w) == Busy(w) => req[w].born <= clusterSeq

\* The loop is done with customer n: what was n's all along is granted.
Assigned(w) ==
  Busy(w) =>
    \A n \in req[w].token.customers \ req[w].names, c \in DOMAIN clusters :
      /\ c <= req[w].born
      /\ \A x \in placed : x[1] = c => CustomerOf[x[2]] = n
      => Granted(req[w].user, c)

LoopInv == \A w \in Workers : Born(w) /\ Assigned(w)

LEMMA ServeReturnsNone ==
  ASSUME NEW w \in Workers, Serve(w)
  PROVE  NoneReturns
<1>1. UNCHANGED clusters
  <2>1. CASE Assign(w)
    BY <2>1 DEF Assign, GrantCustomer, tables
  <2>2. CASE Me(w) \/ GetPanelsForCluster(w) \/ GetMetrics(w) \/ GetNamespaces(w)
             \/ GetAlerts(w) \/ TestQueryForCluster(w) \/ Abort(w)
    BY <2>2 DEF Me, GetPanelsForCluster, GetMetrics, GetNamespaces, GetAlerts,
       TestQueryForCluster, Abort, AskGrafana, CheckAccess, ReadRow, BadBody, Refuse, tables
  <2>3. CASE UpdatePanelForCluster(w) \/ DeletePanelForCluster(w)
    BY <2>3
       DEF UpdatePanelForCluster, DeletePanelForCluster, CheckAccess, CheckBelongs,
           BadBody, Refuse, tables, UpdatePanelBody, RemovePanel
  <2>4. CASE CreatePanelForCluster(w)
    BY <2>4
       DEF CreatePanelForCluster, CheckAccess, ReadRow, ReadPosition, InsertAtPosition,
           BadBody, Refuse, tables, InsertPanel
  <2> QED
    BY <2>1, <2>2, <2>3, <2>4 DEF Serve
<1> QED
  BY <1>1 DEF NoneReturns

LEMMA AdministerReturnsNone ==
  ASSUME TablesInv, Administer
  PROVE  NoneReturns
<1>1. ASSUME NEW e \in Environments, CreatePanel(e) \/ CreateCluster(e)
      PROVE  NoneReturns
  <2>1. clusterSeq \in Nat
    BY DEF TablesInv, TablesTypeOK
  <2>2. CASE CreatePanel(e)
    BY <2>2 DEF CreatePanel, InsertPanel, NoneReturns
  <2>3. CASE CreateCluster(e)
    <3>1. DOMAIN clusters' = DOMAIN clusters \cup {clusterSeq + 1}
      BY <2>3 DEF CreateCluster, InsertCluster, WithRow
    <3> QED
      BY <2>1, <3>1 DEF NoneReturns
  <2> QED
    BY <1>1, <2>2, <2>3
<1>2. ASSUME NEW p \in PanelIds, UpdatePanel(p) \/ DeletePanel(p)
      PROVE  NoneReturns
  BY <1>2 DEF UpdatePanel, DeletePanel, UpdatePanelRow, RemovePanel, NoneReturns
<1>3. ASSUME NEW c \in ClusterIds, UpdateCluster(c) \/ DeleteCluster(c)
      PROVE  NoneReturns
  <2>1. CASE UpdateCluster(c)
    BY <2>1 DEF UpdateCluster, MoveCluster, NoneReturns
  <2>2. CASE DeleteCluster(c)
    BY <2>2 DEF DeleteCluster, RemoveCluster, Restrict, NoneReturns
  <2> QED
    BY <1>3, <2>1, <2>2
<1> QED
  BY <1>1, <1>2, <1>3 DEF Administer

\* Where a cluster has been grows, and so does what is granted.
LEMMA AssignedStays ==
  ASSUME IInv, Kept, NoneReturns, TablesInv', NEW v \in Workers, Busy(v), Born(v), Assigned(v),
         req'[v].user = req[v].user,
         NEW n \in req[v].token.customers \ req[v].names, NEW c \in DOMAIN clusters',
         c <= req[v].born, \A x \in placed' : x[1] = c => CustomerOf[x[2]] = n
  PROVE  Granted(req[v].user, c)'
<1>1. req[v].born \in Nat /\ clusterSeq \in Nat /\ c \in Nat
  BY BusyIsRequest DEF IInv, TablesInv, TablesTypeOK, Request
<1>2. c \in DOMAIN clusters
  BY <1>1 DEF NoneReturns, Born
<1>3. Granted(req[v].user, c)
  BY <1>2 DEF Assigned, Kept
<1> QED
  BY <1>3 DEF Granted, Kept

LEMMA BornStays ==
  ASSUME IInv, Kept, TablesInv', NEW v \in Workers, Busy(v), Born(v), req'[v].born = req[v].born
  PROVE  Born(v)'
<1>1. req[v].born \in Nat /\ clusterSeq \in Nat /\ clusterSeq' \in Nat
  BY BusyIsRequest DEF IInv, TablesInv, TablesTypeOK, Request
<1> QED
  BY <1>1 DEF Born, Kept

\* Requests that do not move.
LEMMA LoopStays ==
  ASSUME IInv, Kept, NoneReturns, TablesInv', NEW v \in Workers, Born(v), Assigned(v),
         req'[v] = req[v]
  PROVE  Born(v)' /\ Assigned(v)'
<1>1. CASE ~Busy(v)
  BY <1>1 DEF Born, Assigned, Busy
<1>2. CASE Busy(v)
  <2>1. Born(v)'
    BY <1>2, BornStays
  <2>2. ASSUME NEW n \in req[v].token.customers \ req[v].names, NEW c \in DOMAIN clusters',
               c <= req[v].born, \A x \in placed' : x[1] = c => CustomerOf[x[2]] = n
        PROVE  Granted(req[v].user, c)'
    BY <1>2, <2>2, AssignedStays
  <2> QED
    BY <2>1, <2>2 DEF Assigned, Granted
<1> QED
  BY <1>1, <1>2

LEMMA ServeLoop ==
  ASSUME ~Faults, IInv, NEW w \in Workers, Serve(w), Born(w), Assigned(w)
  PROVE  Born(w)' /\ Assigned(w)'
<1>1. Only(w) /\ (req'[w] = NoRequest \/ Advance(w))
  BY ServeAdvances DEF IInv
<1>2. TablesInv' /\ Kept /\ NoneReturns
  BY ServeKeepsTables, ServeReturnsNone DEF IInv
<1>3. Busy(w)
  BY DEF Serve
<1>4. CASE req'[w] = NoRequest
  BY <1>4 DEF Born, Assigned, Busy, NoRequest
<1>5. CASE Advance(w)
  <2>1. /\ req'[w].user = req[w].user /\ req'[w].token = req[w].token
        /\ req'[w].born = req[w].born
        /\ req'[w].names = req[w].names \/ Assign(w)
    BY <1>5 DEF Advance
  <2>2. Born(w)'
    BY <1>2, <1>3, <2>1, BornStays
  <2>3. ASSUME NEW n \in req[w].token.customers \ req'[w].names, NEW c \in DOMAIN clusters',
               c <= req[w].born, \A x \in placed' : x[1] = c => CustomerOf[x[2]] = n
        PROVE  Granted(req[w].user, c)'
    <3>1. CASE n \notin req[w].names
      BY <1>2, <1>3, <2>1, <2>3, <3>1, AssignedStays
    <3>2. CASE n \in req[w].names
      <4>1. PICK m \in req[w].names :
              /\ req' = [req EXCEPT ![w].names = @ \ {m}]
              /\ GrantCustomer(req[w].user, m)
        BY <2>1, <2>3, <3>2 DEF Assign
      <4>2. req'[w].names = req[w].names \ {m}
        <5>1. req[w] \in Request
          BY <1>3, BusyIsRequest DEF IInv
        <5> QED
          BY <4>1, <5>1 DEF IInv, TypeOK, Request
      <4>3. m = n
        BY <2>3, <3>2, <4>2
      <4>4. c \in DOMAIN clusters /\ <<c, clusters[c]>> \in placed'
        BY <2>3, <4>1 DEF GrantCustomer, IInv, TablesInv, PlacedHasCurrent
      <4>5. c \in ClustersOfCustomer(n)
        BY <2>3, <4>4 DEF ClustersOfCustomer
      <4> QED
        BY <4>1, <4>3, <4>5 DEF GrantCustomer, Granted
    <3> QED
      BY <3>1, <3>2
  <2> QED
    BY <2>1, <2>2, <2>3 DEF Assigned, Granted
<1> QED
  BY <1>1, <1>4, <1>5

LEMMA LoopStep ==
  ASSUME ~Faults, IInv, LoopInv, [Next]_vars
  PROVE  LoopInv'
<1>1. ASSUME NEW w \in Workers, Begin(w) PROVE LoopInv'
  <2>1. PICK o \in Operations, u \in Users, c \in ClusterIds :
          \E t \in Tokens[u], p \in IF o \in PanelEndpoints THEN PanelIds ELSE {0} :
            req' = [req EXCEPT ![w] =
                     [op |-> o, user |-> u, token |-> t, names |-> t.customers,
                      born |-> clusterSeq, cluster |-> c, panel |-> p,
                      env |-> 0, position |-> 0, step |-> "enter"]]
    BY <1>1 DEF Begin
  <2>2. PICK t \in Tokens[u], p \in IF o \in PanelEndpoints THEN PanelIds ELSE {0} :
          req' = [req EXCEPT ![w] =
                   [op |-> o, user |-> u, token |-> t, names |-> t.customers,
                    born |-> clusterSeq, cluster |-> c, panel |-> p,
                    env |-> 0, position |-> 0, step |-> "enter"]]
    BY <2>1
  <2>3. UNCHANGED tables /\ TablesInv' /\ Kept /\ NoneReturns
    BY <1>1, UnchangedKeeps DEF Begin, IInv, NoneReturns, tables
  <2>4. req'[w].names = req'[w].token.customers /\ req'[w].born = clusterSeq
    BY <2>2 DEF IInv, TypeOK
  <2>5. Born(w)' /\ Assigned(w)'
    <3>1. clusterSeq \in Nat /\ clusterSeq' = clusterSeq
      BY <2>3 DEF IInv, TablesInv, TablesTypeOK, tables
    <3> QED
      BY <2>4, <3>1 DEF Born, Assigned
  <2>6. \A v \in Workers \ {w} : req'[v] = req[v]
    BY <2>2 DEF IInv, TypeOK
  <2>7. \A v \in Workers \ {w} : Born(v)' /\ Assigned(v)'
    BY <2>3, <2>6, LoopStays DEF LoopInv
  <2> QED
    BY <2>5, <2>7 DEF LoopInv
<1>2. ASSUME NEW w \in Workers, Serve(w) PROVE LoopInv'
  <2>1. Only(w) /\ TablesInv' /\ Kept /\ NoneReturns
    BY <1>2, ServeAdvances, ServeKeepsTables, ServeReturnsNone DEF IInv
  <2>2. Born(w)' /\ Assigned(w)'
    BY <1>2, ServeLoop DEF LoopInv
  <2>3. \A v \in Workers \ {w} : req'[v] = req[v]
    BY <2>1, OnlyOthers DEF IInv
  <2>4. \A v \in Workers \ {w} : Born(v)' /\ Assigned(v)'
    BY <2>1, <2>3, LoopStays DEF LoopInv
  <2> QED
    BY <2>2, <2>4 DEF LoopInv
<1>3. CASE Administer
  <2>1. TablesInv' /\ Kept /\ NoneReturns /\ req' = req
    BY <1>3, AdministerKeepsTables, AdministerReturnsNone DEF IInv
  <2> QED
    BY <2>1, LoopStays DEF LoopInv
<1>4. CASE UNCHANGED vars
  <2>1. TablesInv' /\ Kept /\ NoneReturns /\ req' = req
    BY <1>4, UnchangedKeeps DEF IInv, vars, tables, NoneReturns
  <2> QED
    BY <2>1, LoopStays DEF LoopInv
<1> QED
  BY <1>1, <1>2, <1>3, <1>4 DEF Next

\* When no statement fails, nobody is refused a cluster that was all along a
\* customer's that the token names: the loop of auth.go:159-169 is through with
\* every customer before a handler looks at the grants.
THEOREM NobodyIsMissed == Spec => []NoSpuriousDenial
<1>1. CASE Faults
  <2>1. NoSpuriousDenial
    BY <1>1 DEF NoSpuriousDenial
  <2> QED
    BY <2>1, PTL
<1>2. CASE ~Faults
  <2>1. Init => LoopInv
    BY DEF Init, LoopInv, Born, Assigned, Busy, NoRequest
  <2>2. IInv /\ LoopInv /\ [Next]_vars => LoopInv'
    BY <1>2, LoopStep
  <2>3. LoopInv => NoSpuriousDenial
    BY DEF LoopInv, Assigned, NoSpuriousDenial, Viewer, Admitted, HasAccess
  <2> QED
    BY <2>1, <2>2, <2>3, Invariance, PTL DEF Spec
<1> QED
  BY <1>1, <1>2
-----------------------------------------------------------------------------
(* The implementation of TenantBoard. *)

\* The board's statements are the tables'.
LEMMA SameStatements ==
  /\ \A e, b, n : InsertPanel(e, b, n) => Board!InsertPanel(e, b, n)
  /\ \A q, b : UpdatePanelBody(q, b) => Board!UpdatePanelBody(q, b)
  /\ \A q, b, n : UpdatePanelRow(q, b, n) => Board!UpdatePanelRow(q, b, n)
  /\ \A q : RemovePanel(q) => Board!RemovePanel(q)
  /\ \A e : InsertCluster(e) => Board!InsertCluster(e)
  /\ \A c, e : MoveCluster(c, e) => Board!MoveCluster(c, e)
  /\ \A c : RemoveCluster(c) => Board!RemoveCluster(c)
  /\ \A u, n : GrantCustomer(u, n) => Board!GrantCustomer(u, n)
  /\ \A u : Reach(u) = Board!Reach(u)
<1>1. /\ \A e, b, n : InsertPanel(e, b, n) => Board!InsertPanel(e, b, n)
      /\ \A e : InsertCluster(e) => Board!InsertCluster(e)
  BY DEF InsertPanel, Board!InsertPanel, InsertCluster, Board!InsertCluster,
         WithRow, Board!WithRow
<1>2. /\ \A q, b : UpdatePanelBody(q, b) => Board!UpdatePanelBody(q, b)
      /\ \A q, b, n : UpdatePanelRow(q, b, n) => Board!UpdatePanelRow(q, b, n)
      /\ \A c, e : MoveCluster(c, e) => Board!MoveCluster(c, e)
  BY DEF UpdatePanelBody, Board!UpdatePanelBody, UpdatePanelRow, Board!UpdatePanelRow,
         MoveCluster, Board!MoveCluster
<1>3. /\ \A q : RemovePanel(q) => Board!RemovePanel(q)
      /\ \A c : RemoveCluster(c) => Board!RemoveCluster(c)
  BY DEF RemovePanel, Board!RemovePanel, RemoveCluster, Board!RemoveCluster,
         Restrict, Board!Restrict
<1>4. \A u, n : GrantCustomer(u, n) => Board!GrantCustomer(u, n)
  BY DEF GrantCustomer, Board!GrantCustomer, ClustersOfCustomer, Board!ClustersOfCustomer
<1>5. \A u : Reach(u) = Board!Reach(u)
  BY DEF Reach, Board!Reach, ClusterIds, Board!ClusterIds
<1> QED
  BY <1>1, <1>2, <1>3, <1>4, <1>5

\* A request that is being served is open.
LEMMA BusyIsOpen ==
  ASSUME NEW w \in Workers, Busy(w)
  PROVE  /\ w \in DOMAIN Opened
         /\ Opened[w] = [user |-> req[w].user, token |-> req[w].token]
         /\ Opened[w].user = req[w].user /\ Opened[w].token = req[w].token
BY DEF Opened

\* A request that advances stays what it is to the board.
LEMMA AdvanceStaysOpen ==
  ASSUME TypeOK, NEW w \in Workers, Busy(w), Only(w), Advance(w)
  PROVE  Opened' = Opened
<1>1. Busy(w)' /\ req'[w].user = req[w].user /\ req'[w].token = req[w].token
  BY DEF Advance, Busy, Request, Steps
<1>2. \A v \in Workers \ {w} : req'[v] = req[v]
  BY OnlyOthers
<1>3. {v \in Workers : Busy(v)}' = {v \in Workers : Busy(v)}
  BY <1>1, <1>2 DEF Busy
<1>4. \A v \in Workers : req'[v].user = req[v].user /\ req'[v].token = req[v].token
  BY <1>1, <1>2
<1> QED
  BY <1>3, <1>4 DEF Opened

\* An answer closes it.
LEMMA AnswerCloses ==
  ASSUME TypeOK, NEW w \in Workers, Busy(w), Only(w), req'[w] = NoRequest
  PROVE  w \in DOMAIN Opened /\ Opened' = Board!Restrict(Opened, DOMAIN Opened \ {w})
<1>1. ~Busy(w)'
  BY DEF Busy, NoRequest
<1>2. \A v \in Workers \ {w} : req'[v] = req[v]
  BY OnlyOthers
<1>3. {v \in Workers : Busy(v)}' = {v \in Workers : Busy(v)} \ {w}
  BY <1>1, <1>2 DEF Busy
<1>4. Opened' = [v \in {v \in Workers : Busy(v)} \ {w} |->
                   [user |-> req[v].user, token |-> req[v].token]]
  BY <1>2, <1>3 DEF Opened
<1>5. DOMAIN Opened \ {w} = {v \in Workers : Busy(v)} \ {w}
  BY DEF Opened
<1>6. \A v \in {v \in Workers : Busy(v)} \ {w} :
        Opened[v] = [user |-> req[v].user, token |-> req[v].token]
  BY DEF Opened
<1> QED
  BY <1>4, <1>5, <1>6, BusyIsOpen DEF Board!Restrict

\* What a step of a request does to the tables.
LEMMA ServeChanges ==
  ASSUME NEW w \in Workers, Serve(w)
  PROVE  \/ UNCHANGED tables
         \/ Assign(w) /\ \E n \in req[w].names : GrantCustomer(req[w].user, n)
         \/ /\ At(w, "write") /\ req[w].op \in PanelEndpoints /\ Answer(w)
            /\ \/ \E b \in Bodies : UpdatePanelBody(req[w].panel, b)
               \/ RemovePanel(req[w].panel)
         \/ /\ At(w, "write") /\ req[w].op = "create" /\ Answer(w)
            /\ \E b \in Bodies : InsertPanel(req[w].env, b, req[w].position)
<1>1. CASE Assign(w)
  BY <1>1 DEF Assign
<1>2. CASE Me(w) \/ GetPanelsForCluster(w) \/ GetMetrics(w) \/ GetNamespaces(w)
           \/ GetAlerts(w) \/ TestQueryForCluster(w) \/ Abort(w)
  BY <1>2 DEF Me, GetPanelsForCluster, GetMetrics, GetNamespaces, GetAlerts,
     TestQueryForCluster, Abort, AskGrafana, CheckAccess, ReadRow, BadBody, Refuse
<1>3. CASE UpdatePanelForCluster(w) \/ DeletePanelForCluster(w)
  BY <1>3
     DEF UpdatePanelForCluster, DeletePanelForCluster, CheckAccess, CheckBelongs,
         BadBody, Refuse, PanelEndpoints
<1>4. CASE CreatePanelForCluster(w)
  BY <1>4
     DEF CreatePanelForCluster, CheckAccess, ReadRow, ReadPosition, InsertAtPosition,
         BadBody, Refuse
<1> QED
  BY <1>1, <1>2, <1>3, <1>4 DEF Serve

\* What a request has checked entitles it still.
LEMMA HeldEntitles ==
  ASSUME IInv, NEW w \in Workers, Busy(w)
  PROVE  /\ req[w].env # 0 => Board!Entitled(w, req[w].env)
         /\ req[w].op \in PanelEndpoints /\ At(w, "write") /\ req[w].panel \in DOMAIN panels =>
              Board!Entitled(w, panels[req[w].panel].env)
<1>1. Opened[w].token = req[w].token /\ Opened[w].user = req[w].user
  BY BusyIsOpen
<1>2. CASE req[w].token.role = "admin"
  BY <1>1, <1>2 DEF Board!Entitled
<1>3. CASE req[w].token.role # "admin"
  <2>1. Viewer(w)
    BY <1>3, BusyIsRequest DEF IInv, Request, Token, Viewer
  <2>2. Held(w)
    BY DEF IInv
  <2> QED
    BY <1>1, <2>1, <2>2, SameStatements DEF Held, Board!Entitled
<1> QED
  BY <1>2, <1>3

\* A write to a panel that is gone changes nothing.
LEMMA WriteOfNothing ==
  ASSUME TablesInv, NEW q, q \notin DOMAIN panels,
         (\E b \in Bodies : UpdatePanelBody(q, b)) \/ RemovePanel(q)
  PROVE  UNCHANGED tables
<1>1. panels \in [DOMAIN panels -> PanelRow]
  BY DEF TablesInv, TablesTypeOK
<1>2. panels' = panels
  BY <1>1 DEF UpdatePanelBody, RemovePanel, Restrict
<1> QED
  BY <1>2 DEF UpdatePanelBody, RemovePanel, tables

\* A step of a request is a step of the board, or none.
LEMMA ServeIsBoard ==
  ASSUME IInv, NEW w \in Workers, Serve(w)
  PROVE  [Board!Next]_(Board!board)
<1>1. Only(w) /\ (req'[w] = NoRequest \/ Advance(w))
  BY ServeAdvances DEF IInv
<1>2. Busy(w) /\ req[w] \in Request /\ TypeOK /\ TablesInv
  BY BusyIsRequest DEF Serve, IInv
<1>3. CASE UNCHANGED tables
  <2>1. CASE req'[w] = NoRequest
    <3>1. Board!Answer(w)
      BY <1>1, <1>2, <1>3, <2>1, AnswerCloses DEF Board!Answer, Board!tables, tables
    <3> QED
      BY <3>1 DEF Board!Next
  <2>2. CASE Advance(w)
    BY <1>1, <1>2, <1>3, <2>2, AdvanceStaysOpen DEF Board!board, Board!tables, tables
  <2> QED
    BY <1>1, <2>1, <2>2
<1>4. CASE Assign(w) /\ \E n \in req[w].names : GrantCustomer(req[w].user, n)
  <2>1. PICK n \in req[w].names : GrantCustomer(req[w].user, n)
    BY <1>4
  <2>2. n \in req[w].token.customers
    BY <1>2 DEF IInv, CarriesToken
  <2>3. Opened' = Opened
    BY <1>2, <1>4, AssignAdvances, AdvanceStaysOpen
  <2>4. Board!Join(w)
    <3>1. w \in DOMAIN Opened /\ Opened[w].user = req[w].user
          /\ Opened[w].token = req[w].token
      BY <1>2, BusyIsOpen
    <3>2. Board!GrantCustomer(req[w].user, n)
      BY <2>1, SameStatements
    <3> QED
      BY <2>2, <2>3, <3>1, <3>2 DEF Board!Join
  <2> QED
    BY <2>4 DEF Board!Next
<1>5. CASE /\ At(w, "write") /\ req[w].op \in PanelEndpoints /\ Answer(w)
           /\ \/ \E b \in Bodies : UpdatePanelBody(req[w].panel, b)
              \/ RemovePanel(req[w].panel)
  <2> DEFINE q == req[w].panel
  <2>1. w \in DOMAIN Opened /\ Opened' = Board!Restrict(Opened, DOMAIN Opened \ {w})
    BY <1>2, <1>5, AnswerOnly, AnswerCloses
  <2>2. CASE q \notin DOMAIN panels
    BY <1>2, <1>3, <1>5, <2>2, WriteOfNothing
  <2>3. CASE q \in DOMAIN panels
    <3>1. Board!Entitled(w, panels[q].env)
      BY <1>2, <1>5, <2>3, HeldEntitles
    <3>2. Board!Update(w, q) \/ Board!Delete(w, q)
      BY <1>5, <3>1, SameStatements DEF Board!Update, Board!Delete
    <3> QED
      BY <2>1, <2>3, <3>2 DEF Board!Next, Board!Answer
  <2> QED
    BY <2>2, <2>3
<1>6. CASE /\ At(w, "write") /\ req[w].op = "create" /\ Answer(w)
           /\ \E b \in Bodies : InsertPanel(req[w].env, b, req[w].position)
  <2>1. w \in DOMAIN Opened /\ Opened' = Board!Restrict(Opened, DOMAIN Opened \ {w})
    BY <1>2, <1>6, AnswerOnly, AnswerCloses
  <2>2. req[w].env \in Environments /\ req[w].position \in Board!Positions
    BY <1>2, <1>6 DEF IInv, RowRead, Request, Positions, Board!Positions
  <2>3. Board!Entitled(w, req[w].env)
    BY <1>2, <2>2, HeldEntitles, TablesAssumption
  <2>4. Board!Create(w)
    BY <1>6, <2>2, <2>3, SameStatements DEF Board!Create
  <2> QED
    BY <2>1, <2>4 DEF Board!Next, Board!Answer
<1> QED
  BY <1>3, <1>4, <1>5, <1>6, ServeChanges

\* A request that arrives is opened.
LEMMA BeginIsBoard ==
  ASSUME IInv, NEW w \in Workers, Begin(w)
  PROVE  Board!Open(w)
<1>1. PICK o \in Operations, u \in Users, c \in ClusterIds :
        \E t \in Tokens[u], p \in IF o \in PanelEndpoints THEN PanelIds ELSE {0} :
          req' = [req EXCEPT ![w] =
                   [op |-> o, user |-> u, token |-> t, names |-> t.customers,
                    born |-> clusterSeq, cluster |-> c, panel |-> p,
                    env |-> 0, position |-> 0, step |-> "enter"]]
  BY DEF Begin
<1>2. PICK t \in Tokens[u], p \in IF o \in PanelEndpoints THEN PanelIds ELSE {0} :
        req' = [req EXCEPT ![w] =
                 [op |-> o, user |-> u, token |-> t, names |-> t.customers,
                  born |-> clusterSeq, cluster |-> c, panel |-> p,
                  env |-> 0, position |-> 0, step |-> "enter"]]
  BY <1>1
<1>3. req'[w].step = "enter" /\ req'[w].user = u /\ req'[w].token = t
  BY <1>2 DEF IInv, TypeOK
<1>4. \A v \in Workers \ {w} : req'[v] = req[v]
  BY <1>2 DEF IInv, TypeOK
<1>5. {v \in Workers : Busy(v)}' = {v \in Workers : Busy(v)} \cup {w}
  BY <1>3, <1>4 DEF Busy
<1>6. w \notin DOMAIN Opened /\ DOMAIN Opened = {v \in Workers : Busy(v)}
  BY DEF Begin, Opened
<1>7. Opened' = [v \in {v \in Workers : Busy(v)} \cup {w} |->
                   [user |-> req'[v].user, token |-> req'[v].token]]
  BY <1>5 DEF Opened
<1>8. \A v \in DOMAIN Opened : Opened[v] = [user |-> req'[v].user, token |-> req'[v].token]
  BY <1>4, <1>6 DEF Opened
<1>9. Opened' = Board!WithRow(Opened, w, [user |-> u, token |-> t])
  BY <1>3, <1>6, <1>7, <1>8 DEF Board!WithRow
<1> QED
  BY <1>6, <1>9 DEF Begin, Board!Open, Board!tables, tables

\* An admin's statement is the board's.
LEMMA AdministerIsBoard ==
  ASSUME Administer
  PROVE  Board!Administer
<1>1. (\E u \in Users : \E t \in Tokens[u] : t.role = "admin") /\ req' = req
  BY DEF Administer, AdminOnly, CreatePanel, CreateCluster, UpdatePanel, DeletePanel,
         UpdateCluster, DeleteCluster
<1>2. Opened' = Opened
  BY <1>1 DEF Opened, Busy
<1>3. ASSUME NEW e \in Environments, CreatePanel(e) \/ CreateCluster(e)
      PROVE  Board!Administer
  BY <1>1, <1>2, <1>3, SameStatements
     DEF CreatePanel, CreateCluster, Board!Administer, Positions, Board!Positions
<1>4. ASSUME NEW p \in PanelIds, UpdatePanel(p) \/ DeletePanel(p)
      PROVE  Board!Administer
  BY <1>1, <1>2, <1>4, SameStatements
     DEF UpdatePanel, DeletePanel, Board!Administer, Positions, Board!Positions,
         PanelIds, Board!PanelIds
<1>5. ASSUME NEW c \in ClusterIds, UpdateCluster(c) \/ DeleteCluster(c)
      PROVE  Board!Administer
  BY <1>1, <1>2, <1>5, SameStatements
     DEF UpdateCluster, DeleteCluster, Board!Administer, ClusterIds, Board!ClusterIds
<1> QED
  BY <1>3, <1>4, <1>5 DEF Administer

(* Whatever requests and admins interleave, the tables change as if each    *)
(* request were one step of somebody who is entitled to it at that moment   *)
(* (panels.go:165-208, 224-266, 285-312; auth.go:159-169).                  *)
THEOREM ImplementsBoard == Spec => IsBoard
<1>1. Init => Board!Init
  <2> SUFFICES ASSUME Init PROVE Board!Init
    OBVIOUS
  <2>1. DOMAIN Opened = {}
    BY DEF Init, Opened, Busy, NoRequest
  <2>2. DOMAIN panels = {}
    BY DEF Init
  <2> QED
    BY <2>1, <2>2 DEF Init, Board!Init
<1>2. IInv /\ [Next]_vars => [Board!Next]_(Board!board)
  <2> SUFFICES ASSUME IInv, [Next]_vars PROVE [Board!Next]_(Board!board)
    OBVIOUS
  <2>1. ASSUME NEW w \in Workers, Begin(w) PROVE Board!Next
    BY <2>1, BeginIsBoard DEF Board!Next
  <2>2. ASSUME NEW w \in Workers, Serve(w) PROVE [Board!Next]_(Board!board)
    BY <2>2, ServeIsBoard
  <2>3. CASE Administer
    BY <2>3, AdministerIsBoard DEF Board!Next
  <2>4. CASE UNCHANGED vars
    BY <2>4 DEF vars, tables, Board!board, Board!tables, Opened, Busy
  <2> QED
    BY <2>1, <2>2, <2>3, <2>4 DEF Next
<1> QED
  BY <1>1, <1>2, Invariance, PTL DEF Spec, IsBoard, Board!Spec

-----------------------------------------------------------------------------
(* Whose panels change. *)

\* A statement on panels concerns the rows of one environment.
LEMMA InsertConcerns ==
  ASSUME TablesInv, NEW d, NEW b, NEW n, InsertPanel(d, b, n), NEW e, Rows(e)' # Rows(e)
  PROVE  e = d
<1>1. panelSeq + 1 \notin DOMAIN panels
  BY DEF TablesInv, TablesTypeOK
<1>2. /\ DOMAIN panels' = DOMAIN panels \cup {panelSeq + 1}
      /\ \A q \in DOMAIN panels : panels'[q] = panels[q]
      /\ panels'[panelSeq + 1].env = d
  BY <1>1 DEF InsertPanel, WithRow
<1>3. ASSUME e # d PROVE Rows(e)' = Rows(e)
  <2>1. PanelsOf(e)' = PanelsOf(e)
    BY <1>1, <1>2, <1>3 DEF PanelsOf
  <2>2. \A q \in PanelsOf(e) : panels'[q] = panels[q]
    BY <1>2 DEF PanelsOf
  <2> QED
    BY <2>1, <2>2 DEF Rows
<1> QED
  BY <1>3

\* The same of an update and a deletion.
LEMMA WriteConcerns ==
  ASSUME TablesInv, NEW p, (\E b \in Bodies : UpdatePanelBody(p, b)) \/ RemovePanel(p),
         NEW e, Rows(e)' # Rows(e)
  PROVE  p \in DOMAIN panels /\ panels[p].env = e
<1>0. \A q \in DOMAIN panels : panels[q] \in PanelRow
  BY DEF TablesInv, TablesTypeOK
<1>1. ASSUME ~(p \in DOMAIN panels /\ panels[p].env = e) PROVE Rows(e)' = Rows(e)
  <2>1. CASE \E b \in Bodies : UpdatePanelBody(p, b)
    <3>1. /\ DOMAIN panels' = DOMAIN panels
          /\ \A q \in DOMAIN panels : q # p => panels'[q] = panels[q]
          /\ \A q \in DOMAIN panels : panels'[q].env = panels[q].env
      BY <1>0, <2>1 DEF UpdatePanelBody, PanelRow
    <3>2. PanelsOf(e)' = PanelsOf(e)
      BY <3>1 DEF PanelsOf
    <3>3. \A q \in PanelsOf(e) : panels'[q] = panels[q]
      BY <1>1, <3>1 DEF PanelsOf
    <3> QED
      BY <3>2, <3>3 DEF Rows
  <2>2. CASE RemovePanel(p)
    <3>1. /\ DOMAIN panels' = DOMAIN panels \ {p}
          /\ \A q \in DOMAIN panels \ {p} : panels'[q] = panels[q]
      BY <2>2 DEF RemovePanel, Restrict
    <3>2. PanelsOf(e)' = PanelsOf(e)
      BY <1>1, <3>1 DEF PanelsOf
    <3>3. \A q \in PanelsOf(e) : panels'[q] = panels[q]
      BY <1>1, <3>1 DEF PanelsOf
    <3> QED
      BY <3>2, <3>3 DEF Rows
  <2> QED
    BY <2>1, <2>2
<1> QED
  BY <1>1

\* Who is entitled to an environment is a member of its customer.
LEMMA EntitledIsMember ==
  ASSUME IInv, ClustersKeepCustomer, NEW w \in Workers, Busy(w), NEW e,
         Board!Entitled(w, e)
  PROVE  req[w].token.role = "admin" \/ CustomerOf[e] \in MemberOf(req[w].user)
<1>1. req[w].user \in Users /\ Opened[w].user = req[w].user /\ Opened[w].token = req[w].token
  BY BusyIsRequest, BusyIsOpen DEF IInv, Request
<1>2. req[w].token.role = "admin" \/ e \in Reach(req[w].user)
  BY <1>1, SameStatements DEF Board!Entitled
<1> QED
  BY <1>1, <1>2, ReachIsMembership

(* The panels of a customer change only by the hand of an admin or of a     *)
(* member of the customer, as long as no cluster changes customer; the      *)
(* checks are statements ago, and the statement that writes does not repeat *)
(* them (panels.go:201, 261, 310).                                          *)
THEOREM StrangersWriteNothing == Spec => OnlyMembersWrite
<1>1. ASSUME IInv, Next, ClustersKeepCustomer, NEW e \in Environments, Rows(e)' # Rows(e)
      PROVE  \/ AdminOnly /\ UNCHANGED req
             \/ \E w \in Workers :
                  /\ Busy(w) /\ req'[w] = NoRequest
                  /\ \/ req[w].token.role = "admin"
                     \/ CustomerOf[e] \in MemberOf(req[w].user)
  <2>0. panels' # panels /\ TablesInv /\ TypeOK
    BY <1>1 DEF Rows, PanelsOf, IInv
  <2>1. ASSUME NEW w \in Workers, Begin(w) PROVE FALSE
    BY <2>0, <2>1 DEF Begin, tables
  <2>2. CASE Administer
    BY <2>2 DEF Administer, CreatePanel, CreateCluster, UpdatePanel, DeletePanel,
       UpdateCluster, DeleteCluster
  <2>3. ASSUME NEW w \in Workers, Serve(w)
        PROVE  /\ Busy(w) /\ req'[w] = NoRequest
               /\ req[w].token.role = "admin" \/ CustomerOf[e] \in MemberOf(req[w].user)
    <3>0. Busy(w)
      BY <2>3 DEF Serve
    <3>1. CASE /\ At(w, "write") /\ req[w].op \in PanelEndpoints /\ Answer(w)
               /\ \/ \E b \in Bodies : UpdatePanelBody(req[w].panel, b)
                  \/ RemovePanel(req[w].panel)
      <4>1. req[w].panel \in DOMAIN panels /\ panels[req[w].panel].env = e
        BY <1>1, <2>0, <3>1, WriteConcerns
      <4>2. Board!Entitled(w, e)
        BY <1>1, <3>0, <3>1, <4>1, HeldEntitles
      <4> QED
        BY <1>1, <2>0, <3>0, <3>1, <4>2, EntitledIsMember, AnswerOnly
    <3>2. CASE /\ At(w, "write") /\ req[w].op = "create" /\ Answer(w)
               /\ \E b \in Bodies : InsertPanel(req[w].env, b, req[w].position)
      <4>1. e = req[w].env
        BY <1>1, <2>0, <3>2, InsertConcerns
      <4>2. Board!Entitled(w, e)
        BY <1>1, <3>0, <4>1, HeldEntitles, TablesAssumption
      <4> QED
        BY <1>1, <2>0, <3>0, <3>2, <4>2, EntitledIsMember, AnswerOnly
    <3>3. ~UNCHANGED tables
      BY <2>0 DEF tables
    <3>4. \A n : ~GrantCustomer(req[w].user, n)
      BY <2>0 DEF GrantCustomer
    <3> QED
      BY <2>3, <3>1, <3>2, <3>3, <3>4, ServeChanges
  <2> QED
    BY <1>1, <2>1, <2>2, <2>3 DEF Next
<1>2. IInv /\ [Next]_vars =>
        [ClustersKeepCustomer =>
           \A e \in Environments :
             Rows(e)' # Rows(e) =>
               \/ AdminOnly /\ UNCHANGED req
               \/ \E w \in Workers :
                    /\ Busy(w) /\ req'[w] = NoRequest
                    /\ \/ req[w].token.role = "admin"
                       \/ CustomerOf[e] \in MemberOf(req[w].user)]_vars
  BY <1>1
<1> QED
  BY <1>2, Invariance, PTL DEF Spec, OnlyMembersWrite

-----------------------------------------------------------------------------
(* The way of a request to its answer. *)

\* <<o, s, t>>: in the handler of o, stage t follows stage s.
Ways ==
  {<<"list", "enter", "read">>,
   <<"create", "enter", "row">>, <<"create", "row", "position">>,
   <<"create", "position", "write">>,
   <<"update", "enter", "belongs">>, <<"update", "belongs", "write">>,
   <<"delete", "enter", "belongs">>, <<"delete", "belongs", "write">>,
   <<"metrics", "enter", "row">>, <<"metrics", "row", "read">>,
   <<"metrics", "read", "ask">>,
   <<"namespaces", "enter", "row">>, <<"namespaces", "row", "ask">>,
   <<"alerts", "enter", "row">>, <<"alerts", "row", "ask">>,
   <<"query", "enter", "row">>, <<"query", "row", "ask">>}

\* A request is at a stage of its handler.
OnItsWay ==
  \A w \in Workers :
    Busy(w) => At(w, "enter") \/ \E s \in Steps : <<req[w].op, s, req[w].step>> \in Ways

\* It is answered, has a statement of the middleware less before it, or has
\* come to the next stage of its handler.
Nearer(w) ==
  \/ req'[w] = NoRequest
  \/ /\ At(w, "enter") /\ At(w, "enter")'
     /\ \E n \in req[w].names : req'[w].names = req[w].names \ {n}
  \/ /\ req'[w].op = req[w].op
     /\ <<req[w].op, req[w].step, req'[w].step>> \in Ways

\* A request moves by a statement of its own, and then nearer to its answer.
RequestsAdvance ==
  [][\A w \in Workers : Busy(w) /\ req'[w] # req[w] => Serve(w) /\ Nearer(w)]_vars

\* How far a stage is from the arrival.
Distance ==
  [enter |-> 0, belongs |-> 1, row |-> 1, position |-> 2, read |-> 2, write |-> 3, ask |-> 3]

\* No way leads back: a request that has been let in has at most four stages.
LEMMA WaysLeadAway == \A o, s, t : <<o, s, t>> \in Ways => Distance[s] < Distance[t]
BY DEF Ways, Distance

\* Going to the next stage.
LEMMA GotoIsNearer ==
  ASSUME TypeOK, NEW w \in Workers, Busy(w), NEW s \in Steps, Goto(w, s),
         <<req[w].op, req[w].step, s>> \in Ways
  PROVE  Nearer(w)
<1>1. req'[w] = [req[w] EXCEPT !.step = s]
  BY DEF TypeOK, Goto
<1>2. req'[w].step = s /\ req'[w].op = req[w].op
  BY <1>1, BusyIsRequest DEF Request
<1> QED
  BY <1>2 DEF Nearer

\* The access check, and the row of the cluster.
LEMMA ChecksAreNearer ==
  ASSUME TypeOK, NEW w \in Workers, Busy(w), NEW s \in Steps,
         \/ CheckAccess(w, s) /\ <<req[w].op, "enter", s>> \in Ways
         \/ ReadRow(w, s) /\ <<req[w].op, "row", s>> \in Ways
  PROVE  Nearer(w)
<1>1. CASE Answer(w)
  BY <1>1, AnswerOnly DEF Nearer
<1>2. CASE CheckAccess(w, s) /\ <<req[w].op, "enter", s>> \in Ways
  BY <1>1, <1>2, GotoIsNearer DEF CheckAccess, Admitted, At
<1>3. CASE ReadRow(w, s) /\ <<req[w].op, "row", s>> \in Ways
  <2>1. CASE req' = [req EXCEPT ![w].env = clusters[req[w].cluster], ![w].step = s]
    <3>1. req'[w].step = s /\ req'[w].op = req[w].op
      BY <2>1, BusyIsRequest DEF TypeOK, Request
    <3> QED
      BY <1>3, <3>1 DEF Nearer, ReadRow, At
  <2> QED
    BY <1>1, <1>3, <2>1 DEF ReadRow
<1> QED
  BY <1>2, <1>3

\* Every step of a request leads on.
LEMMA ServeIsNearer ==
  ASSUME TypeOK, NEW w \in Workers, Serve(w)
  PROVE  Nearer(w)
<1>0. Busy(w)
  BY DEF Serve
<1> USE <1>0
<1>1. CASE Answer(w)
  BY <1>1, AnswerOnly DEF Nearer
<1>2. CASE Assign(w)
  <2>1. PICK n \in req[w].names : req' = [req EXCEPT ![w].names = @ \ {n}]
    BY <1>2 DEF Assign
  <2>2. req'[w].names = req[w].names \ {n} /\ req'[w].step = req[w].step
    BY <2>1, BusyIsRequest DEF TypeOK, Request
  <2> QED
    BY <1>2, <2>2 DEF Nearer, Assign, At
<1>3. CASE Me(w) \/ Abort(w)
  BY <1>1, <1>3 DEF Me, Abort, Refuse
<1>4. CASE GetPanelsForCluster(w)
  <2>1. <<req[w].op, "enter", "read">> \in Ways
    BY <1>4 DEF GetPanelsForCluster, Ways
  <2> QED
    BY <1>1, <1>4, <2>1, ChecksAreNearer DEF GetPanelsForCluster, Refuse, Steps
<1>5. CASE CreatePanelForCluster(w)
  <2>1. /\ <<req[w].op, "enter", "row">> \in Ways
        /\ <<req[w].op, "row", "position">> \in Ways
        /\ <<req[w].op, "position", "write">> \in Ways
    BY <1>5 DEF CreatePanelForCluster, Ways
  <2>2. CASE CheckAccess(w, "row") \/ ReadRow(w, "position")
    BY <2>1, <2>2, ChecksAreNearer DEF Steps
  <2>3. CASE ReadPosition(w)
    <3>1. CASE Goto(w, "write")
      BY <2>1, <2>3, <3>1, GotoIsNearer DEF ReadPosition, At, Steps
    <3>2. ASSUME NEW n \in Positions,
                 req' = [req EXCEPT ![w].position = n, ![w].step = "write"]
          PROVE  Nearer(w)
      <4>1. req'[w].step = "write" /\ req'[w].op = req[w].op
        BY <3>2, BusyIsRequest DEF TypeOK, Request
      <4> QED
        BY <2>1, <2>3, <4>1 DEF Nearer, ReadPosition, At
    <3> QED
      BY <2>3, <3>1, <3>2 DEF ReadPosition
  <2> QED
    BY <1>1, <1>5, <2>2, <2>3 DEF CreatePanelForCluster, BadBody, Refuse, InsertAtPosition
<1>6. CASE UpdatePanelForCluster(w) \/ DeletePanelForCluster(w)
  <2>1. <<req[w].op, "enter", "belongs">> \in Ways /\ <<req[w].op, "belongs", "write">> \in Ways
    BY <1>6 DEF UpdatePanelForCluster, DeletePanelForCluster, Ways
  <2>2. CASE CheckAccess(w, "belongs")
    BY <2>1, <2>2, ChecksAreNearer DEF Steps
  <2>3. CASE CheckBelongs(w)
    BY <1>1, <2>1, <2>3, GotoIsNearer DEF CheckBelongs, At, Steps
  <2> QED
    BY <1>1, <1>6, <2>2, <2>3
       DEF UpdatePanelForCluster, DeletePanelForCluster, BadBody, Refuse
<1>7. CASE GetMetrics(w)
  <2>1. /\ <<req[w].op, "enter", "row">> \in Ways /\ <<req[w].op, "row", "read">> \in Ways
        /\ <<req[w].op, "read", "ask">> \in Ways
    BY <1>7 DEF GetMetrics, Ways
  <2>2. CASE CheckAccess(w, "row") \/ ReadRow(w, "read")
    BY <2>1, <2>2, ChecksAreNearer DEF Steps
  <2>3. CASE At(w, "read") /\ Goto(w, "ask")
    BY <2>1, <2>3, GotoIsNearer DEF At, Steps
  <2> QED
    BY <1>1, <1>7, <2>2, <2>3 DEF GetMetrics, Refuse
<1>8. CASE GetNamespaces(w) \/ GetAlerts(w) \/ TestQueryForCluster(w)
  <2>1. <<req[w].op, "enter", "row">> \in Ways /\ <<req[w].op, "row", "ask">> \in Ways
    BY <1>8 DEF GetNamespaces, GetAlerts, TestQueryForCluster, Ways
  <2>2. CASE CheckAccess(w, "row") \/ ReadRow(w, "ask")
    BY <2>1, <2>2, ChecksAreNearer DEF Steps
  <2> QED
    BY <1>1, <1>8, <2>2
       DEF GetNamespaces, GetAlerts, TestQueryForCluster, AskGrafana, BadBody, Refuse
<1> QED
  BY <1>2, <1>3, <1>4, <1>5, <1>6, <1>7, <1>8 DEF Serve

\* Others' steps leave it where it is.
LEMMA OnlyServeMoves ==
  ASSUME IInv, [Next]_vars, NEW w \in Workers, Busy(w), req'[w] # req[w]
  PROVE  Serve(w)
<1>1. ASSUME NEW v \in Workers, Begin(v) PROVE FALSE
  <2>1. v # w
    BY <1>1 DEF Begin
  <2> QED
    BY <1>1, <2>1 DEF Begin, IInv, TypeOK
<1>2. ASSUME NEW v \in Workers, Serve(v), v # w PROVE FALSE
  BY <1>2, ServeAdvances, OnlyOthers DEF IInv
<1>3. CASE Administer
  BY <1>3, AdministerKeepsTables DEF IInv
<1> QED
  BY <1>1, <1>2, <1>3 DEF Next, vars

(* The safety half of RequestsAnswered: a request moves only by statements  *)
(* of its own, each of which answers it or takes it to the next stage of    *)
(* its handler, and it is never at a stage that its handler does not have   *)
(* (auth.go:159-174; the handlers of panels.go and metrics.go).             *)
THEOREM RequestsGoOn == Spec => []OnItsWay /\ RequestsAdvance
<1>1. Init => OnItsWay
  BY DEF Init, OnItsWay, Busy, NoRequest
<1>2. IInv /\ [Next]_vars =>
        [\A w \in Workers : Busy(w) /\ req'[w] # req[w] => Serve(w) /\ Nearer(w)]_vars
  BY OnlyServeMoves, ServeIsNearer DEF IInv
<1>3. ASSUME IInv, IInv', OnItsWay, [Next]_vars PROVE OnItsWay'
  <2> SUFFICES ASSUME NEW w \in Workers, Busy(w)'
               PROVE  (At(w, "enter") \/ \E s \in Steps : <<req[w].op, s, req[w].step>> \in Ways)'
    BY DEF OnItsWay
  <2>1. CASE req'[w] = req[w]
    BY <1>3, <2>1 DEF OnItsWay, Busy, At
  <2>2. CASE req'[w] # req[w] /\ Busy(w)
    <3>1. Nearer(w) /\ req[w].step \in Steps /\ req'[w] # NoRequest
      BY <1>3, <2>2, OnlyServeMoves, ServeIsNearer, BusyIsRequest
         DEF IInv, Request, Busy, NoRequest
    <3> QED
      BY <3>1 DEF Nearer
  <2>3. CASE req'[w] # req[w] /\ ~Busy(w)
    <3>1. Begin(w)
      <4>1. ASSUME NEW v \in Workers, Begin(v), v # w PROVE FALSE
        BY <1>3, <2>3, <4>1 DEF Begin, IInv, TypeOK
      <4>2. ASSUME NEW v \in Workers, Serve(v) PROVE FALSE
        <5>1. v # w
          BY <2>3, <4>2 DEF Serve
        <5> QED
          BY <1>3, <2>3, <4>2, <5>1, ServeAdvances, OnlyOthers DEF IInv
      <4>3. ~Administer
        BY <1>3, <2>3, AdministerKeepsTables DEF IInv
      <4> QED
        BY <1>3, <2>3, <4>1, <4>2, <4>3 DEF Next, vars
    <3>2. req'[w].step = "enter"
      BY <1>3, <3>1 DEF Begin, IInv, TypeOK
    <3> QED
      BY <3>2 DEF At
  <2> QED
    BY <2>1, <2>2, <2>3
<1> QED
  BY <1>1, <1>2, <1>3, Invariance, PTL DEF Spec, RequestsAdvance
=============================================================================
