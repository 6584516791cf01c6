--------------------------- MODULE PanelHandlers ---------------------------
(***************************************************************************)
(* The gin handlers that serve a cluster's panels and metrics              *)
(* (api/handlers/panels.go, metrics.go, clusters.go), the authentication   *)
(* middleware in front of them (api/middleware/auth.go) and the admin      *)
(* handlers that change the same tables (api/handlers/admin_clusters.go).  *)
(*                                                                         *)
(* A request is a goroutine of one of the API replicas.  It runs one SQL   *)
(* statement at a time, outside any transaction, so that the statements of *)
(* all requests interleave; what it remembers between two statements is    *)
(* req[w].  An admin endpoint runs a single statement after the middleware *)
(* and is one atomic action (the middleware in front of it is an operation *)
(* "me", which runs nothing else).                                         *)
(***************************************************************************)
EXTENDS Tables

CONSTANTS
  Workers,       \* goroutines that can serve a request at the same time
  Operations,    \* the endpoints in use, a subset of Endpoints
  Tokens,        \* Tokens[u]: the bearer tokens user u may present
  SeedClusters,  \* clusters of the database at start: <<environment, ...>>
  SeedGrants,    \* and its grants
  Faults         \* whether statements may fail and replicas may crash

Endpoints ==
  {"me", "list", "create", "update", "delete",
   "metrics", "namespaces", "alerts", "query"}

PanelEndpoints == {"update", "delete"}   \* .../panels/:panelId

\* What the middleware takes from a token: the role and the customers named
\* by its Keycloak groups (none for a token of POST /api/auth/login).
Token == [role : {"admin", "viewer"}, customers : SUBSET Customers]

ASSUME PanelHandlersAssumption ==
  /\ Operations \subseteq Endpoints
  /\ Tokens \in [Users -> SUBSET Token]
  /\ DOMAIN SeedClusters \in {1..n : n \in 0..MaxClusterId}
  /\ SeedClusters \in [DOMAIN SeedClusters -> Environments]
  /\ SeedGrants \subseteq Users \X DOMAIN SeedClusters
  /\ Faults \in BOOLEAN

VARIABLE req     \* req[w]: what request w remembers between its statements

vars == <<tables, req>>

NoRequest == [step |-> "idle"]

Steps == {"enter", "belongs", "row", "position", "read", "write", "ask"}

Request ==
  [op       : Operations,
   user     : Users,
   token    : Token,
   names    : SUBSET Customers,        \* customers the middleware has yet to assign
   born     : 0..MaxClusterId,         \* history: clusterSeq when it arrived
   cluster  : ClusterIds,              \* path parameter :id
   panel    : PanelIds \cup {0},       \* path parameter :panelId
   env      : Environments \cup {0},   \* environment_id of the cluster row it read
   position : Positions,               \* Go's zero value until it is read
   step     : Steps]

TypeOK ==
  /\ TablesTypeOK
  /\ req \in [Workers -> Request \cup {NoRequest}]

\* A database after its first start: Migrate found no environment to give
\* panels to, Seed created the demo clusters and grants.
Init ==
  /\ clusters = SeedClusters
  /\ \E n \in 0..MaxClusterId : DOMAIN SeedClusters = 1..n /\ clusterSeq = n
  /\ placed = {<<c, SeedClusters[c]>> : c \in DOMAIN SeedClusters}
  /\ grants = SeedGrants
  /\ panels = [p \in {} |-> NoRequest]
  /\ panelSeq = 0
  /\ req = [w \in Workers |-> NoRequest]

Busy(w) == req[w].step # "idle"
At(w, s) == req[w].step = s
Goto(w, s) == req' = [req EXCEPT ![w].step = s]
Answer(w) == req' = [req EXCEPT ![w] = NoRequest]

\* The statement fails or the check does not hold: the request is over.
Refuse(w) == Answer(w) /\ UNCHANGED tables

-----------------------------------------------------------------------------
(* The middleware. *)

\* A valid token: its role and customers, and the path parameters.
Begin(w) ==
  /\ ~Busy(w)
  /\ \E o \in Operations, u \in Users, c \in ClusterIds :
       \E t \in Tokens[u], p \in IF o \in PanelEndpoints THEN PanelIds ELSE {0} :
         req' = [req EXCEPT ![w] =
                  [op |-> o, user |-> u, token |-> t, names |-> t.customers,
                   born |-> clusterSeq, cluster |-> c, panel |-> p,
                   env |-> 0, position |-> 0, step |-> "enter"]]
  /\ UNCHANGED tables

\* As if the loop ended after its first statement.
AssignFirst(w) ==
  /\ At(w, "enter")
  /\ \E n \in req[w].names :
       /\ req' = [req EXCEPT ![w].names = {}]
       /\ \/ GrantCustomer(req[w].user, n)
          \/ Faults /\ UNCHANGED tables

\* One statement per customer of the token, in the order of its groups; an
\* error is ignored and the loop goes on.
Assign(w) ==
  /\ At(w, "enter")
  /\ \E n \in req[w].names :
       /\ req' = [req EXCEPT ![w].names = @ \ {n}]
       /\ \/ GrantCustomer(req[w].user, n)
          \/ Faults /\ UNCHANGED tables

Admitted(w) == At(w, "enter") /\ req[w].names = {}

Me(w) ==
  /\ Admitted(w)
  /\ req[w].op = "me"
  /\ Refuse(w)

-----------------------------------------------------------------------------
(* The stages the handlers are made of. *)

\* hasAccess: an admin is not looked up.  403 otherwise.
HasAccess(w) ==
  \/ req[w].token.role = "admin"
  \/ Granted(req[w].user, req[w].cluster)

CheckAccess(w, next) ==
  /\ Admitted(w)
  /\ UNCHANGED tables
  /\ \/ HasAccess(w) /\ Goto(w, next)
     \/ ~HasAccess(w) /\ Answer(w)

\* As if a panel that is not found were waited for.
CheckBelongsOrWait(w) ==
  /\ At(w, "belongs")
  /\ UNCHANGED tables
  /\ PanelBelongs(req[w].panel, req[w].cluster) /\ Goto(w, "write")

\* 404 "panel not found" when the panel is not in the cluster's environment.
CheckBelongs(w) ==
  /\ At(w, "belongs")
  /\ UNCHANGED tables
  /\ \/ PanelBelongs(req[w].panel, req[w].cluster) /\ Goto(w, "write")
     \/ ~PanelBelongs(req[w].panel, req[w].cluster) /\ Answer(w)

\* SELECT ... FROM clusters WHERE id = :id; 404 "cluster not found".
ReadRow(w, next) ==
  /\ At(w, "row")
  /\ UNCHANGED tables
  /\ \/ /\ req[w].cluster \in DOMAIN clusters
        /\ req' = [req EXCEPT ![w].env = clusters[req[w].cluster],
                              ![w].step = next]
     \/ req[w].cluster \notin DOMAIN clusters /\ Answer(w)

\* The body of the request does not bind: 400.
BadBody(w, s) == At(w, s) /\ Refuse(w)

\* Any statement but the middleware's and SELECT MAX(position) turns an error
\* into a 4xx or 5xx; a replica that dies drops its requests.
Abort(w) == Faults /\ Busy(w) /\ Refuse(w)

-----------------------------------------------------------------------------
(* The handlers of /api/clusters/:id. *)

\* One statement joins the cluster with the panels of its environment.
GetPanelsForCluster(w) ==
  /\ req[w].op = "list"
  /\ CheckAccess(w, "read") \/ (At(w, "read") /\ Refuse(w))

\* As if access to the cluster were access to every panel.
UpdateAnyPanel(w) ==
  /\ req[w].op = "update"
  /\ \/ CheckAccess(w, "write")
     \/ BadBody(w, "write")
     \/ /\ At(w, "write")
        /\ \E b \in Bodies : UpdatePanelBody(req[w].panel, b)
        /\ Answer(w)

UpdatePanelForCluster(w) ==
  /\ req[w].op = "update"
  /\ \/ CheckAccess(w, "belongs")
     \/ CheckBelongs(w)
     \/ BadBody(w, "write")
     \/ /\ At(w, "write")
        /\ \E b \in Bodies : UpdatePanelBody(req[w].panel, b)
        /\ Answer(w)

DeletePanelForCluster(w) ==
  /\ req[w].op = "delete"
  /\ \/ CheckAccess(w, "belongs")
     \/ CheckBelongs(w)
     \/ At(w, "write") /\ RemovePanel(req[w].panel) /\ Answer(w)

\* As if the sum were wider than the column it is stored in.
ReadWidePosition(w) ==
  /\ At(w, "position")
  /\ UNCHANGED tables
  /\ \E n \in MinPosition..(MaxPosition + 1) :
       /\ IsNextPosition(req[w].env, n)
       /\ req' = [req EXCEPT ![w].position = n, ![w].step = "write"]

\* The error of this statement is ignored; MAX + 1 overflows into one, and
\* position is then still Go's zero value.
ReadPosition(w) ==
  /\ At(w, "position")
  /\ UNCHANGED tables
  /\ \/ \E n \in Positions :
          /\ IsNextPosition(req[w].env, n)
          /\ req' = [req EXCEPT ![w].position = n, ![w].step = "write"]
     \/ /\ Faults \/ \A n \in Positions : ~IsNextPosition(req[w].env, n)
        /\ Goto(w, "write")

\* A sequence at its last value fails the INSERT.
InsertAtPosition(w) ==
  /\ At(w, "write")
  /\ Answer(w)
  /\ \/ \E b \in Bodies : InsertPanel(req[w].env, b, req[w].position)
     \/ panelSeq = MaxPanelId /\ UNCHANGED tables

CreatePanelForCluster(w) ==
  /\ req[w].op = "create"
  /\ \/ CheckAccess(w, "row")
     \/ ReadRow(w, "position")
     \/ BadBody(w, "position")
     \/ ReadPosition(w)
     \/ InsertAtPosition(w)

\* Reads the panels of the environment the row named, then asks Grafana.
GetMetrics(w) ==
  /\ req[w].op = "metrics"
  /\ \/ CheckAccess(w, "row")
     \/ ReadRow(w, "read")
     \/ At(w, "read") /\ Goto(w, "ask") /\ UNCHANGED tables
     \/ At(w, "ask") /\ Refuse(w)

\* The endpoints that ask the Grafana of the row they read.
AskGrafana(w) ==
  \/ CheckAccess(w, "row")
  \/ ReadRow(w, "ask")
  \/ At(w, "ask") /\ Refuse(w)

GetNamespaces(w) == req[w].op = "namespaces" /\ AskGrafana(w)

GetAlerts(w) == req[w].op = "alerts" /\ AskGrafana(w)

TestQueryForCluster(w) ==
  /\ req[w].op = "query"
  /\ AskGrafana(w) \/ BadBody(w, "row")

Serve(w) ==
  /\ Busy(w)
  /\ \/ Assign(w) \/ Me(w)
     \/ GetPanelsForCluster(w) \/ CreatePanelForCluster(w)
     \/ UpdatePanelForCluster(w) \/ DeletePanelForCluster(w)
     \/ GetMetrics(w) \/ GetNamespaces(w) \/ GetAlerts(w)
     \/ TestQueryForCluster(w)
     \/ Abort(w)

-----------------------------------------------------------------------------
(* The handlers of /api/admin: AdminOnly lets through a token of role admin. *)

AdminOnly == \E u \in Users : \E t \in Tokens[u] : t.role = "admin"

CreatePanel(e) ==
  \E b \in Bodies, n \in Positions : InsertPanel(e, b, n) /\ UNCHANGED req

UpdatePanel(p) ==
  \E b \in Bodies, n \in Positions : UpdatePanelRow(p, b, n) /\ UNCHANGED req

DeletePanel(p) == RemovePanel(p) /\ UNCHANGED req

CreateCluster(e) == InsertCluster(e) /\ UNCHANGED req

\* The form of the UI sends every column, environment_id among them.
UpdateCluster(c) == \E e \in Environments : MoveCluster(c, e) /\ UNCHANGED req

DeleteCluster(c) == RemoveCluster(c) /\ UNCHANGED req

Administer ==
  /\ AdminOnly
  /\ \/ \E e \in Environments : CreatePanel(e) \/ CreateCluster(e)
     \/ \E p \in PanelIds : UpdatePanel(p) \/ DeletePanel(p)
     \/ \E c \in ClusterIds : UpdateCluster(c) \/ DeleteCluster(c)

Next == (\E w \in Workers : Begin(w) \/ Serve(w)) \/ Administer

\* PostgreSQL and Grafana answer: a request that is being served goes on.
Fairness == \A w \in Workers : WF_vars(Serve(w))

Spec == Init /\ [][Next]_vars

FairSpec == Spec /\ Fairness

-----------------------------------------------------------------------------
(* What the checks of the handlers are for. *)

Viewer(w) == Busy(w) /\ req[w].token.role = "viewer"

\* The environments whose panels or Grafana the next statement of w touches.
Touches(w) ==
  {e \in Environments :
     \/ /\ req[w].op \in PanelEndpoints /\ At(w, "write")
        /\ req[w].panel \in DOMAIN panels
        /\ panels[req[w].panel].env = e
     \/ /\ req[w].op = "list" /\ At(w, "read")
        /\ req[w].cluster \in DOMAIN clusters
        /\ clusters[req[w].cluster] = e
     \/ req[w].env = e}

\* The customers u belongs to: by a group in Keycloak, or by a seeded grant.
MemberOf(u) ==
  {n \in Customers :
     \/ \E t \in Tokens[u] : n \in t.customers
     \/ \E c \in DOMAIN SeedClusters :
          <<u, c>> \in SeedGrants /\ CustomerOf[SeedClusters[c]] = n}

\* No cluster was ever moved from an environment of one customer to an
\* environment of another.
ClustersKeepCustomer ==
  \A x, y \in placed : x[1] = y[1] => CustomerOf[x[2]] = CustomerOf[y[2]]

(* The access check of panels.go:160-176 is made once, and used until the   *)
(* request ends: a viewer that passed it still has the grant, and the       *)
(* cluster still exists, however the admin handlers interleave.             *)
AccessHeld ==
  \A w \in Workers :
    Viewer(w) /\ ~At(w, "enter")
      => /\ Granted(req[w].user, req[w].cluster)
         /\ req[w].cluster \in DOMAIN clusters

(* What a viewer's next statement reads or writes belongs to an environment *)
(* that one of the viewer's granted clusters is or was in, although         *)
(* UPDATE ... WHERE id = :panelId (panels.go:201, 310) names neither the    *)
(* cluster nor the environment, and may run after the panel or the cluster  *)
(* changed.                                                                 *)
Confined ==
  \A w \in Workers : Viewer(w) => Touches(w) \subseteq Reach(req[w].user)

(* Tenants are isolated: as long as no cluster is moved between customers,  *)
(* a viewer touches only environments of customers that the viewer's groups *)
(* (auth.go:159-169) or the seeded grants (seed.go:94-104) name.            *)
TenantIsolation ==
  ClustersKeepCustomer =>
    \A w \in Workers :
      Viewer(w) => \A e \in Touches(w) : CustomerOf[e] \in MemberOf(req[w].user)

Rows(e) == {<<p, panels[p]>> : p \in PanelsOf(e)}

(* The same of what is done: the panels of an environment change in the     *)
(* step in which a request is answered that came from an admin or from a    *)
(* viewer of the customer, or by a statement of the admin endpoints         *)
(* (panels.go:201, 261, 310 say which panel, and not whose).                *)
OnlyMembersWrite ==
  [][ClustersKeepCustomer =>
       \A e \in Environments :
         Rows(e)' # Rows(e) =>
           \/ AdminOnly /\ UNCHANGED req
           \/ \E w \in Workers :
                /\ Busy(w) /\ req'[w] = NoRequest
                /\ \/ req[w].token.role = "admin"
                   \/ CustomerOf[e] \in MemberOf(req[w].user)]_vars

(* The middleware assigns before the handler checks (auth.go:159-174): when *)
(* no statement fails, a viewer is not refused a cluster that existed when  *)
(* the request arrived and was only ever in environments of one customer    *)
(* that the token names.  (One customer: a cluster that an admin moves from *)
(* a customer the loop has yet to assign to one it has assigned is missed.) *)
NoSpuriousDenial ==
  ~Faults =>
    \A w \in Workers :
      LET c == req[w].cluster IN
      /\ Viewer(w) /\ Admitted(w)
      /\ c \in DOMAIN clusters /\ c <= req[w].born
      /\ \E n \in req[w].token.customers :
           \A x \in placed : x[1] = c => CustomerOf[x[2]] = n
      => HasAccess(w)

(* A deleted panel never comes back, whatever a request that checked it     *)
(* before writes after (panels.go:201-204), and its id is not given to      *)
(* another panel, which a request with the old id would then change.        *)
DeletedPanelStaysDeleted ==
  [][\A p \in 1..panelSeq : p \notin DOMAIN panels => p \notin DOMAIN panels']_vars

Opened == [w \in {v \in Workers : Busy(v)} |->
             [user |-> req[w].user, token |-> req[w].token]]

Board == INSTANCE TenantBoard WITH open <- Opened

(* The checks and the statement that changes a panel are several steps      *)
(* (panels.go:165-208, 224-266, 285-312), and the middleware's grants come  *)
(* before them; yet all that becomes of the tables is as if each request    *)
(* were one step, made by someone entitled to it at that very moment: by    *)
(* then the cluster may have moved and the panel may be gone.               *)
IsBoard == Board!Spec

(* Every request is answered: no stage of a handler is left without an      *)
(* exit, whatever the other requests and the admin do in between.           *)
RequestsAnswered == \A w \in Workers : Busy(w) ~> ~Busy(w)

-----------------------------------------------------------------------------
(* What a comment says of a handler, and the code does not. *)

PanelWrite(w, ops) ==
  /\ Busy(w)
  /\ req[w].op \in ops /\ At(w, "write")
  /\ panels' # panels
  /\ req'[w] = NoRequest

(* panels.go:150: "The panel must belong to the cluster's environment."     *)
(* The check and the write are two statements.                              *)
PanelInClusterEnvironment ==
  [][\A w \in Workers :
       PanelWrite(w, PanelEndpoints) => PanelBelongs(req[w].panel, req[w].cluster)]_vars
=============================================================================
