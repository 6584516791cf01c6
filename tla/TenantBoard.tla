---------------------------- MODULE TenantBoard ----------------------------
(***************************************************************************)
(* What the handlers of PanelHandlers promise of the tables they share, as *)
(* if a request changed them in one step: at the moment of the change, the *)
(* one who asked is entitled to the environment of the panel it is about.  *)
(* A request changes at most one panel, and its answer is that very step.  *)
(***************************************************************************)
EXTENDS Tables

CONSTANTS
  Workers,       \* requests that are served at the same time
  Tokens,        \* Tokens[u]: the bearer tokens user u may present
  SeedClusters,  \* clusters of the database at start
  SeedGrants     \* and its grants

VARIABLE open    \* open[w]: whose request w is, and with which token

board == <<tables, open>>

Open(w) ==
  /\ w \notin DOMAIN open
  /\ \E u \in Users : \E t \in Tokens[u] :
       open' = WithRow(open, w, [user |-> u, token |-> t])
  /\ UNCHANGED tables

\* What a group of the token stands for.
Join(w) ==
  /\ UNCHANGED open
  /\ w \in DOMAIN open
  /\ \E n \in open[w].token.customers : GrantCustomer(open[w].user, n)

Entitled(w, e) == open[w].token.role = "admin" \/ e \in Reach(open[w].user)

Create(w) ==
  \E e \in Environments, b \in Bodies, n \in Positions :
    Entitled(w, e) /\ InsertPanel(e, b, n)

Update(w, p) == Entitled(w, panels[p].env) /\ \E b \in Bodies : UpdatePanelBody(p, b)

Delete(w, p) == Entitled(w, panels[p].env) /\ RemovePanel(p)

\* The answer, with the change that was asked for or with none: the request
\* reads, is refused or has failed.
Answer(w) ==
  /\ w \in DOMAIN open
  /\ open' = Restrict(open, DOMAIN open \ {w})
  /\ \/ UNCHANGED tables
     \/ Create(w)
     \/ \E p \in DOMAIN panels : Update(w, p) \/ Delete(w, p)

Administer ==
  /\ UNCHANGED open
  /\ \E u \in Users : \E t \in Tokens[u] : t.role = "admin"
  /\ \/ \E e \in Environments, b \in Bodies, n \in Positions : InsertPanel(e, b, n)
     \/ \E p \in PanelIds, b \in Bodies, n \in Positions : UpdatePanelRow(p, b, n)
     \/ \E p \in PanelIds : RemovePanel(p)
     \/ \E e \in Environments : InsertCluster(e)
     \/ \E c \in ClusterIds : RemoveCluster(c) \/ \E e \in Environments : MoveCluster(c, e)

Init ==
  /\ clusters = SeedClusters /\ grants = SeedGrants
  /\ placed = {<<c, SeedClusters[c]>> : c \in DOMAIN SeedClusters}
  /\ DOMAIN panels = {} /\ panelSeq = 0
  /\ DOMAIN open = {}

Next == (\E w \in Workers : Open(w) \/ Answer(w) \/ Join(w)) \/ Administer

Spec == Init /\ [][Next]_board
=============================================================================
