--------------------------- MODULE OverviewProofs ----------------------------
(* Proofs about the overview page, for any clusters, panels and bounds.     *)
EXTENDS Overview, TLAPS

USE DEF NoPanel, Blank

-----------------------------------------------------------------------------
(* Types.                                                                   *)

\* The part of TypeOK that is about the rows.
TableType ==
    /\ rows \in [Panels -> Row \cup {None}] /\ held \in [Panels -> SUBSET Exprs]
    /\ clusters \in [Clusters -> Cluster] /\ placed \in [Clusters -> SUBSET Environments]

USE DEF TableType

LEMMA RequestType ==
    ASSUME NEW c \in Clusters, NEW n \in Selectable, NEW q \in BOOLEAN
    PROVE  Request(c, n, q) \in Read
BY DEF Request, Read

LEMMA AskType ==
    ASSUME TypeOK, NEW c \in Clusters, NEW n \in Selectable, NEW q \in BOOLEAN, Ask(c, n, q)
    PROVE  reads' \in [Slots -> Read \cup {None}]
<1>1. Request(c, n, q) \in Read
  BY RequestType
<1> QED
  BY <1>1 DEF Ask, TypeOK

LEMMA ListType == ASSUME TypeOK, NEW c \in Clusters PROVE ListOf(c) \in Listing
<1> SUFFICES ASSUME NEW p \in Panels, Belongs(p, c) PROVE rows[p].expr \in Exprs
  BY DEF ListOf, Listing
<1> QED
  BY DEF TypeOK, Belongs, Live, Row

LEMMA ShowType ==
    ASSUME TypeOK, NEW c \in Clusters, NEW n \in Selectable, NEW cards \in Cards,
           Show(c, n, cards)
    PROVE  data' \in Data /\ card' \in Card \cup {None} /\ late' \in BOOLEAN
<1>1. data' \in Data
  BY DEF Show, Data
<1> QED
  BY <1>1 DEF Show, TypeOK

LEMMA KeptType == ASSUME NEW k \in Card PROVE Kept(k) \in Card \cup {None}
BY DEF Kept

LEMMA SendType ==
    ASSUME TypeOK, NEW op \in {"save", "delete", "add"}, NEW p \in Panels \cup {NoPanel},
           NEW n \in Names, NEW e \in Exprs, Send(op, p, n, e)
    PROVE  /\ writes' \in [WriteIds -> Write \cup {None}]
           /\ sent' \in 0 .. MaxWrites /\ sent + 1 \in WriteIds
<1>1. sent + 1 \in WriteIds /\ sent' \in 0 .. MaxWrites
  BY OverviewAssumption DEF Send, TypeOK, WriteIds
<1>2. [op |-> op, cluster |-> id, namespace |-> namespace, panel |-> p, name |-> n,
       expr |-> e, state |-> "sent"] \in Write
  BY DEF TypeOK, Write
<1> QED
  BY <1>1, <1>2 DEF Send, TypeOK

LEMMA NewTextType ==
    ASSUME sent \in 0 .. MaxWrites, sent < MaxWrites PROVE NewText(sent + 1) \in Exprs
BY OverviewAssumption DEF NewText, Exprs

LEMMA NewRowType ==
    ASSUME TypeOK, NEW c \in Clusters, NEW n \in Names, NEW e \in Exprs
    PROVE  NewRow(c, n, e) \in Row
<1>1. clusters[c].environment \in Environments
  BY DEF TypeOK, Cluster
<1> QED
  BY <1>1 DEF NewRow, Row

LEMMA ChangeType ==
    ASSUME TypeOK, NEW p \in Panels, NEW row \in Row, Change(p, row)
    PROVE  TableType'
<1>1. row.expr \in Exprs
  BY DEF Row
<1> QED
  BY <1>1 DEF TypeOK, Change

LEMMA FaultType == ASSUME TypeOK, Fault PROVE faults' \in 0 .. MaxFaults
BY OverviewAssumption DEF TypeOK, Fault

LEMMA ReloadType ==
    ASSUME TypeOK, Reload
    PROVE  /\ selections' \in 0 .. MaxSelections /\ loading' \in BOOLEAN
           /\ error' \in BOOLEAN /\ late' \in BOOLEAN /\ card' = None
<1>1. selections' \in 0 .. MaxSelections
  BY OverviewAssumption DEF TypeOK, Reload
<1> QED
  BY <1>1 DEF Reload

LEMMA ApplyType ==
    ASSUME TypeOK, NEW w \in Write, w.op # "add" => w.panel \in Panels, Apply(w)
    PROVE  TableType'
<1> USE DEF Refused, Belongs, Live
<1>1. CASE w.op = "save" /\ ~Refused(w) /\
           Change(w.panel, [rows[w.panel] EXCEPT !.name = w.name, !.expr = w.expr])
  <2>1. [rows[w.panel] EXCEPT !.name = w.name, !.expr = w.expr] \in Row
    <3>1. rows[w.panel] \in Row /\ w.name \in Names /\ w.expr \in Exprs
      BY <1>1 DEF TypeOK, Write
    <3> QED
      BY <3>1 DEF Row
  <2> QED
    BY <1>1, <2>1, ChangeType
<1>2. CASE w.op = "delete" /\ ~Refused(w) /\
           Change(w.panel, [rows[w.panel] EXCEPT !.live = FALSE])
  <2>1. [rows[w.panel] EXCEPT !.live = FALSE] \in Row
    <3>1. rows[w.panel] \in Row
      BY <1>2 DEF TypeOK
    <3> QED
      BY <3>1 DEF Row
  <2> QED
    BY <1>2, <2>1, ChangeType
<1>3. ASSUME NEW p \in Panels,
             Change(p, NewRow(w.cluster, w.name, w.expr))
      PROVE  TableType'
  <2>1. NewRow(w.cluster, w.name, w.expr) \in Row
    BY NewRowType DEF Write
  <2> QED
    BY <1>3, <2>1, ChangeType
<1> QED
  BY <1>1, <1>2, <1>3 DEF Apply

LEMMA AnswerType ==
    ASSUME TypeOK, NEW w \in WriteIds, NEW state \in {"done", "failed"}, Answer(w, state)
    PROVE  /\ writes[w] \in Write
           /\ writes' \in [WriteIds -> Write \cup {None}]
<1>1. writes[w] \in Write
  BY DEF TypeOK, Answer
<1>2. [writes[w] EXCEPT !.state = state] \in Write
  BY <1>1 DEF Write
<1> QED
  BY <1>1, <1>2 DEF TypeOK, Answer

\* What saves a panel or deletes it names one.
PanelWrites ==
    \A w \in WriteIds : writes[w] # None /\ writes[w].op # "add" => writes[w].panel \in Panels

TypeInv == TypeOK /\ PanelWrites

LEMMA TypeInit == Init => TypeInv
<1> SUFFICES ASSUME Init PROVE TypeInv
  OBVIOUS
<1>1. TableType
  <2>1. ASSUME NEW p \in Panels, FirstRows[p] # None PROVE FirstRows[p].expr \in Exprs
    BY <2>1, OverviewAssumption DEF Row
  <2>2. \A c \in Clusters : FirstClusters[c].environment \in Environments
    BY OverviewAssumption DEF Cluster
  <2> QED
    BY <2>1, <2>2, OverviewAssumption DEF Init
<1>2. reads \in [Slots -> Read \cup {None}]
  <2>1. Request(First, All, FALSE) \in Read
    BY RequestType, OverviewAssumption DEF Selectable
  <2> QED
    BY <2>1 DEF Init
<1>3. listings \in [Clusters -> Asked \cup {None}]
  BY DEF Init, Asked
<1>4. selections \in 0 .. MaxSelections /\ sent \in 0 .. MaxWrites /\ faults \in 0 .. MaxFaults
  BY OverviewAssumption DEF Init
<1>5. panels \in Listing
  BY DEF Init, Listing
<1> QED
  BY <1>1, <1>2, <1>3, <1>4, <1>5, OverviewAssumption DEF Init, TypeInv, TypeOK, PanelWrites, Selectable

USE DEF TypeInv
USE DEF table, selection, shown, flags, edits

\* What the users of the page do keeps the types.
LEMMA UserTypes == ASSUME TypeInv, User PROVE TypeInv'
<1> USE DEF PanelWrites
<1>1. ASSUME NEW c \in Clusters, SelectCluster(c) PROVE TypeInv'
  <2>1. reads' \in [Slots -> Read \cup {None}]
    <3>1. CASE Ask(c, All, FALSE)
      BY <3>1, AskType DEF Selectable
    <3>2. CASE AskTwice(c)
      <4>1. Request(c, namespace, FALSE) \in Read /\ Request(c, All, FALSE) \in Read
        BY RequestType DEF TypeOK, Selectable
      <4> QED
        BY <3>2, <4>1 DEF AskTwice, TypeOK
    <3> QED
      BY <1>1, <3>1, <3>2 DEF SelectCluster
  <2>2. listings' \in [Clusters -> Asked \cup {None}]
    BY <1>1 DEF SelectCluster, TypeOK, Asked
  <2>3. panels' \in Listing /\ id' \in Clusters /\ namespace' \in Selectable
    BY <1>1 DEF SelectCluster, Listing, Selectable
  <2>4. Reload
    BY <1>1 DEF SelectCluster
  <2> QED
    BY <1>1, <2>1, <2>2, <2>3, <2>4, ReloadType DEF SelectCluster, TypeOK
<1>2. ASSUME NEW n \in Selectable, SelectNamespace(n) PROVE TypeInv'
  <2>1. reads' \in [Slots -> Read \cup {None}]
    BY <1>2, AskType DEF SelectNamespace, TypeOK
  <2>2. Reload
    BY <1>2 DEF SelectNamespace
  <2> QED
    BY <1>2, <2>1, <2>2, ReloadType DEF SelectNamespace, TypeOK
<1>3. ASSUME NEW n \in Names, OpenEdit(n) PROVE TypeInv'
  <2>1. card' \in Card
    <3>1. panels[data.cards[n]] \in Exprs \cup {Blank}
      BY <1>3 DEF OpenEdit, TypeOK, Listing
    <3>2. card # None => card.saving \in WriteIds \cup {0} /\ card.deleting \in WriteIds \cup {0}
      BY DEF TypeOK, Card
    <3> QED
      BY <1>3, <3>1, <3>2 DEF OpenEdit, Card
  <2> QED
    BY <1>3, <2>1 DEF OpenEdit, TypeOK
<1>4. ASSUME NEW n \in Names, Save(n) PROVE TypeInv'
  <2>1. PICK e \in {card.expr, NewText(sent + 1)} \ {Blank} : Send("save", data.cards[card.name], n, e)
    BY <1>4 DEF Save
  <2>2. card \in Card /\ card.expr \in Exprs \cup {Blank}
    BY <1>4 DEF Save, Editing, TypeOK, Card
  <2>3. e \in Exprs
    BY <2>1, <2>2, NewTextType DEF Send, TypeOK
  <2>4. data.cards[card.name] \in Panels
    BY <1>4 DEF Save, Editing
  <2>5. /\ writes' \in [WriteIds -> Write \cup {None}]
        /\ sent' \in 0 .. MaxWrites /\ sent + 1 \in WriteIds
    BY <2>1, <2>3, <2>4, SendType
  <2>6. card' \in Card
    BY <1>4, <2>2, <2>5 DEF Save, Card
  <2>7. PanelWrites'
    BY <2>1, <2>4, <2>5 DEF Send, TypeOK
  <2> QED
    BY <1>4, <2>1, <2>5, <2>6, <2>7 DEF Save, Send, TypeOK
<1>5. ASSUME NEW n \in Names, AddSave(n) PROVE TypeInv'
  <2>1. Send("add", NoPanel, n, NewText(sent + 1))
    BY <1>5 DEF AddSave
  <2>2. NewText(sent + 1) \in Exprs
    BY <2>1, NewTextType DEF Send, TypeOK
  <2>3. /\ writes' \in [WriteIds -> Write \cup {None}]
        /\ sent' \in 0 .. MaxWrites /\ sent + 1 \in WriteIds
    BY <2>1, <2>2, SendType
  <2>4. PanelWrites'
    BY <2>1, <2>3 DEF Send, TypeOK
  <2> QED
    BY <1>5, <2>1, <2>3, <2>4 DEF AddSave, Send, TypeOK
<1>6. ASSUME CancelEdit PROVE TypeInv'
  <2>1. [card EXCEPT !.open = FALSE] \in Card
    BY <1>6 DEF CancelEdit, TypeOK, Card
  <2>2. card' \in Card \cup {None}
    BY <1>6, <2>1, KeptType DEF CancelEdit
  <2> QED
    BY <1>6, <2>2 DEF CancelEdit, TypeOK
<1>7. ASSUME Delete PROVE TypeInv'
  <2>1. Send("delete", data.cards[card.name], card.name, NewText(sent + 1))
    BY <1>7 DEF Delete
  <2>2. card \in Card /\ card.name \in Names
    BY <1>7 DEF Delete, Editing, TypeOK, Card
  <2>3. NewText(sent + 1) \in Exprs
    BY <2>1, NewTextType DEF Send, TypeOK
  <2>4. data.cards[card.name] \in Panels
    BY <1>7 DEF Delete, Editing
  <2>5. /\ writes' \in [WriteIds -> Write \cup {None}]
        /\ sent' \in 0 .. MaxWrites /\ sent + 1 \in WriteIds
    BY <2>1, <2>2, <2>3, <2>4, SendType
  <2>6. card' \in Card
    BY <1>7, <2>2, <2>5 DEF Delete, Card
  <2>7. PanelWrites'
    BY <2>1, <2>4, <2>5 DEF Send, TypeOK
  <2> QED
    BY <1>7, <2>1, <2>5, <2>6, <2>7 DEF Delete, Send, TypeOK
<1>8. ASSUME ToggleForm PROVE TypeInv'
  BY <1>8 DEF ToggleForm, TypeOK
<1> QED
  BY <1>1, <1>2, <1>3, <1>4, <1>5, <1>6, <1>7, <1>8 DEF User

\* So do the requests for metrics and for lists.
LEMMA ReadTypes ==
    ASSUME TypeInv,
           \/ Poll
           \/ \E s \in Slots : Metrics(s) \/ FailMetrics(s)
           \/ \E c \in Clusters : List(c) \/ FailListing(c)
    PROVE  TypeInv'
<1> USE DEF PanelWrites
<1>1. CASE Poll
  BY <1>1, AskType DEF Poll, TypeOK
<1>2. ASSUME NEW s \in Slots, ServeMetrics(s) PROVE TypeInv'
  <2>1. reads[s] \in Read /\ reads[s].cluster \in Clusters
    BY <1>2 DEF ServeMetrics, Idle, TypeOK, Read
  <2>2. PICK cards \in Cards : reads' = [reads EXCEPT ![s].cards = cards]
                               /\ Answered(reads[s].cluster, cards)
    BY <1>2 DEF ServeMetrics
  <2>3. [reads[s] EXCEPT !.cards = cards] \in Read
    BY <2>1 DEF Read
  <2>4. reads' \in [Slots -> Read \cup {None}]
    BY <2>2, <2>3 DEF TypeOK
  <2>5. faults' \in 0 .. MaxFaults
    BY <2>2, FaultType DEF Answered, TypeOK
  <2> QED
    BY <1>2, <2>4, <2>5 DEF ServeMetrics, TypeOK
<1>3. ASSUME NEW s \in Slots, ReceiveMetrics(s) PROVE TypeInv'
  <2>1. reads[s] \in Read
    BY <1>3 DEF ReceiveMetrics, Idle, TypeOK
  <2>2. /\ reads[s].cluster \in Clusters /\ reads[s].namespace \in Selectable
        /\ reads[s].cards \in Cards
    BY <1>3, <2>1 DEF ReceiveMetrics, Read
  <2>3. data' \in Data /\ card' \in Card \cup {None} /\ late' \in BOOLEAN
    BY <1>3, <2>2, ShowType DEF ReceiveMetrics
  <2> QED
    BY <1>3, <2>1, <2>3 DEF ReceiveMetrics, TypeOK, Read
<1>4. ASSUME NEW s \in Slots, FailMetrics(s) PROVE TypeInv'
  <2>1. faults' \in 0 .. MaxFaults
    BY <1>4, FaultType DEF FailMetrics
  <2> QED
    BY <1>4, <2>1 DEF FailMetrics, TypeOK
<1>5. ASSUME NEW c \in Clusters, ServeListing(c) PROVE TypeInv'
  <2>1. [listings[c] EXCEPT !.list = ListOf(c)] \in Asked
    BY <1>5, ListType DEF ServeListing, TypeOK, Asked
  <2> QED
    BY <1>5, <2>1 DEF ServeListing, TypeOK
<1>6. ASSUME NEW c \in Clusters, ReceiveListing(c) PROVE TypeInv'
  <2>1. panels' \in Listing
    BY <1>6 DEF ReceiveListing, TypeOK, Asked
  <2> QED
    BY <1>6, <2>1 DEF ReceiveListing, TypeOK
<1>7. ASSUME NEW c \in Clusters, FailListing(c) PROVE TypeInv'
  BY <1>7, FaultType DEF FailListing, TypeOK
<1> QED
  BY <1>1, <1>2, <1>3, <1>4, <1>5, <1>6, <1>7 DEF Metrics, List

LEMMA ReturnedType ==
    ASSUME TypeInv, NEW w \in WriteIds, NEW op, Returned(w, op)
    PROVE  writes[w] \in Write
BY DEF Returned, TypeOK

\* So do the answers to writes.
LEMMA WriteTypes == ASSUME TypeInv, NEW w \in WriteIds, Writing(w) PROVE TypeInv'
<1> USE DEF PanelWrites
<1>1. CASE ServeWrite(w)
  <2>1. PICK state \in {"done", "failed"} : Answer(w, state)
    BY <1>1 DEF ServeWrite
  <2>2. writes[w] \in Write /\ writes' \in [WriteIds -> Write \cup {None}]
    BY <2>1, AnswerType
  <2>3. TableType'
    <3>1. writes[w].op # "add" => writes[w].panel \in Panels
      BY <2>1 DEF Answer
    <3> QED
      BY <1>1, <2>2, <3>1, ApplyType DEF ServeWrite, TypeOK
  <2>4. PanelWrites'
    BY <2>1, <2>2 DEF Answer, TypeOK
  <2> QED
    BY <1>1, <2>1, <2>2, <2>3, <2>4 DEF ServeWrite, Answer, TypeOK
<1>2. CASE ReceiveSaved(w)
  <2>1. writes[w] \in Write
    BY <1>2, ReturnedType DEF ReceiveSaved
  <2>2. panels' \in Listing
    BY <1>2, <2>1 DEF ReceiveSaved, PanelSaved, TypeOK, Listing, Write
  <2>3. card' \in Card \cup {None}
    <3>1. CASE card # None /\ card.saving = w
      <4>1. [card EXCEPT !.saving = 0, !.open = @ /\ writes[w].state = "failed"] \in Card
        BY <3>1 DEF TypeOK, Card
      <4> QED
        BY <1>2, <3>1, <4>1, KeptType DEF ReceiveSaved
    <3> QED
      BY <1>2, <3>1 DEF ReceiveSaved, TypeOK
  <2>4. writes' \in [WriteIds -> Write \cup {None}]
    BY <1>2 DEF ReceiveSaved, TypeOK
  <2>5. PanelWrites'
    BY <1>2 DEF ReceiveSaved, TypeOK
  <2> QED
    BY <1>2, <2>2, <2>3, <2>4, <2>5 DEF ReceiveSaved, TypeOK
<1>3. CASE ReceiveDeleted(w)
  <2>1. writes[w] \in Write
    BY <1>3, ReturnedType DEF ReceiveDeleted
  <2>2. card' \in Card \cup {None}
    <3>1. CASE card # None /\ card.deleting = w
      <4>1. [card EXCEPT !.deleting = 0] \in Card
        BY <3>1 DEF TypeOK, Card
      <4> QED
        BY <1>3, <3>1, <4>1, KeptType DEF ReceiveDeleted
    <3> QED
      BY <1>3, <3>1 DEF ReceiveDeleted, TypeOK
  <2>3. panels' \in Listing /\ reads' \in [Slots -> Read \cup {None}]
    <3>1. CASE Ask(writes[w].cluster, writes[w].namespace, TRUE) /\
               panels' = [panels EXCEPT ![writes[w].panel] = Blank]
      <4>1. writes[w].cluster \in Clusters /\ writes[w].namespace \in Selectable
        BY <2>1 DEF Write
      <4>2. reads' \in [Slots -> Read \cup {None}]
        BY <3>1, <4>1, AskType
      <4> QED
        BY <3>1, <4>2 DEF TypeOK, Listing
    <3> QED
      BY <1>3, <3>1 DEF ReceiveDeleted, TypeOK
  <2>4. writes' \in [WriteIds -> Write \cup {None}] /\ PanelWrites'
    BY <1>3 DEF ReceiveDeleted, TypeOK
  <2> QED
    BY <1>3, <2>2, <2>3, <2>4 DEF ReceiveDeleted, TypeOK
<1>4. CASE ReceiveAdded(w)
  <2>1. writes[w] \in Write
    BY <1>4, ReturnedType DEF ReceiveAdded
  <2>2. refresh' \in Refresh \cup {None}
    BY <1>4, <2>1 DEF ReceiveAdded, Write, Refresh, TypeOK
  <2>3. form' \in [shown : BOOLEAN, saving : BOOLEAN]
    BY <1>4 DEF ReceiveAdded, TypeOK
  <2>4. writes' \in [WriteIds -> Write \cup {None}] /\ PanelWrites'
    BY <1>4 DEF ReceiveAdded, TypeOK
  <2> QED
    BY <1>4, <2>2, <2>3, <2>4 DEF ReceiveAdded, TypeOK
<1> QED
  BY <1>1, <1>2, <1>3, <1>4 DEF Writing

Stays(p, row) == rows[p] # None => row.environment = rows[p].environment

\* Another user leaves a panel in its environment, or adds one.
LEMMA ElsewhereRow ==
    ASSUME TypeOK, NEW p \in Panels, WriteElsewhere(p)
    PROVE  \E row \in Row : Change(p, row) /\ Stays(p, row)
<1>1. NewText(sent + 1) \in Exprs
  BY NewTextType, Zenon DEF WriteElsewhere, TypeOK
<1>2. ASSUME Live(p)
      PROVE  /\ [rows[p] EXCEPT !.live = FALSE] \in Row
             /\ [rows[p] EXCEPT !.live = FALSE].environment = rows[p].environment
             /\ \A n \in Names :
                   /\ [rows[p] EXCEPT !.name = n, !.expr = NewText(sent + 1)] \in Row
                   /\ [rows[p] EXCEPT !.name = n, !.expr = NewText(sent + 1)].environment
                        = rows[p].environment
  <2>1. rows[p] \in Row
    BY <1>2 DEF Live, TypeOK
  <2> QED
    BY <1>1, <2>1 DEF Row
<1>3. \A c \in Clusters, n \in Names : NewRow(c, n, NewText(sent + 1)) \in Row
  BY <1>1, NewRowType
<1>4. CASE Live(p) /\ \E n \in Names : Change(p, [rows[p] EXCEPT !.name = n, !.expr = NewText(sent + 1)])
  BY <1>2, <1>4 DEF Stays
<1>5. CASE Live(p) /\ Change(p, [rows[p] EXCEPT !.live = FALSE])
  BY <1>2, <1>5 DEF Stays
<1>6. CASE IsNextId(p) /\ \E c \in Clusters, n \in Names : Change(p, NewRow(c, n, NewText(sent + 1)))
  BY <1>3, <1>6 DEF IsNextId, Stays
<1> QED
  BY <1>4, <1>5, <1>6 DEF WriteElsewhere

\* So do the reads after a panel was added, what is lost, and other users.
LEMMA OtherTypes ==
    ASSUME TypeInv,
           \/ Refreshing \/ FailRefresh
           \/ \E w \in WriteIds : LoseWrite(w)
           \/ Elsewhere
    PROVE  TypeInv'
<1> USE DEF PanelWrites
<1>1. CASE ServeRefresh
  <2>1. refresh \in Refresh /\ refresh.cluster \in Clusters
    BY <1>1 DEF ServeRefresh, TypeOK, Refresh
  <2>2. CASE refresh' = [refresh EXCEPT !.list = ListOf(refresh.cluster)] /\ UNCHANGED faults
    <3>1. refresh' \in Refresh
      BY <2>1, <2>2, ListType DEF Refresh
    <3> QED
      BY <1>1, <2>2, <3>1 DEF ServeRefresh, TypeOK
  <2>3. ASSUME NEW cards \in Cards, Answered(refresh.cluster, cards),
               refresh' = [refresh EXCEPT !.cards = cards]
        PROVE  TypeInv'
    <3>1. refresh' \in Refresh
      BY <2>1, <2>3 DEF Refresh
    <3>2. faults' \in 0 .. MaxFaults
      BY <2>3, FaultType DEF Answered, TypeOK
    <3> QED
      BY <1>1, <3>1, <3>2 DEF ServeRefresh, TypeOK
  <2> QED
    BY <1>1, <2>2, <2>3 DEF ServeRefresh
<1>2. CASE ReceiveRefresh
  <2>1. /\ refresh.cluster \in Clusters /\ refresh.namespace \in Selectable
        /\ refresh.cards \in Cards /\ refresh.list \in Listing
    BY <1>2 DEF ReceiveRefresh, TypeOK, Refresh
  <2>2. data' \in Data /\ card' \in Card \cup {None} /\ late' \in BOOLEAN
    BY <1>2, <2>1, ShowType DEF ReceiveRefresh
  <2>3. panels' \in Listing /\ refresh' = None /\ form' \in [shown : BOOLEAN, saving : BOOLEAN]
    BY <1>2, <2>1 DEF ReceiveRefresh, TypeOK
  <2> QED
    BY <1>2, <2>2, <2>3 DEF ReceiveRefresh, TypeOK
<1>3. CASE FailRefresh
  BY <1>3, FaultType DEF FailRefresh, TypeOK
<1>4. ASSUME NEW w \in WriteIds, LoseWrite(w) PROVE TypeInv'
  <2>1. Answer(w, "failed")
    BY <1>4 DEF LoseWrite
  <2>2. writes[w] \in Write /\ writes' \in [WriteIds -> Write \cup {None}]
    BY <2>1, AnswerType
  <2>3. TableType'
    <3>1. writes[w].op # "add" => writes[w].panel \in Panels
      BY <2>1 DEF Answer
    <3> QED
      BY <1>4, <2>2, <3>1, ApplyType DEF LoseWrite, TypeOK
  <2>4. PanelWrites'
    BY <2>1, <2>2 DEF Answer, TypeOK
  <2>5. faults' \in 0 .. MaxFaults
    BY <1>4, FaultType DEF LoseWrite
  <2>6. UNCHANGED <<selection, shown, flags, panels, edits, reads, listings, refresh, sent>>
    BY <2>1 DEF Answer
  <2>7. TypeOK'
    BY <2>2, <2>3, <2>5, <2>6 DEF TypeOK
  <2> QED
    BY <2>4, <2>7
<1>5. ASSUME NEW p \in Panels, WriteElsewhere(p) PROVE TypeInv'
  <2>1. NewText(sent + 1) \in Exprs /\ sent' \in 0 .. MaxWrites
    <3>1. sent \in 0 .. MaxWrites /\ sent < MaxWrites /\ sent' = sent + 1
      BY <1>5, Zenon DEF WriteElsewhere, TypeOK
    <3> QED
      BY <3>1, NewTextType, OverviewAssumption
  <2>2. PICK row \in Row : Change(p, row)
    BY <1>5, <2>1, ElsewhereRow
  <2>3. TableType'
    BY <2>2, ChangeType
  <2> QED
    BY <1>5, <2>1, <2>3 DEF WriteElsewhere, TypeOK
<1>6. ASSUME NEW c \in Clusters, UpdateCluster(c) PROVE TypeInv'
  <2>1. PICK cluster \in Cluster :
          /\ clusters' = [clusters EXCEPT ![c] = cluster]
          /\ placed' = [placed EXCEPT ![c] = @ \cup {cluster.environment}]
    BY <1>6 DEF UpdateCluster
  <2>2. cluster.environment \in Environments
    BY DEF Cluster
  <2>3. sent' \in 0 .. MaxWrites
    BY <1>6, OverviewAssumption DEF UpdateCluster, TypeOK
  <2>4. TableType'
    BY <1>6, <2>1, <2>2 DEF UpdateCluster, TypeOK
  <2> QED
    BY <1>6, <2>3, <2>4 DEF UpdateCluster, TypeOK
<1> QED
  BY <1>1, <1>2, <1>3, <1>4, <1>5, <1>6 DEF Refreshing, Elsewhere

LEMMA TypeStutters == TypeInv /\ UNCHANGED vars => TypeInv'
BY DEF TypeOK, PanelWrites, vars

\* The state of the page, its requests and the rows stay within their types,
\* whatever is answered when.
THEOREM TypeCorrect == Spec => [](TypeOK /\ PanelWrites)
<1>1. TypeInv /\ [Next]_vars => TypeInv'
  BY UserTypes, ReadTypes, WriteTypes, OtherTypes, TypeStutters DEF Next, Failure
<1> QED
  BY TypeInit, <1>1, PTL DEF Spec

-----------------------------------------------------------------------------
(* One panel is added at a time.                                            *)

Adding(w) == writes[w] # None /\ writes[w].op = "add"

OneAdd ==
    /\ \A v, w \in WriteIds : Adding(v) /\ Adding(w) => v = w
    /\ \A w \in WriteIds : Adding(w) => form.saving /\ refresh = None
    /\ refresh # None => form.saving

\* The form is disabled from the click until both reads after it are answered.
LEMMA AddsAreSingle == Spec => []OneAdd
<1> USE DEF OneAdd, Adding
<1>1. Init => OneAdd
  BY DEF Init
<1>2. TypeInv /\ OneAdd /\ [Next]_vars => OneAdd'
  <2> SUFFICES ASSUME TypeOK, OneAdd, [Next]_vars PROVE OneAdd'
    OBVIOUS
  <2>1. CASE UNCHANGED <<writes, form, refresh>>
    BY <2>1
  <2>2. ASSUME NEW op \in {"save", "delete"}, NEW p, NEW n, NEW e, Send(op, p, n, e), UNCHANGED form
        PROVE  OneAdd'
    BY <2>2 DEF Send, TypeOK
  <2>3. ASSUME NEW n \in Names, AddSave(n) PROVE OneAdd'
    BY <2>3 DEF AddSave, CanAdd, Send, TypeOK
  <2>4. CASE ToggleForm
    BY <2>4 DEF ToggleForm, TypeOK
  <2>5. ASSUME NEW w \in WriteIds, NEW state, Answer(w, state) PROVE OneAdd'
    <3>1. writes[w] \in Write
      BY <2>5 DEF Answer, TypeOK
    <3>2. \A v \in WriteIds : Adding(v)' => Adding(v)
      BY <2>5, <3>1 DEF Answer, TypeOK, Write
    <3> QED
      BY <2>5, <3>2 DEF Answer
  <2>6. ASSUME NEW w \in WriteIds, ReceiveSaved(w) \/ ReceiveDeleted(w) PROVE OneAdd'
    BY <2>6 DEF ReceiveSaved, ReceiveDeleted, TypeOK
  <2>7. ASSUME NEW w \in WriteIds, ReceiveAdded(w) PROVE OneAdd'
    BY <2>7 DEF ReceiveAdded, Returned, TypeOK
  <2>8. CASE ServeRefresh
    BY <2>8 DEF ServeRefresh, TypeOK, Refresh
  <2>9. CASE ReceiveRefresh \/ FailRefresh
    BY <2>9 DEF ReceiveRefresh, FailRefresh, TypeOK
  <2>10. CASE User
    BY <2>10, <2>1, <2>2, <2>3, <2>4
       DEF User, SelectCluster, SelectNamespace, OpenEdit, CancelEdit, Save, Delete
  <2>11. CASE Poll \/ Failure \/ Elsewhere
    BY <2>11, <2>1, <2>5, <2>9
       DEF Poll, Failure, FailMetrics, FailListing, LoseWrite, Elsewhere, WriteElsewhere, UpdateCluster
  <2>12. ASSUME NEW s \in Slots, Metrics(s) PROVE OneAdd'
    BY <2>12, <2>1 DEF Metrics, ServeMetrics, ReceiveMetrics
  <2>13. ASSUME NEW c \in Clusters, List(c) PROVE OneAdd'
    BY <2>13, <2>1 DEF List, ServeListing, ReceiveListing
  <2>14. ASSUME NEW w \in WriteIds, Writing(w) PROVE OneAdd'
    BY <2>14, <2>5, <2>6, <2>7 DEF Writing, ServeWrite
  <2>15. CASE UNCHANGED vars
    BY <2>1, <2>15 DEF vars
  <2> QED
    BY <2>8, <2>9, <2>10, <2>11, <2>12, <2>13, <2>14, <2>15 DEF Next, Refreshing
<1> QED
  BY <1>1, <1>2, TypeCorrect, PTL DEF Spec

-----------------------------------------------------------------------------
(* The page implements Feed.                                                *)

LEMMA KeyType ==
    ASSUME NEW r, r.cluster \in Clusters, r.namespace \in Selectable PROVE Key(r) \in Selections
BY DEF Key, Selections

LEMMA NoneIsNoFeedRequest ==
    ASSUME NEW k \in Selections, NEW q \in BOOLEAN PROVE [key |-> k, quiet |-> q] # None
BY OverviewAssumption

LEMMA NoneIsNoRead == ASSUME NEW r \in Read PROVE r # None
BY OverviewAssumption

\* What changes among the requests of the Feed when one of the page changes.
LEMMA OneRead ==
    ASSUME TypeOK, NEW s \in Slots, NEW x \in Read \cup {None},
           reads' = [reads EXCEPT ![s] = x], refresh' = refresh
    PROVE  Requested' = [Requested EXCEPT ![s] = Asking(x)]
<1>1. \A r \in Slots : reads'[r] = IF r = s THEN x ELSE reads[r]
  BY DEF TypeOK
<1>2. \A r \in 0 .. MaxReads : r > 0 => r \in Slots
  BY OverviewAssumption DEF Slots
<1>3. s \in 0 .. MaxReads /\ s > 0
  BY OverviewAssumption DEF Slots
<1>4. Requested' = [r \in 0 .. MaxReads |->
         IF r > 0 THEN Asking(reads'[r])
         ELSE IF refresh = None THEN None ELSE [key |-> Key(refresh), quiet |-> TRUE]]
  BY DEF Requested
<1>5. ASSUME NEW r \in 0 .. MaxReads
      PROVE  Requested'[r] = [Requested EXCEPT ![s] = Asking(x)][r]
  <2>1. CASE r = s
    BY <1>1, <1>3, <1>4, <2>1 DEF Requested
  <2>2. CASE r # s /\ r > 0
    BY <1>1, <1>2, <1>4, <2>2 DEF Requested
  <2>3. CASE r # s /\ ~(r > 0)
    BY <1>4, <2>3 DEF Requested
  <2> QED
    BY <2>1, <2>2, <2>3
<1> QED
  BY <1>4, <1>5 DEF Requested

LEMMA SlotIsRequest ==
    ASSUME NEW s \in Slots
    PROVE  s \in 0 .. MaxReads /\ Requested[s] = Asking(reads[s])
BY OverviewAssumption DEF Slots, Requested

LEMMA NoRequestChanges ==
    ASSUME UNCHANGED <<reads, refresh>> PROVE Requested' = Requested
BY DEF Requested

LEMMA AskingSets ==
    ASSUME NEW c, NEW n, NEW q
    PROVE  Asking(Request(c, n, q)) = [key |-> [cluster |-> c, namespace |-> n], quiet |-> q]
           \/ Request(c, n, q) = None
BY DEF Asking, Request, Key

\* A request that goes into a free slot.
LEMMA Asks ==
    ASSUME TypeOK, NEW c \in Clusters, NEW n \in Selectable, NEW q \in BOOLEAN,
           Ask(c, n, q), refresh' = refresh
    PROVE  \E s \in 0 .. MaxReads :
              /\ Requested[s] = None
              /\ Requested' = [Requested EXCEPT ![s] =
                    [key |-> [cluster |-> c, namespace |-> n], quiet |-> q]]
<1>1. PICK s \in Slots : Free(s) /\ reads' = [reads EXCEPT ![s] = Request(c, n, q)]
  BY DEF Ask
<1>2. Request(c, n, q) \in Read /\ Request(c, n, q) # None
  BY RequestType, NoneIsNoRead
<1>3. Requested' = [Requested EXCEPT ![s] = Asking(Request(c, n, q))]
  BY <1>1, <1>2, OneRead
<1>4. Asking(Request(c, n, q)) = [key |-> [cluster |-> c, namespace |-> n], quiet |-> q]
  BY <1>2, AskingSets
<1>5. s \in 0 .. MaxReads /\ Requested[s] = None
  BY <1>1, SlotIsRequest DEF Free, Idle, Asking
<1> QED
  BY <1>3, <1>4, <1>5

LEMMA FeedInit == Init => TheFeed!Init
<1> SUFFICES ASSUME Init PROVE TheFeed!Init
  OBVIOUS
<1>1. Selected \in Selections /\ ShownKey = None
  BY OverviewAssumption DEF Init, Selected, ShownKey, Selections, Selectable
<1>2. Request(First, All, FALSE) # None
  BY RequestType, NoneIsNoRead, OverviewAssumption DEF Selectable
<1>3. Asking(Request(First, All, FALSE)) = [key |-> Selected, quiet |-> FALSE]
  BY <1>2, AskingSets DEF Init, Selected
<1>4. 1 \in 0 .. MaxReads /\ \A q \in 0 .. MaxReads : q > 0 => q \in Slots
  BY OverviewAssumption DEF Slots
<1>5. Requested = [q \in 0 .. MaxReads |->
          IF q = 1 THEN [key |-> Selected, quiet |-> FALSE] ELSE None]
  <2>1. ASSUME NEW q \in 0 .. MaxReads
        PROVE  Requested[q] = IF q = 1 THEN [key |-> Selected, quiet |-> FALSE] ELSE None
    <3>1. CASE q > 0
      <4>1. reads[q] = IF q = 1 THEN Request(First, All, FALSE) ELSE None
        BY <1>4, <3>1 DEF Init
      <4> QED
        BY <1>3, <3>1, <4>1 DEF Requested, Asking
    <3>2. CASE ~(q > 0)
      BY <3>2, OverviewAssumption DEF Requested, Init
    <3> QED
      BY <3>1, <3>2
  <2> QED
    BY <2>1 DEF Requested
<1> QED
  BY <1>1, <1>4, <1>5 DEF TheFeed!Init, Init, Selections

LEMMA FeedStutters ==
    ASSUME UNCHANGED <<id, namespace, data, loading, error, late>>, Requested' = Requested
    PROVE  UNCHANGED TheFeed!vars
BY DEF TheFeed!vars, Selected, ShownKey

\* What Show does is what an answer for the same key does to the Feed.
LEMMA FeedShows ==
    ASSUME NEW c \in Clusters, NEW n \in Selectable, NEW cards \in Cards, Show(c, n, cards),
           UNCHANGED <<id, namespace>>
    PROVE  /\ ShownKey' = [cluster |-> c, namespace |-> n]
           /\ late' = (late \/ [cluster |-> c, namespace |-> n] # Selected)
           /\ Selected' = Selected
<1>1. data' = [cluster |-> c, namespace |-> n, cards |-> cards]
  BY DEF Show
<1>2. data' # None
  <2>1. data' \in Data
    BY <1>1 DEF Data
  <2> QED
    BY <2>1, OverviewAssumption
<1>3. ShownKey' = [cluster |-> c, namespace |-> n]
  BY <1>1, <1>2 DEF ShownKey, Key
<1>4. late' = (late \/ [cluster |-> c, namespace |-> n] # Selected)
  BY DEF Show, Selected
<1> QED
  BY <1>3, <1>4 DEF Selected

\* A selection asks for itself, and may ask for another key.
OneMore ==
    \E r \in 0 .. MaxReads :
        /\ Requested[r] = None
        /\ Requested' = [Requested EXCEPT ![r] = [key |-> Selected', quiet |-> FALSE]]

TwoMore ==
    \E r \in 0 .. MaxReads : \E x \in Selections, q \in 0 .. MaxReads \ {r} :
        /\ Requested[r] = None /\ Requested[q] = None
        /\ Requested' = [Requested EXCEPT ![r] = [key |-> Selected', quiet |-> FALSE],
                                          ![q] = [key |-> x, quiet |-> FALSE]]

LEMMA FeedSelects ==
    ASSUME TypeInv,
           \/ \E c \in Clusters : SelectCluster(c)
           \/ \E n \in Selectable : SelectNamespace(n)
    PROVE  \E k \in Selections : TheFeed!Select(k)
<1> SUFFICES OneMore \/ TwoMore
  <2>1. Selected' \in Selections
    BY UserTypes DEF TypeOK, Selected, Selections, User
  <2>2. Reload /\ ShownKey' = ShownKey
    BY DEF SelectCluster, SelectNamespace, ShownKey
  <2>3. CASE OneMore
    BY <2>1, <2>2, <2>3 DEF TheFeed!Select, TheFeed!Idle, Reload, Selections, OneMore
  <2>4. CASE TwoMore
    <3>1. PICK r \in 0 .. MaxReads, x \in Selections, q \in 0 .. MaxReads :
            /\ q # r /\ Requested[r] = None /\ Requested[q] = None
            /\ Requested' = [Requested EXCEPT ![r] = [key |-> Selected', quiet |-> FALSE],
                                              ![q] = [key |-> x, quiet |-> FALSE]]
      BY <2>4 DEF TwoMore
    <3> QED
      BY <2>1, <2>2, <3>1 DEF TheFeed!Select, TheFeed!Idle, Reload, Selections
  <2> QED
    BY <2>3, <2>4
<1>1. ASSUME NEW n \in Selectable, SelectNamespace(n)
      PROVE  OneMore
  <2>1. Ask(id, n, FALSE) /\ id \in Clusters /\ refresh' = refresh
    BY <1>1 DEF SelectNamespace, TypeOK
  <2>2. Selected' = [cluster |-> id, namespace |-> n]
    BY <1>1 DEF SelectNamespace, Selected
  <2> QED
    BY <2>1, <2>2, Asks DEF OneMore
<1>2. ASSUME NEW c \in Clusters, SelectCluster(c), Ask(c, All, FALSE)
      PROVE  OneMore
  <2>1. Selected' = [cluster |-> c, namespace |-> All] /\ refresh' = refresh
    BY <1>2 DEF SelectCluster, Selected
  <2>2. All \in Selectable /\ FALSE \in BOOLEAN
    BY DEF Selectable
  <2>3. \E s \in 0 .. MaxReads :
           /\ Requested[s] = None
           /\ Requested' = [Requested EXCEPT ![s] =
                 [key |-> [cluster |-> c, namespace |-> All], quiet |-> FALSE]]
    BY <1>2, <2>1, <2>2, Asks
  <2> QED
    BY <2>1, <2>3 DEF OneMore
<1>3. ASSUME NEW c \in Clusters, SelectCluster(c), AskTwice(c)
      PROVE  TwoMore
  <2>1. PICK s, t \in Slots :
          /\ Free(s) /\ Idle(t) /\ s # t
          /\ reads' = [reads EXCEPT ![s] = Request(c, namespace, FALSE),
                                    ![t] = Request(c, All, FALSE)]
    BY <1>3 DEF AskTwice
  <2>2. /\ Asking(Request(c, namespace, FALSE)) =
              [key |-> [cluster |-> c, namespace |-> namespace], quiet |-> FALSE]
        /\ Asking(Request(c, All, FALSE)) = [key |-> Selected', quiet |-> FALSE]
    <3>1. namespace \in Selectable /\ All \in Selectable
      BY DEF TypeOK, Selectable
    <3>2. Request(c, namespace, FALSE) # None /\ Request(c, All, FALSE) # None
      BY <3>1, RequestType, NoneIsNoRead
    <3>3. Selected' = [cluster |-> c, namespace |-> All]
      BY <1>3 DEF SelectCluster, Selected
    <3> QED
      BY <3>2, <3>3, AskingSets
  <2>3. /\ s \in 0 .. MaxReads /\ t \in 0 .. MaxReads \ {s}
        /\ Requested[s] = None /\ Requested[t] = None
    BY <2>1, SlotIsRequest DEF Free, Idle, Asking
  <2>4. Requested' = [Requested EXCEPT ![t] = Asking(Request(c, All, FALSE)),
                                       ![s] = Asking(Request(c, namespace, FALSE))]
    <3>1. \A r \in Slots : reads'[r] = IF r = s THEN Request(c, namespace, FALSE)
                                       ELSE IF r = t THEN Request(c, All, FALSE) ELSE reads[r]
      BY <2>1 DEF TypeOK
    <3>2. \A r \in 0 .. MaxReads : r > 0 => r \in Slots
      BY OverviewAssumption DEF Slots
    <3>3. s > 0 /\ t > 0 /\ refresh' = refresh
      BY <1>3, OverviewAssumption DEF SelectCluster, Slots
    <3>4. Requested' = [r \in 0 .. MaxReads |->
             IF r > 0 THEN Asking(reads'[r])
             ELSE IF refresh = None THEN None ELSE [key |-> Key(refresh), quiet |-> TRUE]]
      BY <3>3 DEF Requested
    <3>5. ASSUME NEW r \in 0 .. MaxReads
          PROVE  Requested'[r] = [Requested EXCEPT ![t] = Asking(Request(c, All, FALSE)),
                                  ![s] = Asking(Request(c, namespace, FALSE))][r]
      <4>1. CASE r = s \/ r = t
        BY <2>1, <2>3, <3>1, <3>3, <3>4, <4>1 DEF Requested
      <4>2. CASE r # s /\ r # t /\ r > 0
        BY <3>1, <3>2, <3>4, <4>2 DEF Requested
      <4>3. CASE r # s /\ r # t /\ ~(r > 0)
        BY <3>4, <4>3 DEF Requested
      <4> QED
        BY <4>1, <4>2, <4>3
    <3> QED
      BY <3>4, <3>5 DEF Requested
  <2>5. [cluster |-> c, namespace |-> namespace] \in Selections
    BY DEF TypeOK, Selections
  <2>6. s \in 0 .. MaxReads \ {t} /\ t \in 0 .. MaxReads
    BY <2>3
  <2> QED
    BY <2>2, <2>3, <2>4, <2>5, <2>6 DEF TwoMore
<1> QED
  BY <1>1, <1>2, <1>3 DEF SelectCluster

\* The reads after an added panel are the quiet request number 0.
LEMMA RefreshIsRequest ==
    /\ 0 \in 0 .. MaxReads
    /\ Requested[0] = IF refresh = None THEN None ELSE [key |-> Key(refresh), quiet |-> TRUE]
BY OverviewAssumption DEF Requested

LEMMA OneRefresh ==
    ASSUME UNCHANGED reads
    PROVE  Requested' = [Requested EXCEPT ![0] =
              IF refresh' = None THEN None ELSE [key |-> Key(refresh'), quiet |-> TRUE]]
<1>1. Requested' = [r \in 0 .. MaxReads |->
         IF r > 0 THEN Asking(reads[r])
         ELSE IF refresh' = None THEN None ELSE [key |-> Key(refresh'), quiet |-> TRUE]]
  BY DEF Requested
<1>2. ASSUME NEW r \in 0 .. MaxReads
      PROVE  Requested'[r] = [Requested EXCEPT ![0] =
                IF refresh' = None THEN None ELSE [key |-> Key(refresh'), quiet |-> TRUE]][r]
  BY <1>1 DEF Requested
<1> QED
  BY <1>1, <1>2 DEF Requested

\* Requests of the page and their answers are requests of the Feed.
LEMMA FeedReads ==
    ASSUME TypeOK, NEW s \in Slots, Metrics(s) \/ FailMetrics(s)
    PROVE  [TheFeed!Next]_(TheFeed!vars)
<1>1. reads[s] \in Read /\ reads[s] # None
  BY DEF Metrics, ServeMetrics, ReceiveMetrics, FailMetrics, Idle, TypeOK
<1>2. s \in 0 .. MaxReads /\ Requested[s] = [key |-> Key(reads[s]), quiet |-> reads[s].quiet]
  BY <1>1, SlotIsRequest DEF Asking
<1>0. Requested[s] # None
  <2>1. Key(reads[s]) \in Selections /\ reads[s].quiet \in BOOLEAN
    BY <1>1, KeyType DEF Read
  <2> QED
    BY <1>2, <2>1, NoneIsNoFeedRequest
<1>3. CASE ServeMetrics(s)
  <2>1. PICK cards \in Cards : reads' = [reads EXCEPT ![s].cards = cards]
    BY <1>3 DEF ServeMetrics
  <2> DEFINE x == [reads[s] EXCEPT !.cards = cards]
  <2>2. x \in Read /\ Asking(x) = Requested[s]
    <3>1. x \in Read
      BY <1>1 DEF Read
    <3>2. Key(x) = Key(reads[s]) /\ x.quiet = reads[s].quiet
      BY <1>1 DEF Read, Key
    <3> QED
      BY <1>2, <3>1, <3>2, NoneIsNoRead DEF Asking
  <2>3. reads' = [reads EXCEPT ![s] = x]
    BY <2>1 DEF TypeOK
  <2>4. Requested' = [Requested EXCEPT ![s] = Asking(x)]
    <3> HIDE DEF x
    <3> QED
      BY <1>3, <2>2, <2>3, OneRead DEF ServeMetrics
  <2>5. Requested' = Requested
    BY <2>2, <2>4 DEF Requested
  <2> QED
    BY <1>3, <2>5, FeedStutters DEF ServeMetrics
<1>4. ASSUME ReceiveMetrics(s) \/ FailMetrics(s)
      PROVE  Requested' = [Requested EXCEPT ![s] = None]
  BY <1>4, OneRead DEF ReceiveMetrics, FailMetrics, Asking
<1>5. CASE ReceiveMetrics(s)
  <2>1. /\ reads[s].cluster \in Clusters /\ reads[s].namespace \in Selectable
        /\ reads[s].cards \in Cards /\ reads[s].quiet \in BOOLEAN
    BY <1>1, <1>5 DEF Read, ReceiveMetrics
  <2>2. Show(reads[s].cluster, reads[s].namespace, reads[s].cards) /\ UNCHANGED <<id, namespace>>
    BY <1>5 DEF ReceiveMetrics
  <2>3. /\ ShownKey' = Key(reads[s])
        /\ late' = (late \/ Key(reads[s]) # Selected)
        /\ Selected' = Selected
    BY <2>1, <2>2, FeedShows DEF Key
  <2>4. TheFeed!Answer(s)
    BY <1>1, <1>2, <1>0, <1>4, <1>5, <2>3 DEF ReceiveMetrics, TheFeed!Answer, TheFeed!Idle
  <2> QED
    BY <1>2, <2>4 DEF TheFeed!Next
<1>6. CASE FailMetrics(s)
  <2>1. TheFeed!Fail(s)
    BY <1>1, <1>2, <1>0, <1>4, <1>6 DEF FailMetrics, TheFeed!Fail, TheFeed!Idle, Selected, ShownKey
  <2> QED
    BY <1>2, <2>1 DEF TheFeed!Next
<1> QED
  BY <1>3, <1>5, <1>6 DEF Metrics

LEMMA FeedWrites ==
    ASSUME TypeInv, OneAdd, NEW w \in WriteIds, Writing(w)
    PROVE  [TheFeed!Next]_(TheFeed!vars)
<1>1. CASE ServeWrite(w) \/ ReceiveSaved(w)
  <2>1. UNCHANGED <<id, namespace, data, loading, error, late, reads, refresh>>
    BY <1>1 DEF ServeWrite, Answer, ReceiveSaved
  <2> QED
    BY <2>1, NoRequestChanges, FeedStutters
<1>2. CASE ReceiveDeleted(w)
  <2>1. UNCHANGED <<id, namespace, data, loading, error, late, refresh>>
    BY <1>2 DEF ReceiveDeleted
  <2>2. CASE UNCHANGED reads
    BY <2>1, <2>2, NoRequestChanges, FeedStutters
  <2>3. CASE Ask(writes[w].cluster, writes[w].namespace, TRUE)
    <3>1. writes[w].cluster \in Clusters /\ writes[w].namespace \in Selectable
      BY <1>2 DEF ReceiveDeleted, Returned, TypeOK, Write
    <3> DEFINE k == [cluster |-> writes[w].cluster, namespace |-> writes[w].namespace]
    <3>2. k \in Selections
      BY <3>1 DEF Selections
    <3>3. PICK s \in 0 .. MaxReads :
            /\ Requested[s] = None
            /\ Requested' = [Requested EXCEPT ![s] = [key |-> k, quiet |-> TRUE]]
      BY <2>1, <2>3, <3>1, Asks
    <3>4. TheFeed!AskQuietly(s, k)
      BY <2>1, <3>3 DEF TheFeed!AskQuietly, TheFeed!Idle, Selected, ShownKey
    <3> QED
      BY <3>2, <3>4 DEF TheFeed!Next
  <2> QED
    BY <1>2, <2>2, <2>3 DEF ReceiveDeleted
<1>3. CASE ReceiveAdded(w)
  <2>1. UNCHANGED <<id, namespace, data, loading, error, late, reads>>
    BY <1>3 DEF ReceiveAdded
  <2>2. CASE UNCHANGED refresh
    BY <2>1, <2>2, NoRequestChanges, FeedStutters
  <2>3. CASE refresh' = [cluster |-> writes[w].cluster, namespace |-> writes[w].namespace,
                         list |-> None, cards |-> None]
    <3>1. writes[w].cluster \in Clusters /\ writes[w].namespace \in Selectable
      BY <1>3 DEF ReceiveAdded, Returned, TypeOK, Write
    <3> DEFINE k == [cluster |-> writes[w].cluster, namespace |-> writes[w].namespace]
    <3>2. k \in Selections /\ k = Key(refresh')
      BY <2>3, <3>1 DEF Selections, Key
    <3>3. refresh' # None
      BY <2>3, <3>1, OverviewAssumption DEF Refresh
    <3>4. refresh = None
      BY <1>3 DEF OneAdd, Adding, ReceiveAdded, Returned
    <3>5. Requested' = [Requested EXCEPT ![0] = [key |-> k, quiet |-> TRUE]]
      BY <2>1, <3>2, <3>3, OneRefresh
    <3>6. TheFeed!AskQuietly(0, k)
      BY <2>1, <3>4, <3>5, RefreshIsRequest DEF TheFeed!AskQuietly, TheFeed!Idle, Selected, ShownKey
    <3> QED
      BY <3>2, <3>6, RefreshIsRequest DEF TheFeed!Next
  <2> QED
    BY <1>3, <2>2, <2>3 DEF ReceiveAdded
<1> QED
  BY <1>1, <1>2, <1>3 DEF Writing

LEMMA FeedRefreshes ==
    ASSUME TypeOK, Refreshing \/ FailRefresh
    PROVE  [TheFeed!Next]_(TheFeed!vars)
<1>1. refresh \in Refresh /\ refresh # None
  BY DEF Refreshing, ServeRefresh, ReceiveRefresh, FailRefresh, TypeOK
<1>2. Requested[0] = [key |-> Key(refresh), quiet |-> TRUE] /\ Key(refresh) \in Selections
  BY <1>1, RefreshIsRequest, KeyType DEF Refresh
<1>3. Requested[0] # None
  BY <1>2, NoneIsNoFeedRequest
<1>4. CASE ServeRefresh
  <2>1. refresh' \in Refresh /\ refresh' # None /\ Key(refresh') = Key(refresh)
    <3>1. ListOf(refresh.cluster) \in Listing
      BY <1>1, ListType DEF Refresh
    <3>2. refresh' \in Refresh /\ Key(refresh') = Key(refresh)
      BY <1>1, <1>4, <3>1 DEF ServeRefresh, Refresh, Key
    <3> QED
      BY <3>2, OverviewAssumption
  <2>2. Requested' = [Requested EXCEPT ![0] = [key |-> Key(refresh), quiet |-> TRUE]]
    BY <1>4, <2>1, OneRefresh DEF ServeRefresh
  <2>3. Requested' = Requested
    BY <1>2, <2>2 DEF Requested
  <2> QED
    BY <1>4, <2>3, FeedStutters DEF ServeRefresh
<1>5. CASE ReceiveRefresh
  <2>1. Requested' = [Requested EXCEPT ![0] = None]
    BY <1>5, OneRefresh DEF ReceiveRefresh
  <2>2. /\ refresh.cluster \in Clusters /\ refresh.namespace \in Selectable
        /\ refresh.cards \in Cards
    BY <1>1, <1>5 DEF Refresh, ReceiveRefresh
  <2>3. Show(refresh.cluster, refresh.namespace, refresh.cards) /\ UNCHANGED <<id, namespace>>
    BY <1>5 DEF ReceiveRefresh
  <2>4. /\ ShownKey' = Key(refresh)
        /\ late' = (late \/ Key(refresh) # Selected)
        /\ Selected' = Selected
    BY <2>2, <2>3, FeedShows DEF Key
  <2>5. loading' = (loading /\ Requested[0].quiet) /\ error' = error
    BY <1>2, <1>5 DEF ReceiveRefresh, TypeOK
  <2>6. TheFeed!Answer(0)
    BY <1>2, <1>3, <2>1, <2>4, <2>5 DEF TheFeed!Answer, TheFeed!Idle
  <2> QED
    BY <2>6, RefreshIsRequest DEF TheFeed!Next
<1>6. CASE FailRefresh
  <2>1. Requested' = [Requested EXCEPT ![0] = None]
    BY <1>6, OneRefresh DEF FailRefresh
  <2>2. loading' = (loading /\ Requested[0].quiet) /\ error' = (error \/ ~Requested[0].quiet)
    BY <1>2, <1>6 DEF FailRefresh, TypeOK
  <2>3. TheFeed!Fail(0)
    BY <1>3, <1>6, <2>1, <2>2 DEF FailRefresh, TheFeed!Fail, TheFeed!Idle, Selected, ShownKey
  <2> QED
    BY <2>3, RefreshIsRequest DEF TheFeed!Next
<1> QED
  BY <1>4, <1>5, <1>6 DEF Refreshing

LEMMA FeedStep ==
    TypeInv /\ OneAdd /\ [Next]_vars => [TheFeed!Next]_(TheFeed!vars)
<1> SUFFICES ASSUME TypeInv, OneAdd, [Next]_vars PROVE [TheFeed!Next]_(TheFeed!vars)
  OBVIOUS
<1>1. CASE \/ \E c \in Clusters : SelectCluster(c)
           \/ \E n \in Selectable : SelectNamespace(n)
  BY <1>1, FeedSelects DEF TheFeed!Next
<1>2. CASE UNCHANGED <<id, namespace, data, loading, error, late, reads, refresh>>
  BY <1>2, NoRequestChanges, FeedStutters
<1>3. CASE User
  BY <1>1, <1>2, <1>3
     DEF User, OpenEdit, CancelEdit, Save, AddSave, Delete, ToggleForm, Send
<1>4. CASE Poll
  <2>1. PICK s \in 0 .. MaxReads :
          /\ Requested[s] = None
          /\ Requested' = [Requested EXCEPT ![s] =
                [key |-> [cluster |-> id, namespace |-> namespace], quiet |-> FALSE]]
    BY <1>4, Asks DEF Poll, TypeOK
  <2>2. TheFeed!Poll(s)
    BY <1>4, <2>1 DEF Poll, TheFeed!Poll, TheFeed!Idle, Selected, ShownKey
  <2> QED
    BY <2>2 DEF TheFeed!Next
<1>5. ASSUME NEW c \in Clusters, List(c) \/ FailListing(c) PROVE [TheFeed!Next]_(TheFeed!vars)
  BY <1>2, <1>5 DEF List, ServeListing, ReceiveListing, FailListing
<1>6. ASSUME NEW w \in WriteIds, LoseWrite(w) PROVE [TheFeed!Next]_(TheFeed!vars)
  BY <1>2, <1>6 DEF LoseWrite, Answer
<1>7. CASE Elsewhere
  BY <1>2, <1>7 DEF Elsewhere, WriteElsewhere, UpdateCluster
<1>8. CASE UNCHANGED vars
  BY <1>2, <1>8 DEF vars
<1> QED
  BY <1>3, <1>4, <1>5, <1>6, <1>7, <1>8, FeedReads, FeedWrites, FeedRefreshes DEF Next, Failure

\* Whatever the page asks for and whenever its answers come, it is a Feed of
\* the metrics: initial states map to initial states and steps to steps, with
\* the reads after an added panel as one quiet request.
THEOREM ImplementsFeed == Spec => IsFeed
<1>1. TypeInv /\ OneAdd /\ [Next]_vars => [TheFeed!Next]_(TheFeed!vars)
  BY FeedStep
<1> QED
  BY <1>1, FeedInit, TypeCorrect, AddsAreSingle, PTL DEF Spec, IsFeed, TheFeed!Spec

Proved == INSTANCE FeedProofs WITH
    Keys <- Selections,
    Requests <- 0 .. MaxReads,
    selected <- Selected,
    shown <- ShownKey,
    asked <- Requested

\* What is proved of Feed is proved of the page.
LEMMA FeedIsProved == IsFeed => Proved!Spec
BY DEF IsFeed, TheFeed!Spec, Proved!Spec, TheFeed!Init, Proved!Init, TheFeed!Next, Proved!Next,
       TheFeed!vars, Proved!vars, TheFeed!Select, Proved!Select, TheFeed!Poll, Proved!Poll,
       TheFeed!Answer, Proved!Answer, TheFeed!Fail, Proved!Fail, TheFeed!Idle, Proved!Idle,
       TheFeed!AskQuietly, Proved!AskQuietly

\* What the page shows is what it says it shows, but for failures and late
\* answers: the theorem about the Feed holds of what implements it.
THEOREM StaleIsExplained == Spec => []StaleOnlyIfLate
<1>1. IsFeed => Proved!Spec
  BY FeedIsProved
<1>2. Proved!Spec => []Proved!StaleOnlyIfLate
  BY Proved!StaleIsExplained
<1>3. Proved!StaleOnlyIfLate => StaleOnlyIfLate
  BY DEF Proved!StaleOnlyIfLate, StaleOnlyIfLate, TheFeed!StaleOnlyIfLate,
         Proved!OnScreen, TheFeed!OnScreen
<1> QED
  BY <1>1, <1>2, <1>3, ImplementsFeed, PTL

-----------------------------------------------------------------------------
(* Nothing waits for what will not come.                                    *)

LEMMA NoneIsNoTheRequest == None \notin Proved!Request
BY OverviewAssumption DEF Proved!Request

\* What is loading waits as the Feed does.
LEMMA LoadingEnds == Spec => []TheFeed!WaitsForAnswer
<1>1. IsFeed => Proved!Spec
  BY FeedIsProved
<1>2. Proved!Spec => []Proved!WaitsForAnswer
  BY Proved!WaitingEnds, NoneIsNoTheRequest
<1>3. Proved!WaitsForAnswer => TheFeed!WaitsForAnswer
  BY DEF Proved!WaitsForAnswer, TheFeed!WaitsForAnswer, Proved!Idle, TheFeed!Idle
<1> QED
  BY <1>1, <1>2, <1>3, ImplementsFeed, PTL

\* What a card waits for.  The next write has a number that no card has.
CardWaits ==
    /\ card # None /\ card.saving # 0 => Sent(card.saving, "save")
    /\ card # None /\ card.deleting # 0 => Sent(card.deleting, "delete")

NumbersAreNew == \A w \in WriteIds : writes[w] # None => w <= sent

FormWaits == form.saving <=> refresh # None \/ \E w \in WriteIds : Sent(w, "add")

Waits == CardWaits /\ NumbersAreNew /\ FormWaits

\* A request that is answered is still the one that was sent.
StillSent(w) == \A op : Sent(w, op)' <=> Sent(w, op)

LEMMA WaitsWhenTheSame ==
    ASSUME Waits, UNCHANGED <<form, refresh, sent>>, \A w \in WriteIds : StillSent(w),
           \A w \in WriteIds : writes'[w] # None => writes[w] # None,
           card' # None => /\ card # None
                           /\ card'.saving \in {card.saving, 0}
                           /\ card'.deleting \in {card.deleting, 0}
    PROVE  Waits'
BY DEF Waits, CardWaits, NumbersAreNew, FormWaits, StillSent, Sent

LEMMA WaitsWhenSending ==
    ASSUME TypeInv, Waits, NEW op \in {"save", "delete", "add"}, NEW p \in Panels \cup {NoPanel},
           NEW n \in Names, NEW e \in Exprs, Send(op, p, n, e)
    PROVE  /\ NumbersAreNew'
           /\ sent + 1 \in WriteIds /\ sent + 1 # 0
           /\ writes'[sent + 1] # None /\ writes'[sent + 1].op = op
           /\ \A w \in WriteIds : w # sent + 1 => writes'[w] = writes[w]
           /\ \A w \in WriteIds : writes[w] # None => w # sent + 1
           /\ UNCHANGED refresh
<1>1. sent \in Nat /\ sent + 1 \in WriteIds /\ sent' = sent + 1
  BY OverviewAssumption DEF Send, TypeOK, WriteIds
<1> DEFINE new == [op |-> op, cluster |-> id, namespace |-> namespace, panel |-> p,
                   name |-> n, expr |-> e, state |-> "sent"]
<1>2. writes'[sent + 1] = new /\ \A w \in WriteIds : w # sent + 1 => writes'[w] = writes[w]
  BY <1>1 DEF Send, TypeOK
<1>3. new.op = op
  OBVIOUS
<1>4. new # None
  <2>1. new \in Write
    BY DEF TypeOK, Write
  <2> QED
    BY <2>1, OverviewAssumption
<1> HIDE DEF new
<1>5. NumbersAreNew'
  BY <1>1, <1>2 DEF NumbersAreNew, Waits, WriteIds
<1>6. \A w \in WriteIds : writes[w] # None => w # sent + 1
  BY <1>1 DEF Waits, NumbersAreNew, WriteIds
<1>7. UNCHANGED refresh
  BY DEF Send
<1> QED
  BY <1>1, <1>2, <1>3, <1>4, <1>5, <1>6, <1>7

LEMMA WaitsStep == ASSUME TypeInv, OneAdd, Waits, [Next]_vars PROVE Waits'
<1> USE DEF StillSent
<1>1. CASE UNCHANGED <<form, refresh, sent, writes>> /\
           (card' # None => /\ card # None
                            /\ card'.saving \in {card.saving, 0}
                            /\ card'.deleting \in {card.deleting, 0})
  BY <1>1, WaitsWhenTheSame DEF Sent
<1>2. CASE UNCHANGED <<form, refresh, sent, writes, card>>
  BY <1>1, <1>2
<1>3. ASSUME NEW n \in Names, OpenEdit(n) PROVE Waits'
  <2>1. /\ card'.saving = IF card = None THEN 0 ELSE card.saving
        /\ card'.deleting = IF card = None THEN 0 ELSE card.deleting
    BY <1>3 DEF OpenEdit
  <2> QED
    BY <1>3, <2>1 DEF OpenEdit, Waits, CardWaits, NumbersAreNew, FormWaits, Sent
<1>4. CASE CancelEdit
  <2>1. card \in Card
    BY <1>4 DEF CancelEdit, TypeOK
  <2>2. /\ [card EXCEPT !.open = FALSE].saving = card.saving
        /\ [card EXCEPT !.open = FALSE].deleting = card.deleting
    BY <2>1 DEF Card
  <2> QED
    BY <1>1, <1>4, <2>2 DEF CancelEdit, Kept
<1>5. ASSUME NEW n \in Names, Save(n) PROVE Waits'
  <2>1. PICK e \in {card.expr, NewText(sent + 1)} \ {Blank} :
              Send("save", data.cards[card.name], n, e)
    BY <1>5 DEF Save
  <2>2. card \in Card /\ card # None /\ data.cards[card.name] \in Panels
    BY <1>5 DEF Save, Editing, TypeOK
  <2>3. e \in Exprs
    BY <2>1, <2>2, NewTextType DEF Send, TypeOK, Card
  <2>4. card'.saving = sent + 1 /\ card'.deleting = card.deleting /\ UNCHANGED <<form, refresh>>
    BY <1>5, <2>1, <2>2 DEF Save, Card, Send
  <2>5. /\ NumbersAreNew' /\ sent + 1 \in WriteIds /\ sent + 1 # 0
        /\ writes'[sent + 1] # None /\ writes'[sent + 1].op = "save"
        /\ \A w \in WriteIds : w # sent + 1 => writes'[w] = writes[w]
        /\ \A w \in WriteIds : writes[w] # None => w # sent + 1
    BY <2>1, <2>2, <2>3, WaitsWhenSending
  <2> QED
    BY <2>2, <2>4, <2>5 DEF Waits, CardWaits, FormWaits, Sent
<1>6. CASE Delete
  <2>1. Send("delete", data.cards[card.name], card.name, NewText(sent + 1))
    BY <1>6 DEF Delete
  <2>2. card \in Card /\ card # None /\ data.cards[card.name] \in Panels
    BY <1>6 DEF Delete, Editing, TypeOK
  <2>3. card.name \in Names /\ NewText(sent + 1) \in Exprs
    BY <2>1, <2>2, NewTextType DEF Send, TypeOK, Card
  <2>4. card'.deleting = sent + 1 /\ card'.saving = card.saving /\ UNCHANGED <<form, refresh>>
    BY <1>6, <2>1, <2>2 DEF Delete, Card, Send
  <2>5. /\ NumbersAreNew' /\ sent + 1 \in WriteIds /\ sent + 1 # 0
        /\ writes'[sent + 1] # None /\ writes'[sent + 1].op = "delete"
        /\ \A w \in WriteIds : w # sent + 1 => writes'[w] = writes[w]
        /\ \A w \in WriteIds : writes[w] # None => w # sent + 1
    BY <2>1, <2>2, <2>3, WaitsWhenSending
  <2> QED
    BY <2>2, <2>4, <2>5 DEF Waits, CardWaits, FormWaits, Sent
<1>7. CASE ToggleForm
  <2>1. form'.saving = form.saving /\ UNCHANGED <<card, refresh, sent, writes>>
    BY <1>7 DEF ToggleForm, TypeOK
  <2> QED
    BY <2>1 DEF Waits, CardWaits, NumbersAreNew, FormWaits, Sent
<1>8. ASSUME NEW n \in Names, AddSave(n) PROVE Waits'
  <2>1. Send("add", NoPanel, n, NewText(sent + 1))
    BY <1>8 DEF AddSave
  <2>2. NewText(sent + 1) \in Exprs
    BY <2>1, NewTextType DEF Send, TypeOK
  <2>3. form'.saving /\ UNCHANGED card
    BY <1>8 DEF AddSave, TypeOK
  <2>4. /\ NumbersAreNew' /\ sent + 1 \in WriteIds /\ sent + 1 # 0
        /\ writes'[sent + 1] # None /\ writes'[sent + 1].op = "add"
        /\ \A w \in WriteIds : w # sent + 1 => writes'[w] = writes[w]
        /\ \A w \in WriteIds : writes[w] # None => w # sent + 1
    BY <2>1, <2>2, WaitsWhenSending
  <2> QED
    BY <2>3, <2>4 DEF Waits, CardWaits, FormWaits, Sent
<1>9. ASSUME NEW w \in WriteIds, NEW state \in {"done", "failed"}, Answer(w, state) PROVE Waits'
  <2>1. writes[w] \in Write /\ writes[w] # None
    BY <1>9 DEF Answer, TypeOK
  <2>2. writes' = [writes EXCEPT ![w] = [writes[w] EXCEPT !.state = state]]
    BY <1>9 DEF Answer, TypeOK
  <2>3. [writes[w] EXCEPT !.state = state].op = writes[w].op
    BY <2>1 DEF Write
  <2>4. [writes[w] EXCEPT !.state = state] # None
    <3>1. [writes[w] EXCEPT !.state = state] \in Write
      BY <2>1 DEF Write
    <3> QED
      BY <3>1, OverviewAssumption
  <2>5. UNCHANGED <<form, refresh, sent, card>>
    BY <1>9 DEF Answer
  <2>6. \A v \in WriteIds : StillSent(v) /\ (writes'[v] # None => writes[v] # None)
    BY <2>1, <2>2, <2>3, <2>4 DEF Sent, TypeOK
  <2> QED
    BY <2>5, <2>6, WaitsWhenTheSame
<1>10. ASSUME NEW w \in WriteIds, NEW op, Returned(w, op), writes' = [writes EXCEPT ![w] = None],
              UNCHANGED sent
       PROVE  /\ NumbersAreNew' /\ writes[w] # None /\ writes[w].op = op
              /\ writes'[w] = None
              /\ \A v \in WriteIds \ {w} : writes'[v] = writes[v]
  BY <1>10 DEF Returned, Waits, NumbersAreNew, Sent, TypeOK
<1>11. ASSUME NEW w \in WriteIds, ReceiveSaved(w) PROVE Waits'
  <2>1. card = None \/ card \in Card
    BY DEF TypeOK
  <2>2. card' # None =>
           /\ card # None
           /\ card'.saving = IF card.saving = w THEN 0 ELSE card.saving
           /\ card'.deleting = card.deleting
    BY <1>11, <2>1 DEF ReceiveSaved, Kept, Card
  <2>3. /\ NumbersAreNew' /\ writes[w] # None /\ writes[w].op = "save"
        /\ writes'[w] = None /\ \A v \in WriteIds \ {w} : writes'[v] = writes[v]
        /\ UNCHANGED <<form, refresh>>
    BY <1>10, <1>11 DEF ReceiveSaved
  <2> QED
    BY <2>2, <2>3 DEF Waits, CardWaits, FormWaits, Sent
<1>12. ASSUME NEW w \in WriteIds, ReceiveDeleted(w) PROVE Waits'
  <2>1. card = None \/ card \in Card
    BY DEF TypeOK
  <2>2. card' # None =>
           /\ card # None
           /\ card'.deleting = IF card.deleting = w THEN 0 ELSE card.deleting
           /\ card'.saving = card.saving
    BY <1>12, <2>1 DEF ReceiveDeleted, Kept, Card
  <2>3. /\ NumbersAreNew' /\ writes[w] # None /\ writes[w].op = "delete"
        /\ writes'[w] = None /\ \A v \in WriteIds \ {w} : writes'[v] = writes[v]
        /\ UNCHANGED <<form, refresh>>
    BY <1>10, <1>12 DEF ReceiveDeleted
  <2> QED
    BY <2>2, <2>3 DEF Waits, CardWaits, FormWaits, Sent
<1>13. ASSUME NEW w \in WriteIds, ReceiveAdded(w) PROVE Waits'
  <2>1. /\ NumbersAreNew' /\ writes[w] # None /\ writes[w].op = "add"
        /\ writes'[w] = None /\ \A v \in WriteIds \ {w} : writes'[v] = writes[v]
        /\ UNCHANGED card
    BY <1>10, <1>13 DEF ReceiveAdded
  <2>2. CardWaits'
    BY <2>1 DEF Waits, CardWaits, Sent
  <2>3. \A v \in WriteIds : ~Sent(v, "add")'
    BY <2>1 DEF OneAdd, Adding, Sent
  <2>4. form.saving /\ refresh = None
    BY <1>13 DEF ReceiveAdded, Returned, OneAdd, Adding
  <2>5. form'.saving <=> refresh' # None
    <3>1. CASE writes[w].state = "done"
      <4>1. form'.saving = form.saving
        BY <1>13, <3>1 DEF ReceiveAdded, TypeOK
      <4>2. refresh' \in Refresh
        BY <1>13, <3>1 DEF ReceiveAdded, Returned, TypeOK, Write, Refresh
      <4> QED
        BY <2>4, <4>1, <4>2, OverviewAssumption
    <3>2. CASE writes[w].state # "done"
      BY <1>13, <2>4, <3>2 DEF ReceiveAdded, TypeOK
    <3> QED
      BY <3>1, <3>2
  <2> QED
    BY <2>1, <2>2, <2>3, <2>5 DEF Waits, FormWaits
<1>14. CASE ServeRefresh
  <2>1. refresh' # None
    <3>1. refresh \in Refresh /\ refresh.cluster \in Clusters
      BY <1>14 DEF ServeRefresh, TypeOK, Refresh
    <3>2. CASE refresh' = [refresh EXCEPT !.list = ListOf(refresh.cluster)]
      BY <3>1, <3>2, ListType, OverviewAssumption DEF Refresh
    <3>3. ASSUME NEW cards \in Cards, refresh' = [refresh EXCEPT !.cards = cards]
          PROVE  refresh' # None
      <4>1. refresh' \in Refresh
        BY <3>1, <3>3 DEF Refresh
      <4> QED
        BY <4>1, OverviewAssumption
    <3> QED
      BY <1>14, <3>2, <3>3 DEF ServeRefresh
  <2> QED
    BY <1>14, <2>1 DEF ServeRefresh, Waits, CardWaits, NumbersAreNew, FormWaits, Sent
<1>15. CASE ReceiveRefresh \/ FailRefresh
  <2>1. ~form'.saving /\ refresh' = None /\ refresh # None
    BY <1>15 DEF ReceiveRefresh, FailRefresh, TypeOK
  <2>2. UNCHANGED <<sent, writes>> /\ (card' = card \/ card' = None)
    BY <1>15 DEF ReceiveRefresh, FailRefresh, Show
  <2> QED
    BY <2>1, <2>2 DEF Waits, CardWaits, NumbersAreNew, FormWaits, Sent, OneAdd, Adding
<1>16. CASE Elsewhere
  <2>1. sent' = sent + 1
    BY <1>16, Zenon DEF Elsewhere, WriteElsewhere, UpdateCluster
  <2>2. UNCHANGED <<form, refresh, writes, card>>
    BY <1>16, Zenon DEF Elsewhere, WriteElsewhere, UpdateCluster
  <2>3. sent \in Nat
    BY OverviewAssumption DEF TypeOK
  <2>4. NumbersAreNew'
    BY <2>1, <2>2, <2>3 DEF Waits, NumbersAreNew, WriteIds
  <2> QED
    BY <2>2, <2>4 DEF Waits, CardWaits, FormWaits, Sent
<1>17. CASE User
  BY <1>1, <1>3, <1>4, <1>5, <1>6, <1>7, <1>8, <1>17
     DEF User, SelectCluster, SelectNamespace, Reload
<1>18. ASSUME NEW s \in Slots, Metrics(s) \/ FailMetrics(s) PROVE Waits'
  BY <1>1, <1>18 DEF Metrics, ServeMetrics, ReceiveMetrics, FailMetrics, Show
<1>19. ASSUME NEW c \in Clusters, List(c) \/ FailListing(c) PROVE Waits'
  BY <1>2, <1>19 DEF List, ServeListing, ReceiveListing, FailListing
<1>20. CASE Poll \/ UNCHANGED vars
  <2>1. CASE Poll
    BY <1>2, <2>1 DEF Poll
  <2>2. CASE UNCHANGED vars
    BY <1>2, <2>2 DEF vars
  <2> QED
    BY <1>20, <2>1, <2>2
<1>21. ASSUME NEW w \in WriteIds, Writing(w) \/ LoseWrite(w) PROVE Waits'
  BY <1>9, <1>11, <1>12, <1>13, <1>21 DEF Writing, ServeWrite, LoseWrite
<1> QED
  BY <1>14, <1>15, <1>16, <1>17, <1>18, <1>19, <1>20, <1>21 DEF Next, Refreshing, Failure

\* However requests overlap, fail and are answered, nothing on the page waits
\* for what will not come.
THEOREM WaitingEnds == Spec => []WaitsForAnswers
<1>1. Init => Waits
  BY DEF Init, Waits, CardWaits, NumbersAreNew, FormWaits, Sent
<1>2. Waits /\ TheFeed!WaitsForAnswer => WaitsForAnswers
  BY DEF Waits, CardWaits, FormWaits, WaitsForAnswers
<1> QED
  BY <1>1, <1>2, WaitsStep, TypeCorrect, AddsAreSingle, LoadingEnds, PTL DEF Spec

-----------------------------------------------------------------------------
(* What happens to the rows.                                                *)

LEMMA AppliedRow ==
    ASSUME TypeOK, NEW w \in Write, w.op # "add" => w.panel \in Panels, Apply(w)
    PROVE  \E p \in Panels, row \in Row : Change(p, row) /\ Stays(p, row)
<1> USE DEF Refused, Belongs, Live, Stays
<1>1. CASE w.op = "save" /\ ~Refused(w) /\
           Change(w.panel, [rows[w.panel] EXCEPT !.name = w.name, !.expr = w.expr])
  <2>1. rows[w.panel] \in Row /\ w.name \in Names /\ w.expr \in Exprs /\ w.panel \in Panels
    BY <1>1 DEF TypeOK, Write
  <2> DEFINE row == [rows[w.panel] EXCEPT !.name = w.name, !.expr = w.expr]
  <2>2. row \in Row /\ row.environment = rows[w.panel].environment
    BY <2>1 DEF Row
  <2> HIDE DEF row
  <2> QED
    BY <1>1, <2>1, <2>2 DEF row
<1>2. CASE w.op = "delete" /\ ~Refused(w) /\
           Change(w.panel, [rows[w.panel] EXCEPT !.live = FALSE])
  <2>1. rows[w.panel] \in Row /\ w.panel \in Panels
    BY <1>2 DEF TypeOK
  <2>2. /\ [rows[w.panel] EXCEPT !.live = FALSE] \in Row
        /\ [rows[w.panel] EXCEPT !.live = FALSE].environment = rows[w.panel].environment
    BY <2>1 DEF Row
  <2> QED
    BY <1>2, <2>1, <2>2
<1>3. ASSUME NEW p \in Panels, IsNextId(p),
             Change(p, NewRow(w.cluster, w.name, w.expr))
      PROVE  \E q \in Panels, row \in Row : Change(q, row) /\ Stays(q, row)
  <2>1. NewRow(w.cluster, w.name, w.expr) \in Row
    BY NewRowType DEF Write
  <2> QED
    BY <1>3, <2>1 DEF IsNextId
<1> QED
  BY <1>1, <1>2, <1>3 DEF Apply

\* A row is written, in its environment, or a cluster.
Changed == \E p \in Panels, row \in Row : Change(p, row) /\ Stays(p, row)

Moved ==
    /\ UNCHANGED <<rows, held>>
    /\ \E c \in Clusters, cluster \in Cluster :
           /\ clusters' = [clusters EXCEPT ![c] = cluster]
           /\ placed' = [placed EXCEPT ![c] = @ \cup {cluster.environment}]

\* A row keeps its environment, whoever writes it.
LEMMA TableStep ==
    ASSUME TypeInv, [Next]_vars
    PROVE  UNCHANGED table \/ Changed \/ Moved
<1>1. ASSUME NEW w \in WriteIds, ServeWrite(w) \/ LoseWrite(w)
      PROVE  UNCHANGED table \/ Changed
  <2>1. writes[w] \in Write /\ (writes[w].op # "add" => writes[w].panel \in Panels)
    BY <1>1 DEF ServeWrite, LoseWrite, Answer, TypeOK, PanelWrites
  <2>2. UNCHANGED table \/ Apply(writes[w])
    BY <1>1 DEF ServeWrite, LoseWrite
  <2> QED
    BY <2>1, <2>2, AppliedRow DEF Changed
<1>2. CASE Elsewhere
  <2>1. ASSUME NEW p \in Panels, WriteElsewhere(p) PROVE Changed
    BY <2>1, ElsewhereRow DEF Changed
  <2>2. ASSUME NEW c \in Clusters, UpdateCluster(c) PROVE Moved
    BY <2>2 DEF UpdateCluster, Moved
  <2> QED
    BY <1>2, <2>1, <2>2 DEF Elsewhere
<1>3. ASSUME NEW s \in Slots, Metrics(s) \/ FailMetrics(s) PROVE UNCHANGED table
  BY <1>3 DEF Metrics, ServeMetrics, ReceiveMetrics, FailMetrics
<1>4. ASSUME NEW c \in Clusters, List(c) \/ FailListing(c) PROVE UNCHANGED table
  BY <1>4 DEF List, ServeListing, ReceiveListing, FailListing
<1>5. ASSUME NEW w \in WriteIds, ReceiveSaved(w) \/ ReceiveDeleted(w) \/ ReceiveAdded(w)
      PROVE  UNCHANGED table
  BY <1>5 DEF ReceiveSaved, ReceiveDeleted, ReceiveAdded
<1>6. CASE User \/ Poll \/ Refreshing \/ FailRefresh \/ UNCHANGED vars
  BY <1>6 DEF User, SelectCluster, SelectNamespace, OpenEdit, CancelEdit, Save, AddSave, Delete,
              ToggleForm, Send, Poll, Refreshing, ServeRefresh, ReceiveRefresh, FailRefresh, vars
<1> QED
  BY <1>1, <1>2, <1>3, <1>4, <1>5, <1>6 DEF Next, Writing, Failure

Grows ==
    \A p \in Panels :
        /\ held[p] \subseteq held'[p]
        /\ rows[p] # None => rows'[p] # None /\ Home(p)' = Home(p)
        /\ rows'[p] = rows[p] \/ (rows'[p] # None /\ rows'[p].expr \in held'[p])

PlacedGrows == \A c \in Clusters : placed[c] \subseteq placed'[c]

LEMMA RowsGrow == ASSUME TypeInv, [Next]_vars PROVE Grows
<1>1. CASE UNCHANGED <<rows, held>>
  BY <1>1 DEF Grows, Home
<1>2. ASSUME NEW p \in Panels, NEW row \in Row, Change(p, row), Stays(p, row) PROVE Grows
  <2>1. row # None
    BY OverviewAssumption
  <2> QED
    BY <1>2, <2>1 DEF Grows, Home, Change, Stays, TypeOK
<1> QED
  BY <1>1, <1>2, TableStep DEF Changed, Moved

-----------------------------------------------------------------------------
(* The copy of the expressions.                                             *)

Own(list) == \A p \in Panels : list[p] # Blank => list[p] \in held[p]

RowsOwn == \A p \in Panels : rows[p] # None => rows[p].expr \in held[p]

ListsOwn ==
    \A c \in Clusters : listings[c] # None /\ listings[c].list # None => Own(listings[c].list)

RefreshOwn == refresh # None /\ refresh.list # None => Own(refresh.list)

SavesOwn ==
    \A w \in WriteIds : writes[w] # None /\ writes[w].op = "save" /\ writes[w].state = "done"
                            => writes[w].expr \in held[writes[w].panel]

CopyInv == RowsOwn /\ CopyIsOwn /\ ListsOwn /\ RefreshOwn /\ SavesOwn

LEMMA RowsOwnStep == ASSUME Grows, RowsOwn PROVE RowsOwn'
BY DEF Grows, RowsOwn

LEMMA OwnGrows ==
    ASSUME Grows, NEW list, Own(list)
    PROVE  \A p \in Panels : list[p] # Blank => list[p] \in held'[p]
BY DEF Grows, Own

LEMMA ListIsOwn == ASSUME RowsOwn, NEW c PROVE Own(ListOf(c))
BY DEF RowsOwn, Own, ListOf, Belongs, Live

LEMMA ListsOwnStep ==
    ASSUME TypeInv, Grows, RowsOwn, ListsOwn, [Next]_vars PROVE ListsOwn'
<1>1. CASE UNCHANGED listings
  BY <1>1 DEF ListsOwn, Grows, Own
<1>2. ASSUME NEW c \in Clusters, SelectCluster(c) PROVE ListsOwn'
  <2>1. \A d \in Clusters : listings'[d] = listings[d] \/ listings'[d] = [list |-> None]
    BY <1>2 DEF SelectCluster, TypeOK
  <2> QED
    BY <2>1 DEF ListsOwn, Grows, Own
<1>3. ASSUME NEW c \in Clusters, ServeListing(c) PROVE ListsOwn'
  <2>1. Own(ListOf(c))
    BY ListIsOwn
  <2>2. \A d \in Clusters : listings'[d] = listings[d] \/ listings'[d].list = ListOf(c)
    BY <1>3 DEF ServeListing, TypeOK, Asked
  <2>3. held' = held
    BY <1>3 DEF ServeListing
  <2> QED
    BY <2>1, <2>2, <2>3 DEF ListsOwn, Own
<1>4. ASSUME NEW c \in Clusters, ReceiveListing(c) \/ FailListing(c) PROVE ListsOwn'
  <2>1. \A d \in Clusters : listings'[d] = listings[d] \/ listings'[d] = None
    BY <1>4 DEF ReceiveListing, FailListing, TypeOK
  <2> QED
    BY <2>1 DEF ListsOwn, Grows, Own
<1>5. ASSUME NEW s \in Slots, Metrics(s) \/ FailMetrics(s) PROVE UNCHANGED listings
  BY <1>5 DEF Metrics, ServeMetrics, ReceiveMetrics, FailMetrics
<1>6. ASSUME NEW w \in WriteIds, Writing(w) \/ LoseWrite(w) PROVE UNCHANGED listings
  BY <1>6 DEF Writing, ServeWrite, LoseWrite, Answer, ReceiveSaved, ReceiveDeleted, ReceiveAdded
<1>7. CASE Poll \/ Refreshing \/ FailRefresh \/ Elsewhere
  BY <1>1, <1>7 DEF Poll, Refreshing, ServeRefresh, ReceiveRefresh, FailRefresh, Elsewhere, WriteElsewhere, UpdateCluster
<1>8. CASE User
  BY <1>1, <1>2, <1>8 DEF User, SelectNamespace, OpenEdit, CancelEdit, Save, AddSave, Delete,
                         ToggleForm, Send
<1>9. CASE UNCHANGED vars
  BY <1>1, <1>9 DEF vars
<1> QED
  BY <1>1, <1>3, <1>4, <1>5, <1>6, <1>7, <1>8, <1>9 DEF Next, List, Failure

LEMMA RefreshOwnStep ==
    ASSUME TypeInv, Grows, RowsOwn, RefreshOwn, [Next]_vars PROVE RefreshOwn'
<1>1. CASE UNCHANGED refresh
  BY <1>1 DEF RefreshOwn, Grows, Own
<1>2. ASSUME NEW w \in WriteIds, ReceiveAdded(w) PROVE RefreshOwn'
  <2>1. CASE refresh' = [cluster |-> writes[w].cluster, namespace |-> writes[w].namespace,
                         list |-> None, cards |-> None]
    BY <2>1 DEF RefreshOwn
  <2> QED
    BY <1>1, <1>2, <2>1 DEF ReceiveAdded
<1>3. CASE ServeRefresh
  <2>1. Own(ListOf(refresh.cluster)) /\ held' = held /\ refresh \in Refresh
    BY <1>3, ListIsOwn DEF ServeRefresh, TypeOK
  <2>2. refresh'.list = refresh.list \/ refresh'.list = ListOf(refresh.cluster)
    BY <1>3, <2>1 DEF ServeRefresh, Refresh
  <2>3. refresh # None
    BY <1>3 DEF ServeRefresh
  <2> QED
    BY <2>1, <2>2, <2>3 DEF RefreshOwn, Own
<1>4. CASE ReceiveRefresh \/ FailRefresh
  BY <1>4 DEF ReceiveRefresh, FailRefresh, RefreshOwn
<1>5. ASSUME NEW s \in Slots, Metrics(s) \/ FailMetrics(s) PROVE UNCHANGED refresh
  BY <1>5 DEF Metrics, ServeMetrics, ReceiveMetrics, FailMetrics
<1>6. ASSUME NEW w \in WriteIds, ServeWrite(w) \/ ReceiveSaved(w) \/ ReceiveDeleted(w) \/ LoseWrite(w)
      PROVE  UNCHANGED refresh
  BY <1>6 DEF ServeWrite, LoseWrite, Answer, ReceiveSaved, ReceiveDeleted
<1>7. ASSUME NEW c \in Clusters, List(c) \/ FailListing(c) PROVE UNCHANGED refresh
  BY <1>7 DEF List, ServeListing, ReceiveListing, FailListing
<1>8. CASE Poll \/ User \/ UNCHANGED vars \/ Elsewhere
  BY <1>1, <1>8 DEF Poll, Elsewhere, WriteElsewhere, UpdateCluster, User, SelectCluster, SelectNamespace, OpenEdit,
                   CancelEdit, Save, AddSave, Delete, ToggleForm, Send, vars
<1> QED
  BY <1>1, <1>2, <1>3, <1>4, <1>5, <1>6, <1>7, <1>8 DEF Next, Writing, Refreshing, Failure

LEMMA SavesOwnStep ==
    ASSUME TypeInv, Grows, SavesOwn, [Next]_vars PROVE SavesOwn'
<1>1. CASE \A w \in WriteIds : writes'[w] = None \/ writes'[w].state = "sent" \/ writes'[w].op # "save"
                              \/ writes'[w] = writes[w]
  <2>1. ASSUME NEW w \in WriteIds, writes'[w] = writes[w], writes[w] # None,
               writes[w].op = "save", writes[w].state = "done"
        PROVE  writes[w].expr \in held'[writes[w].panel]
    BY <2>1 DEF SavesOwn, Grows, PanelWrites
  <2> QED
    BY <1>1, <2>1 DEF SavesOwn
<1>2. ASSUME NEW op, NEW p, NEW n, NEW e, Send(op, p, n, e) PROVE SavesOwn'
  BY <1>1, <1>2 DEF Send, TypeOK
<1>3. ASSUME NEW w \in WriteIds, NEW state \in {"done", "failed"}, Answer(w, state),
             state = "done" => Apply(writes[w])
      PROVE  SavesOwn'
  <2>1. writes[w] \in Write /\ writes[w] # None
    BY <1>3 DEF Answer, TypeOK
  <2>2. /\ writes'[w].expr = writes[w].expr /\ writes'[w].panel = writes[w].panel
        /\ writes'[w].op = writes[w].op /\ writes'[w].state = state
        /\ \A v \in WriteIds \ {w} : writes'[v] = writes[v]
    BY <1>3, <2>1 DEF Answer, TypeOK, Write
  <2>3. ASSUME state = "done", writes[w].op = "save" PROVE writes[w].expr \in held'[writes[w].panel]
    <3>1. Change(writes[w].panel, [rows[writes[w].panel] EXCEPT !.name = writes[w].name,
                                                               !.expr = writes[w].expr])
      BY <1>3, <2>3 DEF Apply
    <3>2. writes[w].panel \in Panels /\ Belongs(writes[w].panel, writes[w].cluster)
      BY <1>3, <2>1, <2>3 DEF Apply, PanelWrites, Refused
    <3>3. rows[writes[w].panel] \in Row
      BY <3>2 DEF Belongs, Live, TypeOK
    <3>4. [rows[writes[w].panel] EXCEPT !.name = writes[w].name, !.expr = writes[w].expr].expr
            = writes[w].expr
      BY <3>3 DEF Row
    <3> QED
      BY <3>1, <3>2, <3>4 DEF Change, TypeOK
  <2>4. ASSUME NEW v \in WriteIds \ {w}, writes[v] # None, writes[v].op = "save",
               writes[v].state = "done"
        PROVE  writes[v].expr \in held'[writes[v].panel]
    BY <2>4 DEF SavesOwn, Grows, PanelWrites
  <2> QED
    BY <2>2, <2>3, <2>4 DEF SavesOwn
<1>4. ASSUME NEW w \in WriteIds, ServeWrite(w) \/ LoseWrite(w) PROVE SavesOwn'
  BY <1>3, <1>4 DEF ServeWrite, LoseWrite
<1>5. ASSUME NEW w \in WriteIds, ReceiveSaved(w) \/ ReceiveDeleted(w) \/ ReceiveAdded(w)
      PROVE  SavesOwn'
  BY <1>1, <1>5 DEF ReceiveSaved, ReceiveDeleted, ReceiveAdded, TypeOK
<1>6. CASE UNCHANGED writes
  BY <1>1, <1>6
<1>7. CASE User
  BY <1>2, <1>6, <1>7 DEF User, SelectCluster, SelectNamespace, OpenEdit, CancelEdit, Save,
                         AddSave, Delete, ToggleForm
<1>8. ASSUME NEW s \in Slots, Metrics(s) \/ FailMetrics(s) PROVE UNCHANGED writes
  BY <1>8 DEF Metrics, ServeMetrics, ReceiveMetrics, FailMetrics
<1>9. ASSUME NEW c \in Clusters, List(c) \/ FailListing(c) PROVE UNCHANGED writes
  BY <1>9 DEF List, ServeListing, ReceiveListing, FailListing
<1>10. CASE Poll \/ Refreshing \/ FailRefresh \/ UNCHANGED vars \/ Elsewhere
  BY <1>6, <1>10 DEF Poll, Refreshing, ServeRefresh, ReceiveRefresh, FailRefresh, Elsewhere, WriteElsewhere, UpdateCluster, vars
<1> QED
  BY <1>4, <1>5, <1>6, <1>7, <1>8, <1>9, <1>10 DEF Next, Writing, Failure

LEMMA CopyStep ==
    ASSUME TypeInv, Grows, CopyInv, [Next]_vars PROVE CopyIsOwn'
<1> USE DEF CopyInv
<1>1. CASE \A p \in Panels : panels'[p] = panels[p] \/ panels'[p] = Blank
  BY <1>1 DEF CopyIsOwn, Grows
<1>2. ASSUME NEW c \in Clusters, ReceiveListing(c) PROVE CopyIsOwn'
  BY <1>2 DEF ReceiveListing, ListsOwn, Own, CopyIsOwn
<1>3. CASE ReceiveRefresh
  BY <1>3 DEF ReceiveRefresh, RefreshOwn, Own, CopyIsOwn
<1>4. ASSUME NEW w \in WriteIds, ReceiveSaved(w) PROVE CopyIsOwn'
  <2>1. CASE UNCHANGED panels
    BY <1>1, <2>1
  <2>2. CASE writes[w].state = "done" /\ panels' = PanelSaved(writes[w].panel, writes[w].expr)
    <3>1. writes[w].expr \in held[writes[w].panel] /\ held' = held
      BY <1>4, <2>2 DEF SavesOwn, ReceiveSaved, Returned
    <3>2. \A p \in Panels : panels'[p] = panels[p] \/ panels'[p] = Blank
                           \/ (p = writes[w].panel /\ panels'[p] = writes[w].expr)
      BY <2>2 DEF PanelSaved, TypeOK, Listing
    <3> QED
      BY <3>1, <3>2 DEF CopyIsOwn
  <2> QED
    BY <1>4, <2>1, <2>2 DEF ReceiveSaved
<1>5. ASSUME NEW w \in WriteIds, ReceiveDeleted(w) PROVE CopyIsOwn'
  BY <1>1, <1>5 DEF ReceiveDeleted, TypeOK, Listing
<1>6. ASSUME NEW w \in WriteIds, ServeWrite(w) \/ ReceiveAdded(w) \/ LoseWrite(w)
      PROVE  UNCHANGED panels
  BY <1>6 DEF ServeWrite, LoseWrite, Answer, ReceiveAdded
<1>7. CASE User
  BY <1>1, <1>7 DEF User, SelectCluster, SelectNamespace, OpenEdit, CancelEdit, Save, AddSave,
                   Delete, ToggleForm, Send
<1>8. ASSUME NEW s \in Slots, Metrics(s) \/ FailMetrics(s) PROVE UNCHANGED panels
  BY <1>8 DEF Metrics, ServeMetrics, ReceiveMetrics, FailMetrics
<1>9. ASSUME NEW c \in Clusters, ServeListing(c) \/ FailListing(c) PROVE UNCHANGED panels
  BY <1>9 DEF ServeListing, FailListing
<1>10. CASE Poll \/ ServeRefresh \/ FailRefresh \/ UNCHANGED vars \/ Elsewhere
  BY <1>1, <1>10 DEF Poll, ServeRefresh, FailRefresh, Elsewhere, WriteElsewhere, UpdateCluster, vars
<1> QED
  BY <1>1, <1>2, <1>3, <1>4, <1>5, <1>6, <1>7, <1>8, <1>9, <1>10
     DEF Next, List, Writing, Refreshing, Failure

\* The page pairs a panel only with an expression that panel has had, whatever
\* the order of lists, saves and deletions: what is on its way is such a pair
\* already, and stays one.
THEOREM CopiesAreOwn == Spec => []CopyIsOwn
<1>1. Init => CopyInv
  BY OverviewAssumption DEF Init, CopyInv, RowsOwn, CopyIsOwn, ListsOwn, RefreshOwn, SavesOwn
<1>2. TypeInv /\ CopyInv /\ [Next]_vars => CopyInv'
  <2> SUFFICES ASSUME TypeInv, CopyInv, [Next]_vars PROVE CopyInv'
    OBVIOUS
  <2>1. Grows
    BY RowsGrow
  <2> QED
    BY <2>1, RowsOwnStep, ListsOwnStep, RefreshOwnStep, SavesOwnStep, CopyStep DEF CopyInv
<1> QED
  BY <1>1, <1>2, TypeCorrect, PTL DEF Spec, CopyInv

-----------------------------------------------------------------------------
(* What the editor of a card stands for.                                    *)

\* Cards that were read for cluster c are panels of an environment it is or was in.
AtHome(cards, c) ==
    \A n \in Names : cards[n] \in Panels =>
        rows[cards[n]] # None /\ Home(cards[n]) \in placed[c]

PlacedNow == \A c \in Clusters : clusters[c].environment \in placed[c]

ReadsAtHome ==
    \A s \in Slots : reads[s] # None /\ reads[s].cards # None
                         => AtHome(reads[s].cards, reads[s].cluster)

RefreshAtHome ==
    refresh # None /\ refresh.cards # None => AtHome(refresh.cards, refresh.cluster)

DataAtHome == data # None => AtHome(data.cards, data.cluster)

\* A card that is edited is on the screen, and was opened for a panel of such an
\* environment of the cluster the page names unless one of the two happened.
CardAtHome ==
    card # None =>
        /\ Shown /\ rows[card.panel] # None
        /\ Home(card.panel) \in placed[id] \/ error \/ late

HomeInv == PlacedNow /\ ReadsAtHome /\ RefreshAtHome /\ DataAtHome /\ CardAtHome

\* A cluster that is moved is in its environment, and was where it was.
LEMMA PlacedStep ==
    ASSUME TypeInv, PlacedNow, [Next]_vars PROVE PlacedNow' /\ PlacedGrows
<1>1. CASE UNCHANGED <<clusters, placed>>
  BY <1>1 DEF PlacedNow, PlacedGrows
<1>2. CASE Moved
  BY <1>2 DEF Moved, PlacedNow, PlacedGrows, TypeOK, Cluster
<1> QED
  BY <1>1, <1>2, TableStep DEF Changed, Change

LEMMA AtHomeStays ==
    ASSUME Grows, PlacedGrows, NEW cards, NEW c \in Clusters, AtHome(cards, c)
    PROVE  \A n \in Names : cards[n] \in Panels =>
              rows'[cards[n]] # None /\ Home(cards[n])' \in placed'[c]
BY DEF Grows, PlacedGrows, AtHome, Home

LEMMA CardsAreHome ==
    ASSUME PlacedNow, NEW c \in Clusters, NEW cards, Answered(c, cards)
    PROVE  AtHome(cards, c)
<1>1. 0 \notin Panels /\ Absent \notin Panels
  BY OverviewAssumption DEF Panels, Absent
<1>2. AtHome(DemoCards(c), c) /\ AtHome(DefaultCards, c)
  BY <1>1 DEF DemoCards, DefaultCards, AtHome
<1>3. CASE cards \in RealCards(c)
  <2>1. ASSUME NEW n \in Names, cards[n] \in Panels PROVE cards[n] \in Named(n, c)
    BY <1>1, <1>3, <2>1 DEF RealCards, DefaultCards
  <2> QED
    BY <2>1 DEF AtHome, Named, Belongs, Live, Home, PlacedNow
<1> QED
  BY <1>2, <1>3 DEF Answered, Answers

LEMMA ReadsAtHomeStep ==
    ASSUME TypeInv, Grows, PlacedGrows, PlacedNow, ReadsAtHome, [Next]_vars PROVE ReadsAtHome'
<1>1. CASE \A s \in Slots : reads'[s] = reads[s] \/ reads'[s] = None
                            \/ (reads'[s] \in Read /\ reads'[s].cards = None)
  <2>1. ASSUME NEW s \in Slots, reads'[s] = reads[s], reads[s] # None, reads[s].cards # None
        PROVE  \A n \in Names : reads[s].cards[n] \in Panels =>
                  /\ rows'[reads[s].cards[n]] # None
                  /\ Home(reads[s].cards[n])' \in placed'[reads[s].cluster]
    <3>1. AtHome(reads[s].cards, reads[s].cluster) /\ reads[s].cluster \in Clusters
      BY <2>1 DEF ReadsAtHome, TypeOK, Read
    <3> QED
      BY <2>1, <3>1 DEF Grows, PlacedGrows, AtHome, Home
  <2> QED
    BY <1>1, <2>1 DEF ReadsAtHome, AtHome, Home
<1>2. ASSUME NEW c \in Clusters, NEW n \in Selectable, NEW q \in BOOLEAN, Ask(c, n, q)
      PROVE  ReadsAtHome'
  <2>1. Request(c, n, q) \in Read /\ Request(c, n, q).cards = None
    BY RequestType DEF Request
  <2> QED
    BY <1>1, <1>2, <2>1 DEF Ask, TypeOK
<1>3. ASSUME NEW c \in Clusters, AskTwice(c) PROVE ReadsAtHome'
  <2>1. /\ Request(c, namespace, FALSE) \in Read /\ Request(c, namespace, FALSE).cards = None
        /\ Request(c, All, FALSE) \in Read /\ Request(c, All, FALSE).cards = None
    BY RequestType DEF Request, TypeOK, Selectable
  <2> QED
    BY <1>1, <1>3, <2>1 DEF AskTwice, TypeOK
<1>4. ASSUME NEW s \in Slots, ServeMetrics(s) PROVE ReadsAtHome'
  <2>1. reads[s] \in Read /\ reads[s].cluster \in Clusters
    BY <1>4 DEF ServeMetrics, Idle, TypeOK, Read
  <2>2. PICK cards \in Cards : /\ reads' = [reads EXCEPT ![s].cards = cards]
                               /\ AtHome(cards, reads[s].cluster)
    BY <1>4, <2>1, CardsAreHome DEF ServeMetrics
  <2>3. /\ reads'[s].cards = cards /\ reads'[s].cluster = reads[s].cluster
        /\ \A t \in Slots \ {s} : reads'[t] = reads[t]
    BY <2>1, <2>2 DEF TypeOK, Read
  <2>4. UNCHANGED <<rows, placed>>
    BY <1>4 DEF ServeMetrics
  <2> QED
    BY <2>2, <2>3, <2>4 DEF ReadsAtHome, AtHome, Home
<1>5. ASSUME NEW s \in Slots, ReceiveMetrics(s) \/ FailMetrics(s) PROVE ReadsAtHome'
  BY <1>1, <1>5 DEF ReceiveMetrics, FailMetrics, TypeOK
<1>6. CASE UNCHANGED reads
  BY <1>1, <1>6
<1>7. CASE User
  <2>1. ASSUME NEW c \in Clusters, SelectCluster(c) PROVE ReadsAtHome'
    BY <1>2, <1>3, <2>1 DEF SelectCluster, Selectable
  <2>2. ASSUME NEW n \in Selectable, SelectNamespace(n) PROVE ReadsAtHome'
    BY <1>2, <2>2 DEF SelectNamespace, TypeOK
  <2> QED
    BY <1>6, <1>7, <2>1, <2>2 DEF User, OpenEdit, CancelEdit, Save, AddSave, Delete, ToggleForm, Send
<1>8. CASE Poll
  BY <1>2, <1>8 DEF Poll, TypeOK
<1>9. ASSUME NEW w \in WriteIds, ReceiveDeleted(w) PROVE ReadsAtHome'
  <2>1. writes[w].cluster \in Clusters /\ writes[w].namespace \in Selectable
    BY <1>9 DEF ReceiveDeleted, Returned, TypeOK, Write
  <2> QED
    BY <1>2, <1>6, <1>9, <2>1 DEF ReceiveDeleted
<1>10. ASSUME NEW w \in WriteIds, ServeWrite(w) \/ ReceiveSaved(w) \/ ReceiveAdded(w) \/ LoseWrite(w)
       PROVE  UNCHANGED reads
  BY <1>10 DEF ServeWrite, LoseWrite, Answer, ReceiveSaved, ReceiveAdded
<1>11. ASSUME NEW c \in Clusters, List(c) \/ FailListing(c) PROVE UNCHANGED reads
  BY <1>11 DEF List, ServeListing, ReceiveListing, FailListing
<1>12. CASE Refreshing \/ FailRefresh \/ UNCHANGED vars \/ Elsewhere
  BY <1>6, <1>12 DEF Refreshing, ServeRefresh, ReceiveRefresh, FailRefresh, Elsewhere, WriteElsewhere, UpdateCluster, vars
<1> QED
  BY <1>4, <1>5, <1>6, <1>7, <1>8, <1>9, <1>10, <1>11, <1>12 DEF Next, Metrics, Writing, Failure

LEMMA RefreshAtHomeStep ==
    ASSUME TypeInv, Grows, PlacedGrows, PlacedNow, RefreshAtHome, [Next]_vars
    PROVE  RefreshAtHome'
<1>1. CASE UNCHANGED refresh
  <2>1. refresh # None => refresh.cluster \in Clusters
    BY DEF TypeOK, Refresh
  <2> QED
    BY <1>1, <2>1, AtHomeStays DEF RefreshAtHome, AtHome
<1>2. ASSUME NEW w \in WriteIds, ReceiveAdded(w) PROVE RefreshAtHome'
  <2>1. CASE refresh' = [cluster |-> writes[w].cluster, namespace |-> writes[w].namespace,
                         list |-> None, cards |-> None]
    BY <2>1 DEF RefreshAtHome
  <2> QED
    BY <1>1, <1>2, <2>1 DEF ReceiveAdded
<1>3. CASE ServeRefresh
  <2>1. /\ refresh \in Refresh /\ refresh # None /\ refresh.cluster \in Clusters
        /\ UNCHANGED <<rows, placed>>
    BY <1>3 DEF ServeRefresh, TypeOK, Refresh
  <2>2. CASE refresh' = [refresh EXCEPT !.list = ListOf(refresh.cluster)]
    <3>1. refresh'.cluster = refresh.cluster /\ refresh'.cards = refresh.cards
      BY <2>1, <2>2 DEF Refresh
    <3> QED
      BY <2>1, <3>1 DEF RefreshAtHome, AtHome, Home
  <2>3. ASSUME NEW cards \in Cards, Answered(refresh.cluster, cards),
               refresh' = [refresh EXCEPT !.cards = cards]
        PROVE  RefreshAtHome'
    <3>1. refresh'.cluster = refresh.cluster /\ refresh'.cards = cards
      BY <2>1, <2>3 DEF Refresh
    <3>2. AtHome(cards, refresh.cluster)
      BY <2>1, <2>3, CardsAreHome
    <3> QED
      BY <2>1, <3>1, <3>2 DEF RefreshAtHome, AtHome, Home
  <2> QED
    BY <1>3, <2>2, <2>3 DEF ServeRefresh
<1>4. CASE ReceiveRefresh \/ FailRefresh
  BY <1>4 DEF ReceiveRefresh, FailRefresh, RefreshAtHome
<1>5. ASSUME NEW s \in Slots, Metrics(s) \/ FailMetrics(s) PROVE UNCHANGED refresh
  BY <1>5 DEF Metrics, ServeMetrics, ReceiveMetrics, FailMetrics
<1>6. ASSUME NEW w \in WriteIds, ServeWrite(w) \/ ReceiveSaved(w) \/ ReceiveDeleted(w) \/ LoseWrite(w)
      PROVE  UNCHANGED refresh
  BY <1>6 DEF ServeWrite, LoseWrite, Answer, ReceiveSaved, ReceiveDeleted
<1>7. ASSUME NEW c \in Clusters, List(c) \/ FailListing(c) PROVE UNCHANGED refresh
  BY <1>7 DEF List, ServeListing, ReceiveListing, FailListing
<1>8. CASE Poll \/ User \/ UNCHANGED vars \/ Elsewhere
  BY <1>1, <1>8 DEF Poll, Elsewhere, WriteElsewhere, UpdateCluster, User, SelectCluster, SelectNamespace, OpenEdit,
                   CancelEdit, Save, AddSave, Delete, ToggleForm, Send, vars
<1> QED
  BY <1>1, <1>2, <1>3, <1>4, <1>5, <1>6, <1>7, <1>8 DEF Next, Writing, Refreshing, Failure

LEMMA DataAtHomeStep ==
    ASSUME TypeInv, Grows, PlacedGrows, ReadsAtHome, RefreshAtHome, DataAtHome, [Next]_vars
    PROVE  DataAtHome'
<1>1. CASE UNCHANGED data
  <2>1. data # None => data.cluster \in Clusters
    BY DEF TypeOK, Data
  <2> QED
    BY <1>1, <2>1, AtHomeStays DEF DataAtHome, AtHome
<1>2. ASSUME NEW c, NEW n, NEW cards, Show(c, n, cards), AtHome(cards, c), UNCHANGED <<rows, placed>>
      PROVE  DataAtHome'
  BY <1>2 DEF Show, DataAtHome, AtHome, Home
<1>3. ASSUME NEW s \in Slots, ReceiveMetrics(s) PROVE DataAtHome'
  BY <1>2, <1>3 DEF ReceiveMetrics, ReadsAtHome, Idle
<1>4. CASE ReceiveRefresh
  BY <1>2, <1>4 DEF ReceiveRefresh, RefreshAtHome
<1>5. ASSUME NEW s \in Slots, ServeMetrics(s) \/ FailMetrics(s) PROVE UNCHANGED data
  BY <1>5 DEF ServeMetrics, FailMetrics
<1>6. ASSUME NEW w \in WriteIds, Writing(w) \/ LoseWrite(w) PROVE UNCHANGED data
  BY <1>6 DEF Writing, ServeWrite, LoseWrite, Answer, ReceiveSaved, ReceiveDeleted, ReceiveAdded
<1>7. ASSUME NEW c \in Clusters, List(c) \/ FailListing(c) PROVE UNCHANGED data
  BY <1>7 DEF List, ServeListing, ReceiveListing, FailListing
<1>8. CASE Poll \/ User \/ ServeRefresh \/ FailRefresh \/ UNCHANGED vars
           \/ Elsewhere
  BY <1>1, <1>8 DEF Poll, Elsewhere, WriteElsewhere, UpdateCluster, User, SelectCluster, SelectNamespace, OpenEdit,
                   CancelEdit, Save, AddSave, Delete, ToggleForm, Send, ServeRefresh, FailRefresh, vars
<1> QED
  BY <1>1, <1>3, <1>4, <1>5, <1>6, <1>7, <1>8 DEF Next, Metrics, Refreshing, Failure

\* Either the card is left as it is, for the same panel, or it is gone.
LEMMA CardStays ==
    ASSUME TypeInv, Grows, PlacedGrows, CardAtHome,
           id' = id, loading' => loading, error => error', late => late', data' # None,
           card' # None => card # None /\ card'.panel = card.panel
    PROVE  CardAtHome'
<1> SUFFICES ASSUME card' # None PROVE card # None /\ card'.panel = card.panel /\ card.panel \in Panels
  BY DEF CardAtHome, Shown, Grows, PlacedGrows, Home, TypeOK
<1> QED
  BY DEF TypeOK, Card

LEMMA KeptPanel ==
    ASSUME NEW k \in Card, Kept(k) # None PROVE Kept(k) = k
BY DEF Kept

LEMMA CardAtHomeStep ==
    ASSUME TypeInv, Grows, PlacedGrows, DataAtHome, StaleOnlyIfLate, CardAtHome, [Next]_vars
    PROVE  CardAtHome'
<1>1. CASE UNCHANGED <<id, loading, error, late, data, card>>
  <2>1. CASE card = None
    BY <1>1, <2>1 DEF CardAtHome
  <2>2. CASE card # None
    BY <1>1, <2>2, CardStays DEF CardAtHome, Shown
  <2> QED
    BY <2>1, <2>2
<1>2. CASE card' = None
  BY <1>2 DEF CardAtHome
<1>3. ASSUME NEW c \in Clusters, NEW n \in Selectable, NEW cards \in Cards, Show(c, n, cards),
             UNCHANGED <<id, error>>, loading' => loading
      PROVE  CardAtHome'
  <2>1. data' \in Data
    BY <1>3 DEF Show, Data
  <2>2. data' # None
    BY <2>1, OverviewAssumption
  <2>3. card' = None \/ (card' = card /\ card # None)
    BY <1>3 DEF Show
  <2>4. late => late'
    BY <1>3 DEF Show
  <2> QED
    BY <1>2, <1>3, <2>2, <2>3, <2>4, CardStays
<1>4. ASSUME NEW n \in Names, OpenEdit(n) PROVE CardAtHome'
  <2>1. /\ rows[data.cards[n]] # None /\ Home(data.cards[n]) \in placed[data.cluster]
        /\ Shown /\ data \in Data /\ data.cards[n] \in Panels
    BY <1>4 DEF OpenEdit, DataAtHome, AtHome, Shown, TypeOK
  <2>2. data.cluster = id \/ error \/ late
    <3>1. data # None
      BY <2>1 DEF Shown
    <3>2. ShownKey = Key(data)
      BY <3>1 DEF ShownKey
    <3>3. ShownKey # None
      BY <2>1, <3>2, KeyType, OverviewAssumption DEF Data
    <3>4. ShownKey = Selected \/ error \/ late
      BY <2>1, <3>3 DEF StaleOnlyIfLate, TheFeed!StaleOnlyIfLate, TheFeed!OnScreen, Shown
    <3> QED
      BY <3>2, <3>4 DEF Key, Selected
  <2>3. card'.panel = data.cards[n] /\ UNCHANGED <<rows, placed, id, loading, error, late, data>>
    BY <1>4 DEF OpenEdit
  <2> QED
    BY <2>1, <2>2, <2>3 DEF CardAtHome, Home, Shown
<1>5. ASSUME card # None, card' = Kept([card EXCEPT !.open = FALSE]) \/ card' = card,
             UNCHANGED <<id, loading, error, late, data>>
      PROVE  CardAtHome'
  <2>1. [card EXCEPT !.open = FALSE] \in Card /\ [card EXCEPT !.open = FALSE].panel = card.panel
    BY <1>5 DEF TypeOK, Card
  <2>2. card' # None => card'.panel = card.panel
    BY <1>5, <2>1, KeptPanel
  <2>3. data' # None
    BY <1>5 DEF CardAtHome, Shown
  <2> QED
    BY <1>5, <2>2, <2>3, CardStays
<1>6. ASSUME NEW n \in Names, Save(n) PROVE CardAtHome'
  <2>1. UNCHANGED <<id, loading, error, late, data>> /\ card # None /\ card \in Card
    BY <1>6 DEF Save, Send, Editing, TypeOK
  <2>2. card' # None => card'.panel = card.panel
    BY <1>6, <2>1 DEF Save, Card
  <2>3. data' # None
    BY <2>1 DEF CardAtHome, Shown
  <2> QED
    BY <2>1, <2>2, <2>3, CardStays
<1>7. CASE Delete
  <2>1. UNCHANGED <<id, loading, error, late, data>> /\ card # None /\ card \in Card
    BY <1>7 DEF Delete, Send, Editing, TypeOK
  <2>2. card' # None => card'.panel = card.panel
    BY <1>7, <2>1 DEF Delete, Card
  <2>3. data' # None
    BY <2>1 DEF CardAtHome, Shown
  <2> QED
    BY <2>1, <2>2, <2>3, CardStays
<1>8. ASSUME NEW w \in WriteIds, ReceiveSaved(w) \/ ReceiveDeleted(w) PROVE CardAtHome'
  <2>1. UNCHANGED <<id, loading, error, late, data>>
    BY <1>8 DEF ReceiveSaved, ReceiveDeleted
  <2>2. CASE UNCHANGED card
    BY <1>1, <2>1, <2>2
  <2>3. CASE card # None /\ \/ \E o \in BOOLEAN : card' = Kept([card EXCEPT !.saving = 0, !.open = o])
                            \/ card' = Kept([card EXCEPT !.deleting = 0])
    <3>1. /\ [card EXCEPT !.deleting = 0] \in Card /\ [card EXCEPT !.deleting = 0].panel = card.panel
          /\ \A o \in BOOLEAN : /\ [card EXCEPT !.saving = 0, !.open = o] \in Card
                                /\ [card EXCEPT !.saving = 0, !.open = o].panel = card.panel
      BY <2>3 DEF TypeOK, Card
    <3>2. card' # None => card'.panel = card.panel
      BY <2>3, <3>1, KeptPanel
    <3>3. data' # None
      BY <2>1, <2>3 DEF CardAtHome, Shown
    <3> QED
      BY <2>1, <2>3, <3>2, <3>3, CardStays
  <2>4. card # None => (card.open /\ writes[w].state = "failed") \in BOOLEAN
    OBVIOUS
  <2>5. UNCHANGED card \/ (card # None /\ \/ \E o \in BOOLEAN : card' = Kept([card EXCEPT !.saving = 0, !.open = o])
                                          \/ card' = Kept([card EXCEPT !.deleting = 0]))
    BY <1>8, <2>4 DEF ReceiveSaved, ReceiveDeleted
  <2> QED
    BY <2>2, <2>3, <2>5
<1>9. ASSUME NEW s \in Slots, Metrics(s) \/ FailMetrics(s) PROVE CardAtHome'
  <2>1. CASE ServeMetrics(s)
    BY <1>1, <2>1 DEF ServeMetrics
  <2>2. CASE ReceiveMetrics(s)
    <3>1. reads[s] \in Read /\ reads[s].cards # None
      BY <2>2 DEF ReceiveMetrics, Idle, TypeOK
    <3>2. reads[s].cluster \in Clusters /\ reads[s].namespace \in Selectable /\ reads[s].cards \in Cards
      BY <3>1 DEF Read
    <3> QED
      BY <1>3, <2>2, <3>2 DEF ReceiveMetrics
  <2>3. CASE FailMetrics(s)
    <3>1. UNCHANGED <<id, data, late, card>> /\ (loading' => loading) /\ (error => error')
      BY <2>3 DEF FailMetrics
    <3> QED
      BY <1>2, <3>1, CardStays DEF CardAtHome, Shown
  <2> QED
    BY <1>9, <2>1, <2>2, <2>3 DEF Metrics
<1>10. CASE Refreshing \/ FailRefresh
  <2>1. CASE ReceiveRefresh
    <3>1. refresh \in Refresh /\ refresh.cards # None
      BY <2>1 DEF ReceiveRefresh, TypeOK
    <3>2. refresh.cluster \in Clusters /\ refresh.namespace \in Selectable /\ refresh.cards \in Cards
      BY <3>1 DEF Refresh
    <3> QED
      BY <1>3, <2>1, <3>2 DEF ReceiveRefresh
  <2> QED
    BY <1>1, <1>10, <2>1 DEF Refreshing, ServeRefresh, FailRefresh
<1>11. ASSUME NEW w \in WriteIds, ServeWrite(w) \/ ReceiveAdded(w) \/ LoseWrite(w) PROVE CardAtHome'
  BY <1>1, <1>11 DEF ServeWrite, LoseWrite, Answer, ReceiveAdded
<1>12. ASSUME NEW c \in Clusters, List(c) \/ FailListing(c) PROVE CardAtHome'
  BY <1>1, <1>12 DEF List, ServeListing, ReceiveListing, FailListing
<1>13. CASE Poll \/ UNCHANGED vars \/ Elsewhere
  BY <1>1, <1>13 DEF Poll, Elsewhere, WriteElsewhere, UpdateCluster, vars
<1>14. CASE User
  <2>1. ASSUME NEW c \in Clusters, SelectCluster(c) PROVE CardAtHome'
    BY <1>2, <2>1 DEF SelectCluster, Reload
  <2>2. ASSUME NEW n \in Selectable, SelectNamespace(n) PROVE CardAtHome'
    BY <1>2, <2>2 DEF SelectNamespace, Reload
  <2>3. ASSUME NEW n \in Names, AddSave(n) PROVE CardAtHome'
    BY <1>1, <2>3 DEF AddSave, Send
  <2>4. CASE CancelEdit
    BY <1>5, <2>4 DEF CancelEdit
  <2>5. CASE ToggleForm
    BY <1>1, <2>5 DEF ToggleForm
  <2> QED
    BY <1>4, <1>6, <1>7, <1>14, <2>1, <2>2, <2>3, <2>4, <2>5 DEF User
<1> QED
  BY <1>8, <1>9, <1>10, <1>11, <1>12, <1>13, <1>14 DEF Next, Writing, Failure

\* A card that is edited was opened for, and stands for, panels of environments
\* that the cluster on the page is or was in, but for a failure or a late
\* answer, however clusters are moved meanwhile: what is read for a cluster is
\* in the environment it is in then, and an environment keeps its panels.
THEOREM EditsStayHome == Spec => []EditStaysHome
<1>1. Init => HomeInv
  <2>1. ASSUME Init PROVE ReadsAtHome
    BY <2>1 DEF Init, ReadsAtHome, Request
  <2> QED
    BY <2>1 DEF Init, HomeInv, PlacedNow, RefreshAtHome, DataAtHome, CardAtHome
<1>2. TypeInv /\ StaleOnlyIfLate /\ HomeInv /\ [Next]_vars => HomeInv'
  <2> SUFFICES ASSUME TypeInv, StaleOnlyIfLate, HomeInv, [Next]_vars PROVE HomeInv'
    OBVIOUS
  <2>1. Grows /\ PlacedNow' /\ PlacedGrows
    BY RowsGrow, PlacedStep DEF HomeInv
  <2> QED
    BY <2>1, ReadsAtHomeStep, RefreshAtHomeStep, DataAtHomeStep, CardAtHomeStep DEF HomeInv
<1>3. TypeInv /\ StaleOnlyIfLate /\ HomeInv => EditStaysHome
  <2> SUFFICES ASSUME TypeInv, StaleOnlyIfLate, HomeInv, Editing
               PROVE  {Home(data.cards[card.name]), Home(card.panel)} \subseteq placed[id]
                      \/ error \/ late
    BY DEF EditStaysHome
  <2>1. /\ card \in Card /\ card.name \in Names /\ data \in Data /\ data # None /\ ~loading
        /\ data.cards[card.name] \in Panels
    BY DEF Editing, HomeInv, CardAtHome, Shown, TypeOK, Card
  <2>2. Home(data.cards[card.name]) \in placed[data.cluster]
    BY <2>1 DEF HomeInv, DataAtHome, AtHome
  <2>3. ShownKey = Key(data) /\ ShownKey # None
    BY <2>1, KeyType, OverviewAssumption DEF ShownKey, Data
  <2>4. ShownKey = Selected \/ error \/ late
    BY <2>1, <2>3 DEF StaleOnlyIfLate, TheFeed!StaleOnlyIfLate, TheFeed!OnScreen
  <2>5. data.cluster = id \/ error \/ late
    BY <2>3, <2>4 DEF Key, Selected
  <2> QED
    BY <2>2, <2>5 DEF HomeInv, CardAtHome, Editing
<1> QED
  BY <1>1, <1>2, <1>3, TypeCorrect, StaleIsExplained, PTL DEF Spec
=============================================================================
