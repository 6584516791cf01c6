------------------------------ MODULE Overview ------------------------------
(***************************************************************************)
(* The overview page of a cluster (ui/src/pages/OverviewPage.tsx) with the *)
(* editor of its cards (ui/src/components/MetricCard.tsx), as one tab of   *)
(* the browser shows it, and the rows that the API reads and writes for it.*)
(*                                                                         *)
(* A request is sent in one step, served in another, and its answer is     *)
(* handled in a third: requests overlap and their answers come in any      *)
(* order.  Nothing in the page cancels a request or drops its answer.      *)
(*                                                                         *)
(* The name of a panel matters because a card is known by it (key={m.name})*)
(* and its expression because the editor copies it; units and values do not*)
(* appear.  An expression is the number of the row or of the write that it *)
(* was first typed for.                                                    *)
(***************************************************************************)
EXTENDS Naturals

CONSTANTS
    Clusters, Environments,
    FirstClusters,      \* the clusters at the start
    Namespaces,         \* the namespaces Grafana lists
    All,                \* the first option of the selector, ''
    Names,              \* the names panels have
    MaxPanelId,         \* the end of the sequence of panel ids
    FirstRows,          \* the panels at the start
    BadExprs,           \* the expressions that Grafana refuses
    First,              \* the cluster of the page's first route
    Operations,         \* what users do: "edit", "add", "elsewhere"
    MaxReads,           \* requests for metrics that are under way at once
    MaxSelections, MaxWrites, MaxFaults,    \* bounds of the search
    None                \* no row, no answer, no request

VARIABLES
    rows,           \* the table panels; a deleted row stays, not live
    held,           \* history: every expression a panel has had
    clusters,       \* the table clusters
    placed,         \* history: the environments a cluster is or was in
    id, namespace,  \* what is selected
    data,           \* the last answer with metrics
    late,           \* history: an answer for an earlier selection was shown
    loading, error,
    panels,         \* the page's copy of the expressions
    card,           \* the state of the one card that is, or was, edited
    form,           \* the form for a new panel
    reads,          \* requests for metrics, by slot
    listings,       \* requests for the panels of a cluster
    writes,         \* requests that write, by number
    refresh,        \* the two reads after a panel was added
    selections, sent, faults    \* counted against the bounds

table == <<rows, held, clusters, placed>>
selection == <<id, namespace, selections>>
shown == <<data, late>>
flags == <<loading, error>>
edits == <<card, form>>
vars == <<table, selection, shown, flags, panels, edits, reads, listings, writes,
          refresh, sent, faults>>

Panels == 1 .. MaxPanelId
Slots == 1 .. MaxReads
WriteIds == 1 .. MaxWrites
Exprs == 1 .. MaxPanelId + MaxWrites
Blank == 0                  \* an empty text, or an expression the page lacks
NoPanel == 0                \* a card of demo data has no panel_id
Absent == MaxPanelId + 1    \* no card of that name

Selectable == {All} \cup Namespaces
Selections == [cluster : Clusters, namespace : Selectable]
Row == [environment : Environments, name : Names, expr : Exprs, live : BOOLEAN]
Cluster == [environment : Environments, grafana : BOOLEAN]    \* grafana_url # ''
Cards == [Names -> Panels \cup {NoPanel, Absent}]
Listing == [Panels -> Exprs \cup {Blank}]
Asked == [list : Listing \cup {None}]
Data == [cluster : Clusters, namespace : Selectable, cards : Cards]
Read == [cluster : Clusters, namespace : Selectable, quiet : BOOLEAN, cards : Cards \cup {None}]
Write == [op : {"save", "delete", "add"}, cluster : Clusters, namespace : Selectable,
          panel : Panels \cup {NoPanel}, name : Names, expr : Exprs,
          state : {"sent", "done", "failed"}]
Refresh == [cluster : Clusters, namespace : Selectable, list : Listing \cup {None},
            cards : Cards \cup {None}]
Card == [name : Names, panel : Panels, expr : Exprs \cup {Blank}, open : BOOLEAN,
         saving : WriteIds \cup {0}, deleting : WriteIds \cup {0}]

ASSUME OverviewAssumption ==
    /\ MaxPanelId \in Nat /\ MaxReads \in Nat \ {0} /\ MaxWrites \in Nat
    /\ MaxSelections \in Nat /\ MaxFaults \in Nat
    /\ First \in Clusters
    /\ FirstClusters \in [Clusters -> Cluster]
    /\ FirstRows \in [Panels -> Row \cup {None}]
    /\ \A p \in Panels : FirstRows[p] # None => FirstRows[p].expr = p
    /\ None \notin Row \cup Cards \cup Listing \cup Asked \cup Data \cup Read
                   \cup Write \cup Refresh \cup Card
                   \cup Selections \cup [key : Selections, quiet : BOOLEAN]

Fault == faults < MaxFaults /\ faults' = faults + 1

-----------------------------------------------------------------------------
(* What the API answers.                                                    *)

Live(p) == rows[p] # None /\ rows[p].live

Belongs(p, c) == Live(p) /\ rows[p].environment = clusters[c].environment

Named(n, c) == {p \in Panels : Belongs(p, c) /\ rows[p].name = n}

Empty(c) == \A p \in Panels : ~Belongs(p, c)

DefaultCards == [n \in Names |-> NoPanel]

\* Without any panel the defaults are asked for, which have no id.  Names are
\* not unique in the table; React shows any of the cards with the same key.
RealCards(c) ==
    IF Empty(c) THEN {DefaultCards}
    ELSE {f \in [Names -> Panels \cup {Absent}] : \A n \in Names :
            IF Named(n, c) = {} THEN f[n] = Absent ELSE f[n] \in Named(n, c)}

\* Demo data has the names of the panels and not their ids.
DemoCards(c) ==
    [n \in Names |-> IF Named(n, c) = {} /\ ~Empty(c) THEN Absent ELSE NoPanel]

\* Without an address there is only demo data, and one panel whose expression
\* is refused makes demo data of all of them, for as long as it is so.
Mocked(c) ==
    ~clusters[c].grafana \/ \E p \in Panels : Belongs(p, c) /\ rows[p].expr \in BadExprs

Answers(c) == IF Mocked(c) THEN {DemoCards(c)} ELSE RealCards(c)

\* Grafana may also be out of reach for once, or the panels not be read.
Answered(c, cards) ==
    \/ cards \in Answers(c) /\ UNCHANGED faults
    \/ cards \in {DemoCards(c), DefaultCards} /\ Fault

ListOf(c) == [p \in Panels |-> IF Belongs(p, c) THEN rows[p].expr ELSE Blank]

-----------------------------------------------------------------------------
(* Requests for metrics and what their answers do.                          *)

Idle(s) == reads[s] = None

\* Slots have no meaning: the first idle one is taken.
Free(s) == Idle(s) /\ \A t \in 1 .. s - 1 : ~Idle(t)

Request(c, n, quiet) == [cluster |-> c, namespace |-> n, quiet |-> quiet, cards |-> None]

Ask(c, n, quiet) ==
    \E s \in Slots : Free(s) /\ reads' = [reads EXCEPT ![s] = Request(c, n, quiet)]

\* A card stays mounted while an answer has one of its name.
Show(c, n, cards) ==
    /\ data' = [cluster |-> c, namespace |-> n, cards |-> cards]
    /\ card' = IF card # None /\ cards[card.name] = Absent THEN None ELSE card
    /\ late' = (late \/ c # id \/ n # namespace)

ServeMetrics(s) ==
    /\ ~Idle(s) /\ reads[s].cards = None
    /\ \E cards \in Cards :
           Answered(reads[s].cluster, cards) /\ reads' = [reads EXCEPT ![s].cards = cards]
    /\ UNCHANGED <<table, selection, shown, flags, panels, edits, listings, writes, refresh, sent>>

\* .then(setData) and .finally(setLoading(false)); a quiet one has no finally.
ReceiveMetrics(s) ==
    /\ ~Idle(s) /\ reads[s].cards # None
    /\ Show(reads[s].cluster, reads[s].namespace, reads[s].cards)
    /\ loading' = (loading /\ reads[s].quiet)
    /\ reads' = [reads EXCEPT ![s] = None]
    /\ UNCHANGED <<table, selection, error, panels, form, listings, writes, refresh, sent, faults>>

\* As if the failure of a request were not said.
FailMetricsSilently(s) ==
    /\ ~Idle(s)
    /\ Fault
    /\ loading' = (loading /\ reads[s].quiet)
    /\ reads' = [reads EXCEPT ![s] = None]
    /\ UNCHANGED <<table, selection, shown, error, panels, edits, listings, writes, refresh, sent>>

\* No answer, or one with an error.
FailMetrics(s) ==
    /\ ~Idle(s)
    /\ Fault
    /\ error' = (error \/ ~reads[s].quiet)
    /\ loading' = (loading /\ reads[s].quiet)
    /\ reads' = [reads EXCEPT ![s] = None]
    /\ UNCHANGED <<table, selection, shown, panels, edits, listings, writes, refresh, sent>>

-----------------------------------------------------------------------------
(* Selecting, and the interval.                                             *)

\* As if the old cards stayed while the new ones are loaded.
ReloadInPlace ==
    /\ selections < MaxSelections
    /\ selections' = selections + 1
    /\ error' = FALSE
    /\ late' = FALSE
    /\ UNCHANGED <<loading, card>>

\* loading hides the cards, which loses what they had in their editors.
Reload ==
    /\ selections < MaxSelections
    /\ selections' = selections + 1
    /\ loading' = TRUE /\ error' = FALSE
    /\ late' = FALSE
    /\ card' = None

\* The effects of the first render with a new id still have the old namespace:
\* if one was selected, the second effect asks for it, and asks again when the
\* first effect has reset it.
AskTwice(c) ==
    \E s, t \in Slots :
        /\ Free(s) /\ Idle(t) /\ s # t
        /\ reads' = [reads EXCEPT ![s] = Request(c, namespace, FALSE),
                                  ![t] = Request(c, All, FALSE)]

\* A link of the sidebar.  One listing of a cluster is under way at a time.
SelectCluster(c) ==
    /\ c # id
    /\ listings[c] = None
    /\ id' = c
    /\ namespace' = All
    /\ panels' = [p \in Panels |-> Blank]
    /\ listings' = [listings EXCEPT ![c] = [list |-> None]]
    /\ IF namespace = All THEN Ask(c, All, FALSE) ELSE AskTwice(c)
    /\ Reload
    /\ UNCHANGED <<table, data, form, writes, refresh, sent, faults>>

\* The options are the namespaces of this cluster, or of an earlier one whose
\* list came late: any namespace may be among them.
SelectNamespace(n) ==
    /\ n # namespace
    /\ namespace' = n
    /\ Ask(id, n, FALSE)
    /\ Reload
    /\ UNCHANGED <<table, id, data, panels, form, listings, writes, refresh, sent, faults>>

\* As if the effect left its interval running when it is replaced.
PollWithoutCleanup ==
    /\ Ask(id, namespace, FALSE) \/ Ask(First, All, FALSE)
    /\ UNCHANGED <<table, selection, shown, flags, panels, edits, listings, writes, refresh,
                   sent, faults>>

\* The interval of the current effect; an earlier one is cleared.
Poll ==
    /\ Ask(id, namespace, FALSE)
    /\ UNCHANGED <<table, selection, shown, flags, panels, edits, listings, writes, refresh,
                   sent, faults>>

-----------------------------------------------------------------------------
(* The panels with their expressions, which are asked for once per cluster. *)

ServeListing(c) ==
    /\ listings[c] # None /\ listings[c].list = None
    /\ listings' = [listings EXCEPT ![c].list = ListOf(c)]
    /\ UNCHANGED <<table, selection, shown, flags, panels, edits, reads, writes, refresh,
                   sent, faults>>

ReceiveListing(c) ==
    /\ listings[c] # None /\ listings[c].list # None
    /\ panels' = listings[c].list
    /\ listings' = [listings EXCEPT ![c] = None]
    /\ UNCHANGED <<table, selection, shown, flags, edits, reads, writes, refresh, sent, faults>>

\* .catch(() => {}): nobody asks again.
FailListing(c) ==
    /\ listings[c] # None
    /\ Fault
    /\ listings' = [listings EXCEPT ![c] = None]
    /\ UNCHANGED <<table, selection, shown, flags, panels, edits, reads, writes, refresh, sent>>

-----------------------------------------------------------------------------
(* The editor of a card.                                                    *)

Shown == ~loading /\ data # None

\* An untouched card has the state it was mounted with.
Kept(k) == IF ~k.open /\ k.saving = 0 /\ k.deleting = 0 THEN None ELSE k

\* The button is there for a card with a panel.  One card at a time.
OpenEdit(n) ==
    /\ "edit" \in Operations
    /\ Shown /\ data.cards[n] \in Panels
    /\ card # None => card.name = n /\ ~card.open
    /\ card' = [name |-> n, panel |-> data.cards[n], expr |-> panels[data.cards[n]],
                open |-> TRUE,
                saving |-> IF card = None THEN 0 ELSE card.saving,
                deleting |-> IF card = None THEN 0 ELSE card.deleting]
    /\ UNCHANGED <<table, selection, shown, flags, panels, form, reads, listings, writes,
                   refresh, sent, faults>>

CancelEdit ==
    /\ card # None /\ card.open
    /\ card' = Kept([card EXCEPT !.open = FALSE])
    /\ UNCHANGED <<table, selection, shown, flags, panels, form, reads, listings, writes,
                   refresh, sent, faults>>

Send(op, p, n, e) ==
    /\ sent < MaxWrites
    /\ sent' = sent + 1
    /\ writes' = [writes EXCEPT ![sent + 1] =
            [op |-> op, cluster |-> id, namespace |-> namespace, panel |-> p,
             name |-> n, expr |-> e, state |-> "sent"]]
    /\ UNCHANGED <<table, selection, shown, flags, panels, reads, listings, refresh, faults>>

\* The text of write number w, if it is a new one.
NewText(w) == MaxPanelId + w

\* Both handlers return without a panel, and take the one the card has now.
Editing == card # None /\ card.open /\ data.cards[card.name] \in Panels

\* As if an empty text could be saved.
SaveBlank(n) ==
    /\ Editing /\ card.saving = 0
    /\ \E e \in {card.expr, NewText(sent + 1)} : Send("save", data.cards[card.name], n, e)
    /\ card' = [card EXCEPT !.saving = sent + 1]
    /\ UNCHANGED form

\* Save is disabled for an empty text and while a save is under way.
Save(n) ==
    /\ Editing /\ card.saving = 0
    /\ \E e \in {card.expr, NewText(sent + 1)} \ {Blank} :
           Send("save", data.cards[card.name], n, e)
    /\ card' = [card EXCEPT !.saving = sent + 1]
    /\ UNCHANGED form

Delete ==
    /\ Editing /\ card.deleting = 0
    /\ Send("delete", data.cards[card.name], card.name, NewText(sent + 1))
    /\ card' = [card EXCEPT !.deleting = sent + 1]
    /\ UNCHANGED form

Returned(w, op) == writes[w] # None /\ writes[w].op = op /\ writes[w].state # "sent"

\* As if handlePanelSaved did not compare the ids.
PanelSavedEverywhere(p, e) == [q \in Panels |-> IF panels[q] = Blank THEN Blank ELSE e]

\* handlePanelSaved changes what the page has, and adds nothing.
PanelSaved(p, e) == [panels EXCEPT ![p] = IF @ = Blank THEN Blank ELSE e]

\* A save that was made ends the editing of the card that sent it, if that is
\* still mounted, even if its editor was closed and opened again meanwhile.
ReceiveSaved(w) ==
    /\ Returned(w, "save")
    /\ writes' = [writes EXCEPT ![w] = None]
    /\ panels' = IF writes[w].state = "done"
                 THEN PanelSaved(writes[w].panel, writes[w].expr) ELSE panels
    /\ card' = IF card # None /\ card.saving = w
               THEN Kept([card EXCEPT !.saving = 0,
                                      !.open = @ /\ writes[w].state = "failed"])
               ELSE card
    /\ UNCHANGED <<table, selection, shown, flags, form, reads, listings, refresh, sent, faults>>

\* handlePanelDeleted asks for the metrics of the cluster and the namespace of
\* the render that the click happened in.
ReceiveDeleted(w) ==
    /\ Returned(w, "delete")
    /\ writes' = [writes EXCEPT ![w] = None]
    /\ card' = IF card # None /\ card.deleting = w THEN Kept([card EXCEPT !.deleting = 0])
                                                   ELSE card
    /\ \/ /\ writes[w].state = "done"
          /\ panels' = [panels EXCEPT ![writes[w].panel] = Blank]
          /\ Ask(writes[w].cluster, writes[w].namespace, TRUE)
       \/ writes[w].state = "failed" /\ UNCHANGED <<panels, reads>>
    /\ UNCHANGED <<table, selection, shown, flags, form, listings, refresh, sent, faults>>

-----------------------------------------------------------------------------
(* The form for a new panel.  It belongs to the page and not to a cluster:  *)
(* it stays as it is when another one is selected.                          *)

ToggleForm ==
    /\ "add" \in Operations
    /\ form' = [form EXCEPT !.shown = ~@]
    /\ UNCHANGED <<table, selection, shown, flags, panels, card, reads, listings, writes,
                   refresh, sent, faults>>

CanAdd == form.shown /\ ~form.saving

AddSave(n) ==
    /\ CanAdd
    /\ Send("add", NoPanel, n, NewText(sent + 1))
    /\ form' = [form EXCEPT !.saving = TRUE]
    /\ UNCHANGED card

\* createPanelForCluster returned: the form closes, and the panels and the
\* metrics are read once more, for the cluster of the click.
ReceiveAdded(w) ==
    /\ Returned(w, "add")
    /\ writes' = [writes EXCEPT ![w] = None]
    /\ \/ /\ writes[w].state = "done"
          /\ form' = [form EXCEPT !.shown = FALSE]
          /\ refresh' = [cluster |-> writes[w].cluster, namespace |-> writes[w].namespace,
                         list |-> None, cards |-> None]
       \/ /\ writes[w].state = "failed"
          /\ form' = [form EXCEPT !.saving = FALSE]
          /\ UNCHANGED refresh
    /\ UNCHANGED <<table, selection, shown, flags, panels, card, reads, listings, sent, faults>>

ServeRefresh ==
    /\ refresh # None
    /\ \/ /\ refresh.list = None
          /\ refresh' = [refresh EXCEPT !.list = ListOf(refresh.cluster)]
          /\ UNCHANGED faults
       \/ /\ refresh.cards = None
          /\ \E cards \in Cards :
                 Answered(refresh.cluster, cards) /\ refresh' = [refresh EXCEPT !.cards = cards]
    /\ UNCHANGED <<table, selection, shown, flags, panels, edits, reads, listings, writes, sent>>

\* Promise.all waits for both answers, or for the first failure.
ReceiveRefresh ==
    /\ refresh # None /\ refresh.list # None /\ refresh.cards # None
    /\ panels' = refresh.list
    /\ Show(refresh.cluster, refresh.namespace, refresh.cards)
    /\ refresh' = None
    /\ form' = [form EXCEPT !.saving = FALSE]
    /\ UNCHANGED <<table, selection, flags, reads, listings, writes, sent, faults>>

\* As if the form were enabled again only after both reads.
FailRefreshForGood ==
    /\ refresh # None
    /\ Fault
    /\ refresh' = None
    /\ UNCHANGED <<table, selection, shown, flags, panels, edits, reads, listings, writes, sent>>

FailRefresh ==
    /\ refresh # None
    /\ Fault
    /\ refresh' = None
    /\ form' = [form EXCEPT !.saving = FALSE]
    /\ UNCHANGED <<table, selection, shown, flags, panels, card, reads, listings, writes, sent>>

-----------------------------------------------------------------------------
(* What a write does to the table: the handlers of PanelHandlers, each as   *)
(* one step of the page's time.                                             *)

Change(p, row) ==
    /\ rows' = [rows EXCEPT ![p] = row]
    /\ held' = [held EXCEPT ![p] = @ \cup {row.expr}]
    /\ UNCHANGED <<clusters, placed>>

\* The next value of the sequence.
IsNextId(p) == rows[p] = None /\ \A q \in 1 .. p - 1 : rows[q] # None

NewRow(c, n, e) ==
    [environment |-> clusters[c].environment, name |-> n, expr |-> e, live |-> TRUE]

\* A panel that does not belong to the cluster is not found.
Refused(w) == w.op # "add" /\ ~Belongs(w.panel, w.cluster)

Apply(w) ==
    \/ /\ w.op = "save" /\ ~Refused(w)
       /\ Change(w.panel, [rows[w.panel] EXCEPT !.name = w.name, !.expr = w.expr])
    \/ /\ w.op = "delete" /\ ~Refused(w)
       /\ Change(w.panel, [rows[w.panel] EXCEPT !.live = FALSE])
    \/ /\ w.op = "add"
       /\ \E p \in Panels : IsNextId(p) /\
             Change(p, NewRow(w.cluster, w.name, w.expr))

Answer(w, state) ==
    /\ writes[w] # None /\ writes[w].state = "sent"
    /\ writes' = [writes EXCEPT ![w].state = state]
    /\ UNCHANGED <<selection, shown, flags, panels, edits, reads, listings, refresh, sent>>

ServeWrite(w) ==
    /\ \/ Answer(w, "done") /\ Apply(writes[w])
       \/ Answer(w, "failed") /\ Refused(writes[w]) /\ UNCHANGED table
    /\ UNCHANGED faults

\* The request or its answer is lost, or the sequence is at its end.
LoseWrite(w) ==
    /\ Answer(w, "failed")
    /\ Fault
    /\ UNCHANGED table \/ Apply(writes[w])

\* Another user, on another page.
WriteElsewhere(p) ==
    /\ "elsewhere" \in Operations
    /\ sent < MaxWrites
    /\ sent' = sent + 1
    /\ \/ /\ Live(p)
          /\ \E n \in Names : Change(p, [rows[p] EXCEPT !.name = n, !.expr = NewText(sent + 1)])
       \/ Live(p) /\ Change(p, [rows[p] EXCEPT !.live = FALSE])
       \/ /\ IsNextId(p)
          /\ \E c \in Clusters, n \in Names : Change(p, NewRow(c, n, NewText(sent + 1)))
    /\ UNCHANGED <<selection, shown, flags, panels, edits, reads, listings, writes, refresh, faults>>

\* An administrator, on the page for clusters: the name aside, every field of
\* the row is written, and nothing tells this page of it.
UpdateCluster(c) ==
    /\ "elsewhere" \in Operations
    /\ sent < MaxWrites
    /\ sent' = sent + 1
    /\ \E cluster \in Cluster :
           /\ clusters' = [clusters EXCEPT ![c] = cluster]
           /\ placed' = [placed EXCEPT ![c] = @ \cup {cluster.environment}]
    /\ UNCHANGED <<rows, held, selection, shown, flags, panels, edits, reads, listings,
                   writes, refresh, faults>>

-----------------------------------------------------------------------------

\* The page as its first render and its effects leave it.
Init ==
    /\ rows = FirstRows
    /\ held = [p \in Panels |-> IF FirstRows[p] = None THEN {} ELSE {FirstRows[p].expr}]
    /\ clusters = FirstClusters
    /\ placed = [c \in Clusters |-> {FirstClusters[c].environment}]
    /\ id = First /\ namespace = All
    /\ data = None /\ late = FALSE
    /\ loading = TRUE /\ error = FALSE
    /\ panels = [p \in Panels |-> Blank]
    /\ card = None
    /\ form = [shown |-> FALSE, saving |-> FALSE]
    /\ reads = [s \in Slots |-> IF s = 1 THEN Request(First, All, FALSE) ELSE None]
    /\ listings = [c \in Clusters |-> IF c = First THEN [list |-> None] ELSE None]
    /\ writes = [w \in WriteIds |-> None]
    /\ refresh = None
    /\ selections = 0 /\ sent = 0 /\ faults = 0

User ==
    \/ \E c \in Clusters : SelectCluster(c)
    \/ \E n \in Selectable : SelectNamespace(n)
    \/ \E n \in Names : OpenEdit(n) \/ Save(n) \/ AddSave(n)
    \/ CancelEdit \/ Delete \/ ToggleForm

Metrics(s) == ServeMetrics(s) \/ ReceiveMetrics(s)
List(c) == ServeListing(c) \/ ReceiveListing(c)
Writing(w) == ServeWrite(w) \/ ReceiveSaved(w) \/ ReceiveDeleted(w) \/ ReceiveAdded(w)
Refreshing == ServeRefresh \/ ReceiveRefresh

Elsewhere ==
    \/ \E p \in Panels : WriteElsewhere(p)
    \/ \E c \in Clusters : UpdateCluster(c)

Failure ==
    \/ \E s \in Slots : FailMetrics(s)
    \/ \E c \in Clusters : FailListing(c)
    \/ \E w \in WriteIds : LoseWrite(w)
    \/ FailRefresh

Next ==
    \/ User
    \/ Poll
    \/ \E s \in Slots : Metrics(s)
    \/ \E c \in Clusters : List(c)
    \/ \E w \in WriteIds : Writing(w)
    \/ Refreshing
    \/ Failure
    \/ Elsewhere

Spec == Init /\ [][Next]_vars

\* The interval goes on, and every request is answered.
FairSpec ==
    /\ Spec
    /\ WF_vars(Poll)
    /\ \A s \in Slots : WF_vars(Metrics(s))
    /\ \A w \in WriteIds : WF_vars(Writing(w))
    /\ WF_vars(Refreshing)

-----------------------------------------------------------------------------
(* Properties.                                                              *)

TypeOK ==
    /\ rows \in [Panels -> Row \cup {None}] /\ held \in [Panels -> SUBSET Exprs]
    /\ clusters \in [Clusters -> Cluster] /\ placed \in [Clusters -> SUBSET Environments]
    /\ id \in Clusters /\ namespace \in Selectable
    /\ data \in Data \cup {None} /\ late \in BOOLEAN
    /\ loading \in BOOLEAN /\ error \in BOOLEAN
    /\ panels \in Listing
    /\ card \in Card \cup {None} /\ form \in [shown : BOOLEAN, saving : BOOLEAN]
    /\ reads \in [Slots -> Read \cup {None}]
    /\ listings \in [Clusters -> Asked \cup {None}]
    /\ writes \in [WriteIds -> Write \cup {None}]
    /\ refresh \in Refresh \cup {None}
    /\ selections \in 0 .. MaxSelections /\ sent \in 0 .. MaxWrites /\ faults \in 0 .. MaxFaults

\* The page is a Feed of metrics: what is on the screen and what the page says
\* about it changes as Feed allows.  The reads that follow an added panel are
\* one more, quiet, request.
Key(r) == [cluster |-> r.cluster, namespace |-> r.namespace]

Selected == [cluster |-> id, namespace |-> namespace]

Asking(r) == IF r = None THEN None ELSE [key |-> Key(r), quiet |-> r.quiet]

Requested ==
    [r \in 0 .. MaxReads |->
        IF r > 0 THEN Asking(reads[r])
        ELSE IF refresh = None THEN None ELSE [key |-> Key(refresh), quiet |-> TRUE]]

ShownKey == IF data = None THEN None ELSE Key(data)

TheFeed == INSTANCE Feed WITH
    Keys <- Selections,
    Requests <- 0 .. MaxReads,
    selected <- Selected,
    shown <- ShownKey,
    asked <- Requested

IsFeed == TheFeed!Spec

\* Cards of another selection than the one the page names are on the screen
\* only if a request failed, which the banner says, or if an answer for an
\* earlier selection came after the selection changed.
StaleOnlyIfLate == TheFeed!StaleOnlyIfLate

Home(p) == rows[p].environment

\* While a card is edited it may come to stand for another panel of the same
\* name.  Except in those same cases both panels are of environments that the
\* cluster on the page is or was in: of one and the same, unless an
\* administrator has moved the cluster.
EditStaysHome ==
    Editing => {Home(data.cards[card.name]), Home(card.panel)} \subseteq placed[id]
               \/ error \/ late

\* The page never pairs a panel with an expression the panel never had, in
\* whatever order lists, saves and deletions are answered.
CopyIsOwn == \A p \in Panels : panels[p] # Blank => panels[p] \in held[p]

Sent(w, op) == w \in WriteIds /\ writes[w] # None /\ writes[w].op = op

\* Nothing on the page waits for what will not come: while it is loading, while
\* a button says that it saves or deletes and while the form is disabled, a
\* request is under way whose end, however it ends, ends the waiting.
WaitsForAnswers ==
    /\ TheFeed!WaitsForAnswer
    /\ card # None /\ card.saving # 0 => Sent(card.saving, "save")
    /\ card # None /\ card.deleting # 0 => Sent(card.deleting, "delete")
    /\ form.saving <=> refresh # None \/ \E w \in WriteIds : Sent(w, "add")

Current ==
    /\ Shown
    /\ Key(data) = Selected
    /\ data.cards \in Answers(id)

\* Whatever was late, lost or out of reach: once nobody changes anything any
\* more, the page comes to show what is selected as it is, and goes on to do
\* so.  Demo data stays exactly if the cluster has no address of Grafana or has
\* a panel whose expression Grafana refuses, and not longer than that.
BecomesCurrent == <>[]Current
=============================================================================
