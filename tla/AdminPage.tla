----------------------------- MODULE AdminPage ------------------------------
(***************************************************************************)
(* The page on which an administrator manages organizations and clusters   *)
(* (ui/src/pages/ClustersAdminPage.tsx), with the rows that the handlers   *)
(* of api/handlers/admin_clusters.go read and write for it.                *)
(*                                                                         *)
(* The page has no interval: it shows the lists of the last answer that    *)
(* came.  What a cluster is called and where its Grafana is are one text,  *)
(* the number of the write it comes from; of a secret only counts whether  *)
(* there is one.                                                           *)
(***************************************************************************)
EXTENDS Naturals

CONSTANTS
    Organizations,      \* names of customers, which are not unique
    MaxCluster, MaxEnvironment,     \* the ends of the sequences of ids
    FirstClusters, FirstEnvironments,
    MaxLoads, MaxWrites, MaxFaults, \* bounds of the search
    Gone,               \* a row that was deleted; its id is not given again
    None

VARIABLES
    clusters,       \* the table: a row, Gone, or None
    environments,   \* the organization of each environment
    listed,         \* the page's clusters
    options,        \* the page's environments
    last,           \* history: the number of the load that these came with
    loading, error,
    organization,   \* selectedOrg
    form,           \* the form for a cluster
    editing,        \* editingId
    orgForm,        \* whether the form for an organization is open
    save, creation, \* the submission of each form that is under way
    deletions,      \* those that are under way
    loads, issued,  \* pairs of lists that were asked for, by number
    unseen,         \* history: since the last one a row changed behind the page's back
    sent, faults

tables == <<clusters, environments>>
screen == <<listed, options, last, error, organization>>
forms == <<form, editing, orgForm>>
vars == <<tables, screen, loading, forms, save, creation, deletions, loads, issued,
          unseen, sent, faults>>

Clusters == 1 .. MaxCluster
Environments == 1 .. MaxEnvironment
Loads == 1 .. MaxLoads
Texts == 0 .. MaxWrites
NoEnvironment == 0      \* the option 'Select environment...'

Row == [environment : Environments, text : Texts, secret : BOOLEAN]
Listing == [Clusters -> [environment : Environments, text : Texts] \cup {None}]
Options == [Environments -> Organizations \cup {None}]
States == {"sent", "done", "failed"}
\* of: history, the cluster that the form was filled from, or None for a new one.
Form == [shown : BOOLEAN, of : Clusters \cup {None},
         environment : Environments \cup {NoEnvironment}]
Save == [of : Clusters \cup {None}, environment : Environments, text : Texts,
         secret : BOOLEAN, state : States]
Creation == [name : Organizations, state : States]
Load == [clusters : Listing \cup {None}, environments : Options \cup {None}]

ASSUME AdminPageAssumption ==
    /\ MaxCluster \in Nat /\ MaxEnvironment \in Nat /\ MaxWrites \in Nat /\ MaxFaults \in Nat
    /\ MaxLoads \in Nat \ {0}
    /\ FirstEnvironments \in Options
    /\ FirstClusters \in [Clusters -> Row \cup {None}]
    /\ \A c \in Clusters : FirstClusters[c] # None =>
          FirstEnvironments[FirstClusters[c].environment] # None
    /\ Gone \notin Row \cup {None}
    /\ None \notin Clusters \cup Row \cup Listing \cup Options \cup Organizations
                   \cup Save \cup Creation \cup Load \cup States

Exists(c) == clusters[c] \notin {None, Gone}

Write == sent < MaxWrites /\ sent' = sent + 1
Fault == faults < MaxFaults /\ faults' = faults + 1

-----------------------------------------------------------------------------
(* Loading both lists.                                                      *)

NoLists == [clusters |-> None, environments |-> None]

\* loadData.  The page loads once for every write at most, so that MaxLoads is
\* no limit if it exceeds MaxWrites.
StartLoad ==
    /\ issued < MaxLoads
    /\ loading' = TRUE
    /\ issued' = issued + 1
    /\ loads' = [loads EXCEPT ![issued + 1] = NoLists]
    /\ unseen' = FALSE

\* What List answers: everything but the secrets.
List ==
    [c \in Clusters |->
        IF Exists(c) THEN [environment |-> clusters[c].environment, text |-> clusters[c].text]
        ELSE None]

\* List and ListEnvironments
ServeLoad(l) ==
    /\ loads[l] # None
    /\ \/ /\ loads[l].clusters = None
          /\ loads' = [loads EXCEPT ![l].clusters = List]
       \/ /\ loads[l].environments = None
          /\ loads' = [loads EXCEPT ![l].environments = environments]
    /\ UNCHANGED <<tables, screen, loading, forms, save, creation, deletions, issued, unseen,
                   sent, faults>>

\* Promise.all waits for both.
ReceiveLoad(l) ==
    /\ loads[l] # None /\ loads[l].clusters # None /\ loads[l].environments # None
    /\ listed' = loads[l].clusters
    /\ options' = loads[l].environments
    /\ last' = l
    /\ loading' = FALSE
    /\ loads' = [loads EXCEPT ![l] = None]
    /\ UNCHANGED <<tables, error, organization, forms, save, creation, deletions, issued,
                   unseen, sent, faults>>

\* One of the two failed; the other is of no use any more.
FailLoad(l) ==
    /\ loads[l] # None
    /\ Fault
    /\ error' = TRUE
    /\ loading' = FALSE
    /\ loads' = [loads EXCEPT ![l] = None]
    /\ UNCHANGED <<tables, listed, options, last, organization, forms, save, creation,
                   deletions, issued, unseen, sent>>

-----------------------------------------------------------------------------
(* What the administrator does.  While loading the page shows nothing, but  *)
(* keeps its state: the forms are there again when the lists have come.     *)

OptionsOf(o) == {e \in Environments : options[e] = o /\ o # None}

\* The selector lists the organizations that have an environment.
Choosable(o) == o = None \/ OptionsOf(o) # {}

Closed == [shown |-> FALSE, of |-> None, environment |-> NoEnvironment]

Click ==
    /\ ~loading
    /\ UNCHANGED <<tables, listed, options, last, loading, error, creation, loads, issued,
                   unseen, faults>>

\* As if only the selection changed.
SelectOnly(o) ==
    /\ Click
    /\ Choosable(o)
    /\ organization' = o
    /\ UNCHANGED <<forms, save, deletions, sent>>

\* handleOrgChange.  editingId stays.
SelectOrganization(o) ==
    /\ Click
    /\ Choosable(o)
    /\ organization' = o
    /\ form' = [form EXCEPT !.shown = FALSE]
    /\ UNCHANGED <<editing, orgForm, save, deletions, sent>>

Filled(c, e) == [shown |-> TRUE, of |-> c, environment |-> e]

\* As if openCreate counted on a closed form to have no editingId.
OpenCreateAsIs ==
    /\ Click
    /\ organization # None
    /\ \E e \in OptionsOf(organization) : form' = Filled(None, e)
    /\ orgForm' = FALSE
    /\ UNCHANGED <<organization, editing, save, deletions, sent>>

\* The first environment of the organization by name, which may be any.
OpenCreate ==
    /\ Click
    /\ organization # None
    /\ editing' = None
    /\ \E e \in OptionsOf(organization) \cup {NoEnvironment} :
          /\ e = NoEnvironment => OptionsOf(organization) = {}
          /\ form' = Filled(None, e)
    /\ orgForm' = FALSE
    /\ UNCHANGED <<organization, save, deletions, sent>>

\* The table shows the clusters of the organization.
InTable(c) ==
    /\ listed[c] # None /\ organization # None
    /\ environments[listed[c].environment] = organization

OpenEdit(c) ==
    /\ Click
    /\ InTable(c)
    /\ editing' = c
    /\ form' = Filled(c, listed[c].environment)
    /\ orgForm' = FALSE
    /\ UNCHANGED <<organization, save, deletions, sent>>

CloseForm ==
    /\ Click
    /\ form.shown
    /\ form' = Closed /\ editing' = None
    /\ UNCHANGED <<organization, orgForm, save, deletions, sent>>

OpenOrgForm ==
    /\ Click
    /\ form' = [form EXCEPT !.shown = FALSE]
    /\ orgForm' = TRUE
    /\ UNCHANGED <<organization, editing, save, deletions, sent>>

CloseOrgForm ==
    /\ Click
    /\ orgForm
    /\ orgForm' = FALSE
    /\ UNCHANGED <<organization, form, editing, save, deletions, sent>>

\* One submission of the form at a time, and the form is below a selection.
CanSubmit == form.shown /\ organization # None /\ save = None

\* The options of the selector in the form.
Selector == OptionsOf(organization) \cup {NoEnvironment}

\* As if the selector were not required.
CompleteWithout(e, secret) == e \in Selector /\ (editing = None => secret)

\* An environment has to be selected, and a new cluster needs a secret.
Complete(e, secret) ==
    /\ e \in Selector /\ e # NoEnvironment
    /\ editing = None => secret

\* handleClusterSubmit, after any change of the fields.
Submit(e) ==
    /\ Click
    /\ CanSubmit
    /\ Write
    /\ form' = [form EXCEPT !.environment = e]
    /\ \E secret \in BOOLEAN :
          /\ Complete(e, secret)
          /\ save' = [of |-> editing, environment |-> e, text |-> sent + 1,
                      secret |-> secret, state |-> "sent"]
    /\ UNCHANGED <<organization, editing, orgForm, deletions>>

\* handleDelete, confirmed.  One at a time for each cluster.
Delete(c) ==
    /\ Click
    /\ InTable(c)
    /\ deletions[c] = None
    /\ Write
    /\ deletions' = [deletions EXCEPT ![c] = "sent"]
    /\ UNCHANGED <<organization, forms, save>>

CanSubmitOrg == orgForm /\ creation = None

\* handleOrgSubmit
SubmitOrg(o) ==
    /\ ~loading
    /\ CanSubmitOrg
    /\ Write
    /\ creation' = [name |-> o, state |-> "sent"]
    /\ UNCHANGED <<tables, screen, loading, forms, save, deletions, loads, issued, unseen, faults>>

-----------------------------------------------------------------------------
(* What the page does with the answers.                                     *)

\* As if the button were enabled again only when the cluster was saved.
ReceiveGoodSave ==
    /\ save # None /\ save.state = "done"
    /\ save' = None
    /\ form' = Closed /\ editing' = None
    /\ StartLoad
    /\ UNCHANGED <<tables, screen, orgForm, creation, deletions, sent, faults>>

\* closeClusterForm closes the form that is open by now.
ReceiveSave ==
    /\ save # None /\ save.state # "sent"
    /\ save' = None
    /\ \/ /\ save.state = "done"
          /\ form' = Closed /\ editing' = None
          /\ StartLoad
       \/ save.state = "failed" /\ UNCHANGED <<form, editing, loading, issued, loads, unseen>>
    /\ UNCHANGED <<tables, screen, orgForm, creation, deletions, sent, faults>>

\* As if the page took for granted that the list is loaded again.
ForgetDelete(c) ==
    /\ deletions[c] \in {"done", "failed"}
    /\ deletions' = [deletions EXCEPT ![c] = None]
    /\ error' = (error \/ deletions[c] = "failed")
    /\ UNCHANGED <<loading, issued, loads, unseen>>
    /\ UNCHANGED <<tables, listed, options, last, organization, forms, save, creation, sent, faults>>

ReceiveDelete(c) ==
    /\ deletions[c] \in {"done", "failed"}
    /\ deletions' = [deletions EXCEPT ![c] = None]
    /\ \/ deletions[c] = "done" /\ StartLoad /\ UNCHANGED error
       \/ /\ deletions[c] = "failed"
          /\ error' = TRUE
          /\ UNCHANGED <<loading, issued, loads, unseen>>
    /\ UNCHANGED <<tables, listed, options, last, organization, forms, save, creation, sent, faults>>

ReceiveOrg ==
    /\ creation # None /\ creation.state # "sent"
    /\ creation' = None
    /\ \/ creation.state = "done" /\ orgForm' = FALSE /\ StartLoad
       \/ creation.state = "failed" /\ UNCHANGED <<orgForm, loading, issued, loads, unseen>>
    /\ UNCHANGED <<tables, screen, form, editing, save, deletions, sent, faults>>

-----------------------------------------------------------------------------
(* What the handlers do.                                                    *)

NewRow(w) == [environment |-> w.environment, text |-> w.text, secret |-> w.secret]

\* As if a blank secret were written like any other text.
UpdateAll(c, w) == clusters' = [clusters EXCEPT ![c] = NewRow(w)]

\* Update keeps the secret if the request has none.
Update(c, w) ==
    clusters' = [clusters EXCEPT ![c] = [NewRow(w) EXCEPT !.secret = w.secret \/ clusters[c].secret]]

IsNext(table, x) == table[x] = None /\ \A y \in 1 .. x - 1 : table[y] # None

\* An update of a row that is gone changes none, and is answered like any other.
ApplySave ==
    \/ /\ save.of = None
       /\ \E c \in Clusters : IsNext(clusters, c) /\ clusters' = [clusters EXCEPT ![c] = NewRow(save)]
    \/ save.of # None /\ Exists(save.of) /\ Update(save.of, save)
    \/ save.of # None /\ ~Exists(save.of) /\ UNCHANGED clusters

\* That a granted cluster cannot be deleted is one of the failures below.
ApplyDelete(c) == clusters' = [clusters EXCEPT ![c] = IF Exists(c) THEN Gone ELSE @]

ApplyCreation ==
    \E e \in Environments :
        /\ IsNext(environments, e)
        /\ environments' = [environments EXCEPT ![e] = creation.name]

Serving == UNCHANGED <<screen, loading, forms, loads, issued, sent>>

ServeSave ==
    /\ save # None /\ save.state = "sent"
    /\ save' = [save EXCEPT !.state = "done"]
    /\ ApplySave
    /\ Serving /\ UNCHANGED <<environments, creation, deletions, unseen, faults>>

ServeDelete(c) ==
    /\ deletions[c] = "sent"
    /\ deletions' = [deletions EXCEPT ![c] = "done"]
    /\ ApplyDelete(c)
    /\ Serving /\ UNCHANGED <<environments, save, creation, unseen, faults>>

ServeOrg ==
    /\ creation # None /\ creation.state = "sent"
    /\ creation' = [creation EXCEPT !.state = "done"]
    /\ ApplyCreation
    /\ Serving /\ UNCHANGED <<clusters, save, deletions, unseen, faults>>

\* A write that fails has left the row as it was, or changed it before its
\* answer was lost.
Lose(change) == unseen' = TRUE /\ change

FailSave ==
    /\ save # None /\ save.state = "sent"
    /\ Fault
    /\ save' = [save EXCEPT !.state = "failed"]
    /\ Lose(ApplySave) \/ UNCHANGED <<clusters, unseen>>
    /\ Serving /\ UNCHANGED <<environments, creation, deletions>>

FailDelete(c) ==
    /\ deletions[c] = "sent"
    /\ Fault
    /\ deletions' = [deletions EXCEPT ![c] = "failed"]
    /\ Lose(ApplyDelete(c)) \/ UNCHANGED <<clusters, unseen>>
    /\ Serving /\ UNCHANGED <<environments, save, creation>>

FailOrg ==
    /\ creation # None /\ creation.state = "sent"
    /\ Fault
    /\ creation' = [creation EXCEPT !.state = "failed"]
    /\ Lose(ApplyCreation) \/ UNCHANGED <<environments, unseen>>
    /\ Serving /\ UNCHANGED <<clusters, save, deletions>>

\* Another administrator, on another page.
WriteElsewhere(c) ==
    /\ Write
    /\ Exists(c)
    /\ unseen' = TRUE
    /\ \/ clusters' = [clusters EXCEPT ![c] = Gone]
       \/ \E e \in Environments : environments[e] # None /\
             clusters' = [clusters EXCEPT ![c] = [@ EXCEPT !.environment = e, !.text = sent + 1]]
    /\ UNCHANGED <<environments, screen, loading, forms, save, creation, deletions, loads,
                   issued, faults>>

-----------------------------------------------------------------------------

\* The page as its first render and its effect leave it.
Init ==
    /\ clusters = FirstClusters /\ environments = FirstEnvironments
    /\ listed = [c \in Clusters |-> None] /\ options = [e \in Environments |-> None]
    /\ last = 0
    /\ loading = TRUE /\ error = FALSE
    /\ organization = None
    /\ form = Closed /\ editing = None /\ orgForm = FALSE
    /\ save = None /\ creation = None /\ deletions = [c \in Clusters |-> None]
    /\ loads = [l \in Loads |-> IF l = 1 THEN NoLists ELSE None] /\ issued = 1
    /\ unseen = FALSE
    /\ sent = 0 /\ faults = 0

Administrator ==
    \/ \E o \in Organizations \cup {None} : SelectOrganization(o)
    \/ OpenCreate \/ CloseForm \/ OpenOrgForm \/ CloseOrgForm
    \/ \E c \in Clusters : OpenEdit(c) \/ Delete(c)
    \/ \E e \in Environments \cup {NoEnvironment} : Submit(e)
    \/ \E o \in Organizations : SubmitOrg(o)

Loading(l) == ServeLoad(l) \/ ReceiveLoad(l)
Saving == ServeSave \/ ReceiveSave
Deleting(c) == ServeDelete(c) \/ ReceiveDelete(c)
Creating == ServeOrg \/ ReceiveOrg

Failure ==
    \/ \E l \in Loads : FailLoad(l)
    \/ FailSave \/ FailOrg
    \/ \E c \in Clusters : FailDelete(c)

Next ==
    \/ Administrator
    \/ \E l \in Loads : Loading(l)
    \/ Saving \/ Creating
    \/ \E c \in Clusters : Deleting(c) \/ WriteElsewhere(c)
    \/ Failure

Spec == Init /\ [][Next]_vars

\* Every request is answered.
FairSpec ==
    /\ Spec
    /\ \A l \in Loads : WF_vars(Loading(l))
    /\ WF_vars(Saving) /\ WF_vars(Creating)
    /\ \A c \in Clusters : WF_vars(Deleting(c))

-----------------------------------------------------------------------------
(* Properties.                                                              *)

TypeOK ==
    /\ clusters \in [Clusters -> Row \cup {None, Gone}] /\ environments \in Options
    /\ listed \in Listing /\ options \in Options /\ last \in Loads \cup {0}
    /\ loading \in BOOLEAN /\ error \in BOOLEAN
    /\ organization \in Organizations \cup {None}
    /\ form \in Form /\ editing \in Clusters \cup {None} /\ orgForm \in BOOLEAN
    /\ save \in Save \cup {None} /\ creation \in Creation \cup {None}
    /\ deletions \in [Clusters -> States \cup {None}]
    /\ loads \in [Loads -> Load \cup {None}] /\ issued \in Loads
    /\ unseen \in BOOLEAN
    /\ sent \in 0 .. MaxWrites /\ faults \in 0 .. MaxFaults

\* What is submitted goes to the cluster that the form was filled from, and a
\* form that was opened for a new cluster overwrites none: whatever was opened,
\* hidden, closed by a late answer or selected before.
SavesWhatWasOpened == form.shown => form.of = editing

\* The form on the screen never moves a cluster to another organization than
\* the one the page shows.
StaysInOrganization ==
    form.shown /\ form.environment # NoEnvironment =>
        environments[form.environment] = organization

\* No step takes from a cluster the secret it has, and no cluster is created
\* here without one: only one that had none, as those of the demo data, has
\* none after it.
SecretsKept ==
    [][\A c \in Clusters :
          Exists(c)' /\ (Exists(c) => clusters[c].secret) => clusters'[c].secret]_vars

Quiet ==
    /\ \A l \in Loads : loads[l] = None
    /\ save = None /\ creation = None /\ \A c \in Clusters : deletions[c] = None

\* When everything is answered, the page shows what the administrator has done,
\* unless the last load failed, an earlier one was answered after it, or a row
\* has changed since without an answer that said so.
ShowsOwnChanges ==
    Quiet /\ last = issued /\ ~unseen => options = environments /\ listed = List

\* The page never stays blank, and neither form stays disabled, whatever fails.
Responds == []<>~loading /\ []<>(save = None) /\ []<>(creation = None)
=============================================================================
