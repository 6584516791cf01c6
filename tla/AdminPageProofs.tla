--------------------------- MODULE AdminPageProofs ---------------------------
(* Proofs about the page of the administrator, for any organizations and    *)
(* bounds.                                                                  *)
EXTENDS AdminPage, TLAPS

USE DEF NoEnvironment, tables, screen, forms

-----------------------------------------------------------------------------
(* Types.                                                                   *)

LEMMA ListType == ASSUME TypeOK PROVE List \in Listing
<1> SUFFICES ASSUME NEW c \in Clusters, Exists(c)
             PROVE  [environment |-> clusters[c].environment, text |-> clusters[c].text]
                      \in [environment : Environments, text : Texts]
  BY DEF List, Listing
<1>1. clusters[c] \in Row
  BY DEF Exists, TypeOK
<1> QED
  BY <1>1 DEF Row

LEMMA StartLoadType ==
    ASSUME TypeOK, StartLoad
    PROVE  /\ loading' \in BOOLEAN /\ issued' \in Loads /\ unseen' \in BOOLEAN
           /\ loads' \in [Loads -> Load \cup {None}]
<1>1. NoLists \in Load
  BY DEF NoLists, Load
<1>2. issued + 1 \in Loads
  BY AdminPageAssumption DEF StartLoad, TypeOK, Loads
<1> QED
  BY <1>1, <1>2 DEF StartLoad, TypeOK

LEMMA WriteType ==
    ASSUME TypeOK, Write PROVE sent' \in 0 .. MaxWrites /\ sent + 1 \in Texts
BY AdminPageAssumption DEF Write, TypeOK, Texts

LEMMA FaultType == ASSUME TypeOK, Fault PROVE faults' \in 0 .. MaxFaults
BY AdminPageAssumption DEF Fault, TypeOK

LEMMA FormTypes ==
    /\ Closed \in Form
    /\ \A c \in Clusters \cup {None}, e \in Environments \cup {NoEnvironment} : Filled(c, e) \in Form
    /\ \A f \in Form : [f EXCEPT !.shown = FALSE] \in Form
    /\ \A f \in Form, e \in Environments \cup {NoEnvironment} : [f EXCEPT !.environment = e] \in Form
BY DEF Closed, Filled, Form

LEMMA NewRowType == ASSUME NEW w \in Save PROVE NewRow(w) \in Row
BY DEF Save, NewRow, Row

LEMMA ApplySaveType ==
    ASSUME TypeOK, save # None, ApplySave
    PROVE  clusters' \in [Clusters -> Row \cup {None, Gone}]
<1>1. save \in Save /\ NewRow(save) \in Row
  BY NewRowType DEF TypeOK
<1>2. CASE save.of # None /\ Exists(save.of) /\ Update(save.of, save)
  <2>1. save.of \in Clusters
    BY <1>1, <1>2 DEF Save
  <2>2. clusters[save.of] \in Row
    BY <1>2, <2>1 DEF Exists, TypeOK
  <2>3. [NewRow(save) EXCEPT !.secret = save.secret \/ clusters[save.of].secret] \in Row
    BY <1>1, <2>2 DEF Row, Save
  <2> QED
    BY <1>2, <2>1, <2>3 DEF Update, TypeOK
<1> QED
  BY <1>1, <1>2 DEF ApplySave, TypeOK

LEMMA ApplyDeleteType ==
    ASSUME TypeOK, NEW c \in Clusters, ApplyDelete(c)
    PROVE  clusters' \in [Clusters -> Row \cup {None, Gone}]
BY DEF ApplyDelete, TypeOK

LEMMA ApplyCreationType ==
    ASSUME TypeOK, creation # None, ApplyCreation PROVE environments' \in Options
BY DEF ApplyCreation, TypeOK, Options, Creation

LEMMA TypeInit == Init => TypeOK
<1> SUFFICES ASSUME Init PROVE TypeOK
  OBVIOUS
<1>1. listed \in Listing /\ options \in Options
  BY DEF Init, Listing, Options
<1>2. loads \in [Loads -> Load \cup {None}] /\ issued \in Loads
  BY AdminPageAssumption DEF Init, Loads, Load, NoLists
<1>3. form \in Form
  BY FormTypes DEF Init
<1>4. sent \in 0 .. MaxWrites /\ faults \in 0 .. MaxFaults
  BY AdminPageAssumption DEF Init
<1> QED
  BY <1>1, <1>2, <1>3, <1>4, AdminPageAssumption DEF Init, TypeOK

LEMMA AdministratorTypes == ASSUME TypeOK, Administrator PROVE TypeOK'
<1>1. ASSUME NEW o \in Organizations \cup {None}, SelectOrganization(o) PROVE TypeOK'
  BY <1>1, FormTypes DEF SelectOrganization, Click, TypeOK
<1>2. CASE OpenCreate
  <2>1. form' \in Form
    BY <1>2, FormTypes DEF OpenCreate, OptionsOf
  <2> QED
    BY <1>2, <2>1 DEF OpenCreate, Click, TypeOK
<1>3. CASE CloseForm \/ OpenOrgForm \/ CloseOrgForm
  BY <1>3, FormTypes DEF CloseForm, OpenOrgForm, CloseOrgForm, Click, TypeOK
<1>4. ASSUME NEW c \in Clusters, OpenEdit(c) PROVE TypeOK'
  <2>1. form' \in Form
    BY <1>4, FormTypes DEF OpenEdit, InTable, TypeOK, Listing
  <2> QED
    BY <1>4, <2>1 DEF OpenEdit, Click, TypeOK
<1>5. ASSUME NEW c \in Clusters, Delete(c) PROVE TypeOK'
  BY <1>5, WriteType DEF Delete, Click, TypeOK, States
<1>6. ASSUME NEW e \in Environments \cup {NoEnvironment}, Submit(e) PROVE TypeOK'
  <2>1. form' \in Form /\ sent' \in 0 .. MaxWrites /\ sent + 1 \in Texts
    BY <1>6, FormTypes, WriteType DEF Submit, TypeOK
  <2>2. e \in Environments
    BY <1>6 DEF Submit, Complete
  <2>3. save' \in Save
    BY <1>6, <2>1, <2>2 DEF Submit, Save, States, TypeOK
  <2> QED
    BY <1>6, <2>1, <2>3 DEF Submit, Click, TypeOK
<1>7. ASSUME NEW o \in Organizations, SubmitOrg(o) PROVE TypeOK'
  <2>1. creation' \in Creation
    BY <1>7 DEF SubmitOrg, Creation, States
  <2> QED
    BY <1>7, <2>1, WriteType DEF SubmitOrg, TypeOK
<1> QED
  BY <1>1, <1>2, <1>3, <1>4, <1>5, <1>6, <1>7 DEF Administrator

LEMMA LoadTypes ==
    ASSUME TypeOK, NEW l \in Loads, Loading(l) \/ FailLoad(l) PROVE TypeOK'
<1>1. loads[l] \in Load
  BY DEF Loading, ServeLoad, ReceiveLoad, FailLoad, TypeOK
<1>2. CASE ServeLoad(l)
  <2>1. loads' \in [Loads -> Load \cup {None}]
    <3>1. List \in Listing /\ environments \in Options
      BY ListType DEF TypeOK
    <3>2. [loads[l] EXCEPT !.clusters = List] \in Load /\ [loads[l] EXCEPT !.environments = environments] \in Load
      BY <1>1, <3>1 DEF Load
    <3> QED
      BY <1>2, <3>2 DEF ServeLoad, TypeOK
  <2> QED
    BY <1>2, <2>1 DEF ServeLoad, TypeOK
<1>3. CASE ReceiveLoad(l)
  <2>1. listed' \in Listing /\ options' \in Options
    BY <1>1, <1>3 DEF ReceiveLoad, Load
  <2> QED
    BY <1>3, <2>1 DEF ReceiveLoad, TypeOK
<1>4. CASE FailLoad(l)
  BY <1>4, FaultType DEF FailLoad, TypeOK
<1> QED
  BY <1>2, <1>3, <1>4 DEF Loading

LEMMA AnswerTypes ==
    ASSUME TypeOK, ReceiveSave \/ ReceiveOrg \/ \E c \in Clusters : ReceiveDelete(c)
    PROVE  TypeOK'
<1>1. CASE ReceiveSave
  BY <1>1, FormTypes, StartLoadType DEF ReceiveSave, TypeOK
<1>2. CASE ReceiveOrg
  BY <1>2, StartLoadType DEF ReceiveOrg, TypeOK
<1>3. ASSUME NEW c \in Clusters, ReceiveDelete(c) PROVE TypeOK'
  BY <1>3, StartLoadType DEF ReceiveDelete, TypeOK
<1> QED
  BY <1>1, <1>2, <1>3

LEMMA HandlerTypes ==
    ASSUME TypeOK,
           \/ ServeSave \/ ServeOrg \/ FailSave \/ FailOrg
           \/ \E c \in Clusters : ServeDelete(c) \/ FailDelete(c) \/ WriteElsewhere(c)
    PROVE  TypeOK'
<1>1. ASSUME ServeSave \/ FailSave PROVE TypeOK'
  <2>1. save' \in Save
    BY <1>1 DEF ServeSave, FailSave, TypeOK, Save, States
  <2>2. clusters' \in [Clusters -> Row \cup {None, Gone}]
    BY <1>1, ApplySaveType DEF ServeSave, FailSave, Lose, TypeOK
  <2> QED
    BY <1>1, <2>1, <2>2, FaultType DEF ServeSave, FailSave, Serving, Lose, TypeOK
<1>2. ASSUME ServeOrg \/ FailOrg PROVE TypeOK'
  <2>1. creation' \in Creation
    BY <1>2 DEF ServeOrg, FailOrg, TypeOK, Creation, States
  <2>2. environments' \in Options
    BY <1>2, ApplyCreationType DEF ServeOrg, FailOrg, Lose, TypeOK
  <2> QED
    BY <1>2, <2>1, <2>2, FaultType DEF ServeOrg, FailOrg, Serving, Lose, TypeOK
<1>3. ASSUME NEW c \in Clusters, ServeDelete(c) \/ FailDelete(c) PROVE TypeOK'
  <2>1. clusters' \in [Clusters -> Row \cup {None, Gone}]
    BY <1>3, ApplyDeleteType DEF ServeDelete, FailDelete, Lose, TypeOK
  <2>2. deletions' \in [Clusters -> States \cup {None}]
    BY <1>3 DEF ServeDelete, FailDelete, TypeOK, States
  <2> QED
    BY <1>3, <2>1, <2>2, FaultType DEF ServeDelete, FailDelete, Serving, Lose, TypeOK
<1>4. ASSUME NEW c \in Clusters, WriteElsewhere(c) PROVE TypeOK'
  <2>1. sent' \in 0 .. MaxWrites /\ sent + 1 \in Texts /\ clusters[c] \in Row
    BY <1>4, WriteType DEF WriteElsewhere, Exists, TypeOK
  <2>2. \A e \in Environments :
           [clusters[c] EXCEPT !.environment = e, !.text = sent + 1] \in Row
    BY <2>1 DEF Row
  <2>3. clusters' \in [Clusters -> Row \cup {None, Gone}]
    <3>1. \/ clusters' = [clusters EXCEPT ![c] = Gone]
          \/ \E e \in Environments : clusters' = [clusters EXCEPT ![c] =
                [clusters[c] EXCEPT !.environment = e, !.text = sent + 1]]
      BY <1>4 DEF WriteElsewhere, TypeOK
    <3> QED
      BY <2>2, <3>1 DEF TypeOK
  <2> QED
    BY <1>4, <2>1, <2>3 DEF WriteElsewhere, TypeOK
<1> QED
  BY <1>1, <1>2, <1>3, <1>4

LEMMA TypeStep == TypeOK /\ [Next]_vars => TypeOK'
<1>1. TypeOK /\ UNCHANGED vars => TypeOK'
  BY DEF vars, TypeOK
<1> QED
  BY <1>1, AdministratorTypes, LoadTypes, AnswerTypes, HandlerTypes
     DEF Next, Saving, Creating, Deleting, Failure

\* The page, its requests and the rows stay within their types: no load is
\* beyond the last, and what is submitted names an environment.
THEOREM TypeCorrect == Spec => []TypeOK
BY TypeInit, TypeStep, PTL DEF Spec

-----------------------------------------------------------------------------
(* The form.                                                                *)

\* Whatever closes, hides, opens or fills the form sets the cluster that a
\* submission goes to with it.
THEOREM FormsAreSaved == Spec => []SavesWhatWasOpened
<1> USE DEF SavesWhatWasOpened
<1>1. Init => SavesWhatWasOpened
  BY DEF Init, Closed
<1>2. TypeOK /\ SavesWhatWasOpened /\ [Next]_vars => SavesWhatWasOpened'
  <2> SUFFICES ASSUME TypeOK, SavesWhatWasOpened, [Next]_vars PROVE SavesWhatWasOpened'
    OBVIOUS
  <2>0. form \in Form
    BY DEF TypeOK
  <2>1. CASE UNCHANGED <<form, editing>>
    BY <2>1
  <2>2. CASE Administrator
    <3>1. CASE OpenCreate \/ CloseForm \/ OpenOrgForm \/ CloseOrgForm
      BY <2>0, <3>1 DEF OpenCreate, CloseForm, OpenOrgForm, CloseOrgForm, Filled, Closed, Form
    <3>2. ASSUME NEW o, SelectOrganization(o) PROVE SavesWhatWasOpened'
      BY <2>0, <3>2 DEF SelectOrganization, Form
    <3>3. ASSUME NEW c, OpenEdit(c) PROVE SavesWhatWasOpened'
      BY <3>3 DEF OpenEdit, Filled
    <3>4. ASSUME NEW e, Submit(e) PROVE SavesWhatWasOpened'
      BY <2>0, <3>4 DEF Submit, Form
    <3> QED
      BY <2>1, <2>2, <3>1, <3>2, <3>3, <3>4 DEF Administrator, Delete, SubmitOrg
  <2>3. CASE ReceiveSave
    BY <2>1, <2>3 DEF ReceiveSave, Closed
  <2>4. ASSUME NEW l \in Loads, Loading(l) \/ FailLoad(l) PROVE UNCHANGED <<form, editing>>
    BY <2>4 DEF Loading, ServeLoad, ReceiveLoad, FailLoad
  <2>5. ASSUME NEW c \in Clusters, Deleting(c) \/ FailDelete(c) \/ WriteElsewhere(c)
        PROVE  UNCHANGED <<form, editing>>
    BY <2>5 DEF Deleting, ServeDelete, ReceiveDelete, FailDelete, WriteElsewhere, Serving
  <2>6. CASE ServeSave \/ Creating \/ FailSave \/ FailOrg \/ UNCHANGED vars
    BY <2>1, <2>6 DEF ServeSave, Creating, ServeOrg, ReceiveOrg, FailSave, FailOrg, Serving, vars
  <2> QED
    BY <2>1, <2>2, <2>3, <2>4, <2>5, <2>6 DEF Next, Saving, Failure
<1> QED
  BY <1>1, <1>2, TypeCorrect, PTL DEF Spec

-----------------------------------------------------------------------------
(* Organizations.                                                           *)

\* An environment that was listed is in the organization it was listed for.
AsListed(o) == \A e \in Environments : o[e] # None => environments[e] = o[e]

OptionsTrue ==
    /\ AsListed(options)
    /\ \A l \in Loads : loads[l] # None /\ loads[l].environments # None
                            => AsListed(loads[l].environments)

FormInside == form.shown => organization # None

HomeInv == OptionsTrue /\ FormInside /\ StaysInOrganization

\* No environment is given to another organization.
EnvironmentsStay ==
    \A e \in Environments : environments[e] # None => environments'[e] = environments[e]

LEMMA EnvironmentStep == ASSUME TypeOK, [Next]_vars PROVE EnvironmentsStay
<1>1. CASE UNCHANGED environments
  BY <1>1 DEF EnvironmentsStay
<1>2. CASE ServeOrg \/ FailOrg
  BY <1>2 DEF ServeOrg, FailOrg, Lose, ApplyCreation, IsNext, EnvironmentsStay, TypeOK, Options
<1>3. CASE Administrator
  BY <1>1, <1>3 DEF Administrator, SelectOrganization, OpenCreate, CloseForm, OpenOrgForm,
                   CloseOrgForm, OpenEdit, Delete, Submit, Click, SubmitOrg
<1>4. ASSUME NEW l \in Loads, Loading(l) \/ FailLoad(l) PROVE UNCHANGED environments
  BY <1>4 DEF Loading, ServeLoad, ReceiveLoad, FailLoad
<1>5. ASSUME NEW c \in Clusters, Deleting(c) \/ FailDelete(c) \/ WriteElsewhere(c)
      PROVE  UNCHANGED environments
  BY <1>5 DEF Deleting, ServeDelete, ReceiveDelete, FailDelete, WriteElsewhere
<1>6. CASE Saving \/ ReceiveOrg \/ FailSave \/ UNCHANGED vars
  BY <1>1, <1>6 DEF Saving, ServeSave, ReceiveSave, ReceiveOrg, FailSave, vars
<1> QED
  BY <1>1, <1>2, <1>3, <1>4, <1>5, <1>6 DEF Next, Creating, Failure

LEMMA OptionsStep ==
    ASSUME TypeOK, EnvironmentsStay, OptionsTrue, [Next]_vars PROVE OptionsTrue'
<1> USE DEF OptionsTrue
<1>1. ASSUME NEW o, AsListed(o) PROVE \A e \in Environments : o[e] # None => environments'[e] = o[e]
  BY <1>1 DEF AsListed, EnvironmentsStay
<1>2. CASE UNCHANGED options /\ \A l \in Loads :
              loads'[l] = loads[l] \/ loads'[l] = None \/ loads'[l] = NoLists
  BY <1>1, <1>2 DEF AsListed, NoLists
<1>3. CASE StartLoad /\ UNCHANGED options
  BY <1>2, <1>3 DEF StartLoad, TypeOK
<1>4. CASE UNCHANGED <<options, loads>>
  BY <1>2, <1>4
<1>5. ASSUME NEW l \in Loads, ServeLoad(l) PROVE OptionsTrue'
  <2>1. loads[l] \in Load /\ loads[l] # None
    BY <1>5 DEF ServeLoad, TypeOK
  <2>2. /\ loads'[l].environments = loads[l].environments \/ loads'[l].environments = environments
        /\ \A m \in Loads \ {l} : loads'[m] = loads[m]
    BY <1>5, <2>1 DEF ServeLoad, TypeOK, Load
  <2>3. UNCHANGED <<options, environments>>
    BY <1>5 DEF ServeLoad
  <2>4. AsListed(environments)
    BY DEF AsListed
  <2> QED
    BY <2>1, <2>2, <2>3, <2>4 DEF AsListed
<1>6. ASSUME NEW l \in Loads, ReceiveLoad(l) PROVE OptionsTrue'
  <2>1. /\ options' = loads[l].environments /\ AsListed(loads[l].environments)
        /\ UNCHANGED environments
        /\ \A m \in Loads : loads'[m] = loads[m] \/ loads'[m] = None
    BY <1>6 DEF ReceiveLoad, TypeOK
  <2> QED
    BY <2>1 DEF AsListed
<1>7. ASSUME NEW l \in Loads, FailLoad(l) PROVE OptionsTrue'
  BY <1>2, <1>7 DEF FailLoad, TypeOK
<1>8. CASE Administrator
  BY <1>4, <1>8 DEF Administrator, SelectOrganization, OpenCreate, CloseForm, OpenOrgForm,
                   CloseOrgForm, OpenEdit, Delete, Submit, Click, SubmitOrg
<1>9. ASSUME NEW c \in Clusters, Deleting(c) \/ FailDelete(c) \/ WriteElsewhere(c) PROVE OptionsTrue'
  BY <1>3, <1>4, <1>9 DEF Deleting, ServeDelete, ReceiveDelete, FailDelete, WriteElsewhere, Serving
<1>10. CASE Saving \/ Creating \/ FailSave \/ FailOrg \/ UNCHANGED vars
  BY <1>3, <1>4, <1>10 DEF Saving, ServeSave, ReceiveSave, Creating, ServeOrg, ReceiveOrg, FailSave,
                          FailOrg, Serving, vars
<1> QED
  BY <1>5, <1>6, <1>7, <1>8, <1>9, <1>10 DEF Next, Loading, Failure

LEMMA FormStep ==
    ASSUME TypeOK, EnvironmentsStay, HomeInv, [Next]_vars
    PROVE  FormInside' /\ StaysInOrganization'
<1> USE DEF HomeInv, FormInside, StaysInOrganization
<1>0. form \in Form /\ organization \in Organizations \cup {None}
  BY DEF TypeOK
<1>1. CASE UNCHANGED <<form, organization>>
  BY <1>0, <1>1 DEF EnvironmentsStay, Form
<1>2. CASE ~form'.shown
  BY <1>2
<1>3. CASE Administrator
  <2>1. CASE OpenCreate
    <3>1. PICK e \in OptionsOf(organization) \cup {NoEnvironment} : form' = Filled(None, e)
      BY <2>1 DEF OpenCreate
    <3>2. UNCHANGED <<organization, environments>> /\ organization # None
      BY <2>1 DEF OpenCreate, Click
    <3> QED
      BY <3>1, <3>2 DEF Filled, OptionsOf, OptionsTrue, AsListed
  <2>2. CASE CloseForm \/ OpenOrgForm
    BY <1>0, <1>2, <2>2 DEF CloseForm, OpenOrgForm, Closed, Form
  <2>3. ASSUME NEW o, SelectOrganization(o) PROVE ~form'.shown
    BY <1>0, <2>3 DEF SelectOrganization, Form
  <2>4. ASSUME NEW c \in Clusters, OpenEdit(c) PROVE FormInside' /\ StaysInOrganization'
    BY <2>4 DEF OpenEdit, InTable, Filled, Click
  <2>5. ASSUME NEW e \in Environments \cup {NoEnvironment}, Submit(e)
        PROVE  FormInside' /\ StaysInOrganization'
    <3>1. e \in OptionsOf(organization) /\ organization # None /\ UNCHANGED <<organization, environments>>
      BY <2>5 DEF Submit, Complete, Selector, CanSubmit, Click
    <3>2. form'.environment = e
      BY <1>0, <2>5 DEF Submit, Form
    <3> QED
      BY <3>1, <3>2 DEF OptionsOf, OptionsTrue, AsListed
  <2>6. ASSUME CloseOrgForm \/ (\E c \in Clusters : Delete(c)) \/ (\E o \in Organizations : SubmitOrg(o))
        PROVE  UNCHANGED <<form, organization>>
    BY <2>6 DEF CloseOrgForm, Delete, SubmitOrg, Click
  <2> QED
    BY <1>1, <1>2, <1>3, <2>1, <2>2, <2>3, <2>4, <2>5, <2>6 DEF Administrator
<1>4. CASE ReceiveSave
  BY <1>1, <1>2, <1>4 DEF ReceiveSave, Closed
<1>5. ASSUME NEW l \in Loads, Loading(l) \/ FailLoad(l) PROVE UNCHANGED <<form, organization>>
  BY <1>5 DEF Loading, ServeLoad, ReceiveLoad, FailLoad
<1>6. ASSUME NEW c \in Clusters, Deleting(c) \/ FailDelete(c) \/ WriteElsewhere(c)
      PROVE  UNCHANGED <<form, organization>>
  BY <1>6 DEF Deleting, ServeDelete, ReceiveDelete, FailDelete, WriteElsewhere, Serving
<1>7. CASE ServeSave \/ Creating \/ FailSave \/ FailOrg \/ UNCHANGED vars
  BY <1>1, <1>7 DEF ServeSave, Creating, ServeOrg, ReceiveOrg, FailSave, FailOrg, Serving, vars
<1> QED
  BY <1>1, <1>3, <1>4, <1>5, <1>6, <1>7 DEF Next, Saving, Failure

\* The form that is on the screen names an environment of the organization that
\* the page shows: it is closed when another one is selected, its options are
\* that organization's, and an environment keeps its organization.
THEOREM FormsStayInside == Spec => []StaysInOrganization
<1>1. Init => HomeInv
  BY DEF Init, HomeInv, OptionsTrue, AsListed, FormInside, StaysInOrganization, Closed, NoLists
<1>2. TypeOK /\ HomeInv /\ [Next]_vars => HomeInv'
  BY EnvironmentStep, OptionsStep, FormStep DEF HomeInv
<1> QED
  BY <1>1, <1>2, TypeCorrect, PTL DEF Spec, HomeInv

-----------------------------------------------------------------------------
(* Secrets.                                                                 *)

\* A new cluster is submitted with a secret.
NewWithSecret == save # None /\ save.of = None => save.secret

\* What a step may do to a cluster.
KeepsSecret(c) == Exists(c)' /\ (Exists(c) => clusters[c].secret) => clusters'[c].secret

LEMMA AppliedSecret ==
    ASSUME TypeOK, save # None, NewWithSecret, ApplySave, NEW c \in Clusters
    PROVE  KeepsSecret(c)
<1> USE DEF KeepsSecret, Exists
<1>1. save \in Save /\ NewRow(save).secret = save.secret
  BY DEF TypeOK, NewRow
<1>2. ASSUME NEW d \in Clusters, save.of = None, IsNext(clusters, d),
             clusters' = [clusters EXCEPT ![d] = NewRow(save)]
      PROVE  KeepsSecret(c)
  BY <1>1, <1>2 DEF TypeOK, NewWithSecret
<1>3. CASE save.of # None /\ Exists(save.of) /\ Update(save.of, save)
  <2>1. save.of \in Clusters
    BY <1>1, <1>3 DEF Save
  <2>2. [NewRow(save) EXCEPT !.secret = save.secret \/ clusters[save.of].secret].secret
          = (save.secret \/ clusters[save.of].secret)
    BY <1>1 DEF NewRow
  <2>3. CASE c = save.of
    BY <1>3, <2>1, <2>2, <2>3 DEF Update, TypeOK
  <2>4. CASE c # save.of
    BY <1>3, <2>1, <2>4 DEF Update, TypeOK
  <2> QED
    BY <2>3, <2>4
<1> QED
  BY <1>2, <1>3 DEF ApplySave

LEMMA UnchangedSecret ==
    ASSUME UNCHANGED clusters, NEW c \in Clusters PROVE KeepsSecret(c)
BY DEF KeepsSecret, Exists

LEMMA SecretStep ==
    ASSUME TypeOK, NewWithSecret, [Next]_vars
    PROVE  NewWithSecret' /\ \A c \in Clusters : KeepsSecret(c)
<1>1. CASE UNCHANGED <<clusters, save>>
  BY <1>1, UnchangedSecret DEF NewWithSecret
<1>2. CASE Administrator
  <2>1. ASSUME NEW e \in Environments \cup {NoEnvironment}, Submit(e)
        PROVE  NewWithSecret' /\ UNCHANGED clusters
    BY <2>1 DEF Submit, Click, Complete, NewWithSecret
  <2> QED
    BY <1>1, <1>2, <2>1, UnchangedSecret
       DEF Administrator, SelectOrganization, OpenCreate, CloseForm, OpenOrgForm,
           CloseOrgForm, OpenEdit, Delete, Click, SubmitOrg
<1>3. CASE ServeSave \/ FailSave
  <2>1. save # None /\ save \in Save /\ (ApplySave \/ UNCHANGED clusters)
    BY <1>3 DEF ServeSave, FailSave, Lose, TypeOK
  <2>2. \A c \in Clusters : KeepsSecret(c)
    BY <2>1, AppliedSecret, UnchangedSecret
  <2>3. save' # None => save'.of = save.of /\ save'.secret = save.secret
    BY <1>3, <2>1 DEF ServeSave, FailSave, Save
  <2> QED
    BY <2>1, <2>2, <2>3 DEF NewWithSecret
<1>4. CASE ReceiveSave
  BY <1>4, UnchangedSecret DEF ReceiveSave, NewWithSecret
<1>5. ASSUME NEW c \in Clusters, ServeDelete(c) \/ FailDelete(c)
      PROVE  NewWithSecret' /\ \A d \in Clusters : KeepsSecret(d)
  <2>1. UNCHANGED save /\ (ApplyDelete(c) \/ UNCHANGED clusters)
    BY <1>5 DEF ServeDelete, FailDelete, Lose
  <2> QED
    BY <2>1 DEF ApplyDelete, NewWithSecret, KeepsSecret, Exists, TypeOK
<1>6. ASSUME NEW c \in Clusters, WriteElsewhere(c)
      PROVE  NewWithSecret' /\ \A d \in Clusters : KeepsSecret(d)
  <2>1. clusters[c] \in Row /\ UNCHANGED save
    BY <1>6 DEF WriteElsewhere, Exists, TypeOK
  <2>2. \A e \in Environments :
           [clusters[c] EXCEPT !.environment = e, !.text = sent + 1].secret = clusters[c].secret
    BY <2>1 DEF Row
  <2>3. Exists(c)
    BY <1>6 DEF WriteElsewhere
  <2>4. \/ clusters' = [clusters EXCEPT ![c] = Gone]
        \/ \E e \in Environments : clusters' = [clusters EXCEPT ![c] =
              [clusters[c] EXCEPT !.environment = e, !.text = sent + 1]]
    BY <1>6 DEF WriteElsewhere
  <2>5. ASSUME NEW d \in Clusters PROVE KeepsSecret(d)
    <3>1. CASE d = c
      BY <2>2, <2>3, <2>4, <3>1 DEF KeepsSecret, Exists, TypeOK
    <3>2. CASE d # c
      BY <2>4, <3>2 DEF KeepsSecret, Exists, TypeOK
    <3> QED
      BY <3>1, <3>2
  <2> QED
    BY <2>1, <2>5 DEF NewWithSecret
<1>7. ASSUME NEW l \in Loads, Loading(l) \/ FailLoad(l) PROVE UNCHANGED <<clusters, save>>
  BY <1>7 DEF Loading, ServeLoad, ReceiveLoad, FailLoad
<1>8. ASSUME NEW c \in Clusters, ReceiveDelete(c) PROVE UNCHANGED <<clusters, save>>
  BY <1>8 DEF ReceiveDelete
<1>9. CASE Creating \/ FailOrg \/ UNCHANGED vars
  BY <1>1, <1>9 DEF Creating, ServeOrg, ReceiveOrg, FailOrg, vars
<1> QED
  BY <1>1, <1>2, <1>3, <1>4, <1>5, <1>6, <1>7, <1>8, <1>9 DEF Next, Saving, Deleting, Failure

\* A cluster that has a secret has one after any step, by whomever and however
\* blank: an update without a secret keeps the row's, and a form without a
\* cluster is not submitted without one.  Clusters that had none to start with
\* are not excluded.
THEOREM SecretsAreKept == Spec => SecretsKept
<1>1. Init => NewWithSecret
  BY DEF Init, NewWithSecret
<1>2. TypeOK /\ NewWithSecret /\ [Next]_vars =>
        NewWithSecret' /\ \A c \in Clusters : KeepsSecret(c)
  BY SecretStep
<1>3. (\A c \in Clusters : KeepsSecret(c)) =>
        [\A c \in Clusters :
           Exists(c)' /\ (Exists(c) => clusters[c].secret) => clusters'[c].secret]_vars
  BY DEF KeepsSecret
<1> QED
  BY <1>1, <1>2, <1>3, TypeCorrect, PTL DEF Spec, SecretsKept

-----------------------------------------------------------------------------
(* What the page shows when everything is answered.                         *)

\* A write was made of which the page has not been told.
Untold ==
    \/ save # None /\ save.state = "done"
    \/ creation # None /\ creation.state = "done"
    \/ \E c \in Clusters : deletions[c] = "done"

LoadsNumbered == last <= issued /\ \A l \in Loads : loads[l] # None => l <= issued

\* The last load, under way or shown, has what is in the tables.
LastIsTrue ==
    /\ last = issued => options = environments /\ listed = List
    /\ loads[issued] # None =>
          /\ loads[issued].clusters # None => loads[issued].clusters = List
          /\ loads[issued].environments # None => loads[issued].environments = environments

ShowInv == LoadsNumbered /\ (~unseen /\ ~Untold => LastIsTrue)

LEMMA NoneIsNoState == None # "done"
BY AdminPageAssumption DEF States

LEMMA ListDepends == ASSUME UNCHANGED clusters PROVE List' = List
BY DEF List, Exists

LEMMA Numbers ==
    ASSUME TypeOK
    PROVE  /\ last \in Nat /\ issued \in Nat /\ issued \in Loads
           /\ \A l \in Loads : l \in Nat /\ l > 0
BY AdminPageAssumption DEF TypeOK, Loads

\* A new load has nothing yet, and replaces the one that counted.
LEMMA StartedLoad ==
    ASSUME TypeOK, LoadsNumbered, StartLoad, UNCHANGED <<tables, listed, options, last>>
    PROVE  ShowInv'
<1>1. issued' = issued + 1 /\ issued' \in Loads
  BY StartLoadType DEF StartLoad
<1>2. \A l \in Loads : loads'[l] = IF l = issued' THEN NoLists ELSE loads[l]
  BY <1>1 DEF StartLoad, TypeOK
<1>3. last' # issued' /\ LoadsNumbered'
  BY <1>1, <1>2, Numbers DEF LoadsNumbered
<1>4. LastIsTrue'
  BY <1>1, <1>2, <1>3 DEF LastIsTrue, NoLists
<1> QED
  BY <1>3, <1>4 DEF ShowInv

LEMMA ShowStays ==
    ASSUME ShowInv, UNCHANGED <<tables, listed, options, last, loads, issued>>,
           unseen' \/ Untold' \/ (~unseen /\ ~Untold)
    PROVE  ShowInv'
BY ListDepends DEF ShowInv, LoadsNumbered, LastIsTrue

LEMMA ShowStep == TypeOK /\ ShowInv /\ [Next]_vars => ShowInv'
<1> SUFFICES ASSUME TypeOK, ShowInv, [Next]_vars PROVE ShowInv'
  OBVIOUS
<1>1. ASSUME UNCHANGED <<tables, listed, options, last, loads, issued, unseen>>, Untold => Untold'
      PROVE  ShowInv'
  BY <1>1, ShowStays
<1>2. CASE Administrator
  <2>1. UNCHANGED <<tables, listed, options, last, loads, issued, unseen>>
    BY <1>2 DEF Administrator, SelectOrganization, OpenCreate, CloseForm, OpenOrgForm,
                CloseOrgForm, OpenEdit, Delete, Submit, Click, SubmitOrg
  <2>2. Untold => Untold'
    <3>1. CASE UNCHANGED <<save, creation, deletions>>
      BY <3>1 DEF Untold
    <3>2. ASSUME NEW c \in Clusters, Delete(c) PROVE Untold => Untold'
      BY <3>2, NoneIsNoState DEF Delete, Click, Untold, TypeOK
    <3>3. ASSUME NEW e \in Environments \cup {NoEnvironment}, Submit(e) PROVE Untold => Untold'
      BY <3>3 DEF Submit, CanSubmit, Click, Untold
    <3>4. ASSUME NEW o \in Organizations, SubmitOrg(o) PROVE Untold => Untold'
      BY <3>4 DEF SubmitOrg, CanSubmitOrg, Untold
    <3> QED
      BY <1>2, <3>1, <3>2, <3>3, <3>4
         DEF Administrator, SelectOrganization, OpenCreate, CloseForm, OpenOrgForm, CloseOrgForm,
             OpenEdit, Click
  <2> QED
    BY <1>1, <2>1, <2>2
<1>3. ASSUME NEW l \in Loads, ServeLoad(l) PROVE ShowInv'
  <2>1. loads[l] \in Load /\ loads[l] # None
    BY <1>3 DEF ServeLoad, TypeOK
  <2>2. UNCHANGED <<tables, listed, options, last, issued, unseen, save, creation, deletions>>
    BY <1>3 DEF ServeLoad
  <2>3. /\ loads'[l].clusters = loads[l].clusters \/ loads'[l].clusters = List
        /\ loads'[l].environments = loads[l].environments \/ loads'[l].environments = environments
        /\ \A m \in Loads \ {l} : loads'[m] = loads[m]
    BY <1>3, <2>1 DEF ServeLoad, TypeOK, Load
  <2>4. LoadsNumbered'
    BY <2>1, <2>2, <2>3 DEF ShowInv, LoadsNumbered
  <2>5. LastIsTrue => LastIsTrue'
    BY <2>1, <2>2, <2>3, Numbers, ListDepends DEF LastIsTrue
  <2>6. Untold' = Untold
    BY <2>2 DEF Untold
  <2> QED
    BY <2>2, <2>4, <2>5, <2>6 DEF ShowInv
<1>4. ASSUME NEW l \in Loads, ReceiveLoad(l) PROVE ShowInv'
  <2>1. /\ UNCHANGED <<tables, issued, unseen, save, creation, deletions>>
        /\ loads[l] # None /\ loads[l].clusters # None /\ loads[l].environments # None
        /\ listed' = loads[l].clusters /\ options' = loads[l].environments /\ last' = l
        /\ \A m \in Loads : loads'[m] = IF m = l THEN None ELSE loads[m]
    BY <1>4 DEF ReceiveLoad, TypeOK
  <2>2. LoadsNumbered'
    BY <2>1 DEF ShowInv, LoadsNumbered
  <2>3. LastIsTrue => LastIsTrue'
    BY <2>1, Numbers, ListDepends DEF LastIsTrue
  <2>4. Untold' = Untold
    BY <2>1 DEF Untold
  <2> QED
    BY <2>1, <2>2, <2>3, <2>4 DEF ShowInv
<1>5. ASSUME NEW l \in Loads, FailLoad(l) PROVE ShowInv'
  <2>1. /\ UNCHANGED <<tables, listed, options, last, issued, unseen, save, creation, deletions>>
        /\ \A m \in Loads : loads'[m] = IF m = l THEN None ELSE loads[m]
    BY <1>5 DEF FailLoad, TypeOK
  <2>2. LoadsNumbered' /\ (LastIsTrue => LastIsTrue') /\ Untold' = Untold
    BY <2>1, Numbers, ListDepends DEF ShowInv, LoadsNumbered, LastIsTrue, Untold
  <2> QED
    BY <2>1, <2>2 DEF ShowInv
<1>6. CASE ReceiveSave
  <2>1. CASE StartLoad
    BY <1>6, <2>1, StartedLoad DEF ReceiveSave, ShowInv
  <2>2. CASE save.state = "failed" /\ UNCHANGED <<issued, loads, unseen>>
    BY <1>1, <1>6, <2>2 DEF ReceiveSave, Untold
  <2> QED
    BY <1>6, <2>1, <2>2 DEF ReceiveSave
<1>7. CASE ReceiveOrg
  <2>1. CASE StartLoad
    BY <1>7, <2>1, StartedLoad DEF ReceiveOrg, ShowInv
  <2>2. CASE creation.state = "failed" /\ UNCHANGED <<issued, loads, unseen>>
    BY <1>1, <1>7, <2>2 DEF ReceiveOrg, Untold
  <2> QED
    BY <1>7, <2>1, <2>2 DEF ReceiveOrg
<1>8. ASSUME NEW c \in Clusters, ReceiveDelete(c) PROVE ShowInv'
  <2>1. CASE StartLoad
    BY <1>8, <2>1, StartedLoad DEF ReceiveDelete, ShowInv
  <2>2. CASE deletions[c] = "failed" /\ UNCHANGED <<issued, loads, unseen>>
    <3>1. Untold => Untold'
      BY <1>8, <2>2 DEF ReceiveDelete, Untold, TypeOK
    <3> QED
      BY <1>1, <1>8, <2>2, <3>1 DEF ReceiveDelete
  <2> QED
    BY <1>8, <2>1, <2>2 DEF ReceiveDelete
<1>9. ASSUME UNCHANGED <<listed, options, last, loads, issued>>, unseen' \/ Untold' PROVE ShowInv'
  BY <1>9 DEF ShowInv, LoadsNumbered
<1>10. ASSUME ServeSave \/ ServeOrg \/ \E c \in Clusters : ServeDelete(c) PROVE ShowInv'
  <2>1. UNCHANGED <<listed, options, last, loads, issued>>
    BY <1>10 DEF ServeSave, ServeOrg, ServeDelete, Serving
  <2>2. Untold'
    <3>1. CASE ServeSave
      <4>1. save \in Save
        BY <3>1 DEF ServeSave, TypeOK
      <4>2. save' \in Save /\ save'.state = "done"
        BY <3>1, <4>1 DEF ServeSave, Save, States
      <4> QED
        BY <4>2, AdminPageAssumption DEF Untold
    <3>2. CASE ServeOrg
      <4>1. creation \in Creation
        BY <3>2 DEF ServeOrg, TypeOK
      <4>2. creation' \in Creation /\ creation'.state = "done"
        BY <3>2, <4>1 DEF ServeOrg, Creation, States
      <4> QED
        BY <4>2, AdminPageAssumption DEF Untold
    <3>3. ASSUME NEW c \in Clusters, ServeDelete(c) PROVE Untold'
      BY <3>3 DEF ServeDelete, Untold, TypeOK
    <3> QED
      BY <1>10, <3>1, <3>2, <3>3
  <2> QED
    BY <1>9, <2>1, <2>2
<1>11. ASSUME FailSave \/ FailOrg \/ \E c \in Clusters : FailDelete(c) PROVE ShowInv'
  <2>1. UNCHANGED <<listed, options, last, loads, issued>>
    BY <1>11 DEF FailSave, FailOrg, FailDelete, Serving
  <2>2. unseen' \/ UNCHANGED <<tables, unseen>>
    BY <1>11 DEF FailSave, FailOrg, FailDelete, Lose
  <2>3. Untold => Untold'
    BY <1>11 DEF FailSave, FailOrg, FailDelete, Untold, TypeOK
  <2> QED
    BY <1>1, <1>9, <2>1, <2>2, <2>3
<1>12. ASSUME NEW c \in Clusters, WriteElsewhere(c) PROVE ShowInv'
  BY <1>9, <1>12 DEF WriteElsewhere
<1>13. CASE UNCHANGED vars
  BY <1>1, <1>13 DEF vars, Untold
<1> QED
  BY <1>2, <1>3, <1>4, <1>5, <1>6, <1>7, <1>8, <1>10, <1>11, <1>12, <1>13
     DEF Next, Loading, Saving, Creating, Deleting, Failure

\* Once everything is answered the page shows the tables, unless what it shows
\* is not the last load or a row changed behind its back: every write that is
\* reported starts a load, which reads the tables after the write.
THEOREM ChangesAreShown == Spec => []ShowsOwnChanges
<1>1. Init => ShowInv
  BY AdminPageAssumption
     DEF Init, ShowInv, LoadsNumbered, LastIsTrue, NoLists, Loads
<1>2. ShowInv => ShowsOwnChanges
  BY NoneIsNoState DEF ShowInv, ShowsOwnChanges, Quiet, Untold, LastIsTrue
<1> QED
  BY <1>1, <1>2, ShowStep, TypeCorrect, PTL DEF Spec

-----------------------------------------------------------------------------
(* The page does not stay blank.                                            *)

\* While the page is blank, the lists that were asked for last are still to
\* come: what an earlier answer shows is what it shows until then
\* (ClustersAdminPage.tsx:44-61).
LoadsWhatIsNewest == loading => loads[issued] # None

LEMMA LoadIsSome == NoLists \in Load /\ None \notin Load
BY AdminPageAssumption DEF NoLists, Load

\* Every load that ends makes the page show something, and each one that
\* starts is the newest: the page is blank for that one only.
THEOREM BlankForTheNewest == Spec => []LoadsWhatIsNewest
<1> USE DEF LoadsWhatIsNewest
<1>1. Init => LoadsWhatIsNewest
  <2>1. 1 \in Loads
    BY AdminPageAssumption DEF Loads
  <2> QED
    BY <2>1, LoadIsSome DEF Init
<1>2. TypeOK /\ LoadsWhatIsNewest /\ [Next]_vars => LoadsWhatIsNewest'
  <2> SUFFICES ASSUME TypeOK, LoadsWhatIsNewest, [Next]_vars PROVE LoadsWhatIsNewest'
    OBVIOUS
  <2>1. CASE UNCHANGED <<loading, loads, issued>>
    BY <2>1
  <2>2. CASE StartLoad
    <3>1. issued' = issued + 1 /\ issued' \in Loads
      BY <2>2, StartLoadType DEF StartLoad
    <3>2. loads'[issued'] = NoLists
      BY <2>2, <3>1 DEF StartLoad, TypeOK
    <3> QED
      BY <3>2, LoadIsSome
  <2>3. ASSUME NEW l \in Loads, ServeLoad(l) PROVE LoadsWhatIsNewest'
    <3>1. UNCHANGED <<loading, issued>> /\ issued \in Loads
      BY <2>3 DEF ServeLoad, TypeOK
    <3>2. loads[l] \in Load
      BY <2>3 DEF ServeLoad, TypeOK
    <3>3. PICK x \in Load : loads' = [loads EXCEPT ![l] = x]
      <4>1. List \in Listing /\ environments \in Options
        BY ListType DEF TypeOK
      <4>2. /\ [loads[l] EXCEPT !.clusters = List] \in Load
            /\ [loads[l] EXCEPT !.environments = environments] \in Load
        BY <3>2, <4>1 DEF Load
      <4> QED
        BY <2>3, <4>2 DEF ServeLoad, TypeOK
    <3> QED
      BY <3>1, <3>2, <3>3, LoadIsSome DEF TypeOK
  <2>4. ASSUME NEW l \in Loads, ReceiveLoad(l) \/ FailLoad(l) PROVE LoadsWhatIsNewest'
    BY <2>4 DEF ReceiveLoad, FailLoad
  <2>5. CASE Administrator
    BY <2>1, <2>5 DEF Administrator, SelectOrganization, OpenCreate, CloseForm, OpenOrgForm,
                      CloseOrgForm, OpenEdit, Delete, Submit, Click, SubmitOrg
  <2>6. CASE ReceiveSave \/ ReceiveOrg \/ \E c \in Clusters : ReceiveDelete(c)
    BY <2>1, <2>2, <2>6 DEF ReceiveSave, ReceiveOrg, ReceiveDelete
  <2>7. CASE \/ ServeSave \/ ServeOrg \/ FailSave \/ FailOrg
             \/ \E c \in Clusters : ServeDelete(c) \/ FailDelete(c) \/ WriteElsewhere(c)
    BY <2>1, <2>7 DEF ServeSave, ServeOrg, FailSave, FailOrg, ServeDelete, FailDelete, WriteElsewhere,
                      Serving
  <2>8. CASE UNCHANGED vars
    BY <2>1, <2>8 DEF vars
  <2> QED
    BY <2>3, <2>4, <2>5, <2>6, <2>7, <2>8 DEF Next, Loading, Saving, Creating, Deleting, Failure
<1> QED
  BY <1>1, <1>2, TypeCorrect, PTL DEF Spec
=============================================================================
