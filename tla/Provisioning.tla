---------------------------- MODULE Provisioning ----------------------------
(***************************************************************************)
(* How rows come into the database: the start of an API replica            *)
(* (api/main.go: Migrate, Seed, serve) and the creation of an organization *)
(* (CreateOrganization in api/handlers/admin_clusters.go).  Both give      *)
(* environments their default panels with SeedDefaultPanels, outside any   *)
(* transaction; Seed and CreateOrganization write the other rows in one.   *)
(*                                                                         *)
(* Replicas die at any step and are started again.  proc[r] is what        *)
(* replica r has in memory, the rows of its open transaction among them:   *)
(* they are visible to nobody else, and gone with the replica.  A replica  *)
(* serves one CreateOrganization at a time.                                *)
(***************************************************************************)
EXTENDS Integers, Sequences, FiniteSets

CONSTANTS
  Replicas,         \* processes of the API
  Defaults,         \* names of the default panels, five in the code
  MaxCustomers,     \* largest value of customers.id    (2^31 - 1 in PostgreSQL)
  MaxEnvironments,  \* largest value of environments.id (2^31 - 1)
  MaxFaults,        \* how many statements fail or replicas die
  Edits             \* whether users edit, delete and add panels

ASSUME ProvisioningAssumption ==
  /\ Defaults \in Seq(STRING) /\ Defaults # <<>>
  /\ MaxCustomers \in Nat
  /\ MaxEnvironments \in Nat
  /\ MaxFaults \in Nat
  /\ Edits \in BOOLEAN

CustomerIds == 1..MaxCustomers
EnvironmentIds == 1..MaxEnvironments
Names == {Defaults[i] : i \in 1..Len(Defaults)}

DemoUsers == {"admin", "alice", "bob"}

VARIABLES
  users,           \* usernames
  customers,       \* ids
  environments,    \* <<id, customer_id>>
  grants,          \* <<username, environment of the granted cluster>>
  seeded,          \* seeded[<<e, n>>]: rows of panels that SeedDefaultPanels
                   \*   inserted and nobody has edited
  edited,          \* <<e, n>>: environment e has another panel named n
  customerSeq,     \* last id given out by customers_id_seq
  environmentSeq,  \* last id given out by environments_id_seq
  proc,            \* proc[r]: the memory of replica r
  faults           \* how many faults have happened

catalog == <<users, customers, environments, grants>>
panelRows == <<seeded, edited>>
sequences == <<customerSeq, environmentSeq>>
vars == <<catalog, panelRows, sequences, proc, faults>>

Steps ==
  {"down", "migrate", "list", "next", "probe", "insert", "count",
   "users", "demo", "environment", "commit", "serve"}

Tx ==
  [users        : SUBSET DemoUsers,
   customers    : SUBSET CustomerIds,
   environments : SUBSET (EnvironmentIds \X CustomerIds),
   grants       : SUBSET (DemoUsers \X EnvironmentIds)]

NoTx == [users |-> {}, customers |-> {}, environments |-> {}, grants |-> {}]

Process ==
  [step    : Steps,
   serving : BOOLEAN,
   tx      : Tx,
   todo    : SUBSET EnvironmentIds,    \* environments whose panels it is to seed
   env     : EnvironmentIds \cup {0},  \* and the one it is at,
   name    : 1..Len(Defaults),         \* with the default panel it is at
   listed  : SUBSET EnvironmentIds]    \* history: the rows Migrate has read

Down ==
  [step |-> "down", serving |-> FALSE, tx |-> NoTx, todo |-> {}, env |-> 0,
   name |-> 1, listed |-> {}]

Idle == [Down EXCEPT !.step = "serve", !.serving = TRUE]

TypeOK ==
  /\ users \subseteq DemoUsers
  /\ customers \subseteq CustomerIds
  /\ environments \subseteq EnvironmentIds \X CustomerIds
  /\ grants \subseteq DemoUsers \X EnvironmentIds
  /\ seeded \in [EnvironmentIds \X Names -> Nat]
  /\ edited \subseteq EnvironmentIds \X Names
  /\ customerSeq \in 0..MaxCustomers
  /\ environmentSeq \in 0..MaxEnvironments
  /\ proc \in [Replicas -> Process]
  /\ faults \in 0..MaxFaults

Init ==
  /\ users = {} /\ customers = {} /\ environments = {} /\ grants = {}
  /\ seeded = [x \in EnvironmentIds \X Names |-> 0]
  /\ edited = {}
  /\ customerSeq = 0 /\ environmentSeq = 0
  /\ proc = [r \in Replicas |-> Down]
  /\ faults = 0

At(r, s) == proc[r].step = s
Become(r, p) == proc' = [proc EXCEPT ![r] = p]
Goto(r, s) == Become(r, [proc[r] EXCEPT !.step = s])

Ids(rows) == {x[1] : x \in rows}

-----------------------------------------------------------------------------
(* Start of a replica: db.Migrate. *)

Start(r) ==
  /\ At(r, "down")
  /\ Goto(r, "migrate")
  /\ UNCHANGED <<catalog, panelRows, sequences, faults>>

\* Every migration may be run again on the schema it leads to.
Migrate(r) ==
  /\ At(r, "migrate")
  /\ Goto(r, "list")
  /\ UNCHANGED <<catalog, panelRows, sequences, faults>>

\* As if environments that have a panel were left out.
ListEmptyEnvironments(r) ==
  LET rows == {e \in Ids(environments) :
                 \A n \in Names : seeded[<<e, n>>] = 0 /\ <<e, n>> \notin edited}
  IN /\ At(r, "list")
     /\ Become(r, [proc[r] EXCEPT !.step = "next", !.todo = rows,
                                  !.listed = Ids(environments)])
     /\ UNCHANGED <<catalog, panelRows, sequences, faults>>

\* SELECT id FROM environments
ListEnvironments(r) ==
  /\ At(r, "list")
  /\ Become(r, [proc[r] EXCEPT !.step = "next", !.todo = Ids(environments),
                               !.listed = Ids(environments)])
  /\ UNCHANGED <<catalog, panelRows, sequences, faults>>

-----------------------------------------------------------------------------
(* SeedDefaultPanels: one statement for each default panel. *)

\* The loop over environments: Migrate goes on with Seed, CreateOrganization
\* answers 201.
NextEnvironment(r) ==
  /\ At(r, "next")
  /\ \/ \E e \in proc[r].todo :
          Become(r, [proc[r] EXCEPT !.step = "probe", !.env = e, !.name = 1,
                                    !.todo = @ \ {e}])
     \/ proc[r].todo = {} /\ ~proc[r].serving /\ Goto(r, "count")
     \/ proc[r].todo = {} /\ proc[r].serving /\ Become(r, Idle)
  /\ UNCHANGED <<catalog, panelRows, sequences, faults>>

Exists(e, n) == seeded[<<e, n>>] > 0 \/ <<e, n>> \in edited

Name(r) == Defaults[proc[r].name]

\* As if the loop over the default panels ran once too often.
AdvancePastEnd(r) ==
  \/ /\ proc[r].name <= Len(Defaults)
     /\ Become(r, [proc[r] EXCEPT !.step = "probe", !.name = @ + 1])
  \/ /\ proc[r].name > Len(Defaults)
     /\ Goto(r, "next")

AdvanceName(r) ==
  \/ /\ proc[r].name < Len(Defaults)
     /\ Become(r, [proc[r] EXCEPT !.step = "probe", !.name = @ + 1])
  \/ /\ proc[r].name = Len(Defaults)
     /\ Goto(r, "next")

\* As if the statement had no WHERE NOT EXISTS.
ProbeNothing(r) ==
  /\ At(r, "probe")
  /\ Goto(r, "insert")
  /\ UNCHANGED <<catalog, panelRows, sequences, faults>>

\* The snapshot of INSERT ... SELECT ... WHERE NOT EXISTS: it contains what
\* was committed when the statement began.
Probe(r) ==
  /\ At(r, "probe")
  /\ \/ ~Exists(proc[r].env, Name(r)) /\ Goto(r, "insert")
     \/ Exists(proc[r].env, Name(r)) /\ AdvanceName(r)
  /\ UNCHANGED <<catalog, panelRows, sequences, faults>>

\* Its row, visible to others when the statement has ended.
Insert(r) ==
  /\ At(r, "insert")
  /\ seeded' = [seeded EXCEPT ![<<proc[r].env, Name(r)>>] = @ + 1]
  /\ AdvanceName(r)
  /\ UNCHANGED <<catalog, edited, sequences, faults>>

-----------------------------------------------------------------------------
(* db.Seed. *)

\* As if the demo data were written at every start.
CountNothing(r) ==
  /\ At(r, "count")
  /\ Goto(r, "users")
  /\ UNCHANGED <<catalog, panelRows, sequences, faults>>

\* SELECT COUNT(*) FROM users
CountUsers(r) ==
  /\ At(r, "count")
  /\ \/ users = {} /\ Goto(r, "users")
     \/ users # {} /\ Become(r, Idle)
  /\ UNCHANGED <<catalog, panelRows, sequences, faults>>

\* As if users.username were not UNIQUE.
InsertUsersTwice(r) ==
  /\ At(r, "users")
  /\ Become(r, [proc[r] EXCEPT !.step = "demo", !.tx.users = DemoUsers])
  /\ UNCHANGED <<catalog, panelRows, sequences, faults>>

\* INSERT INTO users.  username is UNIQUE: the statement waits for another
\* transaction that has inserted the same name, fails if that commits, and
\* goes on if it is rolled back.  A failure ends the process (log.Fatalf).
InsertUsers(r) ==
  /\ At(r, "users")
  /\ \/ /\ users = {}
        /\ \A s \in Replicas : proc[s].tx.users = {}
        /\ Become(r, [proc[r] EXCEPT !.step = "demo", !.tx.users = DemoUsers])
     \/ users # {} /\ Become(r, Down)
  /\ UNCHANGED <<catalog, panelRows, sequences, faults>>

\* INSERT INTO customers, environments, clusters, user_cluster_access: Acme
\* Corp for alice, Globex Inc for bob.  A sequence keeps what it gave out.
InsertDemo(r) ==
  /\ At(r, "demo")
  /\ LET c == customerSeq + 1
         e == environmentSeq + 1
     IN \/ /\ c + 1 <= MaxCustomers /\ e + 1 <= MaxEnvironments
           /\ Become(r, [proc[r] EXCEPT
                !.step = "commit",
                !.tx.customers = {c, c + 1},
                !.tx.environments = {<<e, c>>, <<e + 1, c + 1>>},
                !.tx.grants = {<<"alice", e>>, <<"bob", e + 1>>}])
           /\ customerSeq' = c + 1 /\ environmentSeq' = e + 1
        \/ /\ c + 1 > MaxCustomers \/ e + 1 > MaxEnvironments
           /\ Become(r, Down)
           /\ UNCHANGED sequences
  /\ UNCHANGED <<catalog, panelRows, faults>>

-----------------------------------------------------------------------------
(* CreateOrganization. *)

\* As if the customer were inserted outside the transaction.
InsertCustomerAlone(r) ==
  /\ At(r, "serve")
  /\ customerSeq < MaxCustomers
  /\ customerSeq' = customerSeq + 1
  /\ customers' = customers \cup {customerSeq + 1}
  /\ Become(r, [proc[r] EXCEPT !.step = "environment",
                               !.tx.customers = {customerSeq + 1}])
  /\ UNCHANGED <<users, environments, grants, panelRows, environmentSeq, faults>>

\* INSERT INTO customers; a sequence at its end is answered 500.
InsertCustomer(r) ==
  /\ At(r, "serve")
  /\ \/ /\ customerSeq < MaxCustomers
        /\ customerSeq' = customerSeq + 1
        /\ Become(r, [proc[r] EXCEPT !.step = "environment",
                                     !.tx.customers = {customerSeq + 1}])
     \/ customerSeq = MaxCustomers /\ UNCHANGED <<customerSeq, proc>>
  /\ UNCHANGED <<catalog, panelRows, environmentSeq, faults>>

\* INSERT INTO environments; a failure rolls the transaction back.
InsertEnvironment(r) ==
  /\ At(r, "environment")
  /\ \/ /\ environmentSeq < MaxEnvironments
        /\ environmentSeq' = environmentSeq + 1
        /\ Become(r, [proc[r] EXCEPT
             !.step = "commit",
             !.tx.environments = {environmentSeq + 1} \X proc[r].tx.customers])
     \/ environmentSeq = MaxEnvironments /\ Become(r, Idle) /\ UNCHANGED environmentSeq
  /\ UNCHANGED <<catalog, panelRows, customerSeq, faults>>

\* tx.Commit: Seed is done and the replica serves; CreateOrganization seeds the
\* panels of the new environment.
Commit(r) ==
  /\ At(r, "commit")
  /\ users' = users \cup proc[r].tx.users
  /\ customers' = customers \cup proc[r].tx.customers
  /\ environments' = environments \cup proc[r].tx.environments
  /\ grants' = grants \cup proc[r].tx.grants
  /\ \/ ~proc[r].serving /\ Become(r, Idle)
     \/ /\ proc[r].serving
        /\ Become(r, [proc[r] EXCEPT !.step = "next", !.tx = NoTx,
                                     !.todo = Ids(proc[r].tx.environments)])
  /\ UNCHANGED <<panelRows, sequences, faults>>

-----------------------------------------------------------------------------
(* Faults, and users who edit panels. *)

Fault == faults < MaxFaults /\ faults' = faults + 1

\* The process is killed, or a statement of its start fails (log.Fatalf).  A
\* statement it has not had the answer of has ended, one way or the other,
\* before the process is started again.
Die(r) ==
  /\ Fault
  /\ ~At(r, "down")
  /\ Become(r, Down)
  /\ UNCHANGED <<catalog, panelRows, sequences>>

\* The rows of SELECT id FROM environments break off: the loop over them ends as
\* if it had read them all, for nobody asks rows.Err().
ListBreaksOff(r) ==
  /\ Fault
  /\ At(r, "list")
  /\ \E read \in SUBSET Ids(environments) :
       Become(r, [proc[r] EXCEPT !.step = "next", !.todo = read, !.listed = read])
  /\ UNCHANGED <<catalog, panelRows, sequences>>

\* A statement of CreateOrganization fails: before the commit the answer is
\* 500, and after it 201, for the error of SeedDefaultPanels is dropped.
StatementFails(r) ==
  /\ Fault
  /\ proc[r].serving
  /\ At(r, "environment") \/ At(r, "commit") \/ At(r, "probe") \/ At(r, "insert")
  /\ Become(r, Idle)
  /\ UNCHANGED <<catalog, panelRows, sequences>>

Edit == Edits /\ \E r \in Replicas : proc[r].serving

\* UpdatePanel or DeletePanel of a seeded panel, which may take any name.
EditSeededPanel(x) ==
  /\ Edit
  /\ seeded[x] > 0
  /\ seeded' = [seeded EXCEPT ![x] = @ - 1]
  /\ \/ UNCHANGED edited
     \/ \E n \in Names : edited' = edited \cup {<<x[1], n>>}
  /\ UNCHANGED <<catalog, sequences, proc, faults>>

\* CreatePanel under the name of a default panel.
AddPanel(x) ==
  /\ Edit
  /\ x[1] \in Ids(environments)
  /\ edited' = edited \cup {x}
  /\ UNCHANGED <<catalog, seeded, sequences, proc, faults>>

\* DeletePanel, or UpdatePanel to another name.
RemovePanel(x) ==
  /\ Edit
  /\ x \in edited
  /\ edited' = edited \ {x}
  /\ UNCHANGED <<catalog, seeded, sequences, proc, faults>>

-----------------------------------------------------------------------------
\* The steps a replica takes by itself once it has been scheduled.
Run(r) ==
  \/ Start(r) \/ Migrate(r) \/ ListEnvironments(r)
  \/ NextEnvironment(r) \/ Probe(r) \/ Insert(r)
  \/ CountUsers(r) \/ InsertUsers(r) \/ InsertDemo(r)
  \/ InsertEnvironment(r) \/ Commit(r)

Next ==
  \/ \E r \in Replicas :
       Run(r) \/ InsertCustomer(r) \/ Die(r) \/ ListBreaksOff(r) \/ StatementFails(r)
  \/ \E x \in EnvironmentIds \X Names :
       EditSeededPanel(x) \/ AddPanel(x) \/ RemovePanel(x)

Spec == Init /\ [][Next]_vars

\* Kubernetes starts a replica that is down, PostgreSQL answers.
FairSpec == Spec /\ \A r \in Replicas : WF_vars(Run(r))

-----------------------------------------------------------------------------
(* Whatever dies and whenever, readers see organizations and the demo data  *)
(* only as a whole, and the demo data once, although the count of users and *)
(* the insertion of the first are two statements (seed.go:13, 40;           *)
(* admin_clusters.go:178-206): module Catalog, for the same variables.      *)
Abstract == INSTANCE Catalog WITH DemoViewers <- {"alice", "bob"}

AppearsWhole == Abstract!Spec

(* A start that dies after some panels is made good by the next one: when a *)
(* start has seeded panels, each environment it has read has every default  *)
(* panel, whatever other replicas do (migrate.go:118-141).  It may have     *)
(* read fewer than there are (ListBreaksOff).  Users who delete panels in   *)
(* the meantime are left out.                                               *)
StartFillsEnvironments ==
  ~Edits =>
    \A r \in Replicas :
      At(r, "count") \/ At(r, "users") \/ At(r, "demo")
        => \A e \in proc[r].listed, n \in Names : Exists(e, n)

(* Concurrent seeding puts no more copies of a default panel into an        *)
(* environment than there are replicas (migrate.go:98-106): a copy needs a  *)
(* snapshot without one.                                                    *)
CopiesBounded ==
  \A x \in EnvironmentIds \X Names : seeded[x] <= Cardinality(Replicas)

(* migrate.go:95: "It is idempotent: panels that already exist (matched by  *)
(* name) are skipped".  This holds if there is one replica.                 *)
DefaultsOnce == \A x \in EnvironmentIds \X Names : seeded[x] <= 1

(* Every replica gets to serve, again and again: replicas that start at the *)
(* same time neither wait for each other for ever nor fail over and over    *)
(* (seed.go:18, 40-44), as long as faults come to an end.                   *)
EveryReplicaServes == \A r \in Replicas : []<>proc[r].serving
=============================================================================
