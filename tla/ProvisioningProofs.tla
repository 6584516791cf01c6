------------------------- MODULE ProvisioningProofs -------------------------
(***************************************************************************)
(* Proofs about Provisioning, for any replicas, default panels, faults and *)
(* ranges of the sequences: that it implements Catalog, that a start that  *)
(* has seeded panels left no environment it found without one, that no     *)
(* default panel is seeded more often than there are replicas, and with    *)
(* one replica not twice; that replicas which start do not wait for each   *)
(* other in a circle, and that no start goes round in a loop.              *)
(***************************************************************************)
EXTENDS Provisioning, FiniteSetTheorems, TLAPS

\* The rows CreateOrganization has written when it commits, and Seed.
OrganizationTx(tx) ==
  \E c \in CustomerIds, e \in EnvironmentIds :
    tx = [users |-> {}, customers |-> {c}, environments |-> {<<e, c>>}, grants |-> {}]

DemoTx(tx) ==
  \E c, d \in CustomerIds, e, f \in EnvironmentIds :
    /\ c # d /\ e # f
    /\ tx = [users |-> DemoUsers, customers |-> {c, d},
             environments |-> {<<e, c>>, <<f, d>>},
             grants |-> {<<"alice", e>>, <<"bob", f>>}]

\* What the memory of a replica looks like at each step.
WellFormed(p) ==
  /\ p \in Process
  /\ p.step \in {"down", "migrate", "list", "count", "users", "demo"} => ~p.serving
  /\ p.step \in {"serve", "environment"} => p.serving
  /\ p.step = "demo" => p.tx = [NoTx EXCEPT !.users = DemoUsers]
  /\ p.step = "environment" =>
       \E c \in CustomerIds : p.tx = [NoTx EXCEPT !.customers = {c}]
  /\ p.step = "commit" => IF p.serving THEN OrganizationTx(p.tx) ELSE DemoTx(p.tx)
  /\ p.step \notin {"demo", "environment", "commit"} => p.tx = NoTx
  /\ p.step \in {"probe", "insert"} => p.env \in EnvironmentIds

\* The rows of an open transaction are new.
OwnRows(r) ==
  LET tx == proc[r].tx IN
  /\ \A c \in tx.customers : c <= customerSeq /\ c \notin customers
  /\ \A x \in tx.environments : x[1] <= environmentSeq /\ x[1] \notin Ids(environments)
  /\ tx.users # {} => users = {}

\* And no other transaction has them.
Disjoint(r, s) ==
  /\ proc[r].tx.customers \cap proc[s].tx.customers = {}
  /\ Ids(proc[r].tx.environments) \cap Ids(proc[s].tx.environments) = {}
  /\ proc[r].tx.users = {} \/ proc[s].tx.users = {}

Apart ==
  /\ \A c \in customers : c <= customerSeq
  /\ \A x \in environments : x[1] <= environmentSeq
  /\ \A r \in Replicas : OwnRows(r)
  /\ \A r, s \in Replicas : r # s => Disjoint(r, s)

IInv ==
  /\ TypeOK
  /\ \A r \in Replicas : WellFormed(proc[r])
  /\ Apart

-----------------------------------------------------------------------------
(* The memory of a replica. *)

\* The loop over the default panels has a first one.
LEMMA FirstDefault == Len(Defaults) \in Nat /\ 1 \in 1..Len(Defaults)
<1>1. Defaults \in Seq(STRING) /\ Defaults # <<>>
  BY ProvisioningAssumption
<1> QED
  BY <1>1

\* An empty transaction.
LEMMA NoTxIsTx == NoTx \in Tx
BY DEF NoTx, Tx

\* A replica that is down and one that waits for requests.
LEMMA RestWellFormed == WellFormed(Down) /\ WellFormed(Idle)
<1>1. Down \in Process /\ Idle \in Process
  BY FirstDefault, NoTxIsTx DEF Down, Idle, Process, Steps
<1> QED
  BY <1>1 DEF WellFormed, Down, Idle

\* A step of replica r concerns no other replica.
Only(r) == proc' = [proc EXCEPT ![r] = proc'[r]]

\* What is stored for r is in memory of r, and of no other.
LEMMA BecomeOnly ==
  ASSUME TypeOK, NEW r \in Replicas, NEW p, Become(r, p)
  PROVE  Only(r) /\ proc'[r] = p /\ \A s \in Replicas \ {r} : proc'[s] = proc[s]
BY DEF TypeOK, Become, Only

\* Memory that goes on to a step which needs nothing more.
LEMMA PlainStep ==
  ASSUME NEW p, WellFormed(p), NEW q \in Process,
         q.serving = p.serving, q.tx = p.tx,
         p.step \notin {"demo", "environment", "commit"},
         q.step \in {"migrate", "list", "next", "probe", "insert", "count", "users"},
         q.step \in {"migrate", "list", "count", "users"} => ~p.serving,
         q.step \in {"probe", "insert"} => q.env \in EnvironmentIds
  PROVE  WellFormed(q)
BY DEF WellFormed

\* The next default panel, or the next environment.
LEMMA AdvanceWellFormed ==
  ASSUME TypeOK, NEW r \in Replicas, WellFormed(proc[r]),
         At(r, "probe") \/ At(r, "insert"), AdvanceName(r)
  PROVE  /\ Only(r) /\ WellFormed(proc'[r])
         /\ proc'[r].tx = proc[r].tx
<1> DEFINE p == proc[r]
<1>1. p \in Process /\ p.env \in EnvironmentIds
  BY DEF WellFormed, At
<1>2. CASE /\ p.name < Len(Defaults)
           /\ Become(r, [p EXCEPT !.step = "probe", !.name = @ + 1])
  <2> DEFINE n == Len(Defaults)
             q == [p EXCEPT !.step = "probe", !.name = @ + 1]
  <2>1. p.name \in 1..n
    BY <1>1 DEF Process
  <2>2. p.name + 1 \in 1..n
    <3> HIDE DEF n
    <3> QED
      BY <1>2, <2>1, FirstDefault DEF n
  <2>3. q \in Process
    BY <1>1, <2>2 DEF Process, Steps
  <2>4. WellFormed(q)
    BY <1>1, <2>3, PlainStep DEF Process, At
  <2>5. Only(r) /\ proc'[r] = q
    BY <1>2, BecomeOnly
  <2> QED
    BY <1>1, <2>4, <2>5 DEF Process
<1>3. CASE Become(r, [p EXCEPT !.step = "next"])
  <2>1. [p EXCEPT !.step = "next"] \in Process
    BY <1>1 DEF Process, Steps
  <2>2. WellFormed([p EXCEPT !.step = "next"])
    BY <1>1, <2>1, PlainStep DEF Process, At
  <2>3. Only(r) /\ proc'[r] = [p EXCEPT !.step = "next"]
    BY <1>3, BecomeOnly
  <2> QED
    BY <1>1, <2>2, <2>3 DEF Process
<1> QED
  BY <1>2, <1>3 DEF AdvanceName, Goto

\* The steps that write no row in a transaction.
Plain(r) ==
  \/ Start(r) \/ Migrate(r) \/ ListEnvironments(r)
  \/ NextEnvironment(r) \/ Probe(r) \/ Insert(r)
  \/ CountUsers(r) \/ Die(r) \/ ListBreaksOff(r) \/ StatementFails(r)

\* Memory that is cleared has no transaction.
LEMMA RestStep ==
  ASSUME TypeOK, NEW r \in Replicas, Become(r, Down) \/ Become(r, Idle)
  PROVE  Only(r) /\ WellFormed(proc'[r]) /\ proc'[r].tx = NoTx
<1>1. Only(r) /\ (proc'[r] = Down \/ proc'[r] = Idle)
  BY BecomeOnly
<1>2. Down.tx = NoTx /\ Idle.tx = NoTx
  BY DEF Down, Idle
<1> QED
  BY <1>1, <1>2, RestWellFormed

\* Such a step keeps the open transaction or drops it.
LEMMA PlainWellFormed ==
  ASSUME TypeOK, NEW r \in Replicas, WellFormed(proc[r]), Plain(r)
  PROVE  /\ Only(r) /\ WellFormed(proc'[r])
         /\ proc'[r].tx \in {proc[r].tx, NoTx}
         /\ UNCHANGED <<catalog, sequences>>
<1> DEFINE p == proc[r]
<1>1. p \in Process
  BY DEF WellFormed
<1>2. UNCHANGED <<catalog, sequences>>
  BY DEF Plain, Start, Migrate, ListEnvironments, NextEnvironment, Probe, Insert,
         CountUsers, Die, ListBreaksOff, StatementFails, catalog, sequences
<1>3. ASSUME Become(r, Down) \/ Become(r, Idle)
      PROVE  Only(r) /\ WellFormed(proc'[r]) /\ proc'[r].tx \in {p.tx, NoTx}
  BY <1>3, RestStep
<1>4. ASSUME NEW q \in Process, Become(r, q), q.serving = p.serving, q.tx = p.tx,
             p.step \notin {"demo", "environment", "commit"},
             q.step \in {"migrate", "list", "next", "probe", "insert", "count", "users"},
             q.step \in {"migrate", "list", "count", "users"} => ~p.serving,
             q.step \in {"probe", "insert"} => q.env \in EnvironmentIds
      PROVE  Only(r) /\ WellFormed(proc'[r]) /\ proc'[r].tx \in {p.tx, NoTx}
  <2>1. WellFormed(q)
    BY <1>4, PlainStep
  <2> QED
    BY <1>4, <2>1, BecomeOnly
<1>5. CASE Start(r)
  <2> DEFINE q == [p EXCEPT !.step = "migrate"]
  <2>1. q \in Process /\ Become(r, q)
    BY <1>1, <1>5 DEF Start, Goto, Process, Steps
  <2> QED
    BY <1>1, <1>2, <1>4, <1>5, <2>1 DEF Start, At, WellFormed, Process
<1>6. CASE Migrate(r)
  <2> DEFINE q == [p EXCEPT !.step = "list"]
  <2>1. q \in Process /\ Become(r, q)
    BY <1>1, <1>6 DEF Migrate, Goto, Process, Steps
  <2> QED
    BY <1>1, <1>2, <1>4, <1>6, <2>1 DEF Migrate, At, WellFormed, Process
<1>7. CASE ListEnvironments(r) \/ ListBreaksOff(r)
  <2>1. PICK read \in SUBSET Ids(environments) :
           Become(r, [p EXCEPT !.step = "next", !.todo = read, !.listed = read])
    BY <1>7 DEF ListEnvironments, ListBreaksOff
  <2> DEFINE q == [p EXCEPT !.step = "next", !.todo = read, !.listed = read]
  <2>2. read \subseteq EnvironmentIds
    BY DEF TypeOK, Ids
  <2>3. q \in Process /\ Become(r, q)
    BY <1>1, <2>1, <2>2 DEF Process, Steps
  <2> QED
    BY <1>1, <1>2, <1>4, <1>7, <2>3 DEF ListEnvironments, ListBreaksOff, At, Process
<1>8. CASE NextEnvironment(r)
  <2>1. ASSUME NEW e \in p.todo,
               Become(r, [p EXCEPT !.step = "probe", !.env = e, !.name = 1,
                                   !.todo = @ \ {e}])
        PROVE  Only(r) /\ WellFormed(proc'[r]) /\ proc'[r].tx \in {p.tx, NoTx}
    <3> DEFINE q == [p EXCEPT !.step = "probe", !.env = e, !.name = 1, !.todo = @ \ {e}]
    <3>1. q \in Process /\ e \in EnvironmentIds
      BY <1>1, FirstDefault DEF Process, Steps
    <3> QED
      BY <1>1, <1>4, <1>8, <2>1, <3>1 DEF NextEnvironment, At, Process
  <2>2. ASSUME ~p.serving, Goto(r, "count")
        PROVE  Only(r) /\ WellFormed(proc'[r]) /\ proc'[r].tx \in {p.tx, NoTx}
    <3> DEFINE q == [p EXCEPT !.step = "count"]
    <3>1. q \in Process /\ Become(r, q)
      BY <1>1, <2>2 DEF Goto, Process, Steps
    <3> QED
      BY <1>1, <1>4, <1>8, <2>2, <3>1 DEF NextEnvironment, At, Process
  <2> QED
    BY <1>2, <1>3, <1>8, <2>1, <2>2 DEF NextEnvironment
<1>9. CASE Probe(r)
  <2>1. ASSUME Goto(r, "insert")
        PROVE  Only(r) /\ WellFormed(proc'[r]) /\ proc'[r].tx \in {p.tx, NoTx}
    <3> DEFINE q == [p EXCEPT !.step = "insert"]
    <3>1. q \in Process /\ Become(r, q)
      BY <1>1, <2>1 DEF Goto, Process, Steps
    <3> QED
      BY <1>1, <1>4, <1>9, <2>1, <3>1 DEF Probe, At, Process, WellFormed
  <2> QED
    BY <1>2, <1>9, <2>1, AdvanceWellFormed DEF Probe
<1>10. CASE Insert(r)
  BY <1>2, <1>10, AdvanceWellFormed DEF Insert
<1>11. CASE CountUsers(r)
  <2>1. ASSUME Goto(r, "users")
        PROVE  Only(r) /\ WellFormed(proc'[r]) /\ proc'[r].tx \in {p.tx, NoTx}
    <3> DEFINE q == [p EXCEPT !.step = "users"]
    <3>1. q \in Process /\ Become(r, q)
      BY <1>1, <2>1 DEF Goto, Process, Steps
    <3> QED
      BY <1>1, <1>4, <1>11, <2>1, <3>1 DEF CountUsers, At, Process, WellFormed
  <2> QED
    BY <1>2, <1>3, <1>11, <2>1 DEF CountUsers
<1> QED
  BY <1>2, <1>3, <1>5, <1>6, <1>7, <1>8, <1>9, <1>10, <1>11
     DEF Plain, Die, StatementFails

\* INSERT INTO users.
LEMMA InsertUsersWellFormed ==
  ASSUME TypeOK, NEW r \in Replicas, WellFormed(proc[r]), InsertUsers(r)
  PROVE  /\ Only(r) /\ WellFormed(proc'[r])
         /\ \/ proc'[r].tx = NoTx
            \/ /\ proc'[r].tx = [NoTx EXCEPT !.users = DemoUsers]
               /\ users = {} /\ \A s \in Replicas : proc[s].tx.users = {}
<1> DEFINE p == proc[r]
           q == [p EXCEPT !.step = "demo", !.tx.users = DemoUsers]
<1>1. p \in Process /\ p.tx = NoTx /\ ~p.serving
  BY DEF WellFormed, InsertUsers, At
<1>2. CASE Become(r, Down)
  BY <1>2, RestStep
<1>3. CASE users = {} /\ (\A s \in Replicas : proc[s].tx.users = {}) /\ Become(r, q)
  <2>1. q.tx = [NoTx EXCEPT !.users = DemoUsers]
    BY <1>1 DEF Process
  <2>2. q.tx \in Tx
    BY <2>1 DEF Tx, NoTx
  <2>3. q \in Process /\ q.step = "demo" /\ ~q.serving
    BY <1>1, <2>2 DEF Process, Steps
  <2>4. WellFormed(q)
    BY <2>1, <2>3 DEF WellFormed
  <2>5. Only(r) /\ proc'[r] = q
    BY <1>3, BecomeOnly
  <2> QED
    BY <1>3, <2>1, <2>4, <2>5
<1> QED
  BY <1>2, <1>3 DEF InsertUsers

\* INSERT INTO customers, environments, clusters and grants of the demo data.
LEMMA InsertDemoWellFormed ==
  ASSUME TypeOK, NEW r \in Replicas, WellFormed(proc[r]), InsertDemo(r)
  PROVE  /\ Only(r) /\ WellFormed(proc'[r])
         /\ \/ proc'[r].tx = NoTx /\ UNCHANGED sequences
            \/ /\ customerSeq' = customerSeq + 2 /\ environmentSeq' = environmentSeq + 2
               /\ customerSeq' \in CustomerIds /\ environmentSeq' \in EnvironmentIds
               /\ proc[r].tx.users = DemoUsers
               /\ proc'[r].tx.users = DemoUsers
               /\ proc'[r].tx.customers = {customerSeq + 1, customerSeq + 2}
               /\ proc'[r].tx.environments = {<<environmentSeq + 1, customerSeq + 1>>,
                                              <<environmentSeq + 2, customerSeq + 2>>}
<1> DEFINE p == proc[r]
           c == customerSeq + 1
           d == customerSeq + 2
           e == environmentSeq + 1
           f == environmentSeq + 2
           q == [p EXCEPT !.step = "commit", !.tx.customers = {c, d},
                          !.tx.environments = {<<e, c>>, <<f, d>>},
                          !.tx.grants = {<<"alice", e>>, <<"bob", f>>}]
<1>1. p \in Process /\ ~p.serving /\ p.tx = [NoTx EXCEPT !.users = DemoUsers]
  BY DEF WellFormed, InsertDemo, At
<1>2. CASE Become(r, Down) /\ UNCHANGED sequences
  BY <1>2, RestStep
<1>3. CASE /\ d <= MaxCustomers /\ f <= MaxEnvironments
           /\ Become(r, q) /\ customerSeq' = d /\ environmentSeq' = f
  <2>1. c \in CustomerIds /\ d \in CustomerIds /\ e \in EnvironmentIds /\ f \in EnvironmentIds
    BY <1>3, ProvisioningAssumption DEF TypeOK, CustomerIds, EnvironmentIds
  <2>2. c # d /\ e # f
    BY DEF TypeOK
  <2>3. q.tx = [users |-> DemoUsers, customers |-> {c, d},
                environments |-> {<<e, c>>, <<f, d>>},
                grants |-> {<<"alice", e>>, <<"bob", f>>}]
    <3> HIDE DEF c, d, e, f
    <3> QED
      BY <1>1 DEF Process, NoTx
  <2>4. q.tx \in Tx
    <3> HIDE DEF c, d, e, f, q
    <3> QED
      BY <2>1, <2>3 DEF Tx, DemoUsers
  <2>5. q \in Process /\ q.step = "commit" /\ ~q.serving
    <3>1. q.step = "commit" /\ ~q.serving
      BY <1>1 DEF Process
    <3>2. q \in Process
      <4> HIDE DEF c, d, e, f
      <4> QED
        BY <1>1, <2>4 DEF Process, Steps
    <3> QED
      BY <3>1, <3>2
  <2>6. DemoTx(q.tx)
    <3> HIDE DEF c, d, e, f, q
    <3> QED
      BY <2>1, <2>2, <2>3 DEF DemoTx
  <2>7. WellFormed(q)
    <3> HIDE DEF q
    <3> QED
      BY <2>5, <2>6 DEF WellFormed
  <2>8. Only(r) /\ proc'[r] = q
    BY <1>3, BecomeOnly
  <2>9. /\ q.tx.users = DemoUsers /\ q.tx.customers = {c, d}
        /\ q.tx.environments = {<<e, c>>, <<f, d>>}
    <3> HIDE DEF c, d, e, f, q
    <3> QED
      BY <2>3
  <2>10. p.tx.users = DemoUsers
    BY <1>1 DEF NoTx
  <2> QED
    <3> HIDE DEF q
    <3> QED
      BY <1>3, <2>1, <2>7, <2>8, <2>9, <2>10
<1>4. customerSeq + 1 + 1 = d /\ environmentSeq + 1 + 1 = f
  BY DEF TypeOK
<1> QED
  BY <1>2, <1>3, <1>4 DEF InsertDemo

\* INSERT INTO customers of an organization.
LEMMA InsertCustomerWellFormed ==
  ASSUME TypeOK, NEW r \in Replicas, WellFormed(proc[r]), InsertCustomer(r)
  PROVE  \/ UNCHANGED <<customerSeq, proc>>
         \/ /\ Only(r) /\ WellFormed(proc'[r])
            /\ customerSeq' = customerSeq + 1 /\ customerSeq' \in CustomerIds
            /\ proc'[r].tx = [NoTx EXCEPT !.customers = {customerSeq + 1}]
<1> DEFINE p == proc[r]
           c == customerSeq + 1
           q == [p EXCEPT !.step = "environment", !.tx.customers = {c}]
<1>1. p \in Process /\ p.tx = NoTx /\ p.serving
  BY DEF WellFormed, InsertCustomer, At
<1>2. CASE customerSeq < MaxCustomers /\ customerSeq' = c /\ Become(r, q)
  <2>1. c \in CustomerIds
    BY <1>2, ProvisioningAssumption DEF TypeOK, CustomerIds
  <2>2. q.tx = [NoTx EXCEPT !.customers = {c}]
    <3> HIDE DEF c
    <3> QED
      BY <1>1 DEF Process
  <2>3. q.tx \in Tx
    <3> HIDE DEF c, q
    <3> QED
      BY <2>1, <2>2 DEF Tx, NoTx
  <2>4. q \in Process /\ q.step = "environment" /\ q.serving
    <3> HIDE DEF c
    <3> QED
      BY <1>1, <2>3 DEF Process, Steps
  <2>5. WellFormed(q)
    <3> HIDE DEF c, q
    <3> QED
      BY <2>1, <2>2, <2>4 DEF WellFormed
  <2>6. Only(r) /\ proc'[r] = q
    BY <1>2, BecomeOnly
  <2> QED
    <3> HIDE DEF q
    <3> QED
      BY <1>2, <2>1, <2>2, <2>5, <2>6
<1> QED
  BY <1>2 DEF InsertCustomer

\* INSERT INTO environments of an organization.
LEMMA InsertEnvironmentWellFormed ==
  ASSUME TypeOK, NEW r \in Replicas, WellFormed(proc[r]), InsertEnvironment(r)
  PROVE  /\ Only(r) /\ WellFormed(proc'[r])
         /\ \/ proc'[r].tx = NoTx /\ UNCHANGED environmentSeq
            \/ /\ environmentSeq' = environmentSeq + 1
               /\ environmentSeq' \in EnvironmentIds
               /\ proc'[r].tx.users = {}
               /\ proc'[r].tx.customers = proc[r].tx.customers
               /\ \A x \in proc'[r].tx.environments : x[1] = environmentSeq + 1
<1> DEFINE p == proc[r]
           e == environmentSeq + 1
           q == [p EXCEPT !.step = "commit", !.tx.environments = {e} \X p.tx.customers]
<1>1. PICK c \in CustomerIds : p.tx = [NoTx EXCEPT !.customers = {c}]
  BY DEF WellFormed, InsertEnvironment, At
<1>2. p \in Process /\ p.serving
  BY DEF WellFormed, InsertEnvironment, At
<1>3. CASE Become(r, Idle) /\ UNCHANGED environmentSeq
  BY <1>3, RestStep
<1>4. CASE environmentSeq < MaxEnvironments /\ environmentSeq' = e /\ Become(r, q)
  <2>1. e \in EnvironmentIds
    BY <1>4, ProvisioningAssumption DEF TypeOK, EnvironmentIds
  <2>2. p.tx.customers = {c}
    BY <1>1 DEF NoTx
  <2>3. {e} \X {c} = {<<e, c>>}
    OBVIOUS
  <2>4. q.tx = [users |-> {}, customers |-> {c}, environments |-> {<<e, c>>}, grants |-> {}]
    <3> HIDE DEF e
    <3> QED
      BY <1>1, <1>2, <2>2, <2>3 DEF Process, NoTx
  <2>5. q.tx \in Tx
    <3> HIDE DEF e, q
    <3> QED
      BY <2>1, <2>4 DEF Tx
  <2>6. q \in Process /\ q.step = "commit" /\ q.serving
    <3> HIDE DEF e
    <3> QED
      BY <1>2, <2>5 DEF Process, Steps
  <2>7. OrganizationTx(q.tx)
    <3> HIDE DEF e, q
    <3> QED
      BY <2>1, <2>4 DEF OrganizationTx
  <2>8. WellFormed(q)
    <3> HIDE DEF q
    <3> QED
      BY <2>6, <2>7 DEF WellFormed
  <2>9. Only(r) /\ proc'[r] = q
    BY <1>4, BecomeOnly
  <2>10. /\ q.tx.users = {} /\ q.tx.customers = {c}
         /\ \A x \in q.tx.environments : x[1] = e
    <3> HIDE DEF e, q
    <3> QED
      BY <2>4
  <2> QED
    <3> HIDE DEF q
    <3> QED
      BY <1>4, <2>1, <2>2, <2>8, <2>9, <2>10
<1> QED
  BY <1>3, <1>4 DEF InsertEnvironment

\* COMMIT.
LEMMA CommitWellFormed ==
  ASSUME TypeOK, NEW r \in Replicas, WellFormed(proc[r]), Commit(r)
  PROVE  Only(r) /\ WellFormed(proc'[r]) /\ proc'[r].tx = NoTx
<1> DEFINE p == proc[r]
           q == [p EXCEPT !.step = "next", !.tx = NoTx, !.todo = Ids(p.tx.environments)]
<1>1. p \in Process
  BY DEF WellFormed
<1>2. CASE Become(r, Idle)
  BY <1>2, RestStep
<1>3. CASE p.serving /\ Become(r, q)
  <2>1. Ids(p.tx.environments) \subseteq EnvironmentIds
    BY <1>1 DEF Process, Tx, Ids
  <2>2. q \in Process /\ q.step = "next" /\ q.tx = NoTx
    BY <1>1, <2>1, NoTxIsTx DEF Process, Steps
  <2>3. WellFormed(q)
    BY <2>2 DEF WellFormed
  <2> QED
    BY <1>3, <2>2, <2>3, BecomeOnly
<1> QED
  BY <1>2, <1>3 DEF Commit

-----------------------------------------------------------------------------
(* The invariant. *)

\* The transactions of the replicas before and after a step of r.
LEMMA OthersKeep ==
  ASSUME TypeOK, NEW r \in Replicas, Only(r), NEW s \in Replicas, s # r
  PROVE  proc'[s] = proc[s]
BY DEF TypeOK, Only

\* An open transaction that is kept or dropped stays apart from the others.
LEMMA PlainApart ==
  ASSUME IInv, NEW r \in Replicas, Only(r),
         proc'[r].tx \in {proc[r].tx, NoTx}, UNCHANGED <<catalog, sequences>>
  PROVE  Apart'
<1> USE DEF IInv, Apart, catalog, sequences
<1>1. \A s \in Replicas : proc'[s].tx \in {proc[s].tx, NoTx}
  BY OthersKeep
<1>2. NoTx.users = {} /\ NoTx.customers = {} /\ NoTx.environments = {}
  BY DEF NoTx
<1>3. \A s \in Replicas : OwnRows(s)'
  BY <1>1, <1>2 DEF OwnRows, Ids
<1>4. \A s, u \in Replicas : s # u => Disjoint(s, u)'
  BY <1>1, <1>2 DEF Disjoint, Ids
<1> QED
  BY <1>3, <1>4

\* The insertion of the users, of which only one transaction is capable.
LEMMA InsertUsersApart ==
  ASSUME IInv, NEW r \in Replicas, InsertUsers(r)
  PROVE  Apart'
<1>1. UNCHANGED <<catalog, sequences>>
  BY DEF InsertUsers, catalog, sequences
<1>2. Only(r) /\ \/ proc'[r].tx = NoTx
                 \/ /\ proc'[r].tx = [NoTx EXCEPT !.users = DemoUsers]
                    /\ users = {} /\ \A s \in Replicas : proc[s].tx.users = {}
  BY InsertUsersWellFormed DEF IInv
<1>3. CASE proc'[r].tx = NoTx
  BY <1>1, <1>2, <1>3, PlainApart
<1>4. CASE /\ proc'[r].tx = [NoTx EXCEPT !.users = DemoUsers]
           /\ users = {} /\ \A s \in Replicas : proc[s].tx.users = {}
  <2>1. proc'[r].tx.customers = {} /\ proc'[r].tx.environments = {}
    BY <1>4 DEF NoTx
  <2>2. \A s \in Replicas \ {r} : proc'[s] = proc[s]
    BY <1>2, OthersKeep DEF IInv
  <2>3. \A s \in Replicas : OwnRows(s)'
    BY <1>1, <1>4, <2>1, <2>2 DEF OwnRows, Ids, IInv, Apart, catalog, sequences
  <2>4. \A s, u \in Replicas : s # u => Disjoint(s, u)'
    BY <1>4, <2>1, <2>2 DEF Disjoint, Ids, IInv, Apart
  <2> QED
    BY <1>1, <2>3, <2>4 DEF IInv, Apart, catalog, sequences
<1> QED
  BY <1>2, <1>3, <1>4

\* New ids are given to one transaction.
LEMMA NewIdsApart ==
  ASSUME IInv, NEW r \in Replicas, Only(r), UNCHANGED catalog,
         customerSeq' \in Nat, customerSeq' >= customerSeq,
         environmentSeq' \in Nat, environmentSeq' >= environmentSeq,
         proc'[r].tx.users \in {proc[r].tx.users, {}},
         \A c \in proc'[r].tx.customers :
           \/ c \in proc[r].tx.customers
           \/ c \in Nat /\ customerSeq < c /\ c <= customerSeq',
         \A x \in proc'[r].tx.environments :
           x[1] \in Nat /\ environmentSeq < x[1] /\ x[1] <= environmentSeq'
  PROVE  Apart'
<1> USE DEF IInv, Apart, catalog
<1>1. \A s \in Replicas \ {r} : proc'[s] = proc[s]
  BY OthersKeep
<1>2. customerSeq \in Nat /\ environmentSeq \in Nat
  BY DEF TypeOK
<1>3. /\ customers \subseteq Nat
      /\ \A x \in environments : x[1] \in Nat
      /\ \A s \in Replicas : /\ proc[s].tx.customers \subseteq Nat
                             /\ \A x \in proc[s].tx.environments : x[1] \in Nat
  <2>1. \A s \in Replicas : proc[s].tx \in Tx
    BY DEF WellFormed, Process
  <2> QED
    BY <2>1 DEF TypeOK, Tx, CustomerIds, EnvironmentIds
<1>4. ASSUME NEW c \in customers PROVE c <= customerSeq'
  <2>1. c \in Nat /\ c <= customerSeq
    BY <1>3, <1>4
  <2> QED
    BY <1>2, <2>1
<1>5. \A x \in environments : x[1] <= environmentSeq'
  BY <1>2, <1>3
<1>6. ASSUME NEW s \in Replicas PROVE OwnRows(s)'
  <2>1. CASE s # r
    BY <1>1, <1>2, <1>3, <2>1 DEF OwnRows, Ids
  <2>2. CASE s = r
    <3>1. \A c \in proc'[r].tx.customers : c <= customerSeq' /\ c \notin customers
      BY <1>2, <1>3 DEF OwnRows
    <3>2. \A x \in proc'[r].tx.environments :
            x[1] <= environmentSeq' /\ x[1] \notin Ids(environments)
      BY <1>2, <1>3 DEF Ids
    <3> QED
      BY <2>2, <3>1, <3>2 DEF OwnRows, Ids
  <2> QED
    BY <2>1, <2>2
<1>7. ASSUME NEW s \in Replicas \ {r} PROVE Disjoint(s, r)' /\ Disjoint(r, s)'
  <2>1. OwnRows(s) /\ Disjoint(s, r) /\ Disjoint(r, s) /\ proc'[s] = proc[s]
    BY <1>1, <1>7
  <2>2. \A c \in proc[s].tx.customers : c \notin proc'[r].tx.customers
    BY <1>2, <1>3, <1>7, <2>1 DEF OwnRows, Disjoint
  <2>3. \A x \in proc[s].tx.environments, y \in proc'[r].tx.environments : x[1] # y[1]
    BY <1>2, <1>3, <1>7, <2>1 DEF OwnRows
  <2>4. proc[s].tx.users = {} \/ proc'[r].tx.users = {}
    BY <2>1 DEF Disjoint
  <2> QED
    BY <2>1, <2>2, <2>3, <2>4 DEF Disjoint, Ids
<1>8. \A s, u \in Replicas : s # u => Disjoint(s, u)'
  <2>1. ASSUME NEW s \in Replicas \ {r}, NEW u \in Replicas \ {r}, s # u
        PROVE  Disjoint(s, u)'
    BY <1>1, <2>1 DEF Disjoint, Ids
  <2> QED
    BY <1>7, <2>1
<1> QED
  BY <1>4, <1>5, <1>6, <1>8

\* A transaction that commits makes its rows visible, and has none any more.
LEMMA CommitApart ==
  ASSUME IInv, NEW r \in Replicas, Commit(r)
  PROVE  Apart'
<1> USE DEF IInv, Apart
<1>1. Only(r) /\ proc'[r].tx = NoTx
  BY CommitWellFormed
<1>2. \A s \in Replicas \ {r} : proc'[s] = proc[s]
  BY <1>1, OthersKeep
<1>3. /\ users' = users \cup proc[r].tx.users
      /\ customers' = customers \cup proc[r].tx.customers
      /\ environments' = environments \cup proc[r].tx.environments
      /\ UNCHANGED sequences
  BY DEF Commit
<1>4. NoTx.users = {} /\ NoTx.customers = {} /\ NoTx.environments = {}
  BY DEF NoTx
<1>5. /\ \A c \in customers' : c <= customerSeq'
      /\ \A x \in environments' : x[1] <= environmentSeq'
  BY <1>3 DEF OwnRows, sequences
<1>6. ASSUME NEW s \in Replicas PROVE OwnRows(s)'
  <2>1. CASE s = r
    BY <1>1, <1>4, <2>1 DEF OwnRows
  <2>2. CASE s # r
    <3>1. OwnRows(s) /\ Disjoint(s, r) /\ proc'[s] = proc[s]
      BY <1>2, <2>2
    <3>2. \A c \in proc[s].tx.customers : c <= customerSeq' /\ c \notin customers'
      BY <1>3, <3>1 DEF OwnRows, Disjoint, sequences
    <3>3. \A x \in proc[s].tx.environments :
            x[1] <= environmentSeq' /\ x[1] \notin Ids(environments')
      BY <1>3, <3>1 DEF OwnRows, Disjoint, sequences, Ids
    <3>4. proc[s].tx.users # {} => users' = {}
      BY <1>3, <3>1 DEF OwnRows, Disjoint
    <3> QED
      BY <3>1, <3>2, <3>3, <3>4 DEF OwnRows, Ids
  <2> QED
    BY <2>1, <2>2
<1>7. \A s, u \in Replicas : s # u => Disjoint(s, u)'
  BY <1>1, <1>2, <1>4 DEF Disjoint, Ids
<1> QED
  BY <1>5, <1>6, <1>7

\* Rows stay within their types.
LEMMA TypeInvariance ==
  ASSUME IInv, [Next]_vars
  PROVE  /\ users' \subseteq DemoUsers
         /\ customers' \subseteq CustomerIds
         /\ environments' \subseteq EnvironmentIds \X CustomerIds
         /\ grants' \subseteq DemoUsers \X EnvironmentIds
         /\ seeded' \in [EnvironmentIds \X Names -> Nat]
         /\ edited' \subseteq EnvironmentIds \X Names
         /\ faults' \in 0..MaxFaults
<1> DEFINE Rows == /\ users \subseteq DemoUsers
                   /\ customers \subseteq CustomerIds
                   /\ environments \subseteq EnvironmentIds \X CustomerIds
                   /\ grants \subseteq DemoUsers \X EnvironmentIds
           Panels == /\ seeded \in [EnvironmentIds \X Names -> Nat]
                     /\ edited \subseteq EnvironmentIds \X Names
<1>1. Rows /\ Panels /\ faults \in 0..MaxFaults
  BY DEF IInv, TypeOK
<1>2. CASE UNCHANGED vars
  BY <1>1, <1>2 DEF vars, catalog, panelRows
<1>3. ASSUME NEW r \in Replicas, Run(r) \/ InsertCustomer(r), ~Insert(r), ~Commit(r)
      PROVE  Rows' /\ Panels' /\ faults' \in 0..MaxFaults
  <2>1. UNCHANGED <<catalog, panelRows, faults>>
    BY <1>3 DEF Run, InsertCustomer, Start, Migrate, ListEnvironments, NextEnvironment,
         Probe, CountUsers, InsertUsers, InsertDemo, InsertEnvironment,
         catalog, panelRows
  <2> QED
    BY <1>1, <2>1 DEF catalog, panelRows
<1>4. ASSUME NEW r \in Replicas, Insert(r)
      PROVE  Rows' /\ Panels' /\ faults' \in 0..MaxFaults
  <2> DEFINE x == <<proc[r].env, Name(r)>>
  <2>1. x \in EnvironmentIds \X Names
    BY <1>4 DEF IInv, WellFormed, Process, Insert, At, Name, Names
  <2>2. seeded' \in [EnvironmentIds \X Names -> Nat]
    <3>1. seeded' = [seeded EXCEPT ![x] = seeded[x] + 1]
      BY <1>4 DEF Insert
    <3> HIDE DEF x
    <3> QED
      BY <1>1, <2>1, <3>1
  <2> QED
    BY <1>1, <1>4, <2>2 DEF Insert, catalog
<1>5. ASSUME NEW r \in Replicas, Commit(r)
      PROVE  Rows' /\ Panels' /\ faults' \in 0..MaxFaults
  <2>1. proc[r].tx \in Tx
    BY DEF IInv, WellFormed, Process
  <2> QED
    BY <1>1, <1>5, <2>1 DEF Commit, Tx, panelRows
<1>6. ASSUME NEW r \in Replicas, Die(r) \/ ListBreaksOff(r) \/ StatementFails(r)
      PROVE  Rows' /\ Panels' /\ faults' \in 0..MaxFaults
  <2>1. UNCHANGED <<catalog, panelRows>> /\ faults < MaxFaults /\ faults' = faults + 1
    BY <1>6 DEF Die, ListBreaksOff, StatementFails, Fault, catalog, panelRows
  <2> QED
    BY <1>1, <2>1, ProvisioningAssumption DEF catalog, panelRows
<1>7. ASSUME NEW x \in EnvironmentIds \X Names,
             EditSeededPanel(x) \/ AddPanel(x) \/ RemovePanel(x)
      PROVE  Rows' /\ Panels' /\ faults' \in 0..MaxFaults
  <2>1. UNCHANGED <<catalog, faults>>
    BY <1>7 DEF EditSeededPanel, AddPanel, RemovePanel, catalog
  <2>2. Panels'
    <3>1. CASE EditSeededPanel(x)
      <4>1. seeded' \in [EnvironmentIds \X Names -> Nat]
        <5>1. seeded[x] - 1 \in Nat
          BY <1>1, <3>1 DEF EditSeededPanel
        <5> QED
          BY <1>1, <3>1, <5>1 DEF EditSeededPanel
      <4>2. edited' \subseteq EnvironmentIds \X Names
        BY <1>1, <3>1 DEF EditSeededPanel
      <4> QED
        BY <4>1, <4>2
    <3>2. CASE AddPanel(x)
      BY <1>1, <3>2 DEF AddPanel
    <3>3. CASE RemovePanel(x)
      BY <1>1, <3>3 DEF RemovePanel
    <3> QED
      BY <1>7, <3>1, <3>2, <3>3
  <2> QED
    BY <1>1, <2>1, <2>2 DEF catalog
<1> QED
  BY <1>2, <1>3, <1>4, <1>5, <1>6, <1>7 DEF Next

\* Sequences stay within their types, memories well formed and transactions
\* apart in every step.
LEMMA StepKeeps ==
  ASSUME IInv, NEW r \in Replicas,
         Run(r) \/ InsertCustomer(r) \/ Die(r) \/ ListBreaksOff(r) \/ StatementFails(r)
  PROVE  /\ customerSeq' \in 0..MaxCustomers /\ environmentSeq' \in 0..MaxEnvironments
         /\ \A s \in Replicas : WellFormed(proc'[s])
         /\ proc' \in [Replicas -> Process]
         /\ Apart'
<1> DEFINE Seqs == customerSeq \in 0..MaxCustomers /\ environmentSeq \in 0..MaxEnvironments
<1>1. TypeOK /\ WellFormed(proc[r]) /\ Seqs
  BY DEF IInv, TypeOK
<1>2. ASSUME Only(r), WellFormed(proc'[r])
      PROVE  /\ \A s \in Replicas : WellFormed(proc'[s])
             /\ proc' \in [Replicas -> Process]
  <2>1. \A s \in Replicas : WellFormed(proc'[s])
    BY <1>1, <1>2, OthersKeep DEF IInv
  <2>2. proc'[r] \in Process
    BY <1>2 DEF WellFormed
  <2> QED
    BY <1>1, <1>2, <2>1, <2>2 DEF Only, TypeOK
<1>3. CASE Plain(r)
  BY <1>1, <1>2, <1>3, PlainWellFormed, PlainApart DEF sequences
<1>4. CASE InsertUsers(r)
  <2>1. UNCHANGED sequences
    BY <1>4 DEF InsertUsers
  <2> QED
    BY <1>1, <1>2, <1>4, <2>1, InsertUsersWellFormed, InsertUsersApart DEF sequences
<1>5. CASE InsertDemo(r)
  <2>1. UNCHANGED catalog
    BY <1>5 DEF InsertDemo, catalog
  <2>2. Only(r) /\ WellFormed(proc'[r])
    BY <1>1, <1>5, InsertDemoWellFormed
  <2>3. CASE proc'[r].tx = NoTx /\ UNCHANGED sequences
    BY <1>1, <1>2, <2>1, <2>2, <2>3, PlainApart DEF sequences
  <2>4. CASE ~(proc'[r].tx = NoTx /\ UNCHANGED sequences)
    <3>1. /\ customerSeq' = customerSeq + 2 /\ environmentSeq' = environmentSeq + 2
          /\ customerSeq' \in CustomerIds /\ environmentSeq' \in EnvironmentIds
          /\ proc[r].tx.users = DemoUsers
          /\ proc'[r].tx.users = DemoUsers
          /\ proc'[r].tx.customers = {customerSeq + 1, customerSeq + 2}
          /\ proc'[r].tx.environments = {<<environmentSeq + 1, customerSeq + 1>>,
                                         <<environmentSeq + 2, customerSeq + 2>>}
      BY <1>1, <1>5, <2>4, InsertDemoWellFormed
    <3>2. Seqs'
      BY <3>1 DEF CustomerIds, EnvironmentIds
    <3>3. \A c \in proc'[r].tx.customers :
            c \in Nat /\ customerSeq < c /\ c <= customerSeq'
      BY <1>1, <3>1
    <3>4. \A x \in proc'[r].tx.environments :
            x[1] \in Nat /\ environmentSeq < x[1] /\ x[1] <= environmentSeq'
      BY <1>1, <3>1
    <3>5. /\ customerSeq' \in Nat /\ customerSeq' >= customerSeq
          /\ environmentSeq' \in Nat /\ environmentSeq' >= environmentSeq
      BY <1>1, <3>1
    <3>6. Apart'
      BY <2>1, <2>2, <3>1, <3>3, <3>4, <3>5, NewIdsApart
    <3> QED
      BY <1>2, <2>2, <3>2, <3>6
  <2> QED
    BY <2>3, <2>4
<1>6. CASE InsertCustomer(r)
  <2>1. UNCHANGED <<catalog, environmentSeq>>
    BY <1>6 DEF InsertCustomer, catalog
  <2>2. CASE UNCHANGED <<customerSeq, proc>>
    BY <1>1, <2>1, <2>2
       DEF catalog, IInv, TypeOK, Apart, OwnRows, Disjoint, Ids
  <2>3. CASE /\ Only(r) /\ WellFormed(proc'[r])
             /\ customerSeq' = customerSeq + 1 /\ customerSeq' \in CustomerIds
             /\ proc'[r].tx = [NoTx EXCEPT !.customers = {customerSeq + 1}]
    <3>1. /\ proc'[r].tx.users = {} /\ proc'[r].tx.environments = {}
          /\ proc'[r].tx.customers = {customerSeq + 1}
      BY <2>3 DEF NoTx
    <3>2. /\ Seqs' /\ customerSeq' \in Nat /\ customerSeq' >= customerSeq
          /\ environmentSeq' \in Nat /\ environmentSeq' >= environmentSeq
      BY <1>1, <2>1, <2>3, ProvisioningAssumption DEF CustomerIds
    <3>3. \A c \in proc'[r].tx.customers :
            c \in Nat /\ customerSeq < c /\ c <= customerSeq'
      BY <1>1, <2>3, <3>1
    <3>4. Apart'
      BY <2>1, <2>3, <3>1, <3>2, <3>3, NewIdsApart
    <3> QED
      BY <1>2, <2>3, <3>2, <3>4
  <2> QED
    BY <1>1, <1>6, <2>2, <2>3, InsertCustomerWellFormed
<1>7. CASE InsertEnvironment(r)
  <2>1. UNCHANGED <<catalog, customerSeq>>
    BY <1>7 DEF InsertEnvironment, catalog
  <2>2. Only(r) /\ WellFormed(proc'[r])
    BY <1>1, <1>7, InsertEnvironmentWellFormed
  <2>3. CASE proc'[r].tx = NoTx /\ UNCHANGED environmentSeq
    BY <1>1, <1>2, <2>1, <2>2, <2>3, PlainApart DEF sequences
  <2>4. CASE /\ environmentSeq' = environmentSeq + 1
             /\ environmentSeq' \in EnvironmentIds
             /\ proc'[r].tx.users = {}
             /\ proc'[r].tx.customers = proc[r].tx.customers
             /\ \A x \in proc'[r].tx.environments : x[1] = environmentSeq + 1
    <3>1. /\ Seqs' /\ customerSeq' \in Nat /\ customerSeq' >= customerSeq
          /\ environmentSeq' \in Nat /\ environmentSeq' >= environmentSeq
      BY <1>1, <2>1, <2>4, ProvisioningAssumption DEF EnvironmentIds
    <3>2. \A x \in proc'[r].tx.environments :
            x[1] \in Nat /\ environmentSeq < x[1] /\ x[1] <= environmentSeq'
      BY <1>1, <2>4
    <3>3. Apart'
      BY <2>1, <2>2, <2>4, <3>1, <3>2, NewIdsApart
    <3> QED
      BY <1>2, <2>2, <3>1, <3>3
  <2> QED
    BY <1>1, <1>7, <2>3, <2>4, InsertEnvironmentWellFormed
<1>8. CASE Commit(r)
  <2>1. UNCHANGED sequences
    BY <1>8 DEF Commit
  <2> QED
    BY <1>1, <1>2, <1>8, <2>1, CommitWellFormed, CommitApart DEF sequences
<1> QED
  BY <1>3, <1>4, <1>5, <1>6, <1>7, <1>8 DEF Plain, Run

\* No row, no transaction, all replicas down.
LEMMA InitHolds == Init => IInv
<1> SUFFICES ASSUME Init PROVE IInv
  OBVIOUS
<1>1. \A r \in Replicas : proc[r] = Down
  BY DEF Init
<1>2. \A r \in Replicas : WellFormed(proc[r])
  BY <1>1, RestWellFormed
<1>3. /\ Down.tx.users = {} /\ Down.tx.customers = {} /\ Down.tx.environments = {}
  BY DEF Down, NoTx
<1>4. Apart
  BY <1>1, <1>3 DEF Init, Apart, OwnRows, Disjoint, Ids
<1>5. TypeOK
  BY <1>2, ProvisioningAssumption DEF Init, TypeOK, WellFormed
<1> QED
  BY <1>2, <1>4, <1>5 DEF IInv

\* Every step keeps the invariant.
LEMMA NextKeeps == IInv /\ [Next]_vars => IInv'
<1> SUFFICES ASSUME IInv, [Next]_vars PROVE IInv'
  OBVIOUS
<1> DEFINE Rest == /\ customerSeq' \in 0..MaxCustomers
                   /\ environmentSeq' \in 0..MaxEnvironments
                   /\ \A s \in Replicas : WellFormed(proc'[s])
                   /\ proc' \in [Replicas -> Process]
                   /\ Apart'
<1>1. ASSUME UNCHANGED catalog, UNCHANGED sequences, UNCHANGED proc PROVE Rest
  BY <1>1 DEF IInv, TypeOK, Apart, OwnRows, Disjoint, Ids, catalog, sequences
<1>2. ASSUME UNCHANGED vars PROVE Rest
  <2>1. UNCHANGED catalog /\ UNCHANGED sequences /\ UNCHANGED proc
    BY <1>2 DEF vars
  <2> HIDE DEF Rest
  <2> QED
    BY <1>1, <2>1
<1>3. ASSUME NEW r \in Replicas,
             Run(r) \/ InsertCustomer(r) \/ Die(r) \/ ListBreaksOff(r) \/ StatementFails(r)
      PROVE  Rest
  BY <1>3, StepKeeps
<1>4. ASSUME NEW x \in EnvironmentIds \X Names,
             EditSeededPanel(x) \/ AddPanel(x) \/ RemovePanel(x)
      PROVE  Rest
  BY <1>1, <1>4 DEF EditSeededPanel, AddPanel, RemovePanel
<1>5. Rest
  <2> HIDE DEF Rest
  <2>1. CASE Next
    BY <1>3, <1>4, <2>1 DEF Next
  <2> QED
    BY <1>2, <2>1
<1> QED
  BY <1>5, TypeInvariance DEF IInv, TypeOK

(* The inductive invariant holds in every reachable state: memories are     *)
(* well formed at each step of main, Seed and CreateOrganization, and the   *)
(* rows of open transactions are new and disjoint.                          *)
THEOREM Invariance == Spec => []IInv
BY InitHolds, NextKeeps, PTL DEF Spec

(* Rows, sequences and the memories of replicas stay within their types.    *)
THEOREM TypeCorrect == Spec => []TypeOK
<1>1. IInv => TypeOK
  BY DEF IInv
<1> QED
  BY <1>1, Invariance, PTL

-----------------------------------------------------------------------------
(* The implementation of Catalog. *)

\* The commit of CreateOrganization adds one organization.
LEMMA CommitAddsOrganization ==
  ASSUME IInv, NEW r \in Replicas, Commit(r), proc[r].serving
  PROVE  Abstract!AddOrganization
<1> DEFINE tx == proc[r].tx
<1>1. OrganizationTx(tx) /\ OwnRows(r)
  BY DEF IInv, Apart, WellFormed, Commit, At
<1>2. PICK c \in CustomerIds, e \in EnvironmentIds :
        tx = [users |-> {}, customers |-> {c}, environments |-> {<<e, c>>}, grants |-> {}]
  BY <1>1 DEF OrganizationTx
<1>3. tx.users = {} /\ tx.customers = {c} /\ tx.environments = {<<e, c>>} /\ tx.grants = {}
  BY <1>2
<1>4. Abstract!NewCustomer(c) /\ Abstract!NewEnvironment(e)
  BY <1>1, <1>3 DEF OwnRows, Ids, Abstract!NewCustomer, Abstract!NewEnvironment
<1>5. /\ users' = users /\ grants' = grants
      /\ customers' = customers \cup {c} /\ environments' = environments \cup {<<e, c>>}
  BY <1>3 DEF Commit
<1> QED
  BY <1>4, <1>5 DEF Abstract!AddOrganization

\* The commit of Seed adds the demo data to a database without users.
LEMMA CommitAddsDemo ==
  ASSUME IInv, NEW r \in Replicas, Commit(r), ~proc[r].serving
  PROVE  Abstract!AddDemo
<1> DEFINE tx == proc[r].tx
<1>1. DemoTx(tx) /\ OwnRows(r)
  BY DEF IInv, Apart, WellFormed, Commit, At
<1>2. PICK c \in CustomerIds, d \in CustomerIds, e \in EnvironmentIds, f \in EnvironmentIds :
        /\ c # d /\ e # f
        /\ tx = [users |-> DemoUsers, customers |-> {c, d},
                 environments |-> {<<e, c>>, <<f, d>>},
                 grants |-> {<<"alice", e>>, <<"bob", f>>}]
  BY <1>1 DEF DemoTx
<1>3. /\ tx.users = DemoUsers /\ tx.customers = {c, d}
      /\ tx.environments = {<<e, c>>, <<f, d>>}
      /\ tx.grants = {<<"alice", e>>, <<"bob", f>>}
  BY <1>2
<1>4. users = {}
  BY <1>1, <1>3 DEF OwnRows, DemoUsers
<1>5. /\ Abstract!NewCustomer(c) /\ Abstract!NewCustomer(d)
      /\ Abstract!NewEnvironment(e) /\ Abstract!NewEnvironment(f)
  BY <1>1, <1>3 DEF OwnRows, Ids, Abstract!NewCustomer, Abstract!NewEnvironment
<1>6. /\ users' = DemoUsers
      /\ customers' = customers \cup {c, d}
      /\ environments' = environments \cup {<<e, c>>, <<f, d>>}
      /\ grants' = grants \cup {<<"alice", e>>, <<"bob", f>>}
  BY <1>3, <1>4 DEF Commit
<1> DEFINE g == [v \in {"alice", "bob"} |-> IF v = "alice" THEN e ELSE f]
<1>7. /\ g \in [{"alice", "bob"} -> {e, f}]
      /\ {<<v, g[v]>> : v \in {"alice", "bob"}} = {<<"alice", e>>, <<"bob", f>>}
  OBVIOUS
<1>8. \E h \in [{"alice", "bob"} -> {e, f}] :
        grants' = grants \cup {<<v, h[v]>> : v \in {"alice", "bob"}}
  BY <1>6, <1>7
<1> QED
  BY <1>2, <1>4, <1>5, <1>6, <1>8 DEF Abstract!AddDemo

(* Readers of users, customers and environments see organizations and the   *)
(* demo data only as a whole, and the demo data once, whatever dies and     *)
(* however replicas that start interleave (seed.go:13-107,                  *)
(* admin_clusters.go:167-206).                                              *)
THEOREM ImplementsCatalog == Spec => AppearsWhole
<1>1. Init => Abstract!Init
  BY DEF Init, Abstract!Init
<1>2. IInv /\ [Next]_vars => [Abstract!Next]_(Abstract!catalog)
  <2> SUFFICES ASSUME IInv, [Next]_vars
               PROVE  Abstract!Next \/ UNCHANGED <<users, customers, environments, grants>>
    BY DEF Abstract!catalog
  <2>1. CASE UNCHANGED vars
    BY <2>1 DEF vars, catalog
  <2>2. ASSUME NEW r \in Replicas, Commit(r) PROVE Abstract!Next
    BY <2>2, CommitAddsOrganization, CommitAddsDemo DEF Abstract!Next
  <2>3. ASSUME NEW r \in Replicas, Plain(r) \/ InsertUsers(r) \/ InsertDemo(r)
                                   \/ InsertCustomer(r) \/ InsertEnvironment(r)
        PROVE  UNCHANGED <<users, customers, environments, grants>>
    BY <2>3 DEF Plain, Start, Migrate, ListEnvironments, NextEnvironment, Probe, Insert,
         CountUsers, Die, ListBreaksOff, StatementFails, InsertUsers, InsertDemo, InsertCustomer,
         InsertEnvironment, catalog
  <2>4. ASSUME NEW x \in EnvironmentIds \X Names,
               EditSeededPanel(x) \/ AddPanel(x) \/ RemovePanel(x)
        PROVE  UNCHANGED <<users, customers, environments, grants>>
    BY <2>4 DEF EditSeededPanel, AddPanel, RemovePanel, catalog
  <2> QED
    BY <2>1, <2>2, <2>3, <2>4 DEF Next, Run, Plain
<1> QED
  BY <1>1, <1>2, Invariance, PTL DEF Spec, AppearsWhole, Abstract!Spec

-----------------------------------------------------------------------------
(* One replica seeds no default panel twice. *)

\* Nothing was seeded twice, and what is about to be is not there.
OnceInv ==
  /\ DefaultsOnce
  /\ \A r \in Replicas : At(r, "insert") => seeded[<<proc[r].env, Name(r)>>] = 0

\* The panel a replica is at.
LEMMA AtPanel ==
  ASSUME IInv, NEW r \in Replicas, At(r, "probe") \/ At(r, "insert")
  PROVE  <<proc[r].env, Name(r)>> \in EnvironmentIds \X Names
BY DEF IInv, WellFormed, Process, At, Name, Names

\* Only Probe takes a replica to an insertion.
LEMMA OnlyProbeInserts ==
  ASSUME IInv, NEW r \in Replicas, ~Probe(r), ~At(r, "insert"),
         Plain(r) \/ InsertUsers(r) \/ InsertDemo(r) \/ InsertCustomer(r)
           \/ InsertEnvironment(r) \/ Commit(r)
  PROVE  ~At(r, "insert")'
<1>1. proc[r] \in Process /\ proc \in [Replicas -> Process]
  BY DEF IInv, TypeOK
<1>2. \A q : Become(r, q) => proc'[r] = q
  BY <1>1 DEF Become
<1>3. Down.step = "down" /\ Idle.step = "serve"
  BY DEF Down, Idle
<1>4. CASE Start(r) \/ Migrate(r) \/ ListEnvironments(r) \/ CountUsers(r)
  BY <1>1, <1>2, <1>3, <1>4
     DEF Start, Migrate, ListEnvironments, CountUsers, Goto, At, Process
<1>5. CASE NextEnvironment(r)
  BY <1>1, <1>2, <1>3, <1>5 DEF NextEnvironment, Goto, At, Process
<1>6. CASE Insert(r)
  BY <1>6 DEF Insert
<1>7. CASE Die(r) \/ StatementFails(r)
  BY <1>2, <1>3, <1>7 DEF Die, StatementFails, At
<1>13. CASE ListBreaksOff(r)
  BY <1>1, <1>2, <1>13 DEF ListBreaksOff, At, Process
<1>8. CASE InsertUsers(r)
  <2>1. [proc[r] EXCEPT !.step = "demo", !.tx.users = DemoUsers].step = "demo"
    BY <1>1 DEF Process
  <2> QED
    BY <1>2, <1>3, <1>8, <2>1 DEF InsertUsers, At
<1>9. CASE InsertDemo(r)
  BY <1>1, <1>2, <1>3, <1>9 DEF InsertDemo, At, Process
<1>10. CASE InsertCustomer(r)
  BY <1>1, <1>2, <1>3, <1>10 DEF InsertCustomer, At, Process
<1>11. CASE InsertEnvironment(r)
  BY <1>1, <1>2, <1>3, <1>11 DEF InsertEnvironment, At, Process
<1>12. CASE Commit(r)
  BY <1>1, <1>2, <1>3, <1>12 DEF Commit, At, Process
<1> QED
  BY <1>4, <1>5, <1>6, <1>7, <1>8, <1>9, <1>10, <1>11, <1>12, <1>13 DEF Plain

\* After any other step than Probe and Insert the replica is not about to insert.
LEMMA StepLeaves ==
  ASSUME IInv, NEW r \in Replicas, ~Probe(r), ~Insert(r),
         Plain(r) \/ InsertUsers(r) \/ InsertDemo(r) \/ InsertCustomer(r)
           \/ InsertEnvironment(r) \/ Commit(r)
  PROVE  ~At(r, "insert")'
<1>1. CASE ~At(r, "insert")
  BY <1>1, OnlyProbeInserts
<1>2. CASE At(r, "insert")
  <2>1. Become(r, Down) \/ Become(r, Idle)
    BY <1>2 DEF Plain, Start, Migrate, ListEnvironments, NextEnvironment,
       CountUsers, Die, ListBreaksOff, StatementFails, InsertUsers, InsertDemo, InsertCustomer,
       InsertEnvironment, Commit, At
  <2>2. Down.step = "down" /\ Idle.step = "serve"
    BY DEF Down, Idle
  <2>3. proc'[r] = Down \/ proc'[r] = Idle
    BY <2>1, BecomeOnly DEF IInv
  <2> QED
    BY <2>2, <2>3 DEF At
<1> QED
  BY <1>1, <1>2

(* With one replica SeedDefaultPanels is idempotent (migrate.go:94-110),    *)
(* however often the replica dies in the middle of it and whatever users do *)
(* to panels in the meantime.                                               *)
THEOREM OneReplicaSeedsOnce ==
  ASSUME \A r, s \in Replicas : r = s
  PROVE  Spec => []DefaultsOnce
<1>1. Init => OnceInv
  <2> SUFFICES ASSUME Init PROVE OnceInv
    OBVIOUS
  <2>1. \A r \in Replicas : proc[r].step = "down"
    BY DEF Init, Down
  <2> QED
    BY <2>1 DEF Init, OnceInv, DefaultsOnce, At
<1>2. IInv /\ OnceInv /\ [Next]_vars => OnceInv'
  <2> SUFFICES ASSUME IInv, OnceInv, [Next]_vars PROVE OnceInv'
    OBVIOUS
  <2>1. seeded \in [EnvironmentIds \X Names -> Nat]
    BY DEF IInv, TypeOK
  <2>2. CASE UNCHANGED vars
    BY <2>2 DEF OnceInv, DefaultsOnce, At, Name, vars, panelRows
  <2>3. ASSUME NEW r \in Replicas, Insert(r) PROVE OnceInv'
    <3> DEFINE x == <<proc[r].env, Name(r)>>
    <3>1. x \in EnvironmentIds \X Names /\ seeded[x] = 0
      BY <2>3, AtPanel DEF Insert, OnceInv
    <3>2. seeded' = [seeded EXCEPT ![x] = seeded[x] + 1]
      BY <2>3 DEF Insert
    <3>3. DefaultsOnce'
      <4> HIDE DEF x
      <4> QED
        BY <2>1, <3>1, <3>2 DEF OnceInv, DefaultsOnce
    <3>4. ~At(r, "insert")'
      <4>1. proc[r] \in Process /\ proc \in [Replicas -> Process]
        BY DEF IInv, TypeOK
      <4> QED
        BY <2>3, <4>1 DEF Insert, AdvanceName, Become, Goto, At, Process
    <3> QED
      BY <3>3, <3>4 DEF OnceInv
  <2>4. ASSUME NEW r \in Replicas, Probe(r) PROVE OnceInv'
    <3>1. UNCHANGED seeded
      BY <2>4 DEF Probe, panelRows
    <3>2. At(r, "insert")' => seeded[<<proc'[r].env, Name(r)'>>] = 0
      <4>1. proc[r] \in Process /\ proc \in [Replicas -> Process]
        BY DEF IInv, TypeOK
      <4>2. CASE ~Exists(proc[r].env, Name(r)) /\ Goto(r, "insert")
        <5>1. proc'[r].env = proc[r].env /\ Name(r)' = Name(r)
          BY <4>1, <4>2 DEF Goto, Become, Process, Name
        <5>2. <<proc[r].env, Name(r)>> \in EnvironmentIds \X Names
          BY <2>4, AtPanel DEF Probe
        <5> QED
          BY <2>1, <4>2, <5>1, <5>2 DEF Exists
      <4>3. CASE AdvanceName(r)
        BY <4>1, <4>3 DEF AdvanceName, Become, Goto, At, Process
      <4> QED
        BY <2>4, <4>2, <4>3 DEF Probe
    <3> QED
      BY <3>1, <3>2 DEF OnceInv, DefaultsOnce
  <2>5. ASSUME NEW r \in Replicas, ~Probe(r), ~Insert(r),
               Plain(r) \/ InsertUsers(r) \/ InsertDemo(r) \/ InsertCustomer(r)
                 \/ InsertEnvironment(r) \/ Commit(r)
        PROVE  OnceInv'
    <3>1. UNCHANGED seeded
      BY <2>5 DEF Plain, Start, Migrate, ListEnvironments, NextEnvironment,
           CountUsers, Die, ListBreaksOff, StatementFails, InsertUsers, InsertDemo, InsertCustomer,
           InsertEnvironment, Commit, panelRows
    <3>2. ~At(r, "insert")'
      BY <2>5, StepLeaves
    <3> QED
      BY <3>1, <3>2 DEF OnceInv, DefaultsOnce
  <2>6. ASSUME NEW x \in EnvironmentIds \X Names,
               EditSeededPanel(x) \/ AddPanel(x) \/ RemovePanel(x)
        PROVE  OnceInv'
    <3>1. UNCHANGED proc
      BY <2>6 DEF EditSeededPanel, AddPanel, RemovePanel
    <3>2. \A y \in EnvironmentIds \X Names :
            seeded'[y] \in Nat /\ (seeded'[y] = seeded[y] \/ seeded'[y] = seeded[y] - 1)
      <4>1. CASE UNCHANGED seeded
        BY <2>1, <4>1
      <4>2. CASE seeded[x] > 0 /\ seeded' = [seeded EXCEPT ![x] = @ - 1]
        BY <2>1, <4>2
      <4> QED
        BY <2>6, <4>1, <4>2 DEF EditSeededPanel, AddPanel, RemovePanel
    <3>3. DefaultsOnce'
      BY <2>1, <3>2 DEF OnceInv, DefaultsOnce
    <3>4. ASSUME NEW r \in Replicas, At(r, "insert")'
          PROVE  seeded'[<<proc'[r].env, Name(r)'>>] = 0
      <4> DEFINE y == <<proc[r].env, Name(r)>>
      <4>1. At(r, "insert") /\ y \in EnvironmentIds \X Names
        BY <3>1, <3>4, AtPanel DEF At
      <4>2. seeded[y] = 0 /\ seeded'[y] \in Nat
            /\ (seeded'[y] = seeded[y] \/ seeded'[y] = seeded[y] - 1)
        BY <3>2, <4>1 DEF OnceInv
      <4>3. seeded'[y] = 0
        BY <4>2
      <4> QED
        BY <3>1, <4>3 DEF Name
    <3> QED
      BY <3>3, <3>4 DEF OnceInv
  <2> QED
    BY <2>2, <2>3, <2>4, <2>5, <2>6 DEF Next, Run, Plain
<1>3. OnceInv => DefaultsOnce
  BY DEF OnceInv
<1> QED
  BY <1>1, <1>2, <1>3, Invariance, PTL DEF Spec

-----------------------------------------------------------------------------
(* Copies of a default panel, for any finite number of replicas.            *)

\* The replicas whose snapshot has no such panel, and that have yet to insert it.
Inserting(x) == {r \in Replicas : At(r, "insert") /\ <<proc[r].env, Name(r)>> = x}

\* A copy that is there, or that is still to come, has a replica of its own.
CopiesInv ==
  \A x \in EnvironmentIds \X Names :
    seeded[x] + Cardinality(Inserting(x)) <= Cardinality(Replicas)

LEMMA InsertingSize ==
  ASSUME IsFiniteSet(Replicas)
  PROVE  /\ Cardinality(Replicas) \in Nat
         /\ \A x : Cardinality(Inserting(x)) \in Nat
                   /\ Cardinality(Inserting(x)) <= Cardinality(Replicas)
<1>1. Cardinality(Replicas) \in Nat
  BY FS_CardinalityType
<1>2. ASSUME NEW x
      PROVE  Cardinality(Inserting(x)) \in Nat
             /\ Cardinality(Inserting(x)) <= Cardinality(Replicas)
  <2>1. Inserting(x) \in SUBSET Replicas
    BY DEF Inserting
  <2>2. IsFiniteSet(Inserting(x)) /\ Cardinality(Inserting(x)) <= Cardinality(Replicas)
    BY <2>1, FS_Subset
  <2> QED
    BY <2>2, FS_CardinalityType
<1> QED
  BY <1>1, <1>2

\* With fewer such replicas, and no more copies, nothing is to be shown.
LEMMA FewerCopies ==
  ASSUME IsFiniteSet(Replicas), TypeOK, CopiesInv, NEW x \in EnvironmentIds \X Names,
         Inserting(x)' \subseteq Inserting(x), seeded'[x] \in Nat, seeded'[x] <= seeded[x]
  PROVE  seeded'[x] + Cardinality(Inserting(x)') <= Cardinality(Replicas)
<1>1. Inserting(x) \in SUBSET Replicas
  BY DEF Inserting
<1>2. IsFiniteSet(Inserting(x))
  BY <1>1, FS_Subset
<1>3. Cardinality(Inserting(x)') <= Cardinality(Inserting(x))
      /\ Cardinality(Inserting(x)') \in Nat
  BY <1>2, FS_Subset, FS_CardinalityType
<1>4. seeded[x] \in Nat /\ seeded[x] + Cardinality(Inserting(x)) <= Cardinality(Replicas)
  BY DEF CopiesInv, TypeOK
<1> QED
  BY <1>3, <1>4, InsertingSize

\* A replica that moves, and not to an insertion, leaves the others inserting.
LEMMA OneMoves ==
  ASSUME NEW r \in Replicas, \A s \in Replicas \ {r} : proc'[s] = proc[s],
         ~At(r, "insert")'
  PROVE  \A x : Inserting(x)' \subseteq Inserting(x) \ {r}
BY DEF Inserting, At, Name

LEMMA MovesAlone ==
  ASSUME IInv, NEW r \in Replicas,
         Plain(r) \/ InsertUsers(r) \/ InsertDemo(r) \/ InsertCustomer(r)
           \/ InsertEnvironment(r) \/ Commit(r)
  PROVE  \A s \in Replicas \ {r} : proc'[s] = proc[s]
<1>1. TypeOK
  BY DEF IInv
<1>2. \A p : Become(r, p) => \A s \in Replicas \ {r} : proc'[s] = proc[s]
  BY <1>1, BecomeOnly
<1>3. \A p : Goto(r, p) => \A s \in Replicas \ {r} : proc'[s] = proc[s]
  BY <1>2 DEF Goto
<1>4. CASE Plain(r)
  BY <1>2, <1>3, <1>4 DEF Plain, Start, Migrate, ListEnvironments, NextEnvironment, Probe,
     Insert, AdvanceName, CountUsers, Die, ListBreaksOff, StatementFails
<1>5. CASE InsertUsers(r) \/ InsertDemo(r)
  BY <1>2, <1>5 DEF InsertUsers, InsertDemo
<1>6. CASE InsertCustomer(r) \/ InsertEnvironment(r) \/ Commit(r)
  BY <1>2, <1>6 DEF InsertCustomer, InsertEnvironment, Commit
<1> QED
  BY <1>4, <1>5, <1>6

LEMMA AdvanceLeaves ==
  ASSUME TypeOK, NEW r \in Replicas, AdvanceName(r)
  PROVE  ~At(r, "insert")'
BY DEF TypeOK, AdvanceName, Become, Goto, At, Process

\* The bound of each step, for the panel of the step and for the others.
LEMMA CopiesStep ==
  ASSUME IsFiniteSet(Replicas), IInv, CopiesInv, [Next]_vars
  PROVE  CopiesInv'
<1>1. TypeOK /\ seeded \in [EnvironmentIds \X Names -> Nat]
  BY DEF IInv, TypeOK
<1> SUFFICES ASSUME NEW x \in EnvironmentIds \X Names
             PROVE  seeded'[x] + Cardinality(Inserting(x)') <= Cardinality(Replicas)
  BY DEF CopiesInv
<1>2. CASE UNCHANGED <<proc, seeded>>
  <2>1. Inserting(x)' = Inserting(x)
    BY <1>2 DEF Inserting, At, Name
  <2> QED
    BY <1>1, <1>2, <2>1, FewerCopies
<1>3. ASSUME NEW r \in Replicas, Insert(r)
      PROVE  seeded'[x] + Cardinality(Inserting(x)') <= Cardinality(Replicas)
  <2> DEFINE y == <<proc[r].env, Name(r)>>
  <2>1. Inserting(x)' \subseteq Inserting(x) \ {r}
    BY <1>1, <1>3, OneMoves, MovesAlone, AdvanceLeaves DEF Insert, Plain
  <2>2. seeded' = [seeded EXCEPT ![y] = seeded[y] + 1]
    BY <1>3 DEF Insert
  <2>3. CASE x # y
    <3>1. seeded'[x] = seeded[x]
      BY <1>1, <2>2, <2>3
    <3> QED
      BY <1>1, <2>1, <3>1, FewerCopies
  <2>4. CASE x = y
    <3>1. seeded'[x] = seeded[x] + 1
      BY <1>1, <2>2, <2>4
    <3>2. r \in Inserting(x) /\ Inserting(x) \in SUBSET Replicas
      BY <1>3, <2>4 DEF Insert, Inserting
    <3>3. IsFiniteSet(Inserting(x) \ {r})
          /\ Cardinality(Inserting(x) \ {r}) = Cardinality(Inserting(x)) - 1
      BY <3>2, FS_Subset, FS_RemoveElement
    <3>4. Cardinality(Inserting(x)') <= Cardinality(Inserting(x)) - 1
          /\ Cardinality(Inserting(x)') \in Nat
      BY <2>1, <3>3, FS_Subset, FS_CardinalityType
    <3>5. seeded[x] \in Nat /\ seeded[x] + Cardinality(Inserting(x)) <= Cardinality(Replicas)
      BY <1>1 DEF CopiesInv
    <3> QED
      BY <3>1, <3>4, <3>5, InsertingSize
  <2> QED
    BY <2>3, <2>4
<1>4. ASSUME NEW r \in Replicas, Probe(r)
      PROVE  seeded'[x] + Cardinality(Inserting(x)') <= Cardinality(Replicas)
  <2>1. UNCHANGED seeded
    BY <1>4 DEF Probe, panelRows
  <2>2. \A s \in Replicas \ {r} : proc'[s] = proc[s]
    BY <1>4, MovesAlone DEF Plain
  <2>3. CASE AdvanceName(r)
    <3>1. Inserting(x)' \subseteq Inserting(x)
      BY <1>1, <2>2, <2>3, OneMoves, AdvanceLeaves
    <3> QED
      BY <1>1, <2>1, <3>1, FewerCopies
  <2>4. CASE ~Exists(proc[r].env, Name(r)) /\ Goto(r, "insert")
    <3>1. proc'[r].env = proc[r].env /\ Name(r)' = Name(r)
      BY <1>1, <2>4 DEF TypeOK, Goto, Become, Process, Name
    <3>2. CASE x = <<proc[r].env, Name(r)>>
      <4>1. seeded'[x] = 0
        BY <1>1, <2>1, <2>4, <3>2 DEF Exists
      <4>2. Inserting(x)' \in SUBSET Replicas
        BY DEF Inserting
      <4>3. Cardinality(Inserting(x)') <= Cardinality(Replicas)
            /\ Cardinality(Inserting(x)') \in Nat
        BY <4>2, FS_Subset, FS_CardinalityType
      <4> QED
        BY <4>1, <4>3, InsertingSize
    <3>3. CASE x # <<proc[r].env, Name(r)>>
      <4>1. Inserting(x)' \subseteq Inserting(x)
        BY <2>2, <3>1, <3>3 DEF Inserting, At, Name
      <4> QED
        BY <1>1, <2>1, <4>1, FewerCopies
    <3> QED
      BY <3>2, <3>3
  <2> QED
    BY <1>4, <2>3, <2>4 DEF Probe
<1>5. ASSUME NEW r \in Replicas, ~Probe(r), ~Insert(r),
             Plain(r) \/ InsertUsers(r) \/ InsertDemo(r) \/ InsertCustomer(r)
               \/ InsertEnvironment(r) \/ Commit(r)
      PROVE  seeded'[x] + Cardinality(Inserting(x)') <= Cardinality(Replicas)
  <2>1. UNCHANGED seeded
    BY <1>5 DEF Plain, Start, Migrate, ListEnvironments, NextEnvironment,
         CountUsers, Die, ListBreaksOff, StatementFails, InsertUsers, InsertDemo, InsertCustomer,
         InsertEnvironment, Commit, panelRows
  <2>2. ~At(r, "insert")'
    BY <1>5, StepLeaves
  <2>3. Inserting(x)' \subseteq Inserting(x)
    BY <1>5, <2>2, OneMoves, MovesAlone
  <2> QED
    BY <1>1, <2>1, <2>3, FewerCopies
<1>6. ASSUME NEW y \in EnvironmentIds \X Names,
             EditSeededPanel(y) \/ AddPanel(y) \/ RemovePanel(y)
      PROVE  seeded'[x] + Cardinality(Inserting(x)') <= Cardinality(Replicas)
  <2>1. Inserting(x)' = Inserting(x)
    BY <1>6 DEF EditSeededPanel, AddPanel, RemovePanel, Inserting, At, Name
  <2>2. seeded'[x] \in Nat /\ seeded'[x] <= seeded[x]
    <3>1. CASE UNCHANGED seeded
      BY <1>1, <3>1
    <3>2. CASE seeded[y] > 0 /\ seeded' = [seeded EXCEPT ![y] = @ - 1]
      BY <1>1, <3>2
    <3> QED
      BY <1>6, <3>1, <3>2 DEF EditSeededPanel, AddPanel, RemovePanel
  <2> QED
    BY <1>1, <2>1, <2>2, FewerCopies
<1>7. CASE UNCHANGED vars
  BY <1>2, <1>7 DEF vars, panelRows
<1> QED
  BY <1>3, <1>4, <1>5, <1>6, <1>7 DEF Next, Run, Plain

\* However many replicas seed at once, die and start again, and whatever users
\* do to panels, there are never more copies of a default panel than replicas
\* (SeedDefaultPanels, migrate.go:96-110).
THEOREM CopiesAreBounded ==
  ASSUME IsFiniteSet(Replicas)
  PROVE  Spec => []CopiesBounded
<1>1. Init => CopiesInv
  <2> SUFFICES ASSUME Init, NEW x \in EnvironmentIds \X Names
               PROVE  seeded[x] + Cardinality(Inserting(x)) <= Cardinality(Replicas)
    BY DEF CopiesInv
  <2>1. seeded[x] = 0
    BY DEF Init
  <2> QED
    BY <2>1, InsertingSize
<1>2. IInv /\ CopiesInv /\ [Next]_vars => CopiesInv'
  BY CopiesStep
<1>3. IInv /\ CopiesInv => CopiesBounded
  <2> SUFFICES ASSUME IInv, CopiesInv, NEW x \in EnvironmentIds \X Names
               PROVE  seeded[x] <= Cardinality(Replicas)
    BY DEF CopiesBounded
  <2>1. seeded[x] \in Nat /\ seeded[x] + Cardinality(Inserting(x)) <= Cardinality(Replicas)
    BY DEF IInv, TypeOK, CopiesInv
  <2> QED
    BY <2>1, InsertingSize
<1> QED
  BY <1>1, <1>2, <1>3, Invariance, PTL DEF Spec

-----------------------------------------------------------------------------
(* A start leaves no environment it found without a default panel. *)

Filled(e) == \A n \in Names : Exists(e, n)

\* What replica r has done of the environments Migrate has read.
Filling(r) ==
  LET p == proc[r] IN
  /\ ~p.serving /\ p.step \in {"next", "probe", "insert"} =>
       \A e \in p.listed :
         \/ e \in p.todo \/ Filled(e)
         \/ /\ p.step # "next" /\ e = p.env
            /\ \A i \in 1..Len(Defaults) : i < p.name => Exists(e, Defaults[i])
  /\ p.step \in {"count", "users", "demo"} => \A e \in p.listed : Filled(e)

\* Without edits a panel that exists goes on to exist.
LEMMA ExistsGrows ==
  ASSUME IInv, ~Edits, [Next]_vars, NEW e, NEW n, <<e, n>> \in EnvironmentIds \X Names,
         Exists(e, n)
  PROVE  Exists(e, n)'
<1>1. seeded \in [EnvironmentIds \X Names -> Nat]
  BY DEF IInv, TypeOK
<1>2. CASE UNCHANGED panelRows
  BY <1>2 DEF panelRows, Exists
<1>3. ASSUME NEW r \in Replicas, Insert(r) PROVE Exists(e, n)'
  <2> DEFINE x == <<proc[r].env, Name(r)>>
             y == <<e, n>>
  <2>1. x \in EnvironmentIds \X Names
    BY <1>3, AtPanel DEF Insert
  <2>2. seeded' = [seeded EXCEPT ![x] = seeded[x] + 1] /\ edited' = edited
    BY <1>3 DEF Insert
  <2>3. seeded[y] > 0 => seeded'[y] > 0
    <3>1. y \in EnvironmentIds \X Names
      OBVIOUS
    <3> HIDE DEF x, y
    <3> QED
      BY <1>1, <2>1, <2>2, <3>1
  <2> QED
    BY <2>2, <2>3 DEF Exists
<1>4. ASSUME NEW r \in Replicas, ~Insert(r),
             Run(r) \/ InsertCustomer(r) \/ Die(r) \/ ListBreaksOff(r) \/ StatementFails(r)
      PROVE  UNCHANGED panelRows
  BY <1>4 DEF Run, Start, Migrate, ListEnvironments, NextEnvironment, Probe,
       CountUsers, Die, ListBreaksOff, StatementFails, InsertUsers, InsertDemo, InsertCustomer,
       InsertEnvironment, Commit
<1>5. ASSUME NEW x \in EnvironmentIds \X Names,
             EditSeededPanel(x) \/ AddPanel(x) \/ RemovePanel(x)
      PROVE  FALSE
  BY <1>5 DEF EditSeededPanel, AddPanel, RemovePanel, Edit
<1>6. UNCHANGED vars => UNCHANGED panelRows
  BY DEF vars
<1> QED
  BY <1>2, <1>3, <1>4, <1>5, <1>6 DEF Next

\* A replica that takes no step keeps what it has done.
LEMMA OthersFilling ==
  ASSUME IInv, ~Edits, [Next]_vars, NEW r \in Replicas, Filling(r), proc'[r] = proc[r]
  PROVE  Filling(r)'
<1>1. proc[r] \in Process
  BY DEF IInv, TypeOK
<1>2. \A e \in proc[r].listed : e \in EnvironmentIds
  BY <1>1 DEF Process
<1>3. \A i \in 1..Len(Defaults) : Defaults[i] \in Names
  BY DEF Names
<1>4. ASSUME NEW e \in proc[r].listed, Filled(e) PROVE Filled(e)'
  BY <1>2, <1>4, ExistsGrows DEF Filled
<1>5. ASSUME NEW e \in proc[r].listed, NEW i \in 1..Len(Defaults), Exists(e, Defaults[i])
      PROVE  Exists(e, Defaults[i])'
  BY <1>2, <1>3, <1>5, ExistsGrows
<1>6. ASSUME NEW e \in proc[r].listed,
             \A i \in 1..Len(Defaults) : i < proc[r].name => Exists(e, Defaults[i])
      PROVE  \A i \in 1..Len(Defaults) : i < proc[r].name => Exists(e, Defaults[i])'
  BY <1>5, <1>6
<1> QED
  BY <1>4, <1>6 DEF Filling

\* The next default panel, or the next environment, after one that exists.
LEMMA AdvanceFilling ==
  ASSUME IInv, ~Edits, [Next]_vars, NEW r \in Replicas, Filling(r),
         At(r, "probe") \/ At(r, "insert"), AdvanceName(r),
         NEW e, e = proc[r].env, NEW n, n = Name(r), Exists(e, n)'
  PROVE  Filling(r)'
<1> DEFINE p == proc[r]
           len == Len(Defaults)
<1>1. p \in Process /\ p.name \in 1..len /\ len \in Nat
  BY FirstDefault DEF IInv, TypeOK, Process
<1>2. \/ /\ p.name < len
         /\ proc'[r] = [p EXCEPT !.step = "probe", !.name = @ + 1]
      \/ /\ p.name = len
         /\ proc'[r] = [p EXCEPT !.step = "next"]
  BY BecomeOnly DEF IInv, AdvanceName, Goto
<1>3. /\ proc'[r].serving = p.serving /\ proc'[r].listed = p.listed
      /\ proc'[r].todo = p.todo /\ proc'[r].env = p.env
      /\ \/ proc'[r].step = "probe" /\ p.name < len /\ proc'[r].name = p.name + 1
         \/ proc'[r].step = "next" /\ p.name = len
  BY <1>1, <1>2 DEF Process
<1>4. SUFFICES ASSUME ~p.serving, NEW f \in p.listed
               PROVE  \/ f \in p.todo \/ Filled(f)'
                      \/ /\ proc'[r].step # "next" /\ f = p.env
                         /\ \A i \in 1..len : i < proc'[r].name => Exists(f, Defaults[i])'
  <2> HIDE DEF p, len
  <2> QED
    BY <1>3 DEF Filling, p, len
<1>5. f \in EnvironmentIds
  BY <1>1, <1>4 DEF Process
<1>6. CASE f \in p.todo
  BY <1>6
<1>7. CASE Filled(f)
  BY <1>5, <1>7, ExistsGrows DEF Filled
<1>8. CASE /\ f = p.env
           /\ \A i \in 1..len : i < p.name => Exists(f, Defaults[i])
  <2>1. \A i \in 1..len : Defaults[i] \in Names
    BY DEF Names
  <2>2. ASSUME NEW i \in 1..len, i < p.name PROVE Exists(f, Defaults[i])'
    <3>1. Exists(f, Defaults[i])
      BY <1>8, <2>2
    <3>2. <<f, Defaults[i]>> \in EnvironmentIds \X Names
      BY <1>5, <2>1
    <3> QED
      BY <3>1, <3>2, ExistsGrows
  <2>3. Exists(f, n)'
    BY <1>8 DEF Exists
  <2>4. ASSUME NEW i \in 1..len, i <= p.name PROVE Exists(f, Defaults[i])'
    <3>1. CASE i = p.name
      <4>1. Defaults[i] = n
        BY <3>1 DEF Name
      <4> QED
        BY <2>3, <4>1
    <3>2. CASE i < p.name
      BY <2>2, <3>2
    <3> HIDE DEF p, len
    <3> QED
      BY <1>1, <2>4, <3>1, <3>2
  <2>5. CASE proc'[r].step = "probe" /\ proc'[r].name = p.name + 1
    <3>1. ASSUME NEW i \in 1..len, i < proc'[r].name PROVE Exists(f, Defaults[i])'
      <4>1. i <= p.name
        <5> HIDE DEF p, len
        <5> QED
          BY <1>1, <2>5, <3>1
      <4> QED
        BY <2>4, <4>1
    <3> QED
      BY <1>8, <2>5, <3>1
  <2>6. CASE p.name = len
    <3>1. ASSUME NEW i \in 1..len PROVE Exists(f, Defaults[i])'
      <4>1. i <= p.name
        <5> HIDE DEF p, len
        <5> QED
          BY <1>1, <2>6
      <4> QED
        BY <2>4, <4>1
    <3> QED
      BY <3>1 DEF Filled, Names
  <2> QED
    BY <1>3, <2>5, <2>6
<1> QED
  BY <1>4, <1>6, <1>7, <1>8 DEF Filling, At

\* A replica that is not in a start, or has not listed environments yet.
LEMMA IdleFilling ==
  ASSUME NEW r \in Replicas,
         proc'[r].step \in {"down", "migrate", "list", "commit", "environment", "serve"}
  PROVE  Filling(r)'
BY DEF Filling

\* A step of a replica that changes no panel and advances no name.
LEMMA StepFilling ==
  ASSUME IInv, ~Edits, [Next]_vars, NEW r \in Replicas, Filling(r),
         Run(r) \/ InsertCustomer(r) \/ Die(r) \/ ListBreaksOff(r) \/ StatementFails(r)
  PROVE  Filling(r)'
<1> DEFINE p == proc[r]
<1>1. p \in Process /\ \A e \in p.listed : e \in EnvironmentIds
  BY DEF IInv, TypeOK, Process
<1>2. ASSUME NEW q, Become(r, q) PROVE proc'[r] = q
  BY <1>2, BecomeOnly DEF IInv
<1>3. ASSUME Become(r, Down) \/ Become(r, Idle) PROVE Filling(r)'
  <2>1. Down.step = "down" /\ Idle.step = "serve"
    BY DEF Down, Idle
  <2>2. proc'[r] = Down \/ proc'[r] = Idle
    BY <1>2, <1>3
  <2> QED
    BY <2>1, <2>2, IdleFilling
<1>4. ASSUME NEW e \in p.listed, Filled(e) PROVE Filled(e)'
  BY <1>1, <1>4, ExistsGrows DEF Filled
<1>5. ASSUME proc'[r] = proc[r] PROVE Filling(r)'
  BY <1>5, OthersFilling
<1>6. CASE Start(r) \/ Migrate(r)
  BY <1>1, <1>2, <1>6, IdleFilling DEF Start, Migrate, Goto, Process
<1>7. CASE ListEnvironments(r) \/ ListBreaksOff(r)
  <2>1. PICK read : proc'[r] = [p EXCEPT !.step = "next", !.todo = read, !.listed = read]
    BY <1>2, <1>7 DEF ListEnvironments, ListBreaksOff
  <2>2. proc'[r].step = "next" /\ proc'[r].todo = proc'[r].listed
    BY <1>1, <2>1 DEF Process
  <2> QED
    BY <2>2 DEF Filling
<1>8. CASE NextEnvironment(r)
  <2>1. ASSUME NEW e \in p.todo,
               Become(r, [p EXCEPT !.step = "probe", !.env = e, !.name = 1,
                                   !.todo = @ \ {e}])
        PROVE  Filling(r)'
    <3>1. /\ proc'[r].step = "probe" /\ proc'[r].env = e /\ proc'[r].name = 1
          /\ proc'[r].todo = p.todo \ {e} /\ proc'[r].listed = p.listed
          /\ proc'[r].serving = p.serving
      BY <1>1, <1>2, <2>1 DEF Process
    <3>2. ~p.serving => \A f \in p.listed : f \in p.todo \/ Filled(f)
      BY <1>8 DEF NextEnvironment, At, Filling
    <3>3. \A i \in 1..Len(Defaults) : ~(i < 1)
      BY FirstDefault
    <3>4. ~p.serving => \A f \in p.listed : f = e \/ f \in proc'[r].todo \/ Filled(f)'
      BY <1>4, <3>1, <3>2
    <3> QED
      BY <3>1, <3>3, <3>4 DEF Filling
  <2>2. ASSUME p.todo = {}, ~p.serving, Goto(r, "count") PROVE Filling(r)'
    <3>1. proc'[r].step = "count" /\ proc'[r].listed = p.listed
      BY <1>1, <1>2, <2>2 DEF Goto, Process
    <3>2. \A f \in p.listed : Filled(f)
      BY <1>8, <2>2 DEF NextEnvironment, At, Filling
    <3> QED
      BY <1>4, <3>1, <3>2 DEF Filling
  <2> QED
    BY <1>3, <1>8, <2>1, <2>2 DEF NextEnvironment
<1>9. CASE Probe(r)
  <2>1. CASE Goto(r, "insert")
    <3>1. /\ proc'[r].step = "insert" /\ proc'[r].env = p.env /\ proc'[r].name = p.name
          /\ proc'[r].todo = p.todo /\ proc'[r].listed = p.listed
          /\ proc'[r].serving = p.serving /\ p.step = "probe"
      BY <1>1, <1>2, <1>9, <2>1 DEF Goto, Process, Probe, At
    <3>2. UNCHANGED panelRows
      BY <1>9 DEF Probe
    <3> QED
      BY <3>1, <3>2 DEF Filling, Filled, Exists, panelRows
  <2>2. CASE Exists(p.env, Name(r)) /\ AdvanceName(r)
    <3>1. \E f, m : f = proc[r].env /\ m = Name(r) /\ Exists(f, m)'
      BY <1>9, <2>2 DEF Probe, Exists, panelRows
    <3> QED
      BY <1>9, <2>2, <3>1, AdvanceFilling DEF Probe
  <2> QED
    BY <1>9, <2>1, <2>2 DEF Probe
<1>10. CASE Insert(r)
  <2> DEFINE x == <<proc[r].env, Name(r)>>
  <2>1. x \in EnvironmentIds \X Names
    BY <1>10, AtPanel DEF Insert
  <2>2. seeded'[x] > 0
    <3>1. seeded' = [seeded EXCEPT ![x] = seeded[x] + 1]
      BY <1>10 DEF Insert
    <3>2. seeded \in [EnvironmentIds \X Names -> Nat]
      BY DEF IInv, TypeOK
    <3> HIDE DEF x
    <3> QED
      BY <2>1, <3>1, <3>2
  <2>3. \E f, m : f = proc[r].env /\ m = Name(r) /\ Exists(f, m)'
    BY <2>2 DEF Exists
  <2> QED
    BY <1>10, <2>3, AdvanceFilling DEF Insert
<1>11. CASE CountUsers(r)
  <2>1. CASE Goto(r, "users")
    <3>1. proc'[r].step = "users" /\ proc'[r].listed = p.listed /\ p.step = "count"
      BY <1>1, <1>2, <1>11, <2>1 DEF Goto, Process, CountUsers, At
    <3> QED
      BY <1>4, <3>1 DEF Filling
  <2> QED
    BY <1>3, <1>11, <2>1 DEF CountUsers
<1>12. CASE InsertUsers(r)
  <2>1. CASE Become(r, [p EXCEPT !.step = "demo", !.tx.users = DemoUsers])
    <3>1. proc'[r].step = "demo" /\ proc'[r].listed = p.listed /\ p.step = "users"
      BY <1>1, <1>2, <1>12, <2>1 DEF Process, InsertUsers, At
    <3> QED
      BY <1>4, <3>1 DEF Filling
  <2> QED
    BY <1>3, <1>12, <2>1 DEF InsertUsers
<1>13. CASE InsertDemo(r)
  <2>1. ASSUME ~Become(r, Down) PROVE proc'[r].step = "commit"
    BY <1>1, <1>2, <1>13, <2>1 DEF InsertDemo, Process
  <2> QED
    BY <1>3, <2>1, IdleFilling
<1>14. CASE InsertCustomer(r)
  <2>1. ASSUME ~UNCHANGED proc PROVE proc'[r].step = "environment"
    BY <1>1, <1>2, <1>14, <2>1 DEF InsertCustomer, Process
  <2> QED
    BY <1>5, <2>1, IdleFilling
<1>15. CASE InsertEnvironment(r)
  <2>1. ASSUME ~Become(r, Idle) PROVE proc'[r].step = "commit"
    BY <1>1, <1>2, <1>15, <2>1 DEF InsertEnvironment, Process
  <2> QED
    BY <1>3, <2>1, IdleFilling
<1>16. CASE Commit(r)
  <2>1. ASSUME ~Become(r, Idle) PROVE proc'[r].step = "next" /\ proc'[r].serving
    BY <1>1, <1>2, <1>16, <2>1 DEF Commit, Process
  <2>2. ASSUME proc'[r].step = "next", proc'[r].serving PROVE Filling(r)'
    BY <2>2 DEF Filling
  <2> QED
    BY <1>3, <2>1, <2>2
<1> QED
  BY <1>3, <1>6, <1>7, <1>8, <1>9, <1>10, <1>11, <1>12, <1>13, <1>14, <1>15, <1>16
     DEF Run, Die, StatementFails

(* When a replica has seeded panels in its start, every environment it has  *)
(* read has every default panel, whatever the other replicas did in the    *)
(* meantime and whatever died before (migrate.go:118-141).                  *)
THEOREM StartsFill == Spec => []StartFillsEnvironments
<1> DEFINE FillInv == ~Edits => \A r \in Replicas : Filling(r)
<1>1. Init => FillInv
  <2>1. Down.step = "down"
    BY DEF Down
  <2> QED
    BY <2>1 DEF Init, Filling
<1>2. IInv /\ FillInv /\ [Next]_vars => FillInv'
  <2> SUFFICES ASSUME IInv, ~Edits, [Next]_vars, NEW r \in Replicas, Filling(r)
               PROVE  Filling(r)'
    OBVIOUS
  <2>1. ASSUME UNCHANGED proc PROVE Filling(r)'
    BY <2>1, OthersFilling
  <2>2. CASE UNCHANGED vars
    BY <2>1, <2>2 DEF vars
  <2>3. ASSUME NEW s \in Replicas,
               Run(s) \/ InsertCustomer(s) \/ Die(s) \/ ListBreaksOff(s) \/ StatementFails(s)
        PROVE  Filling(r)'
    <3>1. CASE s = r
      BY <2>3, <3>1, StepFilling
    <3>2. CASE s # r
      <4>1. Only(s) \/ UNCHANGED proc
        <5>1. TypeOK /\ WellFormed(proc[s])
          BY DEF IInv
        <5> QED
          BY <2>3, <5>1, PlainWellFormed, InsertUsersWellFormed, InsertDemoWellFormed,
             InsertCustomerWellFormed, InsertEnvironmentWellFormed, CommitWellFormed
             DEF Run, Plain
      <4> QED
        BY <2>1, <3>2, <4>1, OthersKeep, OthersFilling DEF IInv
    <3> QED
      BY <3>1, <3>2
  <2>4. ASSUME NEW x \in EnvironmentIds \X Names,
               EditSeededPanel(x) \/ AddPanel(x) \/ RemovePanel(x)
        PROVE  Filling(r)'
    BY <2>1, <2>4 DEF EditSeededPanel, AddPanel, RemovePanel
  <2> QED
    BY <2>2, <2>3, <2>4 DEF Next
<1>3. FillInv => StartFillsEnvironments
  BY DEF Filling, StartFillsEnvironments, Filled, At
<1> HIDE DEF FillInv
<1> QED
  BY <1>1, <1>2, <1>3, Invariance, PTL DEF Spec

-----------------------------------------------------------------------------
(* Starts that wait for each other, and steps that come to an end. *)

(* Starts wait for each other only where they insert the users, and there   *)
(* for a single transaction, which itself waits for none: no two replicas   *)
(* wait for each other (seed.go:36-44).                                     *)
OneSeedIsOpen ==
  \A r, s \in Replicas : proc[r].tx.users # {} /\ proc[s].tx.users # {} =>
    r = s /\ (At(r, "demo") \/ At(r, "commit"))

\* Users are in an open transaction from their insertion to its commit.
LEMMA UsersUntilCommit ==
  ASSUME IInv, NEW r \in Replicas, proc[r].tx.users # {}
  PROVE  At(r, "demo") \/ At(r, "commit")
<1>1. WellFormed(proc[r])
  BY DEF IInv
<1>2. ASSUME NEW c, proc[r].tx = [NoTx EXCEPT !.customers = {c}] PROVE FALSE
  BY <1>2 DEF NoTx
<1>3. proc[r].tx # NoTx
  BY DEF NoTx
<1> QED
  BY <1>1, <1>2, <1>3 DEF WellFormed, At

(* Of the replicas that start one has an open transaction with users, and   *)
(* it has no other row to wait for: replicas that start do not wait for     *)
(* each other in a circle (seed.go:36-44).                                  *)
THEOREM SeedsInTurn == Spec => []OneSeedIsOpen
<1>1. IInv => OneSeedIsOpen
  <2> SUFFICES ASSUME IInv, NEW r \in Replicas, NEW s \in Replicas,
                      proc[r].tx.users # {}, proc[s].tx.users # {}
               PROVE  r = s /\ (At(r, "demo") \/ At(r, "commit"))
    BY DEF OneSeedIsOpen
  <2>1. r = s
    BY DEF IInv, Apart, Disjoint
  <2> QED
    BY <2>1, UsersUntilCommit
<1> QED
  BY <1>1, Invariance, PTL

(* The parts of a start, and of CreateOrganization, in their order.         *)
Part(p) ==
  CASE p.step \in {"down", "serve"}          -> 0
    [] p.step \in {"migrate", "environment"} -> 1
    [] p.step = "list"                       -> 2
    [] p.step = "commit"                     -> IF p.serving THEN 2 ELSE 7
    [] p.step \in {"next", "probe", "insert"} -> 3
    [] p.step = "count"                      -> 4
    [] p.step = "users"                      -> 5
    [] p.step = "demo"                       -> 6

(* q has less to do than p: fewer environments, or the same and fewer of    *)
(* the default panels of the one it is at.                                  *)
Further(p, q) ==
  \/ Part(p) < Part(q)
  \/ /\ Part(p) = 3 /\ Part(q) = 3
     /\ \/ q.todo \subseteq p.todo /\ q.todo # p.todo
        \/ /\ q.todo = p.todo /\ p.step # "next"
           /\ \/ q.step = "next"
              \/ q.step = "probe" /\ q.name > p.name
              \/ p.step = "probe" /\ q.step = "insert" /\ q.name = p.name

\* The part a replica is in, by its step.
LEMMA PartOf ==
  ASSUME NEW p
  PROVE  /\ p.step \in {"down", "serve"} => Part(p) = 0
         /\ p.step \in {"migrate", "environment"} => Part(p) = 1
         /\ p.step = "list" => Part(p) = 2
         /\ p.step = "commit" => Part(p) = IF p.serving THEN 2 ELSE 7
         /\ p.step \in {"next", "probe", "insert"} => Part(p) = 3
         /\ p.step = "count" => Part(p) = 4
         /\ p.step = "users" => Part(p) = 5
         /\ p.step = "demo" => Part(p) = 6
<1>1. p.step \in {"down", "serve"} => Part(p) = 0
  BY DEF Part
<1>2. p.step \in {"migrate", "environment"} => Part(p) = 1
  BY DEF Part
<1>3. p.step = "list" => Part(p) = 2
  BY DEF Part
<1>4. p.step = "commit" => Part(p) = IF p.serving THEN 2 ELSE 7
  BY DEF Part
<1>5. p.step \in {"next", "probe", "insert"} => Part(p) = 3
  BY DEF Part
<1>6. p.step = "count" => Part(p) = 4
  BY DEF Part
<1>7. p.step = "users" => Part(p) = 5
  BY DEF Part
<1>8. p.step = "demo" => Part(p) = 6
  BY DEF Part
<1> QED
  BY <1>1, <1>2, <1>3, <1>4, <1>5, <1>6, <1>7, <1>8

(* No start and no creation of an organization goes round in a loop: until  *)
(* it ends, each of its steps leaves it less to do, whatever environments   *)
(* and panels others add meanwhile (migrate.go:109-141).                    *)
StartsAndRequestsAdvance ==
  [][\A r \in Replicas : proc'[r] # proc[r] =>
       \/ At(r, "down") \/ At(r, "serve")
       \/ proc'[r] = Down \/ proc'[r] = Idle
       \/ Further(proc[r], proc'[r])]_vars

\* What StartsAndRequestsAdvance says of a step from p to q.
LeavesLess(p, q) ==
  p.step \in {"down", "serve"} \/ q = Down \/ q = Idle \/ Further(p, q)

\* The next default panel, and the end of the panels of an environment.
LEMMA AdvanceIsFurther ==
  ASSUME NEW p \in Process, p.step \in {"probe", "insert"}, NEW q,
         \/ q = [p EXCEPT !.step = "probe", !.name = @ + 1]
         \/ q = [p EXCEPT !.step = "next"]
  PROVE  Further(p, q)
<1>1. p.name \in Int
  BY DEF Process
<1>2. /\ q.todo = p.todo
      /\ q.step = "next" \/ (q.step = "probe" /\ q.name > p.name)
  <2>1. CASE q = [p EXCEPT !.step = "probe", !.name = @ + 1]
    <3>1. q.todo = p.todo /\ q.step = "probe" /\ q.name = p.name + 1
      BY <2>1 DEF Process
    <3> QED
      BY <1>1, <3>1
  <2>2. CASE q = [p EXCEPT !.step = "next"]
    BY <2>2 DEF Process
  <2> QED
    BY <2>1, <2>2
<1>3. Part(p) = 3 /\ Part(q) = 3
  BY <1>2, PartOf
<1> QED
  BY <1>2, <1>3 DEF Further

\* Each step of a replica leaves it less to do.
LEMMA StepLeavesLess ==
  ASSUME IInv, NEW r \in Replicas, proc'[r] # proc[r],
         Run(r) \/ InsertCustomer(r) \/ Die(r) \/ ListBreaksOff(r) \/ StatementFails(r)
  PROVE  LeavesLess(proc[r], proc'[r])
<1> DEFINE p == proc[r]
           q == proc'[r]
<1>1. p \in Process /\ WellFormed(p)
  BY DEF IInv, TypeOK
<1>2. ASSUME NEW x, Become(r, x) PROVE q = x
  BY <1>2, BecomeOnly DEF IInv
<1>3. ASSUME Become(r, Down) \/ Become(r, Idle) PROVE LeavesLess(p, q)
  BY <1>2, <1>3 DEF LeavesLess
<1>4. ASSUME Part(p) \in Nat, Part(q) \in Nat, Part(p) < Part(q) PROVE LeavesLess(p, q)
  BY <1>4 DEF LeavesLess, Further
<1>5. ASSUME p.step \in {"probe", "insert"}, AdvanceName(r) PROVE LeavesLess(p, q)
  <2>1. \/ q = [p EXCEPT !.step = "probe", !.name = @ + 1]
        \/ q = [p EXCEPT !.step = "next"]
    BY <1>2, <1>5 DEF AdvanceName, Goto
  <2> QED
    BY <1>1, <1>5, <2>1, AdvanceIsFurther DEF LeavesLess
<1>6. CASE Start(r) \/ InsertCustomer(r)
  BY <1>6 DEF Start, InsertCustomer, At, LeavesLess
<1>7. CASE Migrate(r)
  <2>1. p.step = "migrate" /\ q.step = "list"
    BY <1>1, <1>2, <1>7 DEF Migrate, Goto, At, Process
  <2>2. Part(p) = 1 /\ Part(q) = 2
    BY <2>1, PartOf
  <2> QED
    BY <1>4, <2>2
<1>8. CASE ListEnvironments(r) \/ ListBreaksOff(r)
  <2>1. p.step = "list" /\ q.step = "next"
    BY <1>1, <1>2, <1>8 DEF ListEnvironments, ListBreaksOff, At, Process
  <2>2. Part(p) = 2 /\ Part(q) = 3
    BY <2>1, PartOf
  <2> QED
    BY <1>4, <2>2
<1>9. CASE NextEnvironment(r)
  <2>1. p.step = "next" /\ Part(p) = 3
    BY <1>9, PartOf DEF NextEnvironment, At
  <2>2. ASSUME NEW e \in p.todo,
               Become(r, [p EXCEPT !.step = "probe", !.env = e, !.name = 1,
                                   !.todo = @ \ {e}])
        PROVE  LeavesLess(p, q)
    <3>1. q.step = "probe" /\ q.todo = p.todo \ {e}
      BY <1>1, <1>2, <2>2 DEF Process
    <3>2. Part(q) = 3
      BY <3>1, PartOf
    <3> QED
      BY <2>1, <3>1, <3>2 DEF LeavesLess, Further
  <2>3. ASSUME Goto(r, "count") PROVE LeavesLess(p, q)
    <3>1. q.step = "count"
      BY <1>1, <1>2, <2>3 DEF Goto, Process
    <3>2. Part(q) = 4
      BY <3>1, PartOf
    <3> QED
      BY <1>4, <2>1, <3>2
  <2> QED
    BY <1>3, <1>9, <2>2, <2>3 DEF NextEnvironment
<1>10. CASE Probe(r)
  <2>1. p.step = "probe" /\ Part(p) = 3
    BY <1>10, PartOf DEF Probe, At
  <2>2. ASSUME Goto(r, "insert") PROVE LeavesLess(p, q)
    <3>1. q.step = "insert" /\ q.name = p.name /\ q.todo = p.todo
      BY <1>1, <1>2, <2>2 DEF Goto, Process
    <3>2. Part(q) = 3
      BY <3>1, PartOf
    <3> QED
      BY <2>1, <3>1, <3>2 DEF LeavesLess, Further
  <2> QED
    BY <1>5, <1>10, <2>1, <2>2 DEF Probe
<1>11. CASE Insert(r)
  BY <1>5, <1>11 DEF Insert, At
<1>12. CASE CountUsers(r)
  <2>1. ASSUME Goto(r, "users") PROVE LeavesLess(p, q)
    <3>1. p.step = "count" /\ q.step = "users"
      BY <1>1, <1>2, <1>12, <2>1 DEF CountUsers, Goto, At, Process
    <3>2. Part(p) = 4 /\ Part(q) = 5
      BY <3>1, PartOf
    <3> QED
      BY <1>4, <3>2
  <2> QED
    BY <1>3, <1>12, <2>1 DEF CountUsers
<1>13. CASE InsertUsers(r)
  <2>1. ASSUME Become(r, [p EXCEPT !.step = "demo", !.tx.users = DemoUsers])
        PROVE  LeavesLess(p, q)
    <3>1. p.step = "users" /\ q.step = "demo"
      BY <1>1, <1>2, <1>13, <2>1 DEF InsertUsers, At, Process
    <3>2. Part(p) = 5 /\ Part(q) = 6
      BY <3>1, PartOf
    <3> QED
      BY <1>4, <3>2
  <2> QED
    BY <1>3, <1>13, <2>1 DEF InsertUsers
<1>14. CASE InsertDemo(r)
  <2>1. p.step = "demo" /\ ~p.serving
    BY <1>1, <1>14 DEF InsertDemo, At, WellFormed
  <2>2. ASSUME ~Become(r, Down) PROVE LeavesLess(p, q)
    <3>1. q.step = "commit" /\ q.serving = p.serving
      BY <1>1, <1>2, <1>14, <2>2 DEF InsertDemo, Process
    <3>2. Part(p) = 6 /\ Part(q) = 7
      BY <2>1, <3>1, PartOf
    <3> QED
      BY <1>4, <3>2
  <2> QED
    BY <1>3, <2>2
<1>15. CASE InsertEnvironment(r)
  <2>1. p.step = "environment" /\ p.serving
    BY <1>1, <1>15 DEF InsertEnvironment, At, WellFormed
  <2>2. ASSUME ~Become(r, Idle) PROVE LeavesLess(p, q)
    <3>1. q.step = "commit" /\ q.serving = p.serving
      BY <1>1, <1>2, <1>15, <2>2 DEF InsertEnvironment, Process
    <3>2. Part(p) = 1 /\ Part(q) = 2
      BY <2>1, <3>1, PartOf
    <3> QED
      BY <1>4, <3>2
  <2> QED
    BY <1>3, <2>2
<1>16. CASE Commit(r)
  <2>1. ASSUME ~Become(r, Idle) PROVE LeavesLess(p, q)
    <3>1. p.step = "commit" /\ p.serving /\ q.step = "next"
      BY <1>1, <1>2, <1>16, <2>1 DEF Commit, At, Process
    <3>2. Part(p) = 2 /\ Part(q) = 3
      BY <3>1, PartOf
    <3> QED
      BY <1>4, <3>2
  <2> QED
    BY <1>3, <2>1
<1> QED
  BY <1>3, <1>6, <1>7, <1>8, <1>9, <1>10, <1>11, <1>12, <1>13, <1>14, <1>15, <1>16
     DEF Run, Die, StatementFails

(* A start, and the creation of an organization, is a finite number of      *)
(* steps of the replica, whatever the others add meanwhile: each leaves     *)
(* fewer parts, environments or default panels (migrate.go:109-141).        *)
THEOREM StepsComeToAnEnd == Spec => StartsAndRequestsAdvance
<1>1. IInv /\ [Next]_vars =>
        [\A r \in Replicas : proc'[r] # proc[r] =>
           \/ At(r, "down") \/ At(r, "serve")
           \/ proc'[r] = Down \/ proc'[r] = Idle
           \/ Further(proc[r], proc'[r])]_vars
  <2> SUFFICES ASSUME IInv, Next, NEW r \in Replicas, proc'[r] # proc[r]
               PROVE  LeavesLess(proc[r], proc'[r])
    BY DEF LeavesLess, At
  <2>1. ASSUME NEW s \in Replicas,
               Run(s) \/ InsertCustomer(s) \/ Die(s) \/ ListBreaksOff(s) \/ StatementFails(s)
        PROVE  s = r
    <3>1. TypeOK /\ WellFormed(proc[s])
      BY DEF IInv
    <3>2. Only(s) \/ UNCHANGED proc
      BY <2>1, <3>1, PlainWellFormed, InsertUsersWellFormed, InsertDemoWellFormed,
         InsertCustomerWellFormed, InsertEnvironmentWellFormed, CommitWellFormed
         DEF Run, Plain
    <3> QED
      BY <3>1, <3>2, OthersKeep
  <2>2. ASSUME NEW x \in EnvironmentIds \X Names,
               EditSeededPanel(x) \/ AddPanel(x) \/ RemovePanel(x)
        PROVE  FALSE
    BY <2>2 DEF EditSeededPanel, AddPanel, RemovePanel
  <2> QED
    BY <2>1, <2>2, StepLeavesLess DEF Next
<1> QED
  BY <1>1, Invariance, PTL DEF Spec, StartsAndRequestsAdvance
=============================================================================
