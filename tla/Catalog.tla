------------------------------ MODULE Catalog ------------------------------
(***************************************************************************)
(* What the rows of users, customers and environments promise to a reader: *)
(* they appear an organization at a time, a customer together with its     *)
(* environment, and the demo data of api/db/seed.go once, as a whole, in a *)
(* database without users.  Nothing is taken away.                         *)
(***************************************************************************)
CONSTANTS
  DemoUsers,     \* usernames of the demo data
  DemoViewers,   \* those with a grant on a demo cluster
  CustomerIds,
  EnvironmentIds

VARIABLES
  users,         \* usernames
  customers,     \* ids
  environments,  \* <<id, customer_id>>
  grants         \* <<username, environment of a granted cluster>>

catalog == <<users, customers, environments, grants>>

Init ==
  /\ users = {}
  /\ customers = {}
  /\ environments = {}
  /\ grants = {}

NewCustomer(c) == c \in CustomerIds \ customers

NewEnvironment(e) ==
  e \in EnvironmentIds /\ \A x \in environments : x[1] # e

AddOrganization ==
  /\ \E c \in CustomerIds, e \in EnvironmentIds :
       /\ NewCustomer(c) /\ NewEnvironment(e)
       /\ customers' = customers \cup {c}
       /\ environments' = environments \cup {<<e, c>>}
  /\ UNCHANGED <<users, grants>>

\* Two customers with an environment each; each viewer is granted a cluster of
\* one of them.
AddDemo ==
  /\ users = {}
  /\ users' = DemoUsers
  /\ \E c, d \in CustomerIds, e, f \in EnvironmentIds :
       /\ c # d /\ NewCustomer(c) /\ NewCustomer(d)
       /\ e # f /\ NewEnvironment(e) /\ NewEnvironment(f)
       /\ customers' = customers \cup {c, d}
       /\ environments' = environments \cup {<<e, c>>, <<f, d>>}
       /\ \E g \in [DemoViewers -> {e, f}] :
            grants' = grants \cup {<<v, g[v]>> : v \in DemoViewers}

Next == AddOrganization \/ AddDemo

Spec == Init /\ [][Next]_catalog
=============================================================================
