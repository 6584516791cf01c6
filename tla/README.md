# A verification development for sniderbytes

sniderbytes is a dashboard for Kubernetes clusters: a Go API (`api/`, gin +
pgx), a React UI (`ui/`), a PostgreSQL database, and the Grafana and Keycloak
instances it asks. This directory holds TLA+ models of its code, the TLC
configurations that check them, and theorems about them that TLAPS proves.

Contents: [inventory](#1-inventory), [models](#2-modules-and-the-code),
[runs](#3-runs), [bounds and fairness](#4-bounds-and-fairness),
[proofs](#5-proofs), [disagreements](#6-where-the-code-and-its-text-disagree),
[not modelled](#7-what-is-not-modelled), [plan](#8-plan).

## 1. Inventory

### Parts, their state and their operations

| part | state | operations | what makes it correct |
|---|---|---|---|
| Tables (`api/db/migrate.go`) | customers, environments, clusters, panels, user_cluster_access, users | SQL statements; each one outside a transaction commits alone | keys and references hold; ids are not given out twice |
| Authentication middleware (`api/middleware/auth.go`, `admin.go`) | none of its own; writes `users` and `user_cluster_access` | verify a local or a Keycloak token, upsert the user, grant one customer after the other | a token's customers are granted before the handler checks; nothing else is granted |
| Panel and metrics handlers (`api/handlers/panels.go`, `metrics.go`, `clusters.go`) | the locals of a request between two statements | list, create, update, delete panels of a cluster; metrics, namespaces, alerts, test query | a viewer reaches only what its grants cover, whatever happens between the check and the use |
| Cluster administration (`api/handlers/admin_clusters.go`) | none | list, create, update, delete clusters; create an organization with environment and panels | an organization is created as a whole; a secret is not lost |
| Grafana client (`api/grafana/client.go`) | the process-wide cache of Keycloak tokens | obtain a token, then send one request or a series | no token is used by another client, or after it expires; every call returns |
| Login and users (`api/handlers/auth.go`, `users.go`) | `users` | give out a 24 h token, say who is asking, list users | a token stands for one person |
| Startup (`api/main.go`, `api/db/seed.go`, `migrate.go`) | the whole schema | migrate, seed default panels, seed demo data, serve | starts any number of times, in any number of replicas |
| Overview page (`ui/src/pages/OverviewPage.tsx`, `components/MetricCard.tsx`) | selection, the last metrics, a copy of the panels' expressions, the editor of a card, the form for a new panel | select a cluster or a namespace, ask every 30 s, edit, delete and add panels | what is on the screen belongs to what is selected; an edit goes to the panel it was opened for |
| Alerts page (`ui/src/pages/AlertsPage.tsx`) | the last alerts | select, ask every 30 s | the same |
| Organization page (`ui/src/pages/ClustersAdminPage.tsx`) | two lists, the selected organization, two forms, `editingId` | load, create, edit, delete, submit | what is submitted goes to what was opened; the page shows what was done |
| UI session and routes (`ui/src/api/client.ts`, `auth/AuthContext.tsx`, `routes/`, `App.tsx`, `pages/LoginPage.tsx`) | the token in `localStorage`, shared by the tabs; the user and the path of each tab | sign in and out, ask with the token, redirect on 401 and 403 | nobody sees a page of another role; redirections end |
| UI layout, configuration, router, models, deployment | none | — | — |

### Interaction

The UI calls the API over HTTP. The deployment runs two API replicas
(`deploy/api/deployment.yaml:7`), and gin serves each request in a goroutine of
its own. Requests share nothing in memory except the token cache of a replica;
they meet in the tables. Apart from `CreateOrganization` and `Seed`, no code
uses a transaction: a handler runs one statement, looks at the result, and runs
the next. A request under `/api` always runs the middleware first, which writes
to the tables itself when the token is Keycloak's.

In the browser everything is a callback: a page sends requests and goes on, and
answers change its state when they come, in any order. Nothing is cancelled and
no answer is dropped. Tabs share `localStorage` and nothing else.

### What is hard here

* **Check, then use.** `UpdatePanelForCluster` and `DeletePanelForCluster` make
  three statements: is the cluster granted, is the panel the cluster's, change
  the panel *by id alone*. `CreatePanelForCluster` makes four. The admin can
  move or delete the cluster, or the panel, between any two of them.
* **Grants only grow.** The middleware inserts; nothing in the code deletes from
  `user_cluster_access`. That makes a check stable, makes a granted cluster
  impossible to delete, and lets access survive a cluster's move.
* **Ignored errors.** The middleware ignores the failure of a grant
  (`auth.go:160`), and the read of the next position ignores every failure
  (`panels.go:256`), an overflow of the INT column among them.
* **A cache with a clock.** The lock of the token cache is not held during the
  POST, `expiresAt` is counted from the answer, and one token serves a series of
  requests each of which may take the whole time limit.
* **Startup** of two replicas at once, and of one that died half way.
* **Answers out of order** in the UI: metrics of a cluster that is not selected
  any more, a list of panels that is older than a save, a 401 for a token that
  has been replaced, a load of the lists that is overtaken by a later one.
* **State that outlives its form**: `editingId` stays when the form it belongs to
  is hidden, a card keeps its editor while the panel behind it changes, the form
  for a new panel stays when another cluster is selected.
* **Demo data**: one panel that Grafana does not answer for turns the whole
  payload into demo data, whose cards have no panel ids, and an empty address does so for
  good.

`PROJECT.json` lists each of these as a hazard at its line, with the properties
that would catch it.

## 2. Modules and the code

```
Tables  <--EXTENDS--  PanelHandlers  <--EXTENDS--  MCPanelHandlers     (TLC)
  ^                         ^
  +--- TablesProofs <------ PanelHandlersProofs                        (TLAPS)
  |
  +--- TenantBoard (the abstract specification PanelHandlers implements)

GrafanaClient  <--  MCGrafanaClient (TLC),  GrafanaClientProofs (TLAPS)

Provisioning   <--  MCProvisioning (TLC),   ProvisioningProofs (TLAPS)
  |
  +-- INSTANCE Catalog (the abstract specification it implements)

Overview       <--  MCOverview (TLC),       OverviewProofs (TLAPS)
  |                                           |
  +-- INSTANCE Feed (it implements it) <----- FeedProofs (TLAPS)

Session        <--  MCSession (TLC),        SessionProofs (TLAPS)

AdminPage      <--  MCAdminPage (TLC),      AdminPageProofs (TLAPS)
```

### Tables

The tables the handlers share and one operator per SQL statement. `clusters`
maps an id to its environment, `panels` an id to a row, `grants` is a set of
pairs. Users, customers and environments are constants here: no handler in this
model deletes or changes them; Provisioning is about how they come to be. Ids come from a sequence that only grows (`SERIAL`) and
fails at its end. `placed` is a history variable (every pair of a cluster and an
environment it was in); no statement reads it.

The data that no property tells apart is one value: name, expression and unit of
a panel are its `body`; name, URL and credentials of a cluster do not appear.

Two statements deserve a remark. `RemoveCluster` is guarded by "no grant names
the cluster", because `user_cluster_access.cluster_id` references clusters
without `ON DELETE CASCADE` (migrate.go:35; line 41 repairs `user_id` only).
`IsNextPosition` is a relation and not a function, so that `MAX(position) + 1`
can be out of range.

### PanelHandlers

`req[w]` is what a request remembers between two statements; its `step` is the
statement it runs next.

| action | code |
|---|---|
| `Begin` | arrival with a valid token: role, customers of the token's groups, path parameters (auth.go:80-144) |
| `Assign` | one pass of the loop over the token's customers (auth.go:159-169) |
| `Me` | `/api/me`, which runs nothing after the middleware |
| `GetPanelsForCluster`, `CreatePanelForCluster`, `UpdatePanelForCluster`, `DeletePanelForCluster` | the handlers of panels.go:102-320, each a disjunction of its stages |
| `GetMetrics`, `GetNamespaces`, `GetAlerts`, `TestQueryForCluster` | metrics.go and panels.go: the statements, then the question to Grafana |
| `Abort` | a statement fails or the replica dies |
| `CreatePanel`, `UpdatePanel`, `DeletePanel`, `CreateCluster`, `UpdateCluster`, `DeleteCluster` | the admin endpoints, one statement each |

The stages that several handlers share are operators of their own: `CheckAccess`
(`hasAccess`: an admin is not looked up; 403), `CheckBelongs` (404), `ReadRow`
(404), `BadBody` (400), `ReadPosition`, `InsertAtPosition`. The order of the
stages is the order of the code: `CreatePanelForCluster` reads the cluster before
it binds the body, `UpdatePanelForCluster` checks the panel before it binds the
body, `TestQueryForCluster` binds the body before it reads the cluster.

Initially the database is as the first start leaves it: `Migrate` found no
environment to give panels to, then `Seed` created the demo environments,
clusters and grants. So there are clusters and no panels.

`TenantBoard` says what all this comes to. It has the tables and, of a request,
only whose it is and with which token (`open`; `Opened` is the mapping). A request opens, may
join a group's clusters, and closes; the step that closes it may change one panel,
and then its user is *entitled* at that moment: an admin, or somebody who can
reach the panel's environment (`Reach`: one of the user's clusters is or was there). There are no
checks, no ids from a path and nothing remembered. PanelHandlers implements it (`IsBoard`): the
handlers' statements are as good as one.

### GrafanaClient

A call is `lookup` (read lock) → `ready`, or `lookup` → `post` → `store` (write
lock) → `ready`; then `ready` → `wait` → `ready` … once for each request.
`FetchMetrics` sends one request for the health of Grafana and one for each
panel, with the one token it got. Time is relative: a token has the `life` it has
left at Keycloak, an entry of the cache the `ttl` left until `expiresAt`, a
pending request the time it has `waited`; `Tick` moves them all. `Receive` lets
Keycloak issue the token at any moment since the POST was sent, so that the age
of a token at the answer is anything from 0 to the latency.

`Fail` stands for every way a pending request ends badly; the call is then over,
with an error or with mock data for all panels.

### Provisioning and Catalog

How rows come into an empty database. `proc[r]` is what replica `r` has in
memory: the `step` it is at, whether it is `serving`, the environments it still has
to give panels to (`todo`, `env`, `name`), and the rows of its open transaction
(`tx`), which nobody else sees. `listed` is a history variable.

| action | code |
|---|---|
| `Start`, `Migrate` | main.go:11-20, the loop over `migrations` (migrate.go:115-119) |
| `ListEnvironments`, `NextEnvironment` | `SELECT id FROM environments` and the loop over its rows (migrate.go:121-140) |
| `Probe`, `Insert` | `SeedDefaultPanels` (migrate.go:96-110), called by Migrate and by CreateOrganization |
| `CountUsers`, `InsertUsers`, `InsertDemo`, `Commit` | `Seed` (seed.go) |
| `InsertCustomer`, `InsertEnvironment`, `Commit` | `CreateOrganization` (admin_clusters.go:172-214) |
| `Die`, `StatementFails` | `log.Fatalf` of a failing start, a killed process; a failing statement of CreateOrganization |
| `ListBreaksOff` | the rows of the list break off and the loop ends as if they had all been read: `rows.Err()` is not asked (migrate.go:128-134) |
| `EditSeededPanel`, `AddPanel`, `RemovePanel` | the panel endpoints, as far as they change whether a name is there |

`INSERT ... SELECT ... WHERE NOT EXISTS` is two steps, because that is what
READ COMMITTED makes of it: `Probe` is the snapshot taken when the statement
begins, `Insert` the row that others see when it has ended. A transaction is
private until `Commit`; `InsertUsers` waits for another transaction with the same
usernames, as the unique index does, and fails if that one commits. Sequences keep
what they gave out. The migrations can all be run again on the schema they
lead to and are one step: a replica that loses an ALTER TABLE to a deadlock with
another exits, which is `Die`.

`seeded` counts the rows that `SeedDefaultPanels` inserted and nobody has edited,
`edited` says which default names other panels have: a user who renames a panel
to a default name keeps the seed from inserting that one.

`Catalog` has no replicas, steps or transactions: an organization appears as a
customer with an environment, the demo data appears as a whole in a database without
users, and nothing is taken away.

### Feed and Overview

`Feed` is a page that shows what is selected and asks again at an interval:
`Select` is what the effect on `[id]` does, `Poll` the interval, `Answer` and
`Fail` the `then`, `catch` and `finally`. It is the alerts page as it stands, and
the abstract specification of the overview page. `late` is a history variable: an
answer for another selection was shown since the selection.

`Overview` is one tab with the overview page, and the rows the API reads and writes
for it. Each request is three steps: sent, served (`Serve...`, the API's answer is
computed from the rows of that moment), received. A panel is a row with a name and
an expression; an expression is the number of the write it comes from, so that
`held`, the expressions a panel ever had, tells whose expression a text is.

| action | code |
|---|---|
| `SelectCluster`, `SelectNamespace`, `Poll` | both effects and the interval (OverviewPage.tsx:25-53); from a namespace of its own, a change of cluster asks twice, once with the old namespace (`AskTwice`) |
| `ServeMetrics`, `ReceiveMetrics`, `FailMetrics` | GetMetrics with FetchMetrics: real cards, default cards without a row if there is no panel, or demo cards (`Answered`) |
| `ServeListing`, `ReceiveListing`, `FailListing` | the panels with their expressions, asked for once per cluster |
| `OpenEdit`, `CancelEdit`, `Save`, `Delete`, `ReceiveSaved`, `ReceiveDeleted` | MetricCard; `handlePanelSaved`, `handlePanelDeleted` with the request it sends |
| `ToggleForm`, `AddSave`, `ReceiveAdded`, `ServeRefresh`, `ReceiveRefresh`, `FailRefresh` | `handleAddSave` with the two reads after its `await` |
| `ServeWrite`, `LoseWrite` | the handlers of `panels.go`, each as one step here (PanelHandlers has their statements); a write that fails has had its effect or not |
| `WriteElsewhere` | another user renames, edits, deletes or adds a panel |
| `UpdateCluster` | an administrator moves a cluster to another environment, sets its address or clears it (admin_clusters.go:86-124) |

Which environment a cluster is in is read anew for each request, as metrics.go:41-49 and
panels.go do; `placed` is a history variable, the environments a cluster is or was in. Demo
data has two causes. `Mocked` lasts as long as a row is as it is: the cluster has no address,
or one of its panels has an expression that Grafana refuses (`BadExprs`), which turns the
cards of all its panels into demo cards. The other is a fault, which passes: Grafana cannot be
reached for once, or the panels cannot be read.

A card is known by its name (`key={m.name}`, OverviewPage.tsx:234). It keeps its
editor while an answer has a card of that name, whatever panel that card stands for,
and loses it when the cards are not on the screen.

`TheFeed == INSTANCE Feed` maps the slots of requests, and the two reads after an
added panel as one more quiet request, to the requests of `Feed`.

### Session

Tabs that share `stored`, the token in `localStorage`; for each the path, the user
of `AuthContext`, whether that is `loading`, and the address it is `leaving` for: an
assignment to `window.location.href` takes effect some steps later, and what happens
meanwhile happens on the page that is being left. `Render` applies the guard of the
path. `holder` is whom the server gave a token to, `owner` the tab that signed in
with it.

| action | code |
|---|---|
| `Open`, `Follow`, `Load` | an address that is entered, a link of the sidebar, a redirection that takes effect; the first and the last start the application anew, with `me()` |
| `Submit`, `Logout` | LoginPage.tsx:16-28, AuthContext.tsx:36-40 |
| `AskPage`, `AskAdmin` | the requests of sidebar and pages, with the token that is stored when they are sent (client.ts:6-12) |
| `Serve`, `ServeLogin`, `Fault` | Auth, AdminOnly, Me and Login, and the access check of a cluster, which may refuse a viewer at any time (`Refusable`); an answer with status 500, or none |
| `ReceiveMe`, `ReceiveLogin`, `ReceivePage` | the interceptor of client.ts:14-26 (`Intercepted`, `Removal`), then the `then`, `catch` and `finally` of the caller |
| `Expire`, `ChangeSso` | the 24 hours end; Keycloak signs somebody in or the session of authservice ends |

`crashed` is a tab whose rendering threw: no error boundary is there, so it stays
blank until it is loaded anew.

### AdminPage

The organization page with the rows it is about. A submission carries what it
was filled from (`of`), the environment, a text (name and address of the Grafana are
one, numbered by the write) and whether a secret was typed. `unseen` is a history
variable: since the last load began, a row changed without an answer that said so.

| action | code |
|---|---|
| `StartLoad` within others, `ServeLoad`, `ReceiveLoad`, `FailLoad` | `loadData`: `Promise.all` of two lists, each of which is served at a moment of its own |
| `SelectOrganization`, `OpenCreate`, `OpenEdit`, `CloseForm`, `OpenOrgForm`, `CloseOrgForm` | the handlers of ClustersAdminPage.tsx:63-145 |
| `Submit`, `Delete`, `SubmitOrg`; `ReceiveSave`, `ReceiveDelete`, `ReceiveOrg` | the halves of `handleClusterSubmit`, `handleDelete` and `handleOrgSubmit` before and after their `await` |
| `ServeSave`, `ServeDelete`, `ServeOrg` | Create, Update, Delete and CreateOrganization (Provisioning has the statements of the latter) |
| `FailSave`, `FailDelete`, `FailOrg` | the request failed, before or behind its effect |
| `WriteElsewhere` | another administrator moves, renames or deletes a cluster |

## 3. Runs

| run | asks | answer |
|---|---|---|
| `panel_requests` | one request of an admin, a local viewer or a developer of two customers on any endpoint, against every interleaving of the admin's changes | `TypeOK`, `Confined`, `TenantIsolation`, `NoSpuriousDenial`, `OnlyMembersWrite` hold, and `RequestsAnswered` |
| `two_requests` | two concurrent requests that create, update and delete, each undoing what the other has checked, with failing statements and the admin's changes | `AccessHeld`, `DeletedPanelStaysDeleted` hold, and PanelHandlers implements TenantBoard (`IsBoard`) |
| `tokens` | two concurrent calls of two clients of one realm, with tokens that live shorter and longer than the margin, and a Keycloak and a Grafana that may never answer | `TypeOK`, `CacheKeepsMargin`, `OwnToken`, `LiveWhenSent`, `BoundedTime` hold, and `CallsReturn` |
| `provisioning_two` | two replicas that start, seed, serve, die at any step and start again | `TypeOK`, `StartFillsEnvironments`, `CopiesBounded` hold, Provisioning implements Catalog (`AppearsWhole`), and `EveryReplicaServes` |
| `provisioning_one` | one replica that dies in the middle, and users who rename, delete and add panels | `DefaultsOnce` holds |
| `overview_feed` | the overview page of two clusters and a namespace, with a panel that Grafana refuses, clusters that are moved or lose their address, and answers that overlap or fail | it implements Feed (`IsFeed`), `StaleOnlyIfLate` holds, and `BecomesCurrent` |
| `overview_edit` | cards of one name in two clusters are edited, deleted and added while another cluster is selected, another user writes and clusters are moved | `TypeOK`, `EditStaysHome`, `CopyIsOwn`, `WaitsForAnswers` hold |
| `session` | two tabs, three people: an admin, a viewer and one without a role; sign-ins, sign-outs, links, ends of sessions and lost answers, any three of them, and clusters that are refused | `TypeOK`, `RightRoute`, `KeepsOwnToken`, `WaitsExactly` hold, and `SessionEnds`, `Settles` |
| `admin_page` | both forms and deletions, with a cluster that has a secret and one that has none, while loads overlap, writes fail before or behind their effect and another administrator writes | `TypeOK`, `SavesWhatWasOpened`, `StaysInOrganization`, `SecretsKept`, `ShowsOwnChanges` hold, and `Responds` |
| `panel_moved` | the comment of panels.go:150 | violated |
| `seed_twice` | the comment of migrate.go:95, with two replicas | violated |
| `login_page` | README.md:292 of the repository | violated |

Distinct states, in thousands: `panel_requests` 1176, `two_requests` 699, `tokens` 595,
`provisioning_two` 774, `provisioning_one` 175, `overview_feed` 387, `overview_edit` 2190,
`session` 1284, `admin_page` 339. Each of these is explored completely, in three minutes or
little more with two workers; the three violations are found in less than a second or two.

What the properties say:

* **AccessHeld** — the access check is made once and relied on until the answer;
  a viewer that passed it still has the grant, *and the cluster still exists*.
  The second half is not in the handlers: it is the foreign key without a
  cascade that keeps a granted cluster in the table. The mutant that adds the
  cascade breaks it.
* **Confined** — a viewer's next statement touches only environments in which
  one of its granted clusters is or was, although the write names a panel id and
  nothing else. "Or was" is the best that holds: a cluster that moves between
  check and write leaves the request in the old environment. It depends on ids
  not being reused (the mutant with `MAX(id) + 1` breaks it through a delete and a
  create that nobody would write a test for).
* **TenantIsolation** — as long as no cluster is moved between customers, a
  viewer touches only data of customers named by its groups or by the seed.
* **IsBoard** — what becomes of the tables is as if each request were one step of
  somebody entitled to it then. Besides what Confined says before a write, it says what the write
  does: at most one panel, at its answer, without moving it; nothing for a
  panel that is gone; and no grants but those of the token's customers. The mutant drops the check
  that the panel is the cluster's.
* **NoSpuriousDenial** — the loop of grants comes before the check, so a viewer is
  not refused a cluster of a customer that its token names. TLC found the limit:
  a cluster that an admin moves from a customer the loop has not reached to one it
  has passed is granted by neither pass, and is refused until the next request.
  The property is therefore about clusters that stayed with one customer.
* **OnlyMembersWrite** — TenantIsolation for what is done, not for what is about to be: as
  long as no cluster is moved between customers, the panels of an environment change by
  the hand of an admin or of a member of its customer, in the step that answers the
  request. The statements name a panel and nobody's customer; a deletion by name instead
  (the mutant) takes a panel from another tenant.
* **DeletedPanelStaysDeleted** — a step property: no write after a check brings a
  deleted panel back, and its id names no other panel.
* **CacheKeepsMargin** — a served token has at least the 60 seconds left, less
  the latency of the POST that fetched it, whatever order concurrent calls store
  in; also when `expires_in - 60` is negative.
* **OwnToken** — the cache is shared by all clusters; a call uses only a token its
  own client got from its own realm.
* **LiveWhenSent** — every request of a series leaves with a live token if
  `(panels + 1) * timeout <= margin`. With 60 s and 10 s that is *five* panels,
  which is exactly the number of default panels (`migrate.go:62-93`), and nothing
  bounds the number a user may add: from the sixth panel on, a slow Grafana can be
  sent an expired token, and the page then shows mock data.
* **BoundedTime** — the time limit is one of a request, and a call makes many: a call waits for
  at most that limit for the POST and for each of its requests, and no step of another
  call gives it more. With five panels that is 70 s for one payload.
* **AppearsWhole** — Provisioning implements Catalog. `Seed` counts users in one
  statement and inserts them in another; what makes the demo data appear once is the
  unique username, and the mutant without it shows both replicas committing. The
  mutant that inserts the customer outside the transaction lets a customer be seen
  without an environment.
* **StartFillsEnvironments** — a start that has gone through its list left no
  environment of it without a default panel, whatever died before or ran beside it. The list
  is what the start has read: if reading breaks off, the start goes on with a part and says
  nothing of it, and what it has not read waits for the next one.
  This is what repairs an organization whose seeding failed: `CreateOrganization` seeds
  the panels after its commit and drops the error, and answers 201 without them. The mutant that skips
  environments that already have a panel leaves half-seeded ones as they are.
* **DefaultsOnce** — holds for one replica, under every death and every edit.
  With two it fails; **CopiesBounded** says what is left: a copy for each replica.
* **StaleOnlyIfLate** — the page does show metrics of a cluster that is not selected,
  because no answer is dropped; but only after an answer came late or a request
  failed. The spinner is what keeps the old cards from the screen until then: the
  mutant that reloads in place breaks it.
* **BecomesCurrent** — in the end the page shows what the API would answer now for what is
  selected: the interval repairs late answers, lost requests and demo data that came of a
  passing fault, and follows panels and clusters that others change. It says nothing of demo
  data whose cause stays: a cluster without an address (both seeded ones, seed.go:84-91), or
  with one panel that Grafana refuses, shows demo data for as long as the row is so, and the
  property asks for exactly that. With an interval that the effect forgot to clear it fails.
* **EditStaysHome** — an open editor may come to stand for another panel of the same
  name when an answer exchanges the panel behind the card. Both are of environments that the
  cluster on the page is or was in, except after a failure or a late answer. All three
  really happen: no error and no late answer is needed if an administrator moves the
  cluster (§6); what keeps the rest apart is that the spinner unmounts the cards.
* **CopyIsOwn** — a list of panels is asked for once and may come at any time, also after
  a save, or for another cluster: the page may then have an *old* expression of a panel,
  never one of another panel.
* **WaitsForAnswers** — the spinner, a card that saves or deletes and a form that is disabled
  each wait for a request that is under way and whose end, however it ends, ends the
  waiting. It relates four flags of the page to what is sent; the form stays disabled over three
  requests (`handleAddSave` awaits two reads after the write), and the mutant in which a
  failure of these leaves it disabled is easily written.
* **RightRoute** — `me()` answers, or somebody signs in, after the path has changed; no tab
  ends on a page for another role.
* **KeepsOwnToken** — the interceptor removes whatever token is stored when a 401 comes. It
  can remove a good token that another tab has stored meanwhile, but never one that the
  same tab signed in with. The reason spans four files: the login form appears only when
  `me()` has answered, and loading a page discards what the page before had under way.
  The mutant with a form that does not wait for `me()` breaks it.
* **SessionEnds**, **Settles** — a page that goes on to ask does not outlive its session,
  and no redirection (401 to `/login`, 403 to `/`, the guards, the reload) leads back to itself;
  nor does a cluster that is refused, since `/` asks for none.
* **WaitsExactly** — a page is blank exactly while `me()` is under way and the form is disabled
  exactly while a sign-in is, through reloads that discard answers and redirections that
  leave the page alive for some steps: nothing waits for an answer that was discarded.
* **SavesWhatWasOpened** — `editingId` stays when the form is hidden by another
  organization or by the other form, and a late answer closes whatever form is open; still
  the id that a submission goes to is that of the cluster the visible form was filled from.
* **StaysInOrganization** — the form on the screen has an environment of the organization
  the page shows, over lists that are loaded and forms that are hidden.
* **SecretsKept** — a step property: no step takes from a cluster the secret it has, and none
  is created without. A blank secret keeps what is in the row, also if the row was changed or
  deleted since the form was filled; a cluster without one, as the seed has them, may
  stay so.
* **ShowsOwnChanges** — there is no interval here. When everything is answered the
  lists equal the tables unless one of three things happened: the last load failed, an
  earlier one was answered after it, or a row changed without an answer that said so. The
  conditions are the content: each of them is a way to a list that stays wrong.
* **Responds** — the page does not stay blank and no button disabled, whatever fails.
* **RequestsAnswered**, **CallsReturn**, **EveryReplicaServes** — liveness. The last
  is about replicas that wait for each other's row of `users` and that exit when the
  other commits: they come up all the same, because the next count finds users.

Each property of a passing run has a mutant in `PROJECT.json`: an operator beside
the one it replaces, commented "As if ...", that makes the mistake the property is
there to catch. TLC finds the property violated when it takes the other's place.

## 4. Bounds and fairness

* `MaxClusterId`, `MaxPanelId`, `MinPosition`, `MaxPosition` stand for the limits
  of `SERIAL` and `INT` columns (2^31 - 1). They are not only caps of the search:
  a sequence at its end fails the INSERT, and a position above the maximum fails
  the SELECT, whose error the code ignores, as the model does. Small values make
  those ends reachable.
* Two environments of two customers, two or three cluster ids and one or two panel
  ids: the properties relate one request, its cluster and its panel to *another*
  customer, and to a cluster or panel that takes the place of the first; two of
  each, with one id to spare, give all of these. `panel_requests` has a second panel id for
  a panel created after one was deleted; `two_requests` has one id and two
  contents of a panel instead, without which an update would be no change (with two ids and one
  content it has 3.5 million states and the same answers).
* One request against the admin already interleaves each statement with each
  change of the tables; the second request adds the changes that other viewers
  make. A third brings no new kind of statement.
* The grants and tokens are those of the demo users: a viewer with a local token,
  or with one or two customers in its groups, and an admin.
* In GrafanaClient only the order of the durations matters: `(MaxPanels + 1) * Timeout <=
  Margin`, as for 60, 10 and 5, with one lifetime below the margin and one above it. Of
  the two clients of one realm each may fill the entry of the other, if the key allows it.
* In Provisioning `MaxCustomers` and `MaxEnvironments` are again the ends of `SERIAL`
  sequences. The demo data takes two of each; one or two more leave room for an
  organization after it, or for a seed that is rolled back and done again. One or two
  default panels stand for five: the properties tell the panel a replica is at from
  those before and after it. Two replicas are those of `deploy/api/deployment.yaml:7`,
  one is `docker-compose.yml`. `MaxFaults` bounds deaths and failing statements: one in
  `provisioning_two` (a replica that dies half way through a seed or an organization and
  starts again, next to another that does not), two in `provisioning_one` (a start that
  dies half way after a predecessor that did). A replica serves
  one `CreateOrganization` at a time: two of them seed different environments. The
  edits of `provisioning_one` are left out of `provisioning_two`, whose
  `StartFillsEnvironments` they would void (a user may delete what the start seeded).
* Overview: two clusters in two environments, each with a panel of the same name, so that
  a card can come to stand for a panel of the other one. `MaxReads = 2` requests for metrics are
  under way at once: an earlier one and a later one, which may be exchanged; a third answer is
  overtaken in no other way. `MaxSelections` is two where the question is what is on the
  screen (away and back, or cluster and namespace), one where it is what is edited.
  `overview_feed` leaves editing out, `overview_edit` namespaces: neither
  reads what the other changes, except the cards. One fault is one passing demo payload, one
  lost answer or one lost write; one write is one of this page, of another user or of an
  administrator. Both clusters begin with an address. In `overview_feed` the panel of the
  second one has an expression that is refused (`BadExprs = {2}`), so that demo data is
  permanent there until the panel is edited or deleted, and in the first one as soon as its
  address is cleared; in `overview_edit` no expression is refused, since demo cards have no
  editor. All panels have one name: a card can come to stand for each panel of it. The card of
  a name that an environment has no panel of (`Absent` beside other cards) is therefore
  covered by the proofs only.
* Session: two tabs, because one tab takes away what another has stored; one of them
  has two requests under way, so that two answers can be exchanged. `MaxEvents` counts what
  people do, links they follow included, what ends and what fails, together: any three of
  these, in any order, with all the requests, answers and redirections that follow. Whether a
  viewer is refused a cluster is not counted: each request for it may be.
* AdminPage: two organizations, one cluster and one environment each to start with, one cluster
  with a secret and one without, two ids to spare for new ones. An organization is its name:
  `customers.name` is not unique, and two customers of one name count as one here, as they do on
  the page, which groups environments by the name. A load begins with the page and after each write that is
  reported, so that `MaxLoads = MaxWrites + 1` is no limit. Two writes: two of the
  administrator that overlap, or one with one elsewhere. Two faults: a write that fails
  behind its effect and a load.
* Symmetry of workers is used in a safety run only. Deadlock is checked everywhere but
  in Session, where everything may come to rest: everybody is signed out, the
  login form is on the screen, and nothing asks.

Fairness:

* `WF(Serve(w))` for each request. A handler's statements go on as long as
  PostgreSQL answers, and the question to Grafana ends by the client's time limit
  (which GrafanaClient checks by itself). The code passes `context.Background()` and
  sets no timeout on statements, so a PostgreSQL that accepts a connection and never
  answers would hold a request for ever: this fairness is an assumption about the
  database, not about the code.
* `WF(Compute(w))` for the steps the client makes by itself, and none for
  `Receive`, `Respond` and `Fail`: the servers may never answer. `SF(Tick)`: time
  goes on. It is strong, because a step without duration (about to store, about to
  send) disables `Tick` for that moment, and other calls could make such moments
  for ever.
* `WF(Run(r))` for each replica: Kubernetes starts a process that is down, and
  PostgreSQL answers it. Run contains no fault, no request and no edit. Faults are bounded, so
  that they come to an end; a replica that is killed for ever serves never. A replica that
  waits for another's users is not enabled; it is again when that one commits, and
  when it dies.
* Overview: `WF(Poll)`, the interval, which the browser goes on to fire; and each request for
  metrics and each write is answered. That an answer comes is an assumption about
  browser and network: axios has no time limit here, but the API's own requests to Grafana
  have one, and a browser reports a broken connection. Nothing is assumed about the list of
  panels, which nobody asks for again.
* Session: the same for every request of a tab, `WF(Load)` for an assignment to
  `location.href`, and the interval of the pages of a cluster (`AskPage` on `cluster`). There is no
  fairness for what people do.
* AdminPage: every request is answered, or fails.

## 5. Proofs

All theorems hold for every value of the constants that meets the assumptions
`TablesAssumption`, `PanelHandlersAssumption`, `GrafanaClientAssumption`,
`ProvisioningAssumption`, `OverviewAssumption`, `SessionAssumption` and
`AdminPageAssumption`. These say
what constants are (finite ranges of integers, a customer for each environment, grants of
the seed refer to clusters of the seed, each of the first panels has its own text); nothing is
assumed of how clusters are moved or of which have a secret or an address. The one with content
is that two client configurations have different cache keys, which is so unless a client id
contains "@".

**PanelHandlersProofs.** `Invariance` proves the inductive invariant. None of
the safety properties is inductive: `Confined` in a state before the write
says nothing of the request while it checks. The invariant adds to `TypeOK`

* what the tables keep by themselves: clusters are recorded in `placed`, every
  grant names a cluster that exists (the foreign key), and every grant of a user
  is of a cluster that was in an environment of a customer the user belongs to;
* what each request in flight has learned, at each step: the grant (`Held`), the
  token it carries, the row it read, and that the panel it is about to write —
  if it still exists — is in an environment where the cluster is or was.

The argument is that nothing a request has learned is ever taken back: grants and
`placed` only grow, a panel never changes environment, an id is not reused. These are
the lemmas of `TablesProofs`: one for each statement, which says that the tables
stay well formed and that the relation between the tables before and after keeps
what was learned. The handlers' proof then has one step per action. From `Invariance`
follow `TypeCorrect`, `AccessIsHeld`, `ViewerIsConfined`, `TenantsAreIsolated`
and the step property `DeletionIsFinal`. `NobodyIsMissed` has an invariant of its
own, `LoopInv`, about the loop of grants: with a customer that the loop is done with, every
cluster is granted that the request could know (its id was given out before the request
came) and that has been nowhere but with this customer. Clusters created later do not disturb it, as they have
higher ids; a cluster that is moved away falls out of the premise, since `placed` keeps where it was.
`ImplementsBoard` is the refinement: `HeldEntitles` turns what a request has learned into the
entitlement at its write, a write to a panel that is gone is an answer
(`WriteOfNothing`), and every other statement leaves the board as it is.
`StrangersWriteNothing` is the isolation of tenants for the writes themselves: the row that
is written is in an environment the user reaches, and, as `placed` keeps to one customer, of a
customer the user belongs to. `RequestsGoOn` is the safety half of `RequestsAnswered`: only its
own statements move a request, and each of them answers it, grants one more of the token's
customers, or goes on to the next stage of its handler along `Ways`, which lead away from the
arrival (`WaysLeadAway`); every stage it can be at is on one of these (`OnItsWay`).

**GrafanaClientProofs.** `Invariance` strengthens the three safety properties
to entries that are computed but not yet stored, and bounds the life of the token
of a call from below by the time its remaining requests may still take: a call with
`n` requests to send has a token with more than `(n - 1) * Timeout` left, and a call
that waits has that and what is left of the time limit. From it follow `TypeCorrect`,
`MarginIsKept`, `TokensAreOwn`, `TokensAreLive`. `TimeIsBounded` takes the time a call may
still wait (`Budget`) through every action: it never grows, and time that passes while the call
waits makes it less. It needs of the invariant that nobody has waited longer than the limit.

**ProvisioningProofs.** `Invariance` proves an invariant of two parts. `WellFormed`
says what the memory of a replica is at each step: at a commit, exactly the
rows of an organization or of the demo data, and no rows while no transaction is open.
`Apart` says that the rows of open transactions are new and no two
transactions have the same: ids come from sequences that only grow, and at most one
open transaction has users, none if users are committed. So `Commit` is a step
of Catalog and every other step leaves readers with what they saw:
`ImplementsCatalog`. Three more invariants are proved on top of it.
`OneReplicaSeedsOnce` assumes that there is only one replica, and adds that the panel
about to be inserted is not there; this is where a second replica breaks the
argument. `StartsFill` adds how far a start has come: an environment of
its list is still to be done, or has all default panels, or is the one at hand and has
those before the current one (`Filling`). `CopiesAreBounded`, for a finite set of replicas,
counts: the copies of a default panel in an environment and the replicas that are
about to insert one are together no more than the replicas. A replica joins them only
if its snapshot has no copy, and then none is committed (`CopiesInv`); an insert turns
one that is about to into a copy. `SeedsInTurn` and `StepsComeToAnEnd` are what
`EveryReplicaServes` rests on. The only statement that waits for another replica is the insertion of the
users, and of those transactions one is open at a time, which waits for nothing: no
circle of replicas that wait, by `Apart` and `WellFormed`. And no loop: each step of a replica goes
on to a later part, or to fewer environments, or to the next default panel (`Further`), and
although others add environments meanwhile, no step of theirs touches its list.

**FeedProofs.** `StaleIsExplained` proves of every feed what `overview_feed` checks of the
page. The property is inductive as soon as the types are known: whatever is answered for
another key than the selected one is recorded as late. `WaitingEnds` says of every feed that it
waits only for a request that is under way and whose end ends the waiting.

**OverviewProofs.** `TypeCorrect` is the base; it needs to know that every save and
deletion under way names a panel (`PanelWrites`), because the answer of one indexes the
page's copy with it. `ImplementsFeed` is the refinement, one action after the other; the
slot of `Feed` that stands for the two reads after an added panel must be free when a
panel was added, which is `OneAdd`: the form is disabled from the click until both
reads are answered. `StaleIsExplained` is then the theorem about `Feed`, instantiated.
`CopiesAreOwn` strengthens the copy to everything that may become it (`CopyInv`: rows, lists under
way, the list after an added panel, saves that were made); it stays true because the
expressions a panel has had only grow (`RowsGrow`). `EditsStayHome` needs that cards, shown or under
way, are of environments that the cluster they were asked for is or was in (`HomeInv`), that
`placed` has the present one (`PlacedNow`) and only grows (`PlacedGrows`), that panels do not
change their environment, and that a card with an editor is on the screen. `WaitingEnds` takes the spinner
from the theorem about `Feed` by the refinement, and has an invariant for the rest (`Waits`): a
card that waits names its own write, a new write takes a number that is free, and the
form is disabled by a write under way or by the two reads after it, one at a time.

**SessionProofs.** `RoutesAreRight` follows from types: every way to a path goes through a
guard. `OwnTokenIsKept` needs four facts about what is under way: each request fits the
page that waits for it (`WaitsFit`: `me()` only while it is loading, a sign-in only with the form
on the screen, others only with a user), a tab signs in once at a time (`OneLogin`),
only an expired token is answered 401 (`TokensRightful`), and what a tab has under way was sent
with its own token as long as that is the one stored (`SentWithOwn`). The last one is the
argument: when a sign-in returns, nothing else of that tab is under way. `WaitingEnds` is the
equality of flags and requests: each of `loading` and `submitting` is set where the request is
sent and cleared by its answer, and a load of the page discards both sides together.

**AdminPageProofs.** `FormsAreSaved` is inductive given the types. `FormsStayInside` needs that lists,
shown or under way, are true of the environments (`OptionsTrue`) and that environments keep
their organization (`EnvironmentStep`). `SecretsAreKept` is about steps, and
assumes nothing of the secrets there are: it needs that a new cluster is submitted with one
(`NewWithSecret`). `ChangesAreShown` has the invariant `ShowInv`: unless a write is reported to the page
and not handled yet, or a row changed unseen, the *last* load, as far as it is served or
shown, agrees with the tables; each write that is handled starts a load that
reads after it. `BlankForTheNewest`: loads overlap and each of them ends the blank page when it is
answered, so that the page is blank only while the *newest* is still to come; an earlier answer may end
it before, and no load that was never shown leaves it blank.

Each theorem states a property that a run checks on a small instance, but for the
inductive invariants and five: `RequestsGoOn`, `WaitingEnds` of Feed, `SeedsInTurn`,
`StepsComeToAnEnd` and `BlankForTheNewest`, whose statements stand beside their proofs.

Only model-checked: the liveness properties `RequestsAnswered`, `CallsReturn`,
`EveryReplicaServes`, `BecomesCurrent`, `SessionEnds`, `Settles` and `Responds`, and the
three violations. Liveness rests on weak and strong fairness, which are defined by ENABLED, and
tlapm has no rules for it. What is proved instead are safety halves: that each step leads nearer
to the end (`RequestsGoOn`, `TimeIsBounded`, `StepsComeToAnEnd`), that nobody waits in a circle
(`SeedsInTurn`), and that what is waited for is under way (the three `WaitingEnds`,
`BlankForTheNewest`). They say that nothing goes round for ever or is forgotten; that the next
step is then taken, and enabled, is what TLC adds. For `SessionEnds`, `Settles` and `BecomesCurrent`
these halves are only a part of the reason: the interval and the redirections are
model-checked as they are.

## 6. Where the code and its text disagree

With a run:

1. **panels.go:150** says that the panel must belong to the cluster's environment.
   The check and the `UPDATE` are two statements; a cluster moved in between makes
   the write reach a panel of an environment the cluster has left (`panel_moved`).
2. **migrate.go:95** calls `SeedDefaultPanels` idempotent. With two replicas a panel is
   seeded twice (`seed_twice`): the snapshot of the statement does not contain what
   another session inserts meanwhile, and no unique constraint stands behind it.
3. **README.md:292** has `/login` as a public page. `LoginPage` returns before its four
   `useState` calls while `isLoading` and runs them afterwards, so that React refuses to render it
   once `me()` has answered that nobody is signed in; there is no error boundary, and
   the tab is blank (`login_page`). Whoever is sent there by the interceptor arrives in this way.
   The other properties of Session hold with this behaviour in the model; somebody
   who was sent to `/login` by a guard, after `me()` had answered, does find the form.

Seen while modelling, without a run of their own:

4. **panels.go:213** says that the position is assigned after the current maximum.
   Two creations read the same maximum (panels.go:256). Ids break the tie of equal positions,
   and nothing but the order of the cards depends on it.
5. **README.md:140** has `DELETE /api/admin/clusters/:id`. It answers 500 for a
   cluster that is granted to anyone (admin_clusters.go:127), and nothing takes a grant back.
   The seeded clusters are granted from the start.
6. **README.md:195** has default panels seeded "when an environment is created (or on
   every startup for existing environments)". The demo environments are created by
   `Seed`, after `Migrate` has seeded panels (main.go:20): they have none until the next start.
7. **OverviewPage.tsx:55** updates the copy of a saved panel "so the next edit opens current
   value". A list of panels that was served before the save and comes after it overwrites
   the copy; `CopyIsOwn` says what is left.
8. **grafana/client.go:136** falls back to mock data "if Grafana is unreachable or
   unconfigured". One panel whose expression Grafana refuses does it too (client.go:187-190), for
   all panels of the cluster and as long as the row is so; the cards then have no ids, and with
   them no Edit button to repair it (MetricCard.tsx:179). What is
   left is `PUT /api/admin/panels/:id`, which no page calls, or the page of another cluster of
   the environment whose Grafana accepts the expression.
9. **MetricCard.tsx:71** saves to the panel its card has *now*. An administrator who moves the
   cluster makes the next answer of the interval put the panel of the same name in the other
   environment behind an open editor, with no error and no late answer; the default names
   are the same everywhere. The save then succeeds, with text that was written for the other
   panel. `EditStaysHome` is what remains true.
10. **migrate.go:121** seeds "every environment that is missing any of them". A list that breaks
   off while it is read is taken for the whole one.
11. **ClustersAdminPage.tsx:110** closes whatever form is open when an answer comes, with what was
   typed into it, and shows a failure in whatever form is open then. `SavesWhatWasOpened` says
   only that a submission goes to the cluster that its form was filled from.
12. **metrics.go:111** says of an error "Return empty list — frontend will hide the
   selector". `FetchNamespaces` does not look at the status (client.go:132): an error that Grafana
   answers in JSON is decoded to a null list without an error, and OverviewPage.tsx:119 reads its length.

## 7. What is not modelled

* Versions of the schema: the migrations are one step, from an empty database or from
  the schema they lead to. A statement of a killed replica that outlives its
  successor's start is not modelled either; it would act as a second replica.
* The verification of tokens and the refresh of the JWKS. What stands before
  the program (authservice, Keycloak) appears as whom a request without a token belongs
  to. Role and customers of a person are given: no operation changes the role of a user with a
  password, and that of a Keycloak user comes with every token.
* Single reads without a second statement (`ListPanels`, the lists of customers and users).
* The content of answers and of demo data, units, values, the translation of PromQL,
  how alerts, tables and the sidebar are drawn (AlertsTable, UsersTable, StatusBadge): data and
  presentation, without state that anything depends on.
* A list of panels that breaks off while GetMetrics or GetPanelsForCluster reads it
  (`rows.Err()` is not asked there either): the page would show fewer cards until the interval asks
  again. A list that cannot be read at all is a fault of Overview, which yields default cards.
* Of the overview page: clusters that are deleted while they are on the screen (the requests
  then fail, as for any other reason). The list of namespaces (any namespace may be offered; what its
  null answer does is above) and the button that tries a query, which changes
  only its own result. Of cards with the same name, one; a page with two is left to React.
* Of the organization page: the type of authentication. That a secret of another
  type is kept when the type changes and the secret is left blank is listed as a hazard.
* Of the session: the back button of the browser, and a page that the browser restores.
* The client secret is not part of the key of the token cache (a hazard without a property: a
  replaced secret is used after the entry expires). The models have no secrets' values.
* Configuration, routes, JSON types, layout and manifests keep no state.
* A pool of connections that runs out: the pool makes statements wait; it is part of
  the assumption that statements are answered.

## 8. Plan

Done: all modules above; every safety and step property that a passing run checks is also a
theorem, and so are the three refinements (TenantBoard, Feed, Catalog).
What is left, in this order:

1. **Composition of Overview and PanelHandlers**: `ServeWrite` of the page is one step where
   the handler has three statements.
2. The client secret in GrafanaClient, and a credential that changes while tokens are cached.
3. The safety halves of `Settles` and `BecomesCurrent`: a measure of the redirections of a tab,
   and of the answers that are to come before what is selected is shown.
