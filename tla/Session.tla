------------------------------ MODULE Session -------------------------------
(***************************************************************************)
(* Who is signed in.  Tabs of one browser share the token in localStorage  *)
(* (ui/src/api/client.ts, ui/src/auth/AuthContext.tsx); each shows a route *)
(* (App.tsx and the guards under routes/) and has requests under way.  An  *)
(* answer is handled some time after the server gave it, in any order.     *)
(*                                                                         *)
(* Where authservice stands before the program, a request without a token  *)
(* gets the identity of its session.  A person without a role is one whose *)
(* Keycloak groups are mapped to none.                                     *)
(***************************************************************************)
EXTENDS Naturals

CONSTANTS
    Tabs,
    People,
    RoleOf,         \* "admin", "viewer" or "none"
    MaxToken,       \* the tokens Login can give out, numbered as given
    MaxRequests,    \* requests each tab has under way at once
    MaxEvents,      \* what people do, what ends by itself and what fails, together
    None

VARIABLES
    stored,     \* localStorage
    holder,     \* the person each token was given to
    owner,      \* history: the tab each token was given to
    expired,    \* the tokens whose 24 hours are over
    sso,        \* the person of the authservice session
    tab,        \* the state of each tab
    requests,   \* the requests each tab has under way
    thrown,     \* history: who removed a token that was good
    events

server == <<holder, owner, expired, sso>>
vars == <<stored, server, tab, requests, thrown, events>>

Tokens == 1 .. MaxToken
NoToken == 0
Slots(i) == 1 .. MaxRequests[i]

Paths == {"login", "home", "cluster", "admin"}
LogoutUrl == "globallogout"

Tab == [path : Paths, leaving : Paths \cup {LogoutUrl, None}, user : People \cup {None},
        loading : BOOLEAN, submitting : BOOLEAN, crashed : BOOLEAN]

\* who: the person of a 200 of Me or Login; token: the one Login gave.
Answers == [status : {200, 401, 403, 500}, who : People \cup {None},
            token : Tokens \cup {NoToken}]
Requests == [kind : {"me", "login", "page", "cluster", "admin"},
             token : Tokens \cup {NoToken}, who : People \cup {None}, answer : Answers \cup {None}]

ASSUME SessionAssumption ==
    /\ MaxToken \in Nat /\ MaxRequests \in [Tabs -> Nat \ {0}]
    /\ MaxEvents \in Nat
    /\ RoleOf \in [People -> {"admin", "viewer", "none"}]
    /\ None \notin People \cup Paths \cup {LogoutUrl} \cup Answers \cup Requests

Event == events < MaxEvents /\ events' = events + 1

-----------------------------------------------------------------------------
(* Routes.                                                                  *)

LoginPage(t) == IF t.user # None THEN [t EXCEPT !.path = "home"] ELSE t

ProtectedRoute(t) == IF t.user = None THEN [t EXCEPT !.path = "login"] ELSE t

\* As if AdminRoute asked only for somebody to be signed in.
AnyRoute(t) == t

\* Shows nothing to nobody.
AdminRoute(t) ==
    IF t.user # None /\ RoleOf[t.user] # "admin" THEN [t EXCEPT !.path = "home"] ELSE t

\* Nothing is rendered, and nobody redirected, while isLoading.
Render(t) ==
    CASE t.loading -> t
      [] ~t.loading /\ t.path = "login" -> LoginPage(t)
      [] ~t.loading /\ t.path = "admin" -> AdminRoute(t)
      [] ~t.loading /\ t.path \in {"home", "cluster"} -> ProtectedRoute(t)

\* A page with the sidebar is on the screen.
Shows(i) ==
    ~tab[i].crashed /\ ~tab[i].loading /\ tab[i].user # None /\ tab[i].path # "login"

\* The form is on the screen.
AsksForLogin(i) == ~tab[i].crashed /\ ~tab[i].loading /\ tab[i].path = "login"

Fresh(path) == [path |-> path, leaving |-> None, user |-> None, loading |-> TRUE,
                submitting |-> FALSE, crashed |-> FALSE]

Request(kind, who) == [kind |-> kind, token |-> stored, who |-> who, answer |-> None]

\* The first effect is me().  What the page before had under way is gone.
Start(i, path) ==
    /\ tab' = [tab EXCEPT ![i] = Fresh(path)]
    /\ requests' = [requests EXCEPT ![i] =
            [r \in Slots(i) |-> IF r = 1 THEN Request("me", None) ELSE None]]

-----------------------------------------------------------------------------
(* What people do.                                                          *)

\* Enters an address, or reloads.  An unknown path is redirected to '/'.
Open(i, path) ==
    /\ Event
    /\ Start(i, path)
    /\ UNCHANGED <<stored, server, thrown>>

\* A link of the sidebar.
Follow(i, path) ==
    /\ Event
    /\ Shows(i)
    /\ path = "admin" => RoleOf[tab[i].user] = "admin"
    /\ tab' = [tab EXCEPT ![i].path = path]
    /\ UNCHANGED <<stored, server, requests, thrown>>

Send(i, kind, who) ==
    \E r \in Slots(i) :
        /\ requests[i][r] = None /\ \A q \in 1 .. r - 1 : requests[i][q] # None
        /\ requests' = [requests EXCEPT ![i][r] = Request(kind, who)]

\* As if the form were there before it is known that nobody is signed in.
SubmitEarly(i, who) ==
    /\ Event
    /\ ~tab[i].crashed /\ tab[i].path = "login"
    /\ ~tab[i].submitting
    /\ Send(i, "login", who)
    /\ tab' = [tab EXCEPT ![i].submitting = TRUE]
    /\ UNCHANGED <<stored, server, thrown>>

Submit(i, who) ==
    /\ Event
    /\ AsksForLogin(i) /\ ~tab[i].submitting
    /\ Send(i, "login", who)
    /\ tab' = [tab EXCEPT ![i].submitting = TRUE]
    /\ UNCHANGED <<stored, server, thrown>>

\* As if logout stored null instead of removing the token.
LogoutWithNull(i) ==
    /\ Event
    /\ Shows(i)
    /\ stored' = None
    /\ tab' = [tab EXCEPT ![i].leaving = LogoutUrl]
    /\ UNCHANGED <<server, requests, thrown>>

Logout(i) ==
    /\ Event
    /\ Shows(i)
    /\ stored' = NoToken
    /\ tab' = [tab EXCEPT ![i].leaving = LogoutUrl]
    /\ UNCHANGED <<server, requests, thrown>>

\* An assignment to window.location.href takes effect some time later.  The
\* logout address ends the session and comes back at an unknown path.
Load(i) ==
    /\ tab[i].leaving # None
    /\ \/ tab[i].leaving \in Paths /\ Start(i, tab[i].leaving) /\ UNCHANGED sso
       \/ tab[i].leaving = LogoutUrl /\ Start(i, "home") /\ sso' = None
    /\ UNCHANGED <<stored, holder, owner, expired, thrown, events>>

Expire(t) ==
    /\ Event
    /\ holder[t] # None /\ t \notin expired
    /\ expired' = expired \cup {t}
    /\ UNCHANGED <<stored, holder, owner, sso, tab, requests, thrown>>

\* Keycloak signs somebody in, or the session of authservice ends.
ChangeSso(who) ==
    /\ Event
    /\ (sso = None) # (who = None)
    /\ sso' = who
    /\ UNCHANGED <<stored, holder, owner, expired, tab, requests, thrown>>

\* The sidebar asks when it is mounted; the pages of a cluster ask for it, and
\* go on to do so at an interval.
AskPage(i) ==
    /\ Shows(i) /\ tab[i].path # "admin"
    /\ Send(i, IF tab[i].path = "cluster" THEN "cluster" ELSE "page", None)
    /\ UNCHANGED <<stored, server, tab, thrown, events>>

AskAdmin(i) ==
    /\ Shows(i) /\ tab[i].path = "admin"
    /\ Send(i, "admin", None)
    /\ UNCHANGED <<stored, server, tab, thrown, events>>

-----------------------------------------------------------------------------
(* What the server answers.                                                 *)

Holder(t) == IF t = NoToken THEN sso ELSE IF t \in expired THEN None ELSE holder[t]

Allowed(kind, who) ==
    RoleOf[who] # "none" /\ (kind = "admin" => RoleOf[who] = "admin")

\* A cluster is refused to a viewer who is not granted it; grants come and go.
Refusable(kind, who) == kind = "cluster" /\ RoleOf[who] # "admin"

Statuses(kind, who) ==
    IF who = None THEN {401}
    ELSE {s \in {200, 403} : /\ s = 200 => Allowed(kind, who)
                             /\ s = 403 => ~Allowed(kind, who) \/ Refusable(kind, who)}

IsNextToken(t) == holder[t] = None /\ \A u \in 1 .. t - 1 : holder[u] # None

Answer(i, r, status, who, token) ==
    requests' = [requests EXCEPT ![i][r].answer = [status |-> status, who |-> who, token |-> token]]

Waiting(i, r) == requests[i][r] # None /\ requests[i][r].answer = None

\* Auth, RequireAdmin and Me.
Serve(i, r) ==
    /\ Waiting(i, r) /\ requests[i][r].kind # "login"
    /\ LET kind == requests[i][r].kind
           who == Holder(requests[i][r].token)
       IN  \E status \in Statuses(kind, who) :
              Answer(i, r, status, IF status = 200 /\ kind = "me" THEN who ELSE None, NoToken)
    /\ UNCHANGED <<stored, server, tab, thrown, events>>

\* Login answers 401 for a wrong password and gives out a token for a right one.
\* People without a role are not in the table.
ServeLogin(i, r) ==
    /\ Waiting(i, r) /\ requests[i][r].kind = "login"
    /\ \/ Answer(i, r, 401, None, NoToken) /\ UNCHANGED <<holder, owner>>
       \/ \E t \in Tokens, who \in {requests[i][r].who} :
             /\ IsNextToken(t) /\ RoleOf[who] # "none"
             /\ Answer(i, r, 200, who, t)
             /\ holder' = [holder EXCEPT ![t] = who]
             /\ owner' = [owner EXCEPT ![t] = i]
    /\ UNCHANGED <<stored, expired, sso, tab, thrown, events>>

\* No answer, or a 500.
Fault(i, r) ==
    /\ Waiting(i, r)
    /\ Event
    /\ Answer(i, r, 500, None, NoToken)
    /\ UNCHANGED <<stored, server, tab, thrown>>

-----------------------------------------------------------------------------
(* What the tab does with an answer.                                        *)

\* As if the interceptor did not look where it is.
RejectedAnywhere(i, a) == a.status = 401

Rejected(i, a) == a.status = 401 /\ tab[i].path # "login"

Forbidden(q) == q.answer.status = 403 /\ q.kind \notin {"me", "login"}

\* As if the interceptor left the page where it is.
StayPut(i, q) == tab[i]

\* A 401 goes to the login page, except there; a 403 goes to '/', except of /auth/.
Intercepted(i, q) ==
    [tab[i] EXCEPT !.leaving = IF Rejected(i, q.answer) THEN "login"
                               ELSE IF Forbidden(q) THEN "home" ELSE @]

\* localStorage.removeItem('token') of whatever is there by now.
Removal(i, a) ==
    IF Rejected(i, a)
    THEN /\ stored' = NoToken
         /\ thrown' = IF stored # NoToken /\ stored \notin expired
                      THEN thrown \cup {[token |-> stored, by |-> i]} ELSE thrown
    ELSE UNCHANGED <<stored, thrown>>

Returned(i, r, kinds) ==
    /\ requests[i][r] # None /\ requests[i][r].kind \in kinds
    /\ requests[i][r].answer # None
    /\ requests' = [requests EXCEPT ![i][r] = None]
    /\ UNCHANGED <<server, events>>

\* React does not accept that a component calls more hooks than when it was
\* rendered first: LoginPage returns before useState while isLoading, and goes
\* on when nobody is signed in.  No boundary catches what React throws.
Breaks(t) == t.path = "login" /\ t.loading

\* .then(setUser), .catch(() => setUser(null)), .finally(() => setIsLoading(false))
ReceiveMe(i, r) ==
    /\ Returned(i, r, {"me"})
    /\ LET q == requests[i][r]
           t == Intercepted(i, q)
           known == [t EXCEPT !.user = q.answer.who, !.loading = FALSE]
       IN  /\ Removal(i, q.answer)
           /\ tab' = [tab EXCEPT ![i] =
                 IF known.user = None /\ Breaks(t) THEN [known EXCEPT !.crashed = TRUE]
                 ELSE Render(known)]

\* As if the form were enabled again only when somebody signed in.
ReceiveGoodLogin(i, r) ==
    /\ Returned(i, r, {"login"})
    /\ LET q == requests[i][r]
       IN  \/ /\ q.answer.status = 200
              /\ stored' = q.answer.token
              /\ tab' = [tab EXCEPT ![i] = [@ EXCEPT !.user = q.answer.who, !.path = "home",
                                                     !.submitting = FALSE]]
              /\ UNCHANGED thrown
           \/ /\ q.answer.status # 200
              /\ Removal(i, q.answer)
              /\ tab' = [tab EXCEPT ![i] = Intercepted(i, q)]

\* login and handleSubmit.  On success the token and the user are there and the
\* page is '/' in one step.
ReceiveLogin(i, r) ==
    /\ Returned(i, r, {"login"})
    /\ LET q == requests[i][r]
       IN  \/ /\ q.answer.status = 200
              /\ stored' = q.answer.token
              /\ tab' = [tab EXCEPT ![i] = [@ EXCEPT !.user = q.answer.who, !.path = "home",
                                                     !.submitting = FALSE]]
              /\ UNCHANGED thrown
           \/ /\ q.answer.status # 200
              /\ Removal(i, q.answer)
              /\ tab' = [tab EXCEPT ![i] = [Intercepted(i, q) EXCEPT !.submitting = FALSE]]

ReceivePage(i, r) ==
    /\ Returned(i, r, {"page", "cluster", "admin"})
    /\ Removal(i, requests[i][r].answer)
    /\ tab' = [tab EXCEPT ![i] = Intercepted(i, requests[i][r])]

-----------------------------------------------------------------------------

\* The tabs were opened, by somebody signed in with authservice or not.
Init ==
    /\ stored = NoToken
    /\ holder = [t \in Tokens |-> None] /\ owner = [t \in Tokens |-> None]
    /\ expired = {} /\ thrown = {}
    /\ sso \in People \cup {None}
    /\ tab = [i \in Tabs |-> Fresh("home")]
    /\ requests = [i \in Tabs |-> [r \in Slots(i) |-> IF r = 1 THEN Request("me", None) ELSE None]]
    /\ events = 0

Receive(i, r) == ReceiveMe(i, r) \/ ReceiveLogin(i, r) \/ ReceivePage(i, r)

Next ==
    \/ \E i \in Tabs, path \in Paths : Open(i, path)
    \/ \E i \in Tabs, path \in {"cluster", "admin"} : Follow(i, path)
    \/ \E i \in Tabs, who \in People : Submit(i, who)
    \/ \E i \in Tabs : Logout(i) \/ Load(i) \/ AskPage(i) \/ AskAdmin(i)
    \/ \E t \in Tokens : Expire(t)
    \/ \E who \in People \cup {None} : ChangeSso(who)
    \/ \E i \in Tabs : \E r \in Slots(i) :
          Serve(i, r) \/ ServeLogin(i, r) \/ Fault(i, r) \/ Receive(i, r)

Spec == Init /\ [][Next]_vars

\* Requests are answered, a page that is left is left, and the pages of a
\* cluster go on to ask.
FairSpec ==
    /\ Spec
    /\ \A i \in Tabs :
          /\ WF_vars(Load(i))
          /\ WF_vars(tab[i].path = "cluster" /\ AskPage(i))
          /\ \A r \in Slots(i) : WF_vars(Serve(i, r) \/ ServeLogin(i, r) \/ Receive(i, r))

-----------------------------------------------------------------------------
(* Properties.                                                              *)

TypeOK ==
    /\ stored \in Tokens \cup {NoToken}
    /\ holder \in [Tokens -> People \cup {None}] /\ owner \in [Tokens -> Tabs \cup {None}]
    /\ expired \subseteq Tokens /\ sso \in People \cup {None}
    /\ tab \in [Tabs -> Tab]
    /\ \A i \in Tabs : requests[i] \in [Slots(i) -> Requests \cup {None}]
    /\ thrown \subseteq [token : Tokens, by : Tabs]
    /\ events \in 0 .. MaxEvents

\* A page that only admins may see is shown to nobody else, and nobody is asked
\* to sign in who is signed in, however the tab came there.
RightRoute ==
    \A i \in Tabs : ~tab[i].loading /\ tab[i].user # None =>
        /\ tab[i].path # "login"
        /\ tab[i].path = "admin" => RoleOf[tab[i].user] = "admin"

\* The interceptor removes whatever token is there when a 401 arrives.  It may
\* be the good token that another tab has stored meanwhile, but never one that
\* this tab signed in with: nothing that was sent without it is still under way.
KeepsOwnToken == \A x \in thrown : owner[x.token] # x.by

Asks(i, kind) == \E r \in Slots(i) : requests[i][r] # None /\ requests[i][r].kind = kind

\* A page is blank exactly while it is asked who is signed in, and the form is
\* disabled exactly while it is answered: no reload, redirection or late answer
\* leaves a page that waits for nothing, or an answer that nothing waits for.
WaitsExactly ==
    \A i \in Tabs : /\ tab[i].loading <=> Asks(i, "me")
                    /\ tab[i].submitting <=> Asks(i, "login")

Outlived(i) ==
    Shows(i) /\ tab[i].path = "cluster" /\ tab[i].leaving = None /\ Holder(stored) = None

\* A page that goes on to ask does not stay on the screen when the session it
\* was shown for is over.
SessionEnds == \A i \in Tabs : []<>~Outlived(i)

Settled(i) == ~tab[i].loading /\ tab[i].leaving = None

\* Once people stop doing things, every tab is done with loading and nothing
\* sends it to another page: no redirection leads back to itself.
Settles == \A i \in Tabs : <>[]Settled(i)

\* README.md:292 says of /login that it is public: whoever is there can sign in.
LoginPageStands == \A i \in Tabs : ~tab[i].crashed
=============================================================================
