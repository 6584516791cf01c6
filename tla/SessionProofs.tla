---------------------------- MODULE SessionProofs ----------------------------
(* Proofs about the session, for any tabs, people, tokens and bounds.       *)
EXTENDS Session, TLAPS

USE DEF NoToken, server

-----------------------------------------------------------------------------
(* Types, and what each kind of step does to the requests.                  *)

\* There are requests of the tabs and of nobody else.
TypeInv == TypeOK /\ requests = [i \in Tabs |-> requests[i]]

LEMMA SlotOne == ASSUME NEW i \in Tabs PROVE 1 \in Slots(i)
BY SessionAssumption DEF Slots

LEMMA RequestType ==
    ASSUME TypeOK, NEW kind \in {"me", "login", "page", "cluster", "admin"}, NEW who \in People \cup {None}
    PROVE  Request(kind, who) \in Requests /\ Request(kind, who) # None
<1>1. Request(kind, who) \in Requests
  BY DEF Request, Requests, TypeOK
<1> QED
  BY <1>1, SessionAssumption

LEMMA FreshType ==
    ASSUME NEW path \in Paths PROVE Fresh(path) \in Tab
BY DEF Fresh, Tab

LEMMA EventType == ASSUME TypeOK, Event PROVE events' \in 0 .. MaxEvents
BY SessionAssumption DEF TypeOK, Event

\* Only the request in slot r of tab i is another one after the step.
Only(i, r, q) ==
    /\ requests' = [j \in Tabs |-> requests'[j]]
    /\ \A j \in Tabs \ {i} : requests'[j] = requests[j]
    /\ requests'[i] = [requests[i] EXCEPT ![r] = q]

LEMMA OnlyType ==
    ASSUME TypeInv, NEW i \in Tabs, NEW r \in Slots(i), NEW q \in Requests \cup {None},
           Only(i, r, q)
    PROVE  /\ requests' = [j \in Tabs |-> requests'[j]]
           /\ \A j \in Tabs : requests'[j] \in [Slots(j) -> Requests \cup {None}]
           /\ \A j \in Tabs : \A s \in Slots(j) :
                 requests'[j][s] = IF j = i /\ s = r THEN q ELSE requests[j][s]
BY DEF Only, TypeInv, TypeOK

LEMMA StartEffect ==
    ASSUME TypeInv, NEW i \in Tabs, NEW path \in Paths, Start(i, path)
    PROVE  /\ tab' \in [Tabs -> Tab]
           /\ requests' = [j \in Tabs |-> requests'[j]]
           /\ \A j \in Tabs : requests'[j] \in [Slots(j) -> Requests \cup {None}]
           /\ \A j \in Tabs \ {i} : requests'[j] = requests[j] /\ tab'[j] = tab[j]
           /\ tab'[i] = Fresh(path)
           /\ \A r \in Slots(i) :
                 requests'[i][r] = IF r = 1 THEN Request("me", None) ELSE None
<1>1. Request("me", None) \in Requests
  BY RequestType DEF TypeInv
<1>2. [r \in Slots(i) |-> IF r = 1 THEN Request("me", None) ELSE None]
        \in [Slots(i) -> Requests \cup {None}]
  BY <1>1
<1>3. tab' = [tab EXCEPT ![i] = Fresh(path)] /\ Fresh(path) \in Tab
  BY FreshType DEF Start
<1>4. requests' = [requests EXCEPT ![i] =
            [r \in Slots(i) |-> IF r = 1 THEN Request("me", None) ELSE None]]
  BY DEF Start
<1> QED
  BY <1>2, <1>3, <1>4 DEF TypeInv, TypeOK

LEMMA SendEffect ==
    ASSUME TypeInv, NEW i \in Tabs, NEW kind \in {"login", "page", "cluster", "admin"},
           NEW who \in People \cup {None}, Send(i, kind, who)
    PROVE  \E r \in Slots(i) : requests[i][r] = None /\ Only(i, r, Request(kind, who))
<1>1. PICK r \in Slots(i) : /\ requests[i][r] = None
                            /\ requests' = [requests EXCEPT ![i][r] = Request(kind, who)]
  BY DEF Send
<1> QED
  BY <1>1 DEF Only, TypeInv, TypeOK

Answered(q, status, who, token) ==
    [q EXCEPT !.answer = [status |-> status, who |-> who, token |-> token]]

LEMMA AnsweredType ==
    ASSUME NEW q \in Requests, NEW status \in {200, 401, 403, 500},
           NEW who \in People \cup {None}, NEW token \in Tokens \cup {NoToken}
    PROVE  /\ Answered(q, status, who, token) \in Requests
           /\ Answered(q, status, who, token).kind = q.kind
           /\ Answered(q, status, who, token).token = q.token
           /\ Answered(q, status, who, token).answer.status = status
           /\ Answered(q, status, who, token).answer.token = token
<1>1. [status |-> status, who |-> who, token |-> token] \in Answers
  BY DEF Answers
<1> QED
  BY <1>1 DEF Answered, Requests

LEMMA AnswerEffect ==
    ASSUME TypeInv, NEW i \in Tabs, NEW r \in Slots(i), NEW status, NEW who, NEW token,
           Waiting(i, r), Answer(i, r, status, who, token)
    PROVE  /\ requests[i][r] \in Requests
           /\ Only(i, r, Answered(requests[i][r], status, who, token))
<1>1. requests[i][r] \in Requests
  BY DEF Waiting, TypeInv, TypeOK
<1> QED
  BY <1>1 DEF Only, Answer, Answered, TypeInv, TypeOK

LEMMA ReturnedEffect ==
    ASSUME TypeInv, NEW i \in Tabs, NEW r \in Slots(i), NEW kinds, Returned(i, r, kinds)
    PROVE  /\ Only(i, r, None)
           /\ requests[i][r] \in Requests /\ requests[i][r].kind \in kinds
           /\ requests[i][r].answer \in Answers
<1>1. requests[i][r] \in Requests
  BY DEF Returned, TypeInv, TypeOK
<1> QED
  BY <1>1 DEF Only, Returned, TypeInv, TypeOK, Requests

LEMMA InterceptedType ==
    ASSUME TypeInv, NEW i \in Tabs, NEW q
    PROVE  /\ Intercepted(i, q) \in Tab
           /\ Intercepted(i, q).path = tab[i].path /\ Intercepted(i, q).user = tab[i].user
           /\ Intercepted(i, q).loading = tab[i].loading
           /\ Intercepted(i, q).submitting = tab[i].submitting
<1>1. tab[i] \in Tab
  BY DEF TypeInv, TypeOK
<1> QED
  BY <1>1 DEF Intercepted, Tab, Paths

LEMMA RemovalType ==
    ASSUME TypeOK, NEW i \in Tabs, NEW a, Removal(i, a)
    PROVE  /\ stored' \in Tokens \cup {NoToken}
           /\ thrown' \subseteq [token : Tokens, by : Tabs]
BY DEF TypeOK, Removal

\* Rendering redirects and does nothing else.
LEMMA RenderType ==
    ASSUME NEW t \in Tab
    PROVE  /\ Render(t) \in Tab
           /\ Render(t).user = t.user /\ Render(t).loading = t.loading
           /\ Render(t).submitting = t.submitting
BY DEF Render, LoginPage, AdminRoute, ProtectedRoute, Tab, Paths

LEMMA KnownType ==
    ASSUME TypeInv, NEW i \in Tabs, NEW q \in Requests, q.answer \in Answers
    PROVE  /\ [Intercepted(i, q) EXCEPT !.user = q.answer.who, !.loading = FALSE] \in Tab
           /\ \A t \in Tab : [t EXCEPT !.crashed = TRUE] \in Tab
<1>1. Intercepted(i, q) \in Tab
  BY InterceptedType
<1>2. q.answer.who \in People \cup {None}
  BY DEF Answers
<1>3. \A t \in Tab, who \in People \cup {None} :
         /\ [t EXCEPT !.user = who, !.loading = FALSE] \in Tab
         /\ [t EXCEPT !.crashed = TRUE] \in Tab
  BY DEF Tab
<1> QED
  BY <1>1, <1>2, <1>3

LEMMA HolderType ==
    ASSUME TypeOK, NEW t \in Tokens \cup {NoToken} PROVE Holder(t) \in People \cup {None}
BY DEF Holder, TypeOK

LEMMA TypeStep == TypeInv /\ [Next]_vars => TypeInv'
<1> SUFFICES ASSUME TypeInv, [Next]_vars PROVE TypeInv'
  OBVIOUS
<1>1. ASSUME NEW i \in Tabs, NEW path \in Paths, Open(i, path) PROVE TypeInv'
  <2>1. Start(i, path) /\ events' \in 0 .. MaxEvents
    BY <1>1, EventType DEF Open, TypeInv
  <2> QED
    BY <1>1, <2>1, StartEffect DEF Open, TypeInv, TypeOK
<1>2. ASSUME NEW i \in Tabs, NEW path \in {"cluster", "admin"}, Follow(i, path) PROVE TypeInv'
  <2>1. tab' \in [Tabs -> Tab]
    BY <1>2 DEF Follow, TypeInv, TypeOK, Tab, Paths
  <2>2. events' \in 0 .. MaxEvents
    BY <1>2, EventType DEF Follow, TypeInv
  <2> QED
    BY <1>2, <2>1, <2>2 DEF Follow, TypeInv, TypeOK
<1>3. ASSUME NEW i \in Tabs, NEW who \in People, Submit(i, who) PROVE TypeInv'
  <2>1. PICK r \in Slots(i) : Only(i, r, Request("login", who))
    BY <1>3, SendEffect DEF Submit
  <2>2. Request("login", who) \in Requests
    BY RequestType DEF TypeInv
  <2>3. events' \in 0 .. MaxEvents
    BY <1>3, EventType DEF Submit, TypeInv
  <2>4. tab' \in [Tabs -> Tab]
    BY <1>3 DEF Submit, TypeInv, TypeOK, Tab
  <2> QED
    BY <1>3, <2>1, <2>2, <2>3, <2>4, OnlyType DEF Submit, TypeInv, TypeOK
<1>4. ASSUME NEW i \in Tabs, Logout(i) PROVE TypeInv'
  <2>1. tab' \in [Tabs -> Tab]
    BY <1>4 DEF Logout, TypeInv, TypeOK, Tab
  <2>2. events' \in 0 .. MaxEvents
    BY <1>4, EventType DEF Logout, TypeInv
  <2> QED
    BY <1>4, <2>1, <2>2 DEF Logout, TypeInv, TypeOK
<1>5. ASSUME NEW i \in Tabs, Load(i) PROVE TypeInv'
  <2>1. PICK path \in Paths : Start(i, path)
    BY <1>5 DEF Load, Paths
  <2>2. sso' \in People \cup {None}
    BY <1>5 DEF Load, TypeInv, TypeOK
  <2> QED
    BY <1>5, <2>1, <2>2, StartEffect DEF Load, TypeInv, TypeOK
<1>6. ASSUME NEW i \in Tabs, NEW kind \in {"page", "cluster", "admin"}, Send(i, kind, None),
             UNCHANGED <<stored, server, tab, thrown, events>>
      PROVE  TypeInv'
  <2>1. PICK r \in Slots(i) : Only(i, r, Request(kind, None))
    BY <1>6, SendEffect
  <2>2. Request(kind, None) \in Requests
    BY RequestType DEF TypeInv
  <2> QED
    BY <1>6, <2>1, <2>2, OnlyType DEF TypeInv, TypeOK
<1>7. ASSUME NEW t \in Tokens, Expire(t) PROVE TypeInv'
  BY <1>7, EventType DEF Expire, TypeInv, TypeOK
<1>8. ASSUME NEW who \in People \cup {None}, ChangeSso(who) PROVE TypeInv'
  BY <1>8, EventType DEF ChangeSso, TypeInv, TypeOK
<1>9. ASSUME NEW i \in Tabs, NEW r \in Slots(i), NEW status \in {200, 401, 403, 500},
             NEW who \in People \cup {None}, NEW token \in Tokens \cup {NoToken},
             Waiting(i, r), Answer(i, r, status, who, token)
      PROVE  /\ requests' = [j \in Tabs |-> requests'[j]]
             /\ \A j \in Tabs : requests'[j] \in [Slots(j) -> Requests \cup {None}]
  <2> DEFINE q == Answered(requests[i][r], status, who, token)
  <2>1. requests[i][r] \in Requests /\ Only(i, r, q)
    BY <1>9, AnswerEffect
  <2>2. q \in Requests
    BY <2>1, AnsweredType
  <2> HIDE DEF q
  <2> QED
    BY <2>1, <2>2, OnlyType
<1>10. ASSUME NEW i \in Tabs, NEW r \in Slots(i), Serve(i, r) PROVE TypeInv'
  <2>1. requests[i][r].token \in Tokens \cup {NoToken}
    BY <1>10 DEF Serve, Waiting, TypeInv, TypeOK, Requests
  <2>2. Holder(requests[i][r].token) \in People \cup {None}
    BY <2>1, HolderType DEF TypeInv
  <2>3. PICK status \in {200, 401, 403, 500}, who \in People \cup {None} :
           Waiting(i, r) /\ Answer(i, r, status, who, NoToken)
    BY <1>10, <2>2 DEF Serve, Statuses
  <2>4. /\ requests' = [j \in Tabs |-> requests'[j]]
        /\ \A j \in Tabs : requests'[j] \in [Slots(j) -> Requests \cup {None}]
    BY <1>9, <2>3
  <2> QED
    BY <1>10, <2>4 DEF Serve, TypeInv, TypeOK
<1>11. ASSUME NEW i \in Tabs, NEW r \in Slots(i), ServeLogin(i, r) PROVE TypeInv'
  <2>1. requests[i][r].who \in People \cup {None}
    BY <1>11 DEF ServeLogin, Waiting, TypeInv, TypeOK, Requests
  <2>2. PICK status \in {200, 401, 403, 500}, who \in People \cup {None}, t \in Tokens \cup {NoToken} :
           Waiting(i, r) /\ Answer(i, r, status, who, t)
    BY <1>11, <2>1 DEF ServeLogin
  <2>4. /\ requests' = [j \in Tabs |-> requests'[j]]
        /\ \A j \in Tabs : requests'[j] \in [Slots(j) -> Requests \cup {None}]
    BY <1>9, <2>2
  <2>3. holder' \in [Tokens -> People \cup {None}] /\ owner' \in [Tokens -> Tabs \cup {None}]
    BY <1>11, <2>1 DEF ServeLogin, TypeInv, TypeOK
  <2> QED
    BY <1>11, <2>3, <2>4 DEF ServeLogin, TypeInv, TypeOK
<1>12. ASSUME NEW i \in Tabs, NEW r \in Slots(i), Fault(i, r) PROVE TypeInv'
  <2>1. events' \in 0 .. MaxEvents
    BY <1>12, EventType DEF Fault, TypeInv
  <2>2. /\ requests' = [j \in Tabs |-> requests'[j]]
        /\ \A j \in Tabs : requests'[j] \in [Slots(j) -> Requests \cup {None}]
    BY <1>9, <1>12 DEF Fault
  <2> QED
    BY <1>12, <2>1, <2>2 DEF Fault, TypeInv, TypeOK
<1>13. ASSUME NEW i \in Tabs, NEW r \in Slots(i), Receive(i, r) PROVE TypeInv'
  <2>1. /\ Only(i, r, None)
        /\ requests[i][r] \in Requests /\ requests[i][r].answer \in Answers
        /\ UNCHANGED <<server, events>>
    BY <1>13, ReturnedEffect DEF Receive, ReceiveMe, ReceiveLogin, ReceivePage, Returned
  <2>2. stored' \in Tokens \cup {NoToken} /\ thrown' \subseteq [token : Tokens, by : Tabs]
    <3>1. CASE ReceiveLogin(i, r) /\ requests[i][r].answer.status = 200
      BY <2>1, <3>1 DEF ReceiveLogin, Answers, TypeInv, TypeOK
    <3>2. CASE Removal(i, requests[i][r].answer)
      BY <3>2, RemovalType DEF TypeInv
    <3> QED
      BY <1>13, <3>1, <3>2 DEF Receive, ReceiveMe, ReceiveLogin, ReceivePage
  <2>3. tab' \in [Tabs -> Tab]
    <3>1. \E t \in Tab : tab' = [tab EXCEPT ![i] = t]
      <4>1. CASE ReceiveMe(i, r)
        BY <2>1, <4>1, KnownType, RenderType DEF ReceiveMe
      <4>2. CASE ReceiveLogin(i, r) /\ requests[i][r].answer.status = 200
        <5>1. PICK who \in People \cup {None} : who = requests[i][r].answer.who
          BY <2>1 DEF Answers
        <5>2. \A t \in Tab :
                 [t EXCEPT !.user = who, !.path = "home", !.submitting = FALSE] \in Tab
          BY DEF Tab, Paths
        <5>3. tab' = [tab EXCEPT ![i] = [tab[i] EXCEPT !.user = who, !.path = "home",
                                                       !.submitting = FALSE]]
          BY <4>2, <5>1 DEF ReceiveLogin, TypeInv, TypeOK, Tab
        <5> QED
          BY <5>2, <5>3 DEF TypeInv, TypeOK
      <4>3. CASE ReceiveLogin(i, r) /\ requests[i][r].answer.status # 200
        <5>1. Intercepted(i, requests[i][r]) \in Tab
          BY InterceptedType
        <5>2. [Intercepted(i, requests[i][r]) EXCEPT !.submitting = FALSE] \in Tab
          BY <5>1 DEF Tab
        <5> QED
          BY <4>3, <5>2 DEF ReceiveLogin
      <4>4. CASE ReceivePage(i, r)
        BY <4>4, InterceptedType DEF ReceivePage
      <4> QED
        BY <1>13, <4>1, <4>2, <4>3, <4>4 DEF Receive
    <3> QED
      BY <3>1 DEF TypeInv, TypeOK
  <2> QED
    BY <2>1, <2>2, <2>3, OnlyType DEF TypeInv, TypeOK
<1>14. CASE UNCHANGED vars
  BY <1>14 DEF vars, TypeInv, TypeOK
<1> QED
  BY <1>1, <1>2, <1>3, <1>4, <1>5, <1>6, <1>7, <1>8, <1>10, <1>11, <1>12, <1>13, <1>14
     DEF Next, AskPage, AskAdmin

LEMMA TypeInit == Init => TypeInv
<1> SUFFICES ASSUME Init PROVE TypeInv
  OBVIOUS
<1>1. Request("me", None) \in Requests
  BY DEF Init, Request, Requests
<1>2. Fresh("home") \in Tab
  BY FreshType DEF Paths
<1>3. 0 \in 0 .. MaxEvents
  BY SessionAssumption
<1>4. requests = [i \in Tabs |-> requests[i]]
      /\ \A i \in Tabs : requests[i] \in [Slots(i) -> Requests \cup {None}]
  BY <1>1 DEF Init
<1> QED
  BY <1>2, <1>3, <1>4 DEF Init, TypeInv, TypeOK

\* The session, the tabs and the requests stay within their types.
THEOREM TypeCorrect == Spec => []TypeOK
<1>1. Spec => []TypeInv
  BY TypeInit, TypeStep, PTL DEF Spec
<1> QED
  BY <1>1, PTL DEF TypeInv

-----------------------------------------------------------------------------
(* Routes.                                                                  *)

Right(t) ==
    ~t.loading /\ t.user # None =>
        /\ t.path # "login"
        /\ t.path = "admin" => RoleOf[t.user] = "admin"

LEMMA RenderIsRight == ASSUME NEW t \in Tab, ~t.loading PROVE Right(Render(t))
<1>1. t.path \in Paths /\ t.user \in People \cup {None}
  BY DEF Tab
<1>2. CASE t.path = "login"
  BY <1>2, SessionAssumption DEF Right, Render, LoginPage, Tab
<1>3. CASE t.path = "admin"
  BY <1>3, SessionAssumption DEF Right, Render, AdminRoute, Tab
<1>4. CASE t.path \in {"home", "cluster"}
  BY <1>4, SessionAssumption DEF Right, Render, ProtectedRoute, Tab
<1> QED
  BY <1>1, <1>2, <1>3, <1>4 DEF Paths

\* What an answer leaves of a tab, as the properties see it.
LEMMA ReceiveEffect ==
    ASSUME TypeInv, NEW i \in Tabs, NEW r \in Slots(i), Receive(i, r)
    PROVE  /\ Only(i, r, None)
           /\ requests[i][r] \in Requests /\ requests[i][r].answer \in Answers
           /\ \A j \in Tabs \ {i} : tab'[j] = tab[j]
           /\ UNCHANGED <<server, events>>
<1>1. /\ Only(i, r, None)
      /\ requests[i][r] \in Requests /\ requests[i][r].answer \in Answers
      /\ UNCHANGED <<server, events>>
  BY ReturnedEffect DEF Receive, ReceiveMe, ReceiveLogin, ReceivePage, Returned
<1>2. \E t : tab' = [tab EXCEPT ![i] = t]
  BY DEF Receive, ReceiveMe, ReceiveLogin, ReceivePage
<1> QED
  BY <1>1, <1>2 DEF TypeInv, TypeOK

LEMMA ReceivedMe ==
    ASSUME TypeInv, NEW i \in Tabs, NEW r \in Slots(i), ReceiveMe(i, r)
    PROVE  /\ ~tab'[i].loading /\ Right(tab'[i])
           /\ tab'[i].submitting = tab[i].submitting
<1> DEFINE t == Intercepted(i, requests[i][r])
           known == [t EXCEPT !.user = requests[i][r].answer.who, !.loading = FALSE]
<1>1. requests[i][r] \in Requests /\ requests[i][r].answer \in Answers
  BY ReceiveEffect DEF Receive
<1>2. /\ known \in Tab /\ ~known.loading /\ known.submitting = tab[i].submitting
      /\ [known EXCEPT !.crashed = TRUE] \in Tab
  <2>1. known \in Tab /\ \A u \in Tab : [u EXCEPT !.crashed = TRUE] \in Tab
    BY <1>1, KnownType
  <2>2. t \in Tab /\ t.submitting = tab[i].submitting
    BY InterceptedType
  <2> QED
    BY <2>1, <2>2 DEF Tab
<1>3. tab'[i] = IF known.user = None /\ Breaks(t) THEN [known EXCEPT !.crashed = TRUE]
                ELSE Render(known)
  BY DEF ReceiveMe, TypeInv, TypeOK
<1> HIDE DEF t, known
<1>4. CASE known.user = None /\ Breaks(t)
  BY <1>2, <1>3, <1>4 DEF Right, Tab
<1>5. CASE ~(known.user = None /\ Breaks(t))
  BY <1>2, <1>3, <1>5, RenderIsRight, RenderType
<1> QED
  BY <1>4, <1>5

LEMMA ReceivedLogin ==
    ASSUME TypeInv, NEW i \in Tabs, NEW r \in Slots(i), ReceiveLogin(i, r)
    PROVE  /\ tab'[i].loading = tab[i].loading /\ ~tab'[i].submitting
           /\ \/ /\ requests[i][r].answer.status = 200
                 /\ stored' = requests[i][r].answer.token /\ UNCHANGED thrown
                 /\ tab'[i].user = requests[i][r].answer.who /\ tab'[i].path = "home"
              \/ /\ requests[i][r].answer.status # 200
                 /\ Removal(i, requests[i][r].answer)
                 /\ tab'[i].user = tab[i].user /\ tab'[i].path = tab[i].path
<1>1. tab[i] \in Tab
  BY DEF TypeInv, TypeOK
<1>2. CASE requests[i][r].answer.status = 200
  <2>1. tab'[i] = [tab[i] EXCEPT !.user = requests[i][r].answer.who, !.path = "home",
                                 !.submitting = FALSE]
    BY <1>2 DEF ReceiveLogin, TypeInv, TypeOK
  <2> QED
    BY <1>1, <1>2, <2>1 DEF ReceiveLogin, Tab
<1>3. CASE requests[i][r].answer.status # 200
  <2> DEFINE t == Intercepted(i, requests[i][r])
  <2>1. tab'[i] = [t EXCEPT !.submitting = FALSE]
    BY <1>3 DEF ReceiveLogin, TypeInv, TypeOK
  <2>2. /\ t \in Tab /\ t.path = tab[i].path /\ t.user = tab[i].user
        /\ t.loading = tab[i].loading
    BY InterceptedType
  <2> HIDE DEF t
  <2> QED
    BY <1>3, <2>1, <2>2 DEF ReceiveLogin, Tab
<1> QED
  BY <1>2, <1>3

LEMMA ReceivedPage ==
    ASSUME TypeInv, NEW i \in Tabs, NEW r \in Slots(i), ReceivePage(i, r)
    PROVE  /\ Removal(i, requests[i][r].answer)
           /\ tab'[i].loading = tab[i].loading /\ tab'[i].submitting = tab[i].submitting
           /\ tab'[i].user = tab[i].user /\ tab'[i].path = tab[i].path
<1>1. tab'[i] = Intercepted(i, requests[i][r])
  BY DEF ReceivePage, TypeInv, TypeOK
<1> QED
  BY <1>1, InterceptedType DEF ReceivePage

LEMMA RouteStep == TypeInv /\ RightRoute /\ [Next]_vars => RightRoute'
<1> SUFFICES ASSUME TypeInv, RightRoute, [Next]_vars PROVE \A j \in Tabs : Right(tab'[j])
  BY DEF RightRoute, Right
<1>1. \A j \in Tabs : Right(tab[j])
  BY DEF RightRoute, Right
<1>2. CASE UNCHANGED tab
  BY <1>1, <1>2
<1>3. ASSUME NEW i \in Tabs, NEW path \in Paths, Start(i, path) PROVE \A j \in Tabs : Right(tab'[j])
  <2>1. Right(Fresh(path))
    BY DEF Right, Fresh
  <2> QED
    BY <1>1, <1>3, <2>1, StartEffect
<1>4. ASSUME NEW i \in Tabs, NEW path \in {"cluster", "admin"}, Follow(i, path)
      PROVE  \A j \in Tabs : Right(tab'[j])
  <2>1. /\ tab'[i].path = path /\ tab'[i].user = tab[i].user
        /\ \A j \in Tabs \ {i} : tab'[j] = tab[j]
    BY <1>4 DEF Follow, TypeInv, TypeOK, Tab
  <2>2. path = "admin" => RoleOf[tab[i].user] = "admin"
    BY <1>4 DEF Follow
  <2> QED
    BY <1>1, <2>1, <2>2 DEF Right
<1>5. ASSUME NEW i \in Tabs, (\E who \in People : Submit(i, who)) \/ Logout(i)
      PROVE  \A j \in Tabs : Right(tab'[j])
  <2>1. /\ tab'[i].path = tab[i].path /\ tab'[i].user = tab[i].user
        /\ tab'[i].loading = tab[i].loading
        /\ \A j \in Tabs \ {i} : tab'[j] = tab[j]
    BY <1>5 DEF Submit, Logout, TypeInv, TypeOK, Tab
  <2> QED
    BY <1>1, <2>1 DEF Right
<1>6. ASSUME NEW i \in Tabs, NEW r \in Slots(i), Receive(i, r)
      PROVE  \A j \in Tabs : Right(tab'[j])
  <2>1. Right(tab'[i])
    <3>1. CASE ReceiveMe(i, r)
      BY <3>1, ReceivedMe
    <3>2. CASE ReceiveLogin(i, r)
      BY <1>1, <3>2, ReceivedLogin DEF Right
    <3>3. CASE ReceivePage(i, r)
      BY <1>1, <3>3, ReceivedPage DEF Right
    <3> QED
      BY <1>6, <3>1, <3>2, <3>3 DEF Receive
  <2> QED
    BY <1>1, <1>6, <2>1, ReceiveEffect
<1>7. ASSUME NEW i \in Tabs, Load(i) PROVE \A j \in Tabs : Right(tab'[j])
  <2>1. PICK path \in Paths : Start(i, path)
    BY <1>7 DEF Load, Paths
  <2> QED
    BY <1>3, <2>1
<1>8. ASSUME NEW i \in Tabs, NEW r \in Slots(i), Serve(i, r) \/ ServeLogin(i, r) \/ Fault(i, r)
      PROVE  UNCHANGED tab
  BY <1>8 DEF Serve, ServeLogin, Fault
<1> QED
  BY <1>2, <1>3, <1>4, <1>5, <1>6, <1>7, <1>8
     DEF Next, Open, AskPage, AskAdmin, Expire, ChangeSso, vars

\* Whatever way a tab comes to a route (a link, an address, a redirection, an
\* answer), the guards leave it where it may be.
THEOREM RoutesAreRight == Spec => []RightRoute
<1>1. Init => RightRoute
  BY DEF Init, RightRoute, Fresh
<1>2. Spec => []TypeInv
  BY TypeInit, TypeStep, PTL DEF Spec
<1> QED
  BY <1>1, <1>2, RouteStep, PTL DEF Spec

-----------------------------------------------------------------------------
(* Who removes a token.                                                     *)

\* What a tab waits for fits its state: a page asks only for who is signed in,
\* and nobody signs in who is, or while that is not known.
Fits(t, q) ==
    /\ q.kind = "me" => t.loading
    /\ q.kind = "login" =>
          ~t.loading /\ t.submitting /\ t.path = "login" /\ t.user = None /\ q.who \in People
    /\ q.kind \in {"page", "cluster", "admin"} => ~t.loading /\ t.user # None

WaitsFit ==
    \A i \in Tabs : \A r \in Slots(i) : requests[i][r] # None =>
        /\ Fits(tab[i], requests[i][r])
        /\ requests[i][r].kind = "me" => r = 1

\* A tab signs in once at a time.
OneLogin ==
    \A i \in Tabs : \A r, s \in Slots(i) :
        /\ requests[i][r] # None /\ requests[i][r].kind = "login"
        /\ requests[i][s] # None /\ requests[i][s].kind = "login"
        => r = s

\* The tokens of the requests were given out, and only an expired one is
\* rejected.
Rightful(i, q) ==
    /\ q.kind # "login" /\ q.token # NoToken =>
          /\ holder[q.token] # None
          /\ q.answer # None /\ q.answer.status = 401 => q.token \in expired
    /\ q.kind = "login" /\ q.answer # None /\ q.answer.status = 200 =>
          q.answer.token # NoToken /\ holder[q.answer.token] # None /\ owner[q.answer.token] = i

TokensRightful ==
    /\ \A i \in Tabs : \A r \in Slots(i) : requests[i][r] # None => Rightful(i, requests[i][r])
    /\ stored # NoToken => holder[stored] # None
    /\ \A x \in thrown : holder[x.token] # None /\ owner[x.token] # x.by

\* What a tab has under way was sent with the token it signed in with, as long
\* as that is the one in localStorage.
SentWithOwn ==
    \A i \in Tabs : stored # NoToken /\ owner[stored] = i =>
        \A r \in Slots(i) : requests[i][r] # None /\ requests[i][r].kind # "login"
                                => requests[i][r].token = stored

\* Given tokens stay with whom they were given to.
Given ==
    \A t \in Tokens : holder[t] # None => holder'[t] = holder[t] /\ owner'[t] = owner[t]

LEMMA GivenStays == ASSUME TypeInv, [Next]_vars PROVE Given /\ expired \subseteq expired'
<1>1. CASE UNCHANGED <<holder, owner, expired>>
  BY <1>1 DEF Given
<1>2. ASSUME NEW i \in Tabs, NEW r \in Slots(i), ServeLogin(i, r)
      PROVE  Given /\ expired \subseteq expired'
  BY <1>2 DEF ServeLogin, IsNextToken, Given, TypeInv, TypeOK
<1>3. ASSUME NEW t \in Tokens, Expire(t) PROVE Given /\ expired \subseteq expired'
  BY <1>3 DEF Expire, Given
<1>4. ASSUME NEW i \in Tabs, NEW r \in Slots(i), Receive(i, r) PROVE UNCHANGED <<holder, owner, expired>>
  BY <1>4, ReceiveEffect
<1> QED
  BY <1>1, <1>2, <1>3, <1>4
     DEF Next, Open, Follow, Submit, Logout, Load, AskPage, AskAdmin, ChangeSso, Serve, Fault, vars

LEMMA RequestFields ==
    ASSUME NEW kind, NEW who
    PROVE  /\ Request(kind, who).kind = kind /\ Request(kind, who).token = stored
           /\ Request(kind, who).answer = None /\ Request(kind, who).who = who
BY DEF Request

LEMMA WaitsFitStep ==
    ASSUME TypeInv, RightRoute, WaitsFit, OneLogin, [Next]_vars PROVE WaitsFit' /\ OneLogin'
<1> USE DEF WaitsFit, OneLogin
<1>1. CASE UNCHANGED <<tab, requests>>
  BY <1>1 DEF Fits
<1>2. ASSUME NEW i \in Tabs, NEW path \in Paths, Start(i, path) PROVE WaitsFit' /\ OneLogin'
  <2> DEFINE me == Request("me", None)
  <2>1. /\ \A j \in Tabs \ {i} : requests'[j] = requests[j] /\ tab'[j] = tab[j]
        /\ tab'[i] = Fresh(path)
        /\ \A r \in Slots(i) : requests'[i][r] = IF r = 1 THEN me ELSE None
    BY <1>2, StartEffect
  <2>2. me.kind = "me" /\ Fresh(path).loading
    BY RequestFields DEF Fresh
  <2> HIDE DEF me
  <2> QED
    BY <2>1, <2>2 DEF Fits
<1>3. ASSUME NEW i \in Tabs, UNCHANGED requests, \A j \in Tabs \ {i} : tab'[j] = tab[j],
             tab'[i].loading = tab[i].loading, tab'[i].user = tab[i].user,
             tab'[i].submitting = tab[i].submitting,
             tab'[i].path = tab[i].path \/ tab[i].user # None
      PROVE  WaitsFit' /\ OneLogin'
  <2>1. ASSUME NEW j \in Tabs, NEW r \in Slots(j), requests[j][r] # None
        PROVE  Fits(tab'[j], requests[j][r])
    BY <1>3, <2>1 DEF Fits
  <2> QED
    BY <1>3, <2>1
<1>4. ASSUME NEW i \in Tabs, NEW who \in People, Submit(i, who) PROVE WaitsFit' /\ OneLogin'
  <2>1. PICK r \in Slots(i) : requests[i][r] = None /\ Only(i, r, Request("login", who))
    BY <1>4, SendEffect DEF Submit
  <2>2. Request("login", who) \in Requests
    BY RequestType DEF TypeInv
  <2>3. \A j \in Tabs : \A s \in Slots(j) :
           requests'[j][s] = IF j = i /\ s = r THEN Request("login", who) ELSE requests[j][s]
    BY <2>1, <2>2, OnlyType
  <2>4. /\ tab'[i].loading = tab[i].loading /\ tab'[i].user = tab[i].user
        /\ tab'[i].path = tab[i].path /\ tab'[i].submitting
        /\ \A j \in Tabs \ {i} : tab'[j] = tab[j]
    BY <1>4 DEF Submit, TypeInv, TypeOK, Tab
  <2>5. ~tab[i].loading /\ ~tab[i].submitting /\ tab[i].path = "login" /\ tab[i].user = None
    BY <1>4 DEF Submit, AsksForLogin, RightRoute
  <2>6. ASSUME NEW s \in Slots(i) PROVE requests[i][s] = None
    BY <2>5 DEF Fits, TypeInv, TypeOK, Requests
  <2> QED
    BY <2>3, <2>4, <2>5, <2>6, RequestFields DEF Fits
<1>5. ASSUME NEW i \in Tabs, NEW kind \in {"page", "cluster", "admin"}, Send(i, kind, None), Shows(i),
             UNCHANGED tab
      PROVE  WaitsFit' /\ OneLogin'
  <2>1. PICK r \in Slots(i) : requests[i][r] = None /\ Only(i, r, Request(kind, None))
    BY <1>5, SendEffect
  <2>2. Request(kind, None) \in Requests
    BY RequestType DEF TypeInv
  <2>3. \A j \in Tabs : \A s \in Slots(j) :
           requests'[j][s] = IF j = i /\ s = r THEN Request(kind, None) ELSE requests[j][s]
    BY <2>1, <2>2, OnlyType
  <2>4. Fits(tab[i], Request(kind, None)) /\ Request(kind, None).kind = kind
    BY <1>5, RequestFields DEF Fits, Shows
  <2> QED
    BY <1>5, <2>3, <2>4
<1>6. ASSUME NEW i \in Tabs, NEW r \in Slots(i), NEW status, NEW who, NEW token,
             Waiting(i, r), Answer(i, r, status, who, token), UNCHANGED tab
      PROVE  WaitsFit' /\ OneLogin'
  <2> DEFINE q == Answered(requests[i][r], status, who, token)
  <2>1. requests[i][r] \in Requests /\ Only(i, r, q) /\ requests[i][r] # None
    BY <1>6, AnswerEffect DEF Waiting
  <2>2. q.kind = requests[i][r].kind /\ q.who = requests[i][r].who
    BY <2>1 DEF Answered, Requests
  <2> HIDE DEF q
  <2>3. \A j \in Tabs : \A s \in Slots(j) :
           requests'[j][s] = IF j = i /\ s = r THEN q ELSE requests[j][s]
    BY <2>1 DEF Only, TypeInv, TypeOK
  <2>4. Fits(tab[i], q)
    BY <2>1, <2>2 DEF Fits
  <2> QED
    BY <1>6, <2>1, <2>2, <2>3, <2>4
<1>7. ASSUME NEW i \in Tabs, NEW r \in Slots(i), Receive(i, r) PROVE WaitsFit' /\ OneLogin'
  <2>1. /\ \A j \in Tabs : \A s \in Slots(j) :
              requests'[j][s] = IF j = i /\ s = r THEN None ELSE requests[j][s]
        /\ \A j \in Tabs \ {i} : tab'[j] = tab[j]
    BY <1>7, ReceiveEffect, OnlyType
  <2>2. ASSUME \A s \in Slots(i) : requests'[i][s] # None => Fits(tab'[i], requests'[i][s])
        PROVE  WaitsFit' /\ OneLogin'
    BY <2>1, <2>2
  <2>3. requests[i][r] # None
    BY <1>7 DEF Receive, ReceiveMe, ReceiveLogin, ReceivePage, Returned
  <2>4. CASE ReceiveMe(i, r)
    <3>1. requests[i][r].kind = "me" /\ ~tab'[i].loading
      BY <2>4, ReceivedMe DEF ReceiveMe, Returned
    <3>2. ASSUME NEW s \in Slots(i) PROVE requests'[i][s] = None
      BY <2>1, <2>3, <3>1 DEF Fits, TypeInv, TypeOK, Requests
    <3> QED
      BY <2>2, <3>2
  <2>5. CASE ReceiveLogin(i, r)
    <3>1. requests[i][r].kind = "login"
      BY <2>5 DEF ReceiveLogin, Returned
    <3>2. ASSUME NEW s \in Slots(i) PROVE requests'[i][s] = None
      BY <2>1, <2>3, <3>1 DEF Fits, TypeInv, TypeOK, Requests
    <3> QED
      BY <2>2, <3>2
  <2>6. CASE ReceivePage(i, r)
    BY <2>1, <2>2, <2>6, ReceivedPage DEF Fits
  <2> QED
    BY <1>7, <2>4, <2>5, <2>6 DEF Receive
<1>8. ASSUME NEW i \in Tabs, Load(i) PROVE WaitsFit' /\ OneLogin'
  <2>1. PICK path \in Paths : Start(i, path)
    BY <1>8 DEF Load, Paths
  <2> QED
    BY <1>2, <2>1
<1>9. ASSUME NEW i \in Tabs, Logout(i) PROVE WaitsFit' /\ OneLogin'
  <2>1. /\ tab'[i].path = tab[i].path /\ tab'[i].user = tab[i].user
        /\ tab'[i].loading = tab[i].loading /\ tab'[i].submitting = tab[i].submitting
        /\ UNCHANGED requests /\ \A j \in Tabs \ {i} : tab'[j] = tab[j]
    BY <1>9 DEF Logout, TypeInv, TypeOK, Tab
  <2> QED
    BY <1>3, <2>1
<1>10. ASSUME NEW i \in Tabs, NEW path \in {"cluster", "admin"}, Follow(i, path)
       PROVE  WaitsFit' /\ OneLogin'
  <2>1. /\ tab[i].user # None /\ tab'[i].user = tab[i].user
        /\ tab'[i].loading = tab[i].loading /\ tab'[i].submitting = tab[i].submitting
        /\ UNCHANGED requests /\ \A j \in Tabs \ {i} : tab'[j] = tab[j]
    BY <1>10 DEF Follow, Shows, TypeInv, TypeOK, Tab
  <2> QED
    BY <1>3, <2>1
<1>11. ASSUME NEW i \in Tabs, NEW r \in Slots(i), Serve(i, r) \/ ServeLogin(i, r) \/ Fault(i, r)
       PROVE  WaitsFit' /\ OneLogin'
  BY <1>6, <1>11 DEF Serve, ServeLogin, Fault
<1>12. CASE \/ \E t \in Tokens : Expire(t)
            \/ \E who \in People \cup {None} : ChangeSso(who)
            \/ UNCHANGED vars
  BY <1>1, <1>12 DEF Expire, ChangeSso, vars
<1>13. ASSUME NEW i \in Tabs, AskPage(i) \/ AskAdmin(i) PROVE WaitsFit' /\ OneLogin'
  BY <1>5, <1>13 DEF AskPage, AskAdmin
<1>14. ASSUME NEW i \in Tabs, NEW path \in Paths, Open(i, path) PROVE WaitsFit' /\ OneLogin'
  BY <1>2, <1>14 DEF Open
<1> QED
  BY <1>4, <1>7, <1>8, <1>9, <1>10, <1>11, <1>12, <1>13, <1>14 DEF Next

TokenInv == TokensRightful /\ SentWithOwn

LEMMA StoredStays ==
    ASSUME TypeInv, Given, TokensRightful, stored # NoToken
    PROVE  holder'[stored] # None /\ owner'[stored] = owner[stored]
BY DEF Given, TokensRightful, TypeInv, TypeOK

LEMMA ThrownStays ==
    ASSUME TypeInv, Given, TokensRightful
    PROVE  \A x \in thrown : holder'[x.token] # None /\ owner'[x.token] # x.by
BY DEF Given, TokensRightful, TypeInv, TypeOK

LEMMA RightfulStays ==
    ASSUME TypeInv, Given, expired \subseteq expired', NEW i \in Tabs, NEW q \in Requests,
           Rightful(i, q)
    PROVE  Rightful(i, q)'
<1>1. q.token # NoToken => q.token \in Tokens
  BY DEF Requests
<1>2. ASSUME q.answer # None, q.answer.token # NoToken PROVE q.answer.token \in Tokens
  BY <1>2 DEF Requests, Answers
<1> QED
  BY <1>1, <1>2 DEF Rightful, Given

\* Requests that are sent, or gone, or left alone.
LEMMA TokensWhenAsking ==
    ASSUME TypeInv, Given, expired \subseteq expired', TokenInv,
           stored' \in {stored, NoToken}, UNCHANGED thrown,
           \A j \in Tabs : \A s \in Slots(j) :
              \/ requests'[j][s] = requests[j][s] \/ requests'[j][s] = None
              \/ /\ requests'[j][s] \in Requests
                 /\ requests'[j][s].token = stored /\ requests'[j][s].answer = None
    PROVE  TokenInv'
<1> USE DEF TokenInv
<1>1. ASSUME NEW j \in Tabs, NEW s \in Slots(j), requests'[j][s] # None
      PROVE  /\ Rightful(j, requests[j][s])'
             /\ stored' # NoToken /\ owner'[stored'] = j /\ requests'[j][s].kind # "login"
                  => requests'[j][s].token = stored'
  <2>1. CASE requests'[j][s] = requests[j][s]
    <3>1. PICK q \in Requests : q = requests[j][s]
      BY <1>1, <2>1 DEF TypeInv, TypeOK
    <3>2. Rightful(j, q)
      BY <1>1, <2>1, <3>1 DEF TokensRightful, TypeInv, TypeOK
    <3>3. Rightful(j, q)'
      BY <3>2, RightfulStays
    <3>4. Rightful(j, requests[j][s])'
      BY <2>1, <3>1, <3>3
    <3>5. stored' # NoToken /\ owner'[stored'] = j => stored' = stored /\ owner[stored] = j
      BY StoredStays
    <3> QED
      BY <1>1, <2>1, <3>4, <3>5 DEF SentWithOwn
  <2>2. CASE requests'[j][s] \in Requests /\ requests'[j][s].token = stored
             /\ requests'[j][s].answer = None
    <3>1. Rightful(j, requests[j][s])'
      BY <2>2, StoredStays DEF Rightful
    <3> QED
      BY <2>2, <3>1
  <2> QED
    BY <1>1, <2>1, <2>2
<1>2. stored' # NoToken => holder'[stored'] # None
  BY StoredStays
<1>3. TokensRightful'
  BY <1>1, <1>2, ThrownStays DEF TokensRightful
<1>4. SentWithOwn'
  BY <1>1 DEF SentWithOwn
<1> QED
  BY <1>3, <1>4

LEMMA TokensWhenAnswering ==
    ASSUME TypeInv, Given, expired \subseteq expired', WaitsFit, TokenInv,
           NEW i \in Tabs, NEW r \in Slots(i), Serve(i, r) \/ ServeLogin(i, r) \/ Fault(i, r)
    PROVE  TokenInv'
<1> USE DEF TokenInv
<1>1. requests[i][r] \in Requests /\ requests[i][r] # None /\ UNCHANGED <<stored, thrown>>
  BY DEF Serve, ServeLogin, Fault, Waiting, TypeInv, TypeOK
<1>2. Rightful(i, requests[i][r]) /\ Fits(tab[i], requests[i][r])
  BY <1>1 DEF TokensRightful, WaitsFit
<1>3. ASSUME NEW status \in {200, 401, 403, 500}, NEW who \in People \cup {None},
             NEW token \in Tokens \cup {NoToken},
             Waiting(i, r), Answer(i, r, status, who, token),
             status = 401 /\ requests[i][r].kind # "login" /\ requests[i][r].token # NoToken
                 => requests[i][r].token \in expired,
             status = 200 /\ requests[i][r].kind = "login"
                 => token # NoToken /\ holder'[token] # None /\ owner'[token] = i
      PROVE  TokenInv'
  <2> DEFINE q == Answered(requests[i][r], status, who, token)
  <2>1. /\ q.kind = requests[i][r].kind /\ q.token = requests[i][r].token
        /\ q.answer.status = status /\ q.answer.token = token /\ q \in Requests
        /\ Only(i, r, q)
    BY <1>1, <1>3, AnsweredType, AnswerEffect
  <2> HIDE DEF q
  <2>2. \A j \in Tabs : \A s \in Slots(j) :
           requests'[j][s] = IF j = i /\ s = r THEN q ELSE requests[j][s]
    BY <2>1, OnlyType
  <2>3. Rightful(i, requests[i][r])'
    <3>1. requests'[i][r] = q
      BY <2>2
    <3>2. q.token \in Tokens \cup {NoToken}
      BY <2>1 DEF Requests
    <3> QED
      BY <1>2, <1>3, <2>1, <3>1, <3>2 DEF Rightful, Given
  <2>4. ASSUME NEW j \in Tabs, NEW s \in Slots(j), ~(j = i /\ s = r), requests'[j][s] # None
        PROVE  Rightful(j, requests[j][s])'
    <3>1. PICK p \in Requests : p = requests[j][s] /\ requests'[j][s] = p
      BY <2>2, <2>4 DEF TypeInv, TypeOK
    <3>2. Rightful(j, p)
      BY <2>2, <2>4, <3>1 DEF TokensRightful
    <3>3. Rightful(j, p)'
      BY <3>2, RightfulStays
    <3> QED
      BY <3>1, <3>3
  <2>5. TokensRightful'
    BY <1>1, <2>3, <2>4, StoredStays, ThrownStays DEF TokensRightful
  <2>6. SentWithOwn'
    BY <1>1, <2>1, <2>2, StoredStays DEF SentWithOwn
  <2> QED
    BY <2>5, <2>6
<1>4. CASE Serve(i, r)
  <2> DEFINE who == Holder(requests[i][r].token)
  <2>1. who \in People \cup {None}
    BY <1>1, HolderType DEF Requests, TypeInv
  <2>2. PICK status \in Statuses(requests[i][r].kind, who) :
           Answer(i, r, status, IF status = 200 /\ requests[i][r].kind = "me" THEN who ELSE None,
                  NoToken)
    BY <1>4 DEF Serve
  <2>3. status \in {200, 401, 403, 500} /\ (status = 401 => who = None)
    BY DEF Statuses
  <2>5. Waiting(i, r) /\ requests[i][r].kind # "login"
    BY <1>4 DEF Serve
  <2>4. who = None /\ requests[i][r].kind # "login" /\ requests[i][r].token # NoToken
          => requests[i][r].token \in expired
    BY <1>2 DEF Holder, Rightful
  <2> HIDE DEF who
  <2> QED
    BY <1>3, <2>1, <2>2, <2>3, <2>4, <2>5
<1>5. CASE ServeLogin(i, r)
  <2>1. requests[i][r].kind = "login" /\ requests[i][r].who \in People /\ Waiting(i, r)
    BY <1>2, <1>5 DEF ServeLogin, Fits
  <2>2. CASE Answer(i, r, 401, None, NoToken)
    BY <1>3, <2>1, <2>2
  <2>3. ASSUME NEW t \in Tokens, Answer(i, r, 200, requests[i][r].who, t),
               holder' = [holder EXCEPT ![t] = requests[i][r].who], owner' = [owner EXCEPT ![t] = i]
        PROVE  TokenInv'
    <3>1. t # NoToken /\ holder'[t] # None /\ owner'[t] = i
      BY <2>1, <2>3, SessionAssumption DEF Tokens, TypeInv, TypeOK
    <3> QED
      BY <1>3, <2>1, <2>3, <3>1
  <2> QED
    BY <1>5, <2>2, <2>3 DEF ServeLogin
<1>6. CASE Fault(i, r)
  BY <1>3, <1>6 DEF Fault
<1> QED
  BY <1>4, <1>5, <1>6

LEMMA TokensWhenReceiving ==
    ASSUME TypeInv, Given, expired \subseteq expired', WaitsFit, OneLogin, TokenInv,
           NEW i \in Tabs, NEW r \in Slots(i), Receive(i, r)
    PROVE  TokenInv'
<1> USE DEF TokenInv
<1>1. /\ requests[i][r] \in Requests /\ requests[i][r].answer \in Answers
      /\ UNCHANGED <<holder, owner, expired>>
      /\ \A j \in Tabs : \A s \in Slots(j) :
            requests'[j][s] = IF j = i /\ s = r THEN None ELSE requests[j][s]
  BY ReceiveEffect, OnlyType
<1>2. /\ requests[i][r] # None /\ requests[i][r].answer # None
      /\ Rightful(i, requests[i][r]) /\ Fits(tab[i], requests[i][r])
  BY DEF Receive, ReceiveMe, ReceiveLogin, ReceivePage, Returned, TokensRightful, WaitsFit
<1>3. CASE UNCHANGED thrown /\ stored' \in {stored, NoToken}
  BY <1>1, <1>3, TokensWhenAsking
<1>4. ASSUME Removal(i, requests[i][r].answer), requests[i][r].kind # "login" PROVE TokenInv'
  <2>1. CASE UNCHANGED thrown
    BY <1>3, <1>4, <2>1 DEF Removal
  <2>2. CASE /\ Rejected(i, requests[i][r].answer) /\ stored' = NoToken
             /\ stored # NoToken /\ stored \notin expired
             /\ thrown' = thrown \cup {[token |-> stored, by |-> i]}
    <3>1. owner[stored] # i
      BY <1>2, <1>4, <2>2 DEF SentWithOwn, Rightful, Rejected
    <3>2. holder[stored] # None
      BY <2>2 DEF TokensRightful
    <3>3. ASSUME NEW j \in Tabs, NEW s \in Slots(j), requests'[j][s] # None
          PROVE  Rightful(j, requests[j][s])'
      <4>1. requests'[j][s] = requests[j][s] /\ Rightful(j, requests[j][s])
        BY <1>1, <3>3 DEF TokensRightful
      <4> QED
        BY <1>1, <4>1 DEF Rightful
    <3>4. \A x \in thrown' : holder[x.token] # None /\ owner[x.token] # x.by
      BY <2>2, <3>1, <3>2 DEF TokensRightful
    <3>5. TokensRightful'
      BY <1>1, <2>2, <3>3, <3>4 DEF TokensRightful
    <3> QED
      BY <2>2, <3>5 DEF SentWithOwn
  <2> QED
    BY <1>4, <2>1, <2>2 DEF Removal
<1>5. CASE ReceiveMe(i, r)
  BY <1>4, <1>5 DEF ReceiveMe, Returned
<1>6. CASE ReceivePage(i, r)
  BY <1>4, <1>6 DEF ReceivePage, Returned
<1>7. CASE ReceiveLogin(i, r)
  <2>1. requests[i][r].kind = "login" /\ tab[i].path = "login"
    BY <1>2, <1>7 DEF ReceiveLogin, Returned, Fits
  <2>2. CASE Removal(i, requests[i][r].answer)
    BY <1>3, <2>1, <2>2 DEF Removal, Rejected
  <2>3. CASE /\ requests[i][r].answer.status = 200
             /\ stored' = requests[i][r].answer.token /\ UNCHANGED thrown
    <3>1. stored' # NoToken /\ holder[stored'] # None /\ owner[stored'] = i
      BY <1>2, <2>1, <2>3 DEF Rightful
    <3>2. ASSUME NEW s \in Slots(i) PROVE requests'[i][s] = None
      BY <1>1, <1>2, <2>1 DEF WaitsFit, OneLogin, Fits, TypeInv, TypeOK, Requests
    <3>3. ASSUME NEW j \in Tabs, NEW s \in Slots(j), requests'[j][s] # None
          PROVE  Rightful(j, requests[j][s])'
      <4>1. requests'[j][s] = requests[j][s] /\ Rightful(j, requests[j][s])
        BY <1>1, <3>3 DEF TokensRightful
      <4> QED
        BY <1>1, <4>1 DEF Rightful
    <3>4. TokensRightful'
      BY <1>1, <2>3, <3>1, <3>3 DEF TokensRightful
    <3>5. SentWithOwn'
      BY <1>1, <3>1, <3>2 DEF SentWithOwn
    <3> QED
      BY <3>4, <3>5
  <2> QED
    BY <1>7, <2>2, <2>3, ReceivedLogin
<1> QED
  BY <1>5, <1>6, <1>7 DEF Receive

LEMMA TokenStep ==
    ASSUME TypeInv, WaitsFit, OneLogin, TokenInv, [Next]_vars PROVE TokenInv'
<1>1. Given /\ expired \subseteq expired'
  BY GivenStays
<1>2. CASE stored' \in {stored, NoToken} /\ UNCHANGED <<requests, thrown>>
  BY <1>1, <1>2, TokensWhenAsking
<1>3. ASSUME NEW i \in Tabs, NEW path \in Paths, Start(i, path), UNCHANGED <<stored, thrown>>
      PROVE  TokenInv'
  <2> DEFINE me == Request("me", None)
  <2>1. /\ \A j \in Tabs \ {i} : requests'[j] = requests[j]
        /\ \A r \in Slots(i) : requests'[i][r] = IF r = 1 THEN me ELSE None
    BY <1>3, StartEffect
  <2>2. me \in Requests /\ me.token = stored /\ me.answer = None
    BY RequestType, RequestFields DEF TypeInv
  <2> HIDE DEF me
  <2> QED
    BY <1>1, <1>3, <2>1, <2>2, TokensWhenAsking
<1>4. ASSUME NEW i \in Tabs, NEW kind \in {"login", "page", "cluster", "admin"}, NEW who \in People \cup {None},
             Send(i, kind, who), UNCHANGED <<stored, thrown>>
      PROVE  TokenInv'
  <2>1. PICK r \in Slots(i) : Only(i, r, Request(kind, who))
    BY <1>4, SendEffect
  <2> DEFINE q == Request(kind, who)
  <2>2. q \in Requests /\ q.token = stored /\ q.answer = None
    BY RequestType, RequestFields DEF TypeInv
  <2>3. Only(i, r, q)
    BY <2>1
  <2> HIDE DEF q
  <2>4. \A j \in Tabs : \A s \in Slots(j) :
           requests'[j][s] = IF j = i /\ s = r THEN q ELSE requests[j][s]
    BY <2>2, <2>3, OnlyType
  <2> QED
    BY <1>1, <1>4, <2>2, <2>4, TokensWhenAsking
<1>5. ASSUME NEW i \in Tabs, Load(i) PROVE TokenInv'
  <2>1. PICK path \in Paths : Start(i, path)
    BY <1>5 DEF Load, Paths
  <2> QED
    BY <1>3, <1>5, <2>1 DEF Load
<1>6. ASSUME NEW i \in Tabs,
             \/ \E path \in Paths : Open(i, path)
             \/ \E path \in {"cluster", "admin"} : Follow(i, path)
             \/ \E who \in People : Submit(i, who)
             \/ Logout(i) \/ AskPage(i) \/ AskAdmin(i)
      PROVE  TokenInv'
  BY <1>2, <1>3, <1>4, <1>6 DEF Open, Follow, Submit, Logout, AskPage, AskAdmin
<1>7. CASE \/ \E t \in Tokens : Expire(t)
           \/ \E who \in People \cup {None} : ChangeSso(who)
           \/ UNCHANGED vars
  BY <1>2, <1>7 DEF Expire, ChangeSso, vars
<1> QED
  BY <1>1, <1>5, <1>6, <1>7, TokensWhenAnswering, TokensWhenReceiving DEF Next

\* Every request under way fits the state of its tab.
LEMMA WaitsAreFit == Spec => [](WaitsFit /\ OneLogin)
<1>1. Init => WaitsFit /\ OneLogin
  <2> SUFFICES ASSUME Init PROVE WaitsFit /\ OneLogin
    OBVIOUS
  <2>1. \A i \in Tabs : tab[i].loading /\ \A r \in Slots(i) :
           requests[i][r] = IF r = 1 THEN Request("me", None) ELSE None
    BY DEF Init, Fresh
  <2>2. Request("me", None).kind = "me"
    BY DEF Request
  <2> QED
    BY <2>1, <2>2 DEF WaitsFit, OneLogin, Fits
<1>2. Spec => []TypeInv
  BY TypeInit, TypeStep, PTL DEF Spec
<1> QED
  BY <1>1, <1>2, WaitsFitStep, RoutesAreRight, PTL DEF Spec

\* A tab never removes a good token that it signed in with itself: what it has
\* under way was sent with that token, and only an expired one is rejected.
THEOREM OwnTokenIsKept == Spec => []KeepsOwnToken
<1>1. Init => TokenInv
  <2> SUFFICES ASSUME Init PROVE TokenInv
    OBVIOUS
  <2>1. \A i \in Tabs : \A r \in Slots(i) :
           requests[i][r] = IF r = 1 THEN Request("me", None) ELSE None
    BY DEF Init
  <2>2. Request("me", None).kind = "me" /\ Request("me", None).token = NoToken
    BY DEF Init, Request
  <2> QED
    BY <2>1, <2>2 DEF Init, TokenInv, TokensRightful, SentWithOwn, Rightful
<1>2. TypeInv /\ WaitsFit /\ OneLogin /\ TokenInv /\ [Next]_vars => TokenInv'
  BY TokenStep
<1>3. TokenInv => KeepsOwnToken
  BY DEF TokenInv, TokensRightful, KeepsOwnToken
<1>4. Spec => []TypeInv
  BY TypeInit, TypeStep, PTL DEF Spec
<1> QED
  BY <1>1, <1>2, <1>3, <1>4, WaitsAreFit, PTL DEF Spec

-----------------------------------------------------------------------------
(* Nothing waits for what will not come.                                    *)

\* A page that waits has the request for it under way.  That nothing else is
\* under way is in WaitsFit.
Busy ==
    \A i \in Tabs : /\ tab[i].loading => Asks(i, "me")
                    /\ tab[i].submitting => Asks(i, "login")

LEMMA AnswerGiven ==
    ASSUME TypeInv, NEW i \in Tabs, NEW r \in Slots(i),
           Serve(i, r) \/ ServeLogin(i, r) \/ Fault(i, r)
    PROVE  /\ Waiting(i, r) /\ UNCHANGED tab
           /\ \E status \in {200, 401, 403, 500}, who \in People \cup {None},
                 token \in Tokens \cup {NoToken} : Answer(i, r, status, who, token)
<1>1. CASE Serve(i, r)
  <2>1. requests[i][r].token \in Tokens \cup {NoToken}
    BY <1>1 DEF Serve, Waiting, TypeInv, TypeOK, Requests
  <2>2. Holder(requests[i][r].token) \in People \cup {None}
    BY <2>1, HolderType DEF TypeInv
  <2> QED
    BY <1>1, <2>2 DEF Serve, Statuses
<1>2. CASE ServeLogin(i, r)
  <2>1. requests[i][r].who \in People \cup {None}
    BY <1>2 DEF ServeLogin, Waiting, TypeInv, TypeOK, Requests
  <2> QED
    BY <1>2, <2>1 DEF ServeLogin
<1>3. CASE Fault(i, r)
  BY <1>3 DEF Fault
<1> QED
  BY <1>1, <1>2, <1>3

LEMMA BusyStep ==
    ASSUME TypeInv, WaitsFit, Busy, [Next]_vars PROVE Busy'
<1> USE DEF Busy
<1>1. ASSUME UNCHANGED requests,
             \A j \in Tabs : /\ tab'[j].loading = tab[j].loading
                             /\ tab'[j].submitting = tab[j].submitting
      PROVE  Busy'
  BY <1>1 DEF Asks
<1>2. ASSUME NEW i \in Tabs, NEW path \in Paths, Start(i, path) PROVE Busy'
  <2> DEFINE me == Request("me", None)
  <2>1. /\ \A j \in Tabs \ {i} : requests'[j] = requests[j] /\ tab'[j] = tab[j]
        /\ tab'[i] = Fresh(path)
        /\ \A r \in Slots(i) : requests'[i][r] = IF r = 1 THEN me ELSE None
    BY <1>2, StartEffect
  <2>2. me.kind = "me" /\ me # None /\ ~Fresh(path).submitting
    BY RequestFields, RequestType, SessionAssumption DEF Fresh, TypeInv
  <2> HIDE DEF me
  <2> QED
    BY <2>1, <2>2, SlotOne DEF Asks
\* Every request of the page but at most one is of the kind that it was.
<1>3. ASSUME NEW i \in Tabs, NEW r \in Slots(i), NEW q \in Requests, Only(i, r, q),
             requests[i][r] # None => q.kind = requests[i][r].kind,
             \A j \in Tabs : tab'[j].loading => tab[j].loading,
             \A j \in Tabs : tab'[j].submitting => tab[j].submitting \/ (j = i /\ q.kind = "login")
      PROVE  Busy'
  <2>1. q # None
    BY SessionAssumption
  <2>2. \A j \in Tabs : \A s \in Slots(j) :
           requests'[j][s] = IF j = i /\ s = r THEN q ELSE requests[j][s]
    BY <1>3, OnlyType
  <2>3. ASSUME NEW j \in Tabs PROVE /\ Asks(j, "me") => Asks(j, "me")'
                                    /\ Asks(j, "login") => Asks(j, "login")'
    BY <1>3, <2>1, <2>2 DEF Asks
  <2>4. q.kind = "login" => Asks(i, "login")'
    BY <2>1, <2>2 DEF Asks
  <2>5. ASSUME NEW j \in Tabs, tab'[j].loading PROVE Asks(j, "me")'
    <3>1. tab[j].loading
      BY <1>3, <2>5
    <3>2. Asks(j, "me")
      BY <3>1
    <3> QED
      BY <2>3, <3>2
  <2>6. ASSUME NEW j \in Tabs, tab'[j].submitting PROVE Asks(j, "login")'
    <3>1. CASE tab[j].submitting
      <4>1. Asks(j, "login")
        BY <3>1
      <4> QED
        BY <2>3, <4>1
    <3>2. CASE j = i /\ q.kind = "login"
      BY <2>4, <3>2
    <3> QED
      BY <1>3, <2>6, <3>1, <3>2
  <2> QED
    BY <2>5, <2>6
<1>4. ASSUME NEW i \in Tabs, NEW who \in People, Submit(i, who) PROVE Busy'
  <2>1. PICK r \in Slots(i) : requests[i][r] = None /\ Only(i, r, Request("login", who))
    BY <1>4, SendEffect DEF Submit
  <2>2. Request("login", who) \in Requests /\ Request("login", who).kind = "login"
    BY RequestType, RequestFields DEF TypeInv
  <2>3. \A j \in Tabs : /\ tab'[j].loading = tab[j].loading
                        /\ j # i => tab'[j].submitting = tab[j].submitting
    BY <1>4 DEF Submit, TypeInv, TypeOK, Tab
  <2> QED
    BY <1>3, <2>1, <2>2, <2>3
<1>5. ASSUME NEW i \in Tabs, NEW kind \in {"page", "cluster", "admin"}, Send(i, kind, None), UNCHANGED tab
      PROVE  Busy'
  <2>1. PICK r \in Slots(i) : requests[i][r] = None /\ Only(i, r, Request(kind, None))
    BY <1>5, SendEffect
  <2>2. Request(kind, None) \in Requests
    BY RequestType DEF TypeInv
  <2> QED
    BY <1>3, <1>5, <2>1, <2>2
<1>6. ASSUME NEW i \in Tabs, NEW r \in Slots(i), Serve(i, r) \/ ServeLogin(i, r) \/ Fault(i, r)
      PROVE  Busy'
  <2>1. PICK status \in {200, 401, 403, 500}, who \in People \cup {None},
             token \in Tokens \cup {NoToken} : Answer(i, r, status, who, token)
    BY <1>6, AnswerGiven
  <2>2. /\ requests[i][r] \in Requests
        /\ Only(i, r, Answered(requests[i][r], status, who, token))
    BY <1>6, <2>1, AnswerGiven, AnswerEffect
  <2>3. /\ Answered(requests[i][r], status, who, token) \in Requests
        /\ Answered(requests[i][r], status, who, token).kind = requests[i][r].kind
    BY <2>2, AnsweredType
  <2> QED
    BY <1>3, <1>6, <2>2, <2>3, AnswerGiven
<1>7. ASSUME NEW i \in Tabs, NEW r \in Slots(i), Receive(i, r) PROVE Busy'
  <2>1. /\ \A j \in Tabs : \A s \in Slots(j) :
              requests'[j][s] = IF j = i /\ s = r THEN None ELSE requests[j][s]
        /\ \A j \in Tabs \ {i} : tab'[j] = tab[j]
    BY <1>7, ReceiveEffect, OnlyType
  <2>2. ASSUME NEW j \in Tabs \ {i} PROVE /\ tab'[j].loading => Asks(j, "me")'
                                          /\ tab'[j].submitting => Asks(j, "login")'
    BY <2>1 DEF Asks
  <2>3. /\ Asks(i, "me") /\ requests[i][r].kind # "me" => Asks(i, "me")'
        /\ Asks(i, "login") /\ requests[i][r].kind # "login" => Asks(i, "login")'
    BY <2>1 DEF Asks
  <2>4. tab'[i].loading => tab[i].loading /\ requests[i][r].kind # "me"
    BY <1>7, ReceivedMe, ReceivedLogin, ReceivedPage
       DEF Receive, ReceiveMe, ReceiveLogin, ReceivePage, Returned
  <2>5. tab'[i].submitting => tab[i].submitting /\ requests[i][r].kind # "login"
    BY <1>7, ReceivedMe, ReceivedLogin, ReceivedPage
       DEF Receive, ReceiveMe, ReceiveLogin, ReceivePage, Returned
  <2>6. tab'[i].loading => Asks(i, "me")'
    BY <2>3, <2>4
  <2>7. tab'[i].submitting => Asks(i, "login")'
    BY <2>3, <2>5
  <2> QED
    BY <2>2, <2>6, <2>7
<1>8. ASSUME NEW i \in Tabs, Load(i) PROVE Busy'
  <2>1. PICK path \in Paths : Start(i, path)
    BY <1>8 DEF Load, Paths
  <2> QED
    BY <1>2, <2>1
<1>9. ASSUME NEW i \in Tabs,
             Logout(i) \/ (\E path \in {"cluster", "admin"} : Follow(i, path))
      PROVE  Busy'
  <2>1. /\ tab'[i].loading = tab[i].loading /\ tab'[i].submitting = tab[i].submitting
        /\ UNCHANGED requests /\ \A j \in Tabs \ {i} : tab'[j] = tab[j]
    BY <1>9 DEF Logout, Follow, TypeInv, TypeOK, Tab
  <2> QED
    BY <1>1, <2>1
<1>10. CASE \/ \E t \in Tokens : Expire(t)
            \/ \E who \in People \cup {None} : ChangeSso(who)
            \/ UNCHANGED vars
  BY <1>1, <1>10 DEF Expire, ChangeSso, vars
<1>11. ASSUME NEW i \in Tabs, AskPage(i) \/ AskAdmin(i) PROVE Busy'
  BY <1>5, <1>11 DEF AskPage, AskAdmin
<1>12. ASSUME NEW i \in Tabs, NEW path \in Paths, Open(i, path) PROVE Busy'
  BY <1>2, <1>12 DEF Open
<1> QED
  BY <1>4, <1>6, <1>7, <1>8, <1>9, <1>10, <1>11, <1>12 DEF Next

\* A page is blank, and its form is disabled, exactly as long as the request
\* is under way that it waits for.
THEOREM WaitingEnds == Spec => []WaitsExactly
<1>1. Init => Busy
  <2> SUFFICES ASSUME Init, NEW i \in Tabs PROVE Asks(i, "me") /\ ~tab[i].submitting
    BY DEF Busy
  <2>1. requests[i][1] = Request("me", None) /\ ~tab[i].submitting
    BY SlotOne DEF Init, Fresh
  <2>2. Request("me", None) # None /\ Request("me", None).kind = "me"
    BY RequestFields, RequestType, TypeInit, SessionAssumption DEF TypeInv
  <2> QED
    BY <2>1, <2>2, SlotOne DEF Asks
<1>2. TypeInv /\ WaitsFit /\ Busy => WaitsExactly
  <2> SUFFICES ASSUME TypeInv, WaitsFit, Busy, NEW i \in Tabs
               PROVE  /\ tab[i].loading <=> Asks(i, "me")
                      /\ tab[i].submitting <=> Asks(i, "login")
    BY DEF WaitsExactly
  <2>1. tab[i].loading \in BOOLEAN /\ tab[i].submitting \in BOOLEAN
    BY DEF TypeInv, TypeOK, Tab
  <2>2. Asks(i, "me") => tab[i].loading
    BY DEF Asks, WaitsFit, Fits
  <2>3. Asks(i, "login") => tab[i].submitting
    BY DEF Asks, WaitsFit, Fits
  <2> QED
    BY <2>1, <2>2, <2>3 DEF Busy
<1>3. Spec => []TypeInv
  BY TypeInit, TypeStep, PTL DEF Spec
<1> QED
  BY <1>1, <1>2, <1>3, BusyStep, WaitsAreFit, PTL DEF Spec
=============================================================================
