------------------------ MODULE GrafanaClientProofs ------------------------
(***************************************************************************)
(* Proofs about GrafanaClient, for any number of calls, clusters and       *)
(* panels, any margin, time limit and token lifetimes.                     *)
(***************************************************************************)
EXTENDS GrafanaClient, TLAPS

\* An entry keeps its margin.
Safe(e) == e.ttl > 0 => e.token.life >= e.ttl + Margin - Timeout

EntriesSafe == \A k \in DOMAIN cache : Safe(cache[k]) /\ KeyOf[cache[k].token.of] = k

\* The life the token of a call has left covers the requests the call may
\* still wait for before it sends its last one.
Covered(w) ==
  /\ At(w, "store") =>
       /\ call[w].entry.token.of = call[w].config
       /\ Safe(call[w].entry)
       /\ EnoughMargin => call[w].entry.token.life > MaxPanels * Timeout
  /\ At(w, "ready") =>
       /\ call[w].token.of = call[w].config
       /\ EnoughMargin => call[w].token.life > (call[w].requests - 1) * Timeout
  /\ At(w, "wait") =>
       /\ call[w].token.of = call[w].config
       /\ EnoughMargin =>
            call[w].token.life + call[w].waited > call[w].requests * Timeout

IInv == TypeOK /\ EntriesSafe /\ \A w \in Workers : Covered(w)

-----------------------------------------------------------------------------
(* Fewer requests wait for less.                                            *)
LEMMA FewerRequests ==
  ASSUME NEW a \in Int, NEW b \in Int, a <= b, NEW t \in Nat
  PROVE  a * t <= b * t
OBVIOUS

(* (n + 1) requests wait for one request more than n.                       *)
LEMMA OneMore ==
  ASSUME NEW n \in Int, NEW t \in Int
  PROVE  (n + 1) * t = n * t + t /\ (n - 1) * t = n * t - t
OBVIOUS

(* The calls of other workers and the cache are not affected by a step that *)
(* changes call[w] alone.                                                   *)
LEMMA BecomeHolds ==
  ASSUME IInv, NEW w \in Workers, NEW c \in Call \cup {Idle}, Become(w, c),
         UNCHANGED cache, Covered(w)'
  PROVE  IInv'
<1>1. call' \in [Workers -> Call \cup {Idle}] /\ \A v \in Workers \ {w} : call'[v] = call[v]
  BY DEF Become, IInv, TypeOK
<1>2. \A v \in Workers \ {w} : Covered(v)'
  BY <1>1 DEF IInv, Covered, At
<1> QED
  BY <1>1, <1>2 DEF IInv, TypeOK, EntriesSafe

\* The new state of a call.
LEMMA BecomeIs ==
  ASSUME TypeOK, NEW w \in Workers, NEW c, Become(w, c)
  PROVE  call'[w] = c
BY DEF Become, TypeOK

\* The cache is empty, no call is made.
LEMMA InitHolds == Init => IInv
BY DEF Init, IInv, TypeOK, EntriesSafe, Covered, At, Idle

\* A call returns.
LEMMA ReturnHolds ==
  ASSUME IInv, NEW w \in Workers, Become(w, Idle), UNCHANGED cache
  PROVE  IInv'
<1>1. Covered(w)'
  BY BecomeIs DEF IInv, Covered, At, Idle
<1> QED
  BY <1>1, BecomeHolds

\* A new call.
LEMMA InvokeHolds ==
  ASSUME IInv, NEW w \in Workers, Invoke(w)
  PROVE  IInv'
<1>1. PICK f \in Configs, n \in 1..MaxRequests :
        Become(w, [step |-> "lookup", config |-> f, requests |-> n])
  BY DEF Invoke
<1> DEFINE c == [step |-> "lookup", config |-> f, requests |-> n]
<1>2. c \in Call
  BY DEF Call
<1>3. Covered(w)'
  BY <1>1, BecomeIs DEF IInv, Covered, At
<1> QED
  BY <1>1, <1>2, <1>3, BecomeHolds DEF Invoke

\* A cached token has room for all requests of a call.
LEMMA HitHolds ==
  ASSUME IInv, NEW w \in Workers, Hit(w)
  PROVE  IInv'
<1> DEFINE f == call[w].config
           n == call[w].requests
           e == cache[Key(w)]
           c == [step |-> "ready", config |-> f, requests |-> n, token |-> e.token]
<1>1. f \in Configs /\ n \in 1..MaxRequests
  BY DEF Hit, At, IInv, TypeOK, Call, Idle
<1>2. e \in Entry /\ e.ttl > 0 /\ Safe(e) /\ KeyOf[e.token.of] = KeyOf[f]
  BY DEF Hit, Fresh, Key, IInv, TypeOK, EntriesSafe
<1>3. e.token \in AccessToken /\ e.token.of \in Configs /\ e.ttl \in Nat /\ e.token.life \in Nat
  BY <1>2 DEF Entry, AccessToken, Lives
<1>4. e.token.of = f
  BY <1>1, <1>2, <1>3, GrafanaClientAssumption
<1>5. c \in Call
  BY <1>1, <1>3 DEF Call
<1>6. EnoughMargin => e.token.life > (n - 1) * Timeout
  <2> SUFFICES ASSUME EnoughMargin PROVE e.token.life > (n - 1) * Timeout
    OBVIOUS
  <2>1. n \in Int /\ MaxPanels \in Nat /\ Timeout \in Nat /\ Margin \in Nat /\ n - 1 <= MaxPanels
    BY <1>1, GrafanaClientAssumption DEF MaxRequests
  <2>2. (n - 1) * Timeout <= MaxPanels * Timeout
    BY <2>1, FewerRequests
  <2>3. MaxPanels * Timeout + Timeout <= Margin
    BY <2>1, OneMore DEF EnoughMargin
  <2>4. MaxPanels * Timeout \in Int /\ (n - 1) * Timeout \in Int
    BY <2>1
  <2> QED
    BY <1>2, <1>3, <2>1, <2>2, <2>3, <2>4 DEF Safe
<1>7. Covered(w)'
  <2>1. call'[w] = c
    BY BecomeIs DEF Hit, IInv
  <2> QED
    BY <1>4, <1>6, <2>1 DEF Covered, At
<1> QED
  BY <1>5, <1>7, BecomeHolds DEF Hit

\* A POST is sent.
LEMMA MissHolds ==
  ASSUME IInv, NEW w \in Workers, Miss(w)
  PROVE  IInv'
<1> DEFINE c == [step |-> "post", config |-> call[w].config,
                 requests |-> call[w].requests, waited |-> 0]
<1>1. c \in Call
  BY GrafanaClientAssumption DEF Miss, At, IInv, TypeOK, Call, Idle
<1>2. Covered(w)'
  BY BecomeIs DEF Miss, IInv, Covered, At
<1> QED
  BY <1>1, <1>2, BecomeHolds DEF Miss

\* Keycloak answers after at most the time limit.
LEMMA ReceiveHolds ==
  ASSUME IInv, NEW w \in Workers, Receive(w)
  PROVE  IInv'
<1>1. PICK l \in Lifetimes, age \in 0..call[w].waited :
        Become(w, [step |-> "store", config |-> call[w].config,
                   requests |-> call[w].requests,
                   entry |-> [token |-> [of |-> call[w].config, life |-> Left(l - age)],
                              ttl |-> Left(l - Margin)]])
  BY DEF Receive
<1> DEFINE e == [token |-> [of |-> call[w].config, life |-> Left(l - age)],
                 ttl |-> Left(l - Margin)]
           c == [step |-> "store", config |-> call[w].config,
                 requests |-> call[w].requests, entry |-> e]
<1>2. /\ call[w].config \in Configs /\ call[w].requests \in 1..MaxRequests
      /\ call[w].waited \in 0..Timeout
  BY DEF Receive, At, IInv, TypeOK, Call, Idle
<1>3. l \in Nat /\ age \in Nat /\ age <= Timeout /\ Margin \in Nat /\ Timeout \in Nat
      /\ MaxPanels \in Nat
  BY <1>2, GrafanaClientAssumption
<1>4. Left(l - age) \in Nat /\ Left(l - Margin) \in Nat /\ Left(l - age) >= l - Timeout
  BY <1>3 DEF Left
<1>5. c \in Call
  BY <1>2, <1>4 DEF Call, Entry, AccessToken, Lives
<1>6. Safe(e)
  BY <1>3, <1>4 DEF Safe, Left
<1>7. EnoughMargin => Left(l - age) > MaxPanels * Timeout
  <2>1. (MaxPanels + 1) * Timeout = MaxPanels * Timeout + Timeout
    BY <1>3, OneMore
  <2>2. MaxPanels * Timeout \in Int
    BY <1>3
  <2> QED
    BY <1>3, <1>4, <2>1, <2>2 DEF EnoughMargin
<1>8. Covered(w)'
  <2>1. call'[w] = c
    BY <1>1, BecomeIs DEF IInv
  <2> QED
    BY <1>6, <1>7, <2>1 DEF Covered, At, Safe
<1> QED
  BY <1>1, <1>5, <1>8, BecomeHolds DEF Receive

\* The entry of this call replaces any other of the key.
LEMMA StoreHolds ==
  ASSUME IInv, NEW w \in Workers, Store(w)
  PROVE  IInv'
<1> DEFINE f == call[w].config
           n == call[w].requests
           e == call[w].entry
           c == [step |-> "ready", config |-> f, requests |-> n, token |-> e.token]
<1>1. f \in Configs /\ n \in 1..MaxRequests /\ e \in Entry
  BY DEF Store, At, IInv, TypeOK, Call, Idle
<1>2. e.token.of = f /\ Safe(e) /\ (EnoughMargin => e.token.life > MaxPanels * Timeout)
  BY DEF Store, At, IInv, Covered
<1>3. cache' \in [DOMAIN cache' -> Entry] /\ DOMAIN cache' \subseteq Keys
  BY <1>1, GrafanaClientAssumption DEF Store, Key, IInv, TypeOK
<1>4. EntriesSafe'
  BY <1>2 DEF Store, Key, IInv, EntriesSafe, Safe
<1>5. c \in Call /\ e.token.life \in Nat
  BY <1>1 DEF Call, Entry, AccessToken, Lives
<1>6. call'[w] = c
  BY BecomeIs DEF Store, IInv
<1>7. EnoughMargin => e.token.life > (n - 1) * Timeout
  <2>1. n \in Int /\ MaxPanels \in Nat /\ Timeout \in Nat /\ n - 1 <= MaxPanels
    BY <1>1, GrafanaClientAssumption DEF MaxRequests
  <2>2. (n - 1) * Timeout <= MaxPanels * Timeout
    BY <2>1, FewerRequests
  <2>3. MaxPanels * Timeout \in Int /\ (n - 1) * Timeout \in Int
    BY <2>1
  <2> QED
    BY <1>2, <1>5, <2>2, <2>3
<1>8. Covered(w)'
  BY <1>2, <1>6, <1>7 DEF Covered, At
<1>9. call' \in [Workers -> Call \cup {Idle}] /\ \A v \in Workers \ {w} : call'[v] = call[v]
  BY <1>5 DEF Store, Become, IInv, TypeOK
<1>10. \A v \in Workers \ {w} : Covered(v)'
  BY <1>9 DEF IInv, Covered, At
<1> QED
  BY <1>3, <1>4, <1>8, <1>9, <1>10 DEF IInv, TypeOK

\* A request is sent.
LEMMA SendHolds ==
  ASSUME IInv, NEW w \in Workers, Send(w)
  PROVE  IInv'
<1> DEFINE c == [step |-> "wait", config |-> call[w].config,
                 requests |-> call[w].requests - 1, token |-> call[w].token,
                 waited |-> 0]
<1>1. /\ call[w].config \in Configs /\ call[w].requests \in 1..MaxRequests
      /\ call[w].token \in AccessToken
  BY DEF Send, At, IInv, TypeOK, Call, Idle
<1>2. c \in Call
  BY <1>1, GrafanaClientAssumption DEF Call, MaxRequests
<1>3. Covered(w)'
  <2>1. call'[w] = c
    BY BecomeIs DEF Send, IInv
  <2>2. call[w].token.life \in Nat
    BY <1>1 DEF AccessToken, Lives
  <2> QED
    BY <2>1, <2>2 DEF Send, At, IInv, Covered
<1> QED
  BY <1>2, <1>3, BecomeHolds DEF Send

\* Grafana answers after at most the time limit.
LEMMA RespondHolds ==
  ASSUME IInv, NEW w \in Workers, Respond(w)
  PROVE  IInv'
<1>1. CASE Become(w, Idle)
  BY <1>1, ReturnHolds DEF Respond
<1>2. CASE /\ call[w].requests > 0
           /\ Become(w, [step |-> "ready", config |-> call[w].config,
                         requests |-> call[w].requests, token |-> call[w].token])
  <2> DEFINE n == call[w].requests
             c == [step |-> "ready", config |-> call[w].config,
                   requests |-> n, token |-> call[w].token]
  <2>1. /\ call[w].config \in Configs /\ n \in 0..MaxPanels
        /\ call[w].token \in AccessToken /\ call[w].waited \in 0..Timeout
    BY DEF Respond, At, IInv, TypeOK, Call, Idle
  <2>2. MaxPanels \in Nat /\ Timeout \in Nat /\ call[w].token.life \in Nat
    BY <2>1, GrafanaClientAssumption DEF AccessToken, Lives
  <2>3. c \in Call
    BY <1>2, <2>1, <2>2 DEF Call, MaxRequests
  <2>4. (n - 1) * Timeout = n * Timeout - Timeout /\ n * Timeout \in Int
    BY <2>1, <2>2, OneMore
  <2>5. /\ call[w].token.of = call[w].config
        /\ EnoughMargin => call[w].token.life + call[w].waited > n * Timeout
    BY DEF Respond, At, IInv, Covered
  <2>6. EnoughMargin => call[w].token.life > (n - 1) * Timeout
    BY <2>1, <2>2, <2>4, <2>5
  <2>7. call'[w] = c
    BY <1>2, BecomeIs DEF IInv
  <2>8. Covered(w)'
    BY <2>5, <2>6, <2>7 DEF Covered, At
  <2> QED
    BY <1>2, <2>3, <2>8, BecomeHolds DEF Respond
<1> QED
  BY <1>1, <1>2 DEF Respond

\* Time passes for every token, entry and pending request.
LEMMA TickHolds ==
  ASSUME IInv, Tick
  PROVE  IInv'
<1>1. \A t \in AccessToken : /\ Older(t) \in AccessToken /\ Older(t).of = t.of
                             /\ Older(t).life \in Nat /\ Older(t).life >= t.life - 1
  BY DEF AccessToken, Older, Left, Lives
<1>2. ASSUME NEW k \in DOMAIN cache
      PROVE  /\ cache'[k] \in Entry /\ Safe(cache'[k])
             /\ KeyOf[cache'[k].token.of] = k
  <2> DEFINE e == cache[k]
  <2>1. cache'[k] = [token |-> Older(e.token), ttl |-> Left(e.ttl - 1)]
    BY DEF Tick, OlderEntry
  <2>2. e \in Entry /\ Safe(e) /\ KeyOf[e.token.of] = k
    BY DEF IInv, TypeOK, EntriesSafe
  <2>3. e.token \in AccessToken /\ e.ttl \in Nat /\ e.token.life \in Nat
    BY <2>2 DEF Entry, AccessToken, Lives
  <2>4. Left(e.ttl - 1) \in Nat /\ (Left(e.ttl - 1) > 0 => Left(e.ttl - 1) = e.ttl - 1)
    BY <2>3 DEF Left
  <2>5. Margin \in Nat /\ Timeout \in Nat
    BY GrafanaClientAssumption
  <2> QED
    BY <1>1, <2>1, <2>2, <2>3, <2>4, <2>5 DEF Entry, Safe
<1>3. DOMAIN cache' = DOMAIN cache /\ cache' \in [DOMAIN cache' -> Entry]
  BY <1>2 DEF Tick
<1>4. ASSUME NEW w \in Workers
      PROVE  call'[w] \in Call \cup {Idle} /\ Covered(w)'
  <2>0. call'[w] = OlderCall(call[w]) /\ ~At(w, "store") /\ ~At(w, "ready")
    BY DEF Tick, CanTick
  <2>1. CASE At(w, "post")
    <3> DEFINE d == call[w]
    <3>1. /\ d.config \in Configs /\ d.requests \in 1..MaxRequests
          /\ d.waited \in 0..Timeout
          /\ d = [step |-> "post", config |-> d.config, requests |-> d.requests,
                  waited |-> d.waited]
      BY <2>1 DEF At, IInv, TypeOK, Call, Idle
    <3>2. d.waited < Timeout /\ Timeout \in Nat
      BY <2>1, GrafanaClientAssumption DEF Tick, CanTick, Pending, At
    <3>3. call'[w] = [d EXCEPT !.waited = @ + 1]
      BY <2>0, <2>1 DEF OlderCall, At
    <3>4. call'[w] = [step |-> "post", config |-> d.config, requests |-> d.requests,
                      waited |-> d.waited + 1]
      BY <3>1, <3>3
    <3>5. call'[w] \in Call
      <4>1. d.waited + 1 \in 0..Timeout
        BY <3>1, <3>2
      <4> QED
        BY <3>1, <3>4, <4>1 DEF Call
    <3> QED
      BY <3>4, <3>5 DEF Covered, At
  <2>2. CASE At(w, "wait")
    <3> DEFINE d == call[w]
    <3>1. /\ d.config \in Configs /\ d.requests \in 0..MaxPanels
          /\ d.token \in AccessToken /\ d.waited \in 0..Timeout
          /\ d = [step |-> "wait", config |-> d.config, requests |-> d.requests,
                  token |-> d.token, waited |-> d.waited]
      BY <2>2 DEF At, IInv, TypeOK, Call, Idle
    <3>2. d.waited < Timeout /\ Timeout \in Nat /\ MaxPanels \in Nat
      BY <2>2, GrafanaClientAssumption DEF Tick, CanTick, Pending, At
    <3>4. call'[w] = [step |-> "wait", config |-> d.config, requests |-> d.requests,
                      token |-> Older(d.token), waited |-> d.waited + 1]
      BY <2>0, <2>2 DEF OlderCall, At
    <3>5. call'[w] \in Call
      <4>1. Older(d.token) \in AccessToken /\ d.waited + 1 \in 0..Timeout
        BY <1>1, <3>1, <3>2
      <4> QED
        BY <3>1, <3>4, <4>1 DEF Call
    <3>6. /\ d.token.of = d.config
          /\ EnoughMargin => d.token.life + d.waited > d.requests * Timeout
      BY <2>2 DEF IInv, Covered
    <3>7. d.token.life \in Nat /\ d.requests * Timeout \in Int
      BY <3>1, <3>2 DEF AccessToken, Lives
    <3>8. EnoughMargin => Older(d.token).life + (d.waited + 1) > d.requests * Timeout
      BY <1>1, <3>1, <3>6, <3>7
    <3> QED
      BY <1>1, <3>1, <3>4, <3>5, <3>6, <3>8 DEF Covered, At
  <2>3. CASE ~At(w, "post") /\ ~At(w, "wait")
    <3>1. call'[w] = call[w]
      BY <2>0, <2>3 DEF OlderCall, At
    <3> QED
      BY <3>1 DEF IInv, TypeOK, Covered, At
  <2> QED
    BY <2>1, <2>2, <2>3
<1>5. call' \in [Workers -> Call \cup {Idle}]
  BY <1>4 DEF Tick
<1> QED
  BY <1>2, <1>3, <1>4, <1>5 DEF IInv, TypeOK, EntriesSafe

\* Nothing happens.
LEMMA StutterHolds ==
  ASSUME IInv, UNCHANGED vars
  PROVE  IInv'
BY DEF IInv, vars, TypeOK, EntriesSafe, Covered, At

(* The inductive invariant holds in every reachable state of Spec.          *)
THEOREM Invariance == Spec => []IInv
<1>1. ASSUME IInv, [Next]_vars PROVE IInv'
  <2>1. ASSUME NEW w \in Workers, Compute(w) PROVE IInv'
    BY <2>1, HitHolds, MissHolds, StoreHolds, SendHolds, ReturnHolds, <1>1
       DEF Compute, Expire
  <2>2. ASSUME NEW w \in Workers, Answered(w) PROVE IInv'
    BY <2>2, ReceiveHolds, RespondHolds, ReturnHolds, <1>1 DEF Answered, Fail
  <2> QED
    BY <1>1, <2>1, <2>2, InvokeHolds, TickHolds, StutterHolds DEF Next
<1> QED
  BY <1>1, InitHolds, PTL DEF Spec

(* The cache and the calls stay well formed; no request waits longer than   *)
(* the time limit of the client.                                            *)
THEOREM TypeCorrect == Spec => []TypeOK
<1>1. IInv => TypeOK
  BY DEF IInv
<1> QED
  BY <1>1, Invariance, PTL

(* A cached token is served only while it keeps the margin, less the        *)
(* latency of the POST (client.go:52, 79).                                  *)
THEOREM MarginIsKept == Spec => []CacheKeepsMargin
<1>1. IInv => CacheKeepsMargin
  BY DEF IInv, EntriesSafe, Safe, CacheKeepsMargin
<1> QED
  BY <1>1, Invariance, PTL

(* No call uses a token that another client obtained (client.go:49).        *)
THEOREM TokensAreOwn == Spec => []OwnToken
<1>1. IInv => OwnToken
  BY DEF IInv, Covered, OwnToken
<1> QED
  BY <1>1, Invariance, PTL

(* With room in the margin for every request of a call, none is sent with   *)
(* an expired token (client.go:148, 185).                                   *)
THEOREM TokensAreLive == Spec => []LiveWhenSent
<1>1. IInv => LiveWhenSent
  <2> SUFFICES ASSUME IInv, EnoughMargin, NEW w \in Workers, At(w, "ready")
               PROVE  call[w].token.life > 0
    BY DEF LiveWhenSent
  <2>1. call[w].requests \in 1..MaxRequests /\ call[w].token \in AccessToken
    BY DEF At, IInv, TypeOK, Call, Idle
  <2>2. Timeout \in Nat /\ call[w].token.life \in Nat /\ call[w].requests \in Nat
    BY <2>1, GrafanaClientAssumption DEF AccessToken, Lives
  <2>3. 0 * Timeout <= (call[w].requests - 1) * Timeout
    BY <2>1, <2>2, FewerRequests DEF MaxRequests
  <2>4. (call[w].requests - 1) * Timeout \in Int /\ 0 * Timeout = 0
    BY <2>2
  <2> QED
    BY <2>2, <2>3, <2>4 DEF IInv, Covered
<1> QED
  BY <1>1, Invariance, PTL

-----------------------------------------------------------------------------
(* The time a call takes.                                                   *)

\* The time limit of a number of requests is a number.
LEMMA TimesLimit ==
  ASSUME NEW n \in Nat
  PROVE  n * Timeout \in Nat /\ (n + 1) * Timeout = n * Timeout + Timeout
<1>1. Timeout \in Nat
  BY GrafanaClientAssumption
<1>2. n * Timeout \in Nat
  BY <1>1
<1> QED
  BY <1>1, <1>2, OneMore

\* The budget of a call, by its stage.
LEMMA BudgetOf ==
  ASSUME NEW c \in Call \cup {Idle}
  PROVE  /\ Budget(c) \in Nat
         /\ c.step = "idle" => Budget(c) = 0
         /\ c.step = "lookup" => Budget(c) = c.requests * Timeout + Timeout
         /\ c.step \in {"store", "ready"} => Budget(c) = c.requests * Timeout
         /\ c.step \in {"post", "wait"} =>
              /\ Budget(c) = c.requests * Timeout + Timeout - c.waited
              /\ c.waited \in 0..Timeout
         /\ c.step # "idle" => c.requests \in Nat
<1>0. Timeout \in Nat /\ MaxPanels \in Nat
  BY GrafanaClientAssumption
<1>1. CASE c = Idle
  BY <1>1 DEF Idle, Budget
<1>2. CASE c \in Call
  <2>1. c.requests \in Nat
    BY <1>0, <1>2 DEF Call, MaxRequests
  <2>2. c.requests * Timeout \in Nat /\ (c.requests + 1) * Timeout = c.requests * Timeout + Timeout
    BY <2>1, TimesLimit
  <2>3. CASE c.step = "lookup"
    BY <1>0, <2>1, <2>2, <2>3 DEF Budget
  <2>4. CASE c.step \in {"store", "ready"}
    BY <1>0, <2>1, <2>2, <2>4 DEF Budget
  <2>5. CASE c.step \in {"post", "wait"}
    <3>1. Budget(c) = (c.requests + 1) * Timeout - c.waited
      BY <2>5 DEF Budget
    <3>2. c.waited \in 0..Timeout
      BY <1>2, <2>5 DEF Call
    <3> QED
      BY <1>0, <2>1, <2>2, <2>5, <3>1, <3>2
  <2> QED
    BY <1>2, <2>3, <2>4, <2>5 DEF Call
<1> QED
  BY <1>1, <1>2

\* What a step of its own leaves a call to wait for.
LEMMA OwnStepSpends ==
  ASSUME IInv, IInv', NEW w \in Workers, ~At(w, "idle"), Compute(w) \/ Answered(w)
  PROVE  Budget(call'[w]) <= Budget(call[w])
<1> DEFINE n == call[w].requests
<1>0. Timeout \in Nat /\ MaxPanels \in Nat
  BY GrafanaClientAssumption
<1>1. call[w] \in Call \cup {Idle} /\ call'[w] \in Call \cup {Idle}
  BY DEF IInv, TypeOK
<1>2. Budget(call[w]) \in Nat /\ n \in Nat /\ n * Timeout \in Nat
  <2>1. Budget(call[w]) \in Nat /\ n \in Nat
    BY <1>1, BudgetOf DEF At
  <2> QED
    BY <2>1, TimesLimit
<1>3. ASSUME Become(w, Idle) PROVE Budget(call'[w]) <= Budget(call[w])
  <2>1. call'[w].step = "idle"
    BY <1>3, BecomeIs DEF IInv, Idle
  <2> QED
    BY <1>1, <1>2, <2>1, BudgetOf
<1>4. CASE Hit(w)
  <2>1. call'[w].step = "ready" /\ call'[w].requests = n
    BY <1>4, BecomeIs DEF Hit, IInv
  <2> QED
    BY <1>0, <1>1, <1>2, <1>4, <2>1, BudgetOf DEF Hit, At
<1>5. CASE Miss(w)
  <2>1. call'[w].step = "post" /\ call'[w].requests = n /\ call'[w].waited = 0
    BY <1>5, BecomeIs DEF Miss, IInv
  <2> QED
    BY <1>0, <1>1, <1>2, <1>5, <2>1, BudgetOf DEF Miss, At, Pending
<1>6. CASE Receive(w)
  <2>1. call'[w].step = "store" /\ call'[w].requests = n
    BY <1>6, BecomeIs DEF Receive, IInv
  <2> QED
    BY <1>0, <1>1, <1>2, <1>6, <2>1, BudgetOf DEF Receive, At, Pending
<1>7. CASE Store(w)
  <2>1. call'[w].step = "ready" /\ call'[w].requests = n
    BY <1>7, BecomeIs DEF Store, IInv
  <2> QED
    BY <1>0, <1>1, <1>2, <1>7, <2>1, BudgetOf DEF Store, At
<1>8. CASE Send(w)
  <2>1. call'[w].step = "wait" /\ call'[w].requests = n - 1 /\ call'[w].waited = 0
    BY <1>8, BecomeIs DEF Send, IInv
  <2>2. (n - 1) * Timeout = n * Timeout - Timeout
    BY <1>0, <1>2, OneMore
  <2> QED
    BY <1>0, <1>1, <1>2, <1>8, <2>1, <2>2, BudgetOf DEF Send, At, Pending
<1>9. CASE Respond(w)
  <2>1. CASE /\ n > 0
             /\ Become(w, [step |-> "ready", config |-> call[w].config,
                           requests |-> n, token |-> call[w].token])
    <3>1. call'[w].step = "ready" /\ call'[w].requests = n
      BY <2>1, BecomeIs DEF IInv
    <3> QED
      BY <1>0, <1>1, <1>2, <1>9, <3>1, BudgetOf DEF Respond, At, Pending
  <2> QED
    BY <1>3, <1>9, <2>1 DEF Respond
<1> QED
  BY <1>3, <1>4, <1>5, <1>6, <1>7, <1>8, <1>9 DEF Compute, Answered, Fail, Expire

\* The time that passes is taken from a call that waits.
LEMMA TickSpends ==
  ASSUME IInv, IInv', NEW w \in Workers, ~At(w, "idle"), Tick
  PROVE  Budget(call'[w]) = Budget(call[w]) - IF Pending(w) THEN 1 ELSE 0
<1>0. call'[w] = OlderCall(call[w]) /\ Timeout \in Nat
  BY GrafanaClientAssumption DEF Tick
<1>1. call[w] \in Call \cup {Idle} /\ call'[w] \in Call \cup {Idle}
  BY DEF IInv, TypeOK
<1>2. CASE Pending(w)
  <2>1. /\ call'[w].step = call[w].step /\ call'[w].requests = call[w].requests
        /\ call'[w].waited = call[w].waited + 1
    <3>1. CASE At(w, "post")
      <4>1. call'[w] = [call[w] EXCEPT !.waited = @ + 1]
        BY <1>0, <3>1 DEF OlderCall, At
      <4>2. call[w] = [step |-> call[w].step, config |-> call[w].config,
                       requests |-> call[w].requests, waited |-> call[w].waited]
        BY <1>1, <3>1 DEF At, Call, Idle
      <4> QED
        BY <4>1, <4>2
    <3>2. CASE At(w, "wait")
      BY <1>0, <3>2 DEF OlderCall, At
    <3> QED
      BY <1>2, <3>1, <3>2 DEF Pending
  <2>2. call[w].requests * Timeout \in Nat
    <3>1. call[w].requests \in Nat
      BY <1>1, <1>2, BudgetOf DEF Pending, At
    <3> QED
      BY <3>1, TimesLimit
  <2> QED
    BY <1>0, <1>1, <1>2, <2>1, <2>2, BudgetOf DEF Pending, At
<1>3. CASE ~Pending(w)
  <2>1. call'[w] = call[w]
    BY <1>0, <1>3 DEF OlderCall, Pending, At
  <2>2. Budget(call'[w]) = Budget(call[w]) /\ Budget(call[w]) \in Nat
    BY <1>1, <2>1, BudgetOf 
  <2> QED
    BY <1>3, <2>2
<1> QED
  BY <1>2, <1>3

(* A call takes at most the time limit of httpClient once for the POST and  *)
(* once for each of its requests (client.go:21, 64, 157, 185).              *)
THEOREM TimeIsBounded == Spec => BoundedTime
<1>1. ASSUME IInv, IInv', [Next]_vars, NEW w \in Workers, ~At(w, "idle")
      PROVE  /\ Budget(call'[w]) \in 0..Budget(call[w])
             /\ Tick /\ Pending(w) => Budget(call'[w]) # Budget(call[w])
  <2>1. Budget(call[w]) \in Nat /\ Budget(call'[w]) \in Nat
    <3>1. call[w] \in Call \cup {Idle} /\ call'[w] \in Call \cup {Idle}
      BY <1>1 DEF IInv, TypeOK
    <3> QED
      BY <3>1, BudgetOf
  <2>2. CASE Compute(w) \/ Answered(w)
    <3>1. Budget(call'[w]) <= Budget(call[w])
      BY <1>1, <2>2, OwnStepSpends
    <3>2. Tick => Budget(call'[w]) = Budget(call[w]) - IF Pending(w) THEN 1 ELSE 0
      BY <1>1, TickSpends
    <3> QED
      BY <2>1, <3>1, <3>2
  <2>3. CASE Tick
    <3>1. Budget(call'[w]) = Budget(call[w]) - IF Pending(w) THEN 1 ELSE 0
      BY <1>1, <2>3, TickSpends
    <3> QED
      BY <2>1, <3>1
  <2>4. CASE call'[w] = call[w]
    <3>1. Budget(call'[w]) = Budget(call[w])
      BY <2>4 
    <3>2. Tick => Budget(call'[w]) = Budget(call[w]) - IF Pending(w) THEN 1 ELSE 0
      BY <1>1, TickSpends
    <3> QED
      BY <2>1, <3>1, <3>2
  <2>5. ASSUME NEW v \in Workers, v # w, Invoke(v) \/ Compute(v) \/ Answered(v)
        PROVE  call'[w] = call[w]
    BY <1>1, <2>5 DEF IInv, TypeOK, Become, Invoke, Compute, Answered, Hit, Miss, Store,
       Send, Expire, Receive, Respond, Fail
  <2>6. ~Invoke(w)
    BY <1>1 DEF Invoke
  <2>7. CASE UNCHANGED vars
    BY <2>4, <2>7 DEF vars
  <2> QED
    BY <1>1, <2>2, <2>3, <2>4, <2>5, <2>6, <2>7 DEF Next
<1>2. IInv /\ IInv' /\ [Next]_vars =>
        [\A w \in Workers : ~At(w, "idle") =>
           /\ Budget(call'[w]) \in 0..Budget(call[w])
           /\ Tick /\ Pending(w) => Budget(call'[w]) # Budget(call[w])]_vars
  BY <1>1
<1> QED
  BY <1>2, Invariance, PTL DEF Spec, BoundedTime
=============================================================================
