--------------------------- MODULE GrafanaClient ---------------------------
(***************************************************************************)
(* The Grafana client of the API (api/grafana/client.go) for clusters that *)
(* authenticate with Keycloak: the process-wide cache of access tokens and *)
(* the calls that use it.  A call obtains one token and then sends one or  *)
(* more requests with it, one after the other: FetchMetrics asks for the   *)
(* health of Grafana and for every panel, the others send one request.     *)
(*                                                                         *)
(* Time is relative: a token has the life it has left at Keycloak, a cache *)
(* entry the time left (ttl) until its expiresAt, a pending HTTP request   *)
(* the time it has waited.  Tick moves all of them by one unit.  A clock   *)
(* that has run down stays at 0, where time.Now().Before and Keycloak tell *)
(* nothing apart any more.                                                 *)
(*                                                                         *)
(* The client secret is sent with the POST only: it is not part of the key *)
(* of the cache, and a wrong one is a POST that fails.                     *)
(***************************************************************************)
EXTENDS Integers

CONSTANTS
  Workers,     \* goroutines that call the client
  Configs,     \* the <<ClientID, TokenURL>> of the keycloak clusters
  Keys,        \* strings
  KeyOf,       \* ClientID + "@" + TokenURL
  Lifetimes,   \* expires_in of the tokens Keycloak issues
  Margin,      \* 60: seconds a token is no longer served before it expires
  Timeout,     \* 10: httpClient.Timeout, for a whole request
  MaxPanels    \* the largest number of panels of an environment

\* Two configurations share a key only if a client id contains a "@".
ASSUME GrafanaClientAssumption ==
  /\ KeyOf \in [Configs -> Keys]
  /\ \A f, g \in Configs : KeyOf[f] = KeyOf[g] => f = g
  /\ Lifetimes \subseteq Nat
  /\ Margin \in Nat /\ Timeout \in Nat \ {0} /\ MaxPanels \in Nat

VARIABLES
  cache,   \* tokenCache
  call     \* the call each worker is making

vars == <<cache, call>>

Lives == Nat
MaxRequests == MaxPanels + 1

\* token.of: the realm and client it was issued to
AccessToken == [of : Configs, life : Lives]
Entry == [token : AccessToken, ttl : Nat]

Idle == [step |-> "idle"]

Call ==
  [step     : {"lookup"},
   config   : Configs,
   requests : 1..MaxRequests]
  \cup
  [step     : {"post"},          \* waiting for Keycloak
   config   : Configs,
   requests : 1..MaxRequests,
   waited   : 0..Timeout]
  \cup
  [step     : {"store"},         \* has computed expiry, about to lock
   config   : Configs,
   requests : 1..MaxRequests,
   entry    : Entry]
  \cup
  [step     : {"ready"},         \* about to send a request
   config   : Configs,
   requests : 1..MaxRequests,    \* still to send
   token    : AccessToken]
  \cup
  [step     : {"wait"},          \* waiting for Grafana
   config   : Configs,
   requests : 0..MaxPanels,
   token    : AccessToken,
   waited   : 0..Timeout]

TypeOK ==
  /\ DOMAIN cache \subseteq Keys
  /\ cache \in [DOMAIN cache -> Entry]
  /\ call \in [Workers -> Call \cup {Idle}]

Init ==
  /\ cache = [k \in {} |-> Idle]
  /\ call = [w \in Workers |-> Idle]

At(w, s) == call[w].step = s
Become(w, c) == call' = [call EXCEPT ![w] = c]

\* As if the key were the token URL alone.
UrlKey(w) == call[w].config[2]

Key(w) == KeyOf[call[w].config]

-----------------------------------------------------------------------------
(* getBearerToken. *)

\* FetchMetrics of an environment with n panels sends n + 1 requests,
\* FetchAlerts, FetchNamespaces and QueryPromQL send one.
Invoke(w) ==
  /\ At(w, "idle")
  /\ \E f \in Configs, n \in 1..MaxRequests :
       Become(w, [step |-> "lookup", config |-> f, requests |-> n])
  /\ UNCHANGED cache

\* As if an entry were served until it is replaced.
Present(k) == k \in DOMAIN cache

Fresh(k) == k \in DOMAIN cache /\ cache[k].ttl > 0

\* Under the read lock: the entry is there and has not expired.
Hit(w) ==
  /\ At(w, "lookup")
  /\ Fresh(Key(w))
  /\ Become(w, [step |-> "ready", config |-> call[w].config,
                requests |-> call[w].requests, token |-> cache[Key(w)].token])
  /\ UNCHANGED cache

\* The lock is released before the POST: other calls may miss as well.
Miss(w) ==
  /\ At(w, "lookup")
  /\ ~Fresh(Key(w))
  /\ Become(w, [step |-> "post", config |-> call[w].config,
                requests |-> call[w].requests, waited |-> 0])
  /\ UNCHANGED cache

Left(n) == IF n > 0 THEN n ELSE 0

\* As if expiresAt were the end of the token's life.
ReceiveWithoutMargin(w) ==
  /\ At(w, "post")
  /\ \E l \in Lifetimes, age \in 0..call[w].waited :
       Become(w, [step |-> "store", config |-> call[w].config,
                  requests |-> call[w].requests,
                  entry |-> [token |-> [of |-> call[w].config, life |-> Left(l - age)],
                             ttl |-> l]])
  /\ UNCHANGED cache

\* Keycloak issued the token some time after the POST was sent; expires_in
\* counts from then, expiresAt from now.
Receive(w) ==
  /\ At(w, "post")
  /\ \E l \in Lifetimes, age \in 0..call[w].waited :
       Become(w, [step |-> "store", config |-> call[w].config,
                  requests |-> call[w].requests,
                  entry |-> [token |-> [of |-> call[w].config, life |-> Left(l - age)],
                             ttl |-> Left(l - Margin)]])
  /\ UNCHANGED cache

\* Under the write lock; whatever another call stored since is overwritten.
Store(w) ==
  /\ At(w, "store")
  /\ cache' = [k \in DOMAIN cache \cup {Key(w)} |->
                 IF k = Key(w) THEN call[w].entry ELSE cache[k]]
  /\ Become(w, [step |-> "ready", config |-> call[w].config,
                requests |-> call[w].requests, token |-> call[w].entry.token])

-----------------------------------------------------------------------------
(* The requests to Grafana. *)

Send(w) ==
  /\ At(w, "ready")
  /\ Become(w, [step |-> "wait", config |-> call[w].config,
                requests |-> call[w].requests - 1, token |-> call[w].token,
                waited |-> 0])
  /\ UNCHANGED cache

\* A good answer: on to the next panel, or the call returns its payload.
Respond(w) ==
  /\ At(w, "wait")
  /\ \/ /\ call[w].requests > 0
        /\ Become(w, [step |-> "ready", config |-> call[w].config,
                      requests |-> call[w].requests, token |-> call[w].token])
     \/ call[w].requests = 0 /\ Become(w, Idle)
  /\ UNCHANGED cache

Pending(w) == At(w, "post") \/ At(w, "wait")

\* As if a POST that failed were tried again.
FailAndRetry(w) ==
  /\ At(w, "post")
  /\ Become(w, [step |-> "lookup", config |-> call[w].config,
                requests |-> call[w].requests])
  /\ UNCHANGED cache

\* No connection, an error status, a body that does not parse: the call
\* returns an error, or mock data for all panels.
Fail(w) == Pending(w) /\ Become(w, Idle) /\ UNCHANGED cache

\* As if httpClient had no time limit that ends a call.
ExpireNever(w) == Pending(w) /\ call[w].waited > Timeout /\ UNCHANGED vars

\* The same for a request that has reached the time limit of httpClient.
Expire(w) ==
  /\ Pending(w) /\ call[w].waited = Timeout
  /\ Become(w, Idle)
  /\ UNCHANGED cache

-----------------------------------------------------------------------------
(* Time. *)

Older(t) == [t EXCEPT !.life = Left(@ - 1)]
OlderEntry(e) == [token |-> Older(e.token), ttl |-> Left(e.ttl - 1)]

OlderCall(c) ==
  CASE c.step = "post" ->
         [c EXCEPT !.waited = @ + 1]
    [] c.step = "wait" ->
         [step |-> "wait", config |-> c.config, requests |-> c.requests,
          token |-> Older(c.token), waited |-> c.waited + 1]
    [] OTHER -> c

\* As if httpClient had no time limit.
CanTickForever == \A w \in Workers : ~At(w, "store") /\ ~At(w, "ready")

\* The program spends its time waiting for HTTP: a goroutine that is about to
\* store a token or to send a request does so within the unit of time, and
\* none waits for a response for longer than Timeout.
CanTick ==
  \A w \in Workers :
    ~At(w, "store") /\ ~At(w, "ready") /\ (Pending(w) => call[w].waited < Timeout)

Tick ==
  /\ CanTick
  /\ cache' = [k \in DOMAIN cache |-> OlderEntry(cache[k])]
  /\ call' = [w \in Workers |-> OlderCall(call[w])]

-----------------------------------------------------------------------------
Compute(w) == Hit(w) \/ Miss(w) \/ Store(w) \/ Send(w) \/ Expire(w)

Answered(w) == Receive(w) \/ Respond(w) \/ Fail(w)

Next == (\E w \in Workers : Invoke(w) \/ Compute(w) \/ Answered(w)) \/ Tick

Spec == Init /\ [][Next]_vars

\* The program and time go on; Keycloak and Grafana may never answer.  Time
\* has strong fairness: other calls, which a step of no duration disables it
\* for again and again, do not keep it from passing.
FairSpec == Spec /\ SF_vars(Tick) /\ \A w \in Workers : WF_vars(Compute(w))

-----------------------------------------------------------------------------
(* A token is served while it has at least the time that is kept free at    *)
(* its end, less the latency of the POST that fetched it: expiresAt counts  *)
(* from the answer, the life of the token from its issue (client.go:52, 79).*)
(* Several calls may fetch and store in any order.                          *)
CacheKeepsMargin ==
  \A k \in DOMAIN cache :
    cache[k].ttl > 0 => cache[k].token.life >= cache[k].ttl + Margin - Timeout

(* A call sends only tokens that its own client got from its own realm      *)
(* (client.go:49): the cache is shared by all clusters.                     *)
OwnToken ==
  \A w \in Workers :
    At(w, "ready") \/ At(w, "wait") => call[w].token.of = call[w].config

\* Slow answers to the POST and to every request fit in the margin, and in
\* the life of a token that was not cached.
EnoughMargin ==
  /\ (MaxPanels + 1) * Timeout <= Margin
  /\ \A l \in Lifetimes : (MaxPanels + 1) * Timeout < l

(* FetchMetrics takes one token for all its requests (client.go:148, 185).  *)
(* None of them is sent with a token that has expired, however slow the     *)
(* ones before, as long as the margin has room for all of them: five panels *)
(* with 60 s and 10 s.                                                      *)
LiveWhenSent ==
  EnoughMargin => \A w \in Workers : At(w, "ready") => call[w].token.life > 0

\* The longest that the answers call c still waits for can take.
Budget(c) ==
  CASE c.step = "idle"               -> 0
    [] c.step = "lookup"             -> (c.requests + 1) * Timeout
    [] c.step \in {"store", "ready"} -> c.requests * Timeout
    [] c.step \in {"post", "wait"}   -> (c.requests + 1) * Timeout - c.waited

(* The time limit is one of a request, and a call makes many (client.go:21, *)
(* 64, 157, 185): a call takes at most that limit for the POST and for each *)
(* of its requests, whoever does not answer and whatever other calls store, *)
(* for no step gives time back and the time that passes is used up.         *)
BoundedTime ==
  [][\A w \in Workers : ~At(w, "idle") =>
       /\ Budget(call'[w]) \in 0..Budget(call[w])
       /\ Tick /\ Pending(w) => Budget(call'[w]) # Budget(call[w])]_vars

(* Every call returns, even if Keycloak and Grafana never answer            *)
(* (client.go:21).                                                          *)
CallsReturn == \A w \in Workers : ~At(w, "idle") ~> At(w, "idle")
=============================================================================
