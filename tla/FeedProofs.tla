----------------------------- MODULE FeedProofs ------------------------------
(* What a Feed shows, for any keys and any number of requests.              *)
EXTENDS Feed, TLAPS

TypeOK ==
    /\ selected \in Keys /\ shown \in Keys \cup {None}
    /\ loading \in BOOLEAN /\ error \in BOOLEAN /\ late \in BOOLEAN
    /\ asked \in [Requests -> Request \cup {None}]

LEMMA AskedIsRequest ==
    \A k \in Keys, b \in BOOLEAN : [key |-> k, quiet |-> b] \in Request
BY DEF Request

LEMMA AskOneIsTyped ==
    ASSUME NEW f \in [Requests -> Request \cup {None}], NEW r \in Requests,
           NEW x \in Request \cup {None}
    PROVE  [f EXCEPT ![r] = x] \in [Requests -> Request \cup {None}]
OBVIOUS

\* Types are kept: whatever is asked for is a key, and so is what is shown
\* once a request was answered (fetch in AlertsPage.tsx).
LEMMA TypeCorrect == Spec => []TypeOK
<1>1. Init => TypeOK
  <2> SUFFICES ASSUME Init PROVE TypeOK
    OBVIOUS
  <2>1. [key |-> selected, quiet |-> FALSE] \in Request
    BY AskedIsRequest DEF Init
  <2> QED
    BY <2>1 DEF Init, TypeOK
<1>2. TypeOK /\ [Next]_vars => TypeOK'
  <2> SUFFICES ASSUME TypeOK, [Next]_vars PROVE TypeOK'
    OBVIOUS
  <2> USE DEF TypeOK
  <2>1. ASSUME NEW k \in Keys, Select(k) PROVE TypeOK'
    <3>1. asked' \in [Requests -> Request \cup {None}]
      <4>1. PICK r \in Requests :
              \/ asked' = [asked EXCEPT ![r] = [key |-> k, quiet |-> FALSE]]
              \/ \E x \in Keys, q \in Requests \ {r} :
                    asked' = [asked EXCEPT ![r] = [key |-> k, quiet |-> FALSE],
                                           ![q] = [key |-> x, quiet |-> FALSE]]
        BY <2>1 DEF Select
      <4>2. CASE asked' = [asked EXCEPT ![r] = [key |-> k, quiet |-> FALSE]]
        BY <4>2, AskedIsRequest, AskOneIsTyped
      <4>3. ASSUME NEW x \in Keys, NEW q \in Requests \ {r},
                   asked' = [asked EXCEPT ![r] = [key |-> k, quiet |-> FALSE],
                                          ![q] = [key |-> x, quiet |-> FALSE]]
            PROVE  asked' \in [Requests -> Request \cup {None}]
        <5>1. [key |-> k, quiet |-> FALSE] \in Request /\ [key |-> x, quiet |-> FALSE] \in Request
          BY AskedIsRequest
        <5> QED
          BY <4>3, <5>1
      <4> QED
        BY <4>1, <4>2, <4>3
    <3> QED
      BY <2>1, <3>1 DEF Select
  <2>2. ASSUME NEW r \in Requests, Poll(r) PROVE TypeOK'
    <3>1. [key |-> selected, quiet |-> FALSE] \in Request
      BY AskedIsRequest
    <3> QED
      BY <2>2, <3>1 DEF Poll
  <2>3. ASSUME NEW r \in Requests, NEW k \in Keys, AskQuietly(r, k) PROVE TypeOK'
    <3>1. [key |-> k, quiet |-> TRUE] \in Request
      BY AskedIsRequest
    <3> QED
      BY <2>3, <3>1 DEF AskQuietly
  <2>4. ASSUME NEW r \in Requests, Answer(r) PROVE TypeOK'
    <3>1. asked[r].key \in Keys
      BY <2>4 DEF Answer, Idle, Request
    <3> QED
      BY <2>4, <3>1 DEF Answer
  <2>5. ASSUME NEW r \in Requests, Fail(r) PROVE TypeOK'
    BY <2>5 DEF Fail, Request, Idle
  <2>6. CASE UNCHANGED vars
    BY <2>6 DEF vars
  <2> QED
    BY <2>1, <2>2, <2>3, <2>4, <2>5, <2>6 DEF Next
<1> QED
  BY <1>1, <1>2, PTL DEF Spec

\* The screen shows another selection than the selected one only after a
\* failure or a late answer: loading hides what was there before, and ends with
\* an answer for the selection or with one of the two.
THEOREM StaleIsExplained == Spec => []StaleOnlyIfLate
<1> USE DEF StaleOnlyIfLate, OnScreen
<1>1. Init => StaleOnlyIfLate
  BY DEF Init
<1>2. TypeOK /\ StaleOnlyIfLate /\ [Next]_vars => StaleOnlyIfLate'
  <2> SUFFICES ASSUME TypeOK, StaleOnlyIfLate, [Next]_vars PROVE StaleOnlyIfLate'
    OBVIOUS
  <2>1. ASSUME NEW k \in Keys, Select(k) PROVE StaleOnlyIfLate'
    BY <2>1 DEF Select
  <2>2. ASSUME NEW r \in Requests, Poll(r) PROVE StaleOnlyIfLate'
    BY <2>2 DEF Poll
  <2>3. ASSUME NEW r \in Requests, NEW k \in Keys, AskQuietly(r, k) PROVE StaleOnlyIfLate'
    BY <2>3 DEF AskQuietly
  <2>4. ASSUME NEW r \in Requests, Answer(r) PROVE StaleOnlyIfLate'
    BY <2>4 DEF Answer
  <2>5. ASSUME NEW r \in Requests, Fail(r) PROVE StaleOnlyIfLate'
    <3>1. asked[r] \in Request
      BY <2>5 DEF Fail, Idle, TypeOK
    <3> QED
      BY <2>5, <3>1 DEF Fail, TypeOK, Request
  <2>6. CASE UNCHANGED vars
    BY <2>6 DEF vars
  <2> QED
    BY <2>1, <2>2, <2>3, <2>4, <2>5, <2>6 DEF Next
<1> QED
  BY <1>1, <1>2, TypeCorrect, PTL DEF Spec

\* A page that says it is loading waits for a request that is not quiet: an
\* answer that does not end the loading was not the one it waits for.
THEOREM WaitingEnds ==
    ASSUME None \notin Request PROVE Spec => []WaitsForAnswer
<1> USE DEF WaitsForAnswer, Idle
<1>1. Init => WaitsForAnswer
  <2> SUFFICES ASSUME Init PROVE  \E r \in Requests : asked[r] # None /\ ~asked[r].quiet
    OBVIOUS
  <2>1. PICK r \in Requests : asked = [q \in Requests |->
            IF q = r THEN [key |-> selected, quiet |-> FALSE] ELSE None]
    BY DEF Init
  <2>2. [key |-> selected, quiet |-> FALSE] \in Request
    BY AskedIsRequest DEF Init
  <2> QED
    BY <2>1, <2>2
<1>2. TypeOK /\ WaitsForAnswer /\ [Next]_vars => WaitsForAnswer'
  <2> SUFFICES ASSUME TypeOK, WaitsForAnswer, [Next]_vars PROVE WaitsForAnswer'
    OBVIOUS
  <2>1. ASSUME NEW r \in Requests, asked'[r] # None /\ ~asked'[r].quiet PROVE WaitsForAnswer'
    BY <2>1
  <2>2. ASSUME NEW k \in Keys, Select(k) PROVE WaitsForAnswer'
    <3>1. PICK r \in Requests : asked'[r] = [key |-> k, quiet |-> FALSE]
      BY <2>2 DEF Select, TypeOK
    <3>2. [key |-> k, quiet |-> FALSE] \in Request
      BY AskedIsRequest
    <3>3. asked'[r] # None
      BY <3>1, <3>2
    <3>4. ~asked'[r].quiet
      <4>1. ~[key |-> k, quiet |-> FALSE].quiet
        OBVIOUS
      <4> QED
        BY <3>1, <4>1
    <3> QED
      BY <2>1, <3>3, <3>4
  <2>3. ASSUME NEW r \in Requests, NEW k \in Keys, NEW b \in BOOLEAN, Idle(r),
               asked' = [asked EXCEPT ![r] = [key |-> k, quiet |-> b]], UNCHANGED loading
        PROVE  WaitsForAnswer'
    BY <2>3 DEF TypeOK
  <2>4. ASSUME NEW r \in Requests, ~Idle(r), loading' = (loading /\ asked[r].quiet),
               asked' = [asked EXCEPT ![r] = None]
        PROVE  WaitsForAnswer'
    BY <2>4 DEF TypeOK
  <2>5. ASSUME NEW r \in Requests, Poll(r) \/ Answer(r) \/ Fail(r) PROVE WaitsForAnswer'
    BY <2>3, <2>4, <2>5 DEF Poll, Answer, Fail, TypeOK
  <2>6. ASSUME NEW r \in Requests, NEW k \in Keys, AskQuietly(r, k) PROVE WaitsForAnswer'
    BY <2>3, <2>6 DEF AskQuietly
  <2>7. CASE UNCHANGED vars
    BY <2>7 DEF vars
  <2> QED
    BY <2>2, <2>5, <2>6, <2>7 DEF Next
<1> QED
  BY <1>1, <1>2, TypeCorrect, PTL DEF Spec
=============================================================================
