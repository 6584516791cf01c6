-------------------------------- MODULE Feed --------------------------------
(***************************************************************************)
(* A page that shows what is selected and asks again at an interval, as    *)
(* ui/src/pages/AlertsPage.tsx does for a cluster.  Requests are answered  *)
(* in any order, and no answer is dropped.                                 *)
(*                                                                         *)
(* The overview page asks for metrics in the same way and implements this  *)
(* module (Overview.tla).  For its sake a selection may ask for a second   *)
(* key, and a request may be quiet: one that only sets what is shown.  The *)
(* alerts page does neither.                                               *)
(***************************************************************************)
CONSTANTS
    Keys,       \* what can be selected
    Requests,   \* requests that can be under way
    None        \* no answer, no request

VARIABLES selected, shown, loading, error,
          asked,    \* the requests under way
          late      \* history: an answer for another key was shown since the selection

vars == <<selected, shown, loading, error, asked, late>>

Request == [key : Keys, quiet : BOOLEAN]

Idle(r) == asked[r] = None

\* The effect on [id]: loading, no error, one request.
Select(k) ==
    /\ selected' = k
    /\ loading' = TRUE
    /\ error' = FALSE
    /\ late' = FALSE
    /\ UNCHANGED shown
    /\ \E r \in Requests : Idle(r) /\
          \/ asked' = [asked EXCEPT ![r] = [key |-> k, quiet |-> FALSE]]
          \/ \E x \in Keys, q \in Requests \ {r} :
                /\ Idle(q)
                /\ asked' = [asked EXCEPT ![r] = [key |-> k, quiet |-> FALSE],
                                          ![q] = [key |-> x, quiet |-> FALSE]]

\* The interval asks for what is selected.
Poll(r) ==
    /\ Idle(r)
    /\ asked' = [asked EXCEPT ![r] = [key |-> selected, quiet |-> FALSE]]
    /\ UNCHANGED <<selected, shown, loading, error, late>>

AskQuietly(r, k) ==
    /\ Idle(r)
    /\ asked' = [asked EXCEPT ![r] = [key |-> k, quiet |-> TRUE]]
    /\ UNCHANGED <<selected, shown, loading, error, late>>

\* .then(setData), .finally(() => setLoading(false))
Answer(r) ==
    /\ ~Idle(r)
    /\ shown' = asked[r].key
    /\ loading' = (loading /\ asked[r].quiet)
    /\ late' = (late \/ asked[r].key # selected)
    /\ asked' = [asked EXCEPT ![r] = None]
    /\ UNCHANGED <<selected, error>>

\* .catch(() => setError(...)), .finally(() => setLoading(false))
Fail(r) ==
    /\ ~Idle(r)
    /\ error' = (error \/ ~asked[r].quiet)
    /\ loading' = (loading /\ asked[r].quiet)
    /\ asked' = [asked EXCEPT ![r] = None]
    /\ UNCHANGED <<selected, shown, late>>

Init ==
    /\ selected \in Keys
    /\ shown = None /\ loading = TRUE /\ error = FALSE /\ late = FALSE
    /\ \E r \in Requests : asked = [q \in Requests |->
            IF q = r THEN [key |-> selected, quiet |-> FALSE] ELSE None]

Next ==
    \/ \E k \in Keys : Select(k)
    \/ \E r \in Requests : Poll(r) \/ Answer(r) \/ Fail(r)
    \/ \E r \in Requests, k \in Keys : AskQuietly(r, k)

Spec == Init /\ [][Next]_vars

\* loading hides what is shown, and the banner of an error is above it.
OnScreen == ~loading /\ shown # None

\* What is on the screen belongs to another selection only if a request failed,
\* which the banner says, or if the answer for another selection came late.
StaleOnlyIfLate ==
    OnScreen /\ shown # selected => error \/ late

\* The page waits only for an answer that is still to come, and that ends it.
WaitsForAnswer == loading => \E r \in Requests : ~Idle(r) /\ ~asked[r].quiet
=============================================================================
