------------------------------- MODULE RateLimit ------------------------------
(***************************************************************************)
(* RateLimitMiddleware for one client address: a sliding window over all   *)
(* requests, and one over the failures on authentication paths that is     *)
(* charged only when the answer is known.  The event loop runs dispatch()  *)
(* up to its await in one go, so what interleaves is the calls in flight.  *)
(***************************************************************************)
EXTENDS Integers, Sequences, FiniteSets, FiniteSetsExt

CONSTANTS
    Calls,      \* requests that may be in flight together
    Limit,      \* requests_per_minute
    AuthLimit,  \* auth_failures_per_minute
    Window,     \* _WINDOW_SECONDS
    MaxTime     \* bound: ticks of time.monotonic()

ASSUME RateAssumption ==
    /\ Limit \in Nat \ {0} /\ AuthLimit \in Nat \ {0}
    /\ Window \in Nat /\ MaxTime \in Nat
    /\ IsFiniteSet(Calls)

VARIABLES
    clock,
    hits,      \* _hits[key], oldest first
    authHits,  \* _auth_hits[key], oldest first
    calls,     \* what each call is doing
    admitted,  \* history: when requests reached the application
    failed     \* history: when authentications failed

rateVars == <<clock, hits, authHits, calls, admitted, failed>>

Time == 0..MaxTime
Kinds == {"auth", "other"}

RateInit ==
    /\ clock = 0
    /\ hits = <<>> /\ authHits = <<>>
    /\ calls = [c \in Calls |-> "none"]
    /\ admitted = <<>> /\ failed = <<>>

\* Faulty variant of Trim: one hit a call.
TrimOne(h) == IF h # <<>> /\ clock - Head(h) > Window THEN Tail(h) ELSE h

\* _trim(): pop from the left until the oldest is within the window.
Trim(h) ==
    LET fresh == {i \in DOMAIN h : clock - h[i] <= Window}
    IN  IF fresh = {} THEN <<>> ELSE SubSeq(h, Min(fresh), Len(h))

AuthSpent(kind) == kind = "auth" /\ Len(Trim(authHits)) >= AuthLimit

Spent == Len(Trim(hits)) >= Limit

\* dispatch() up to call_next(): both budgets are trimmed as they are looked
\* at, and a 429 leaves nothing else behind.
Dispatch(c, kind) ==
    /\ calls[c] = "none"
    /\ authHits' = IF kind = "auth" THEN Trim(authHits) ELSE authHits
    /\ \/ AuthSpent(kind) /\ UNCHANGED <<hits, calls, admitted>>
       \/ /\ ~AuthSpent(kind) /\ Spent
          /\ hits' = Trim(hits)
          /\ UNCHANGED <<calls, admitted>>
       \/ /\ ~AuthSpent(kind) /\ ~Spent
          /\ hits' = Append(Trim(hits), clock)
          /\ calls' = [calls EXCEPT ![c] = kind]
          /\ admitted' = Append(admitted, clock)
    /\ UNCHANGED <<clock, failed>>

\* The answer: a failed authentication is charged, to the time of the answer.
Respond(c, failure) ==
    /\ calls[c] # "none"
    /\ calls' = [calls EXCEPT ![c] = "none"]
    /\ IF failure /\ calls[c] = "auth"
         THEN /\ authHits' = Append(authHits, clock)
              /\ failed' = Append(failed, clock)
         ELSE UNCHANGED <<authHits, failed>>
    /\ UNCHANGED <<clock, hits, admitted>>

Tick ==
    /\ clock < MaxTime
    /\ clock' = clock + 1
    /\ UNCHANGED <<hits, authHits, calls, admitted, failed>>

RateNext ==
    \/ \E c \in Calls, kind \in Kinds : Dispatch(c, kind)
    \/ \E c \in Calls, failure \in BOOLEAN : Respond(c, failure)
    \/ Tick

RateSpec == RateInit /\ [][RateNext]_rateVars

-----------------------------------------------------------------------------
\* How many of a history's events happened from time "from" on, for a window's length.
InWindow(history, from) ==
    Cardinality({i \in DOMAIN history : from <= history[i] /\ history[i] <= from + Window})

\* No window of that length, wherever it starts, lets more than Limit
\* requests through.
WindowBound == \A from \in Time : InWindow(admitted, from) <= Limit

\* Calls in flight were let in before the failures of the others were known:
\* the failures of a window exceed the budget by no more than those.
AuthBound == \A from \in Time : InWindow(failed, from) < AuthLimit + Cardinality(Calls)

\* The deques, trimmed only when looked at, hold what happened within the
\* window and nothing else: nobody is refused for what is past.
BudgetsExact ==
    /\ Len(Trim(hits)) = InWindow(admitted, clock - Window)
    /\ Len(Trim(authHits)) = InWindow(failed, clock - Window)

\* The limiter as a whole: neither too lax, in any window, nor too strict.
LimitsHold == WindowBound /\ AuthBound /\ BudgetsExact
=============================================================================
