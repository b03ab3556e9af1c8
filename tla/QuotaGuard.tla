------------------------------ MODULE QuotaGuard ------------------------------
(***************************************************************************)
(* The plan quota around a creation (api/entitlements): require_quota()    *)
(* locks the organization's row, counts, and keeps the lock while the      *)
(* endpoint writes its row in a session of its own.  A guarded request     *)
(* therefore holds one pooled connection while it waits for the lock and   *)
(* needs a second one while it holds it.                                   *)
(*                                                                         *)
(* The meter is Meter.INVOICES, which counts the rows of a calendar month; *)
(* a stock meter is the case of a single month.  Desktop mode is exempt,   *)
(* so the engine is Postgres.                                              *)
(***************************************************************************)
EXTENDS Naturals, FiniteSets

CONSTANTS
    Requests,  \* worker threads that may serve a guarded creation
    PoolSize,  \* connections of the engine's pool
    Limit,     \* the plan's allowance per month
    MaxMonth,  \* bound: months that pass
    MaxRows    \* bound: rows other ways of creating an invoice add to a month

ASSUME QuotaAssumption ==
    /\ PoolSize \in Nat
    /\ Limit \in Nat \ {0}
    /\ MaxMonth \in Nat \ {0}
    /\ MaxRows \in Nat

VARIABLES
    month,    \* the calendar
    metered,  \* metered[m]: invoices of month m that went through the guard
    other,    \* other[m]: invoices of month m that did not
    req       \* req[r]: how far r is, the period it counted, its row's created_at

vars == <<month, metered, other, req>>

Months == 1..MaxMonth

(***************************************************************************)
(* arrived   wants the guard's connection                                  *)
(* locking   has it; SELECT ... FOR UPDATE is waiting or about to be sent  *)
(* locked    the organization's row is locked                              *)
(* checked   counted, below the limit: the endpoint runs                   *)
(* writing   the endpoint's session has its connection and made its row    *)
(* closing   the endpoint is done; the guard's rollback is to come         *)
(***************************************************************************)
Phases == {"idle", "arrived", "locking", "locked", "checked", "writing", "closing"}

Idle == [phase |-> "idle", period |-> 1, made |-> 1]
At(phase, period, made) == [phase |-> phase, period |-> period, made |-> made]
Move(r, phase) == req' = [req EXCEPT ![r] = At(phase, @.period, @.made)]

TypeOK ==
    /\ month \in Months
    /\ metered \in [Months -> Nat]
    /\ other \in [Months -> Nat]
    /\ req \in [Requests -> [phase : Phases, period : Months, made : Months]]

Init ==
    /\ month = 1
    /\ metered = [m \in Months |-> 0]
    /\ other = [m \in Months |-> 0]
    /\ req = [r \in Requests |-> Idle]

In(phases) == {r \in Requests : req[r].phase \in phases}

\* Only "writing" has the second connection too.
Connections ==
    Cardinality(In({"locking", "locked", "checked", "writing", "closing"}))
        + Cardinality(In({"writing"}))
Exhausted == Connections >= PoolSize

Holders == In({"locked", "checked", "writing", "closing"})

\* count_used(): the rows of the period, however they were created
Used(m) == metered[m] + other[m]

-----------------------------------------------------------------------------
Arrive(r) ==
    /\ req[r].phase = "idle"
    /\ Move(r, "arrived")
    /\ UNCHANGED <<month, metered, other>>

\* The guard's session takes a connection with its first statement.
Connect(r) ==
    /\ req[r].phase = "arrived" /\ ~Exhausted
    /\ Move(r, "locking")
    /\ UNCHANGED <<month, metered, other>>

\* Faulty variant of Lock: the row is read without with_for_update().
LockWithout(r) ==
    /\ req[r].phase = "locking"
    /\ Move(r, "locked")
    /\ UNCHANGED <<month, metered, other>>

\* quota_guard(): SELECT ... FOR UPDATE of the organization's row
Lock(r) ==
    /\ req[r].phase = "locking"
    /\ Holders = {}
    /\ Move(r, "locked")
    /\ UNCHANGED <<month, metered, other>>

\* check_meter(): the period is the month of this moment.  A refusal leaves
\* the guard's session, and with it the lock and the connection.
CheckMeter(r) ==
    /\ req[r].phase = "locked"
    /\ req' = [req EXCEPT ![r] = IF Used(month) >= Limit THEN Idle ELSE At("checked", month, @.made)]
    /\ UNCHANGED <<month, metered, other>>

\* The endpoint opens its unit of work; created_at is the time of the draft.
Open(r) ==
    /\ req[r].phase = "checked" /\ ~Exhausted
    /\ req' = [req EXCEPT ![r] = At("writing", @.period, month)]
    /\ UNCHANGED <<month, metered, other>>

Commit(r) ==
    /\ req[r].phase = "writing"
    /\ metered' = [metered EXCEPT ![req[r].made] = @ + 1]
    /\ Move(r, "closing")
    /\ UNCHANGED <<month, other>>

\* The endpoint refuses or fails: no row, and the guard is left all the same.
Fail(r) ==
    /\ req[r].phase \in {"checked", "writing"}
    /\ Move(r, "closing")
    /\ UNCHANGED <<month, metered, other>>

\* finally: session.rollback()
Close(r) ==
    /\ req[r].phase = "closing"
    /\ req' = [req EXCEPT ![r] = Idle]
    /\ UNCHANGED <<month, metered, other>>

\* Faulty variant of PoolTimeout: a pool that lets its callers wait for ever.
PoolTimeoutNever(r) == FALSE /\ UNCHANGED vars

\* The pool gives up on a caller it has no connection for: the request fails,
\* and a request that holds the lock leaves the guard.
PoolTimeout(r) ==
    /\ Exhausted
    /\ \/ req[r].phase = "arrived" /\ req' = [req EXCEPT ![r] = Idle]
       \/ req[r].phase = "checked" /\ Move(r, "closing")
    /\ UNCHANGED <<month, metered, other>>

-----------------------------------------------------------------------------
\* POST /quotes/{id}/convert makes a draft and asks no quota.
ConvertUnmetered ==
    /\ other[month] < MaxRows /\ ~Exhausted
    /\ other' = [other EXCEPT ![month] = @ + 1]
    /\ UNCHANGED <<month, metered, req>>

\* "A deleted draft frees its slot."
DeleteDraft(m) ==
    /\ \/ metered[m] > 0 /\ metered' = [metered EXCEPT ![m] = @ - 1] /\ UNCHANGED other
       \/ other[m] > 0 /\ other' = [other EXCEPT ![m] = @ - 1] /\ UNCHANGED metered
    /\ ~Exhausted
    /\ UNCHANGED <<month, req>>

NextMonth ==
    /\ month < MaxMonth
    /\ month' = month + 1
    /\ UNCHANGED <<metered, other, req>>

-----------------------------------------------------------------------------
Served(r) ==
    Connect(r) \/ Lock(r) \/ CheckMeter(r) \/ Open(r) \/ Commit(r) \/ Close(r) \/ PoolTimeout(r)

Next ==
    \/ \E r \in Requests : Arrive(r) \/ Served(r) \/ Fail(r)
    \/ ConvertUnmetered
    \/ \E m \in Months : DeleteDraft(m)
    \/ NextMonth

\* A thread that can run does, and Postgres queues the waiters of a row lock:
\* a request that finds the lock free again and again gets it.
Fairness == \A r \in Requests : SF_vars(Served(r))

Spec == Init /\ [][Next]_vars /\ Fairness

-----------------------------------------------------------------------------
\* "The naive shape lets two concurrent requests both create the 50th
\* invoice": creations through quota_guard() never exceed the allowance of a
\* month, also when a month ends between the count and the row.
WithinQuota == \A m \in Months : metered[m] <= Limit

\* Every guarded request ends, although requests waiting for the lock may
\* hold every connection and the one that has the lock needs another.
RequestsEnd == \A r \in Requests : req[r].phase # "idle" ~> req[r].phase = "idle"
=============================================================================
