--------------------------- MODULE QuotaGuardProofs ---------------------------
(***************************************************************************)
(* For any number of requests, any allowance and any pool: creations       *)
(* through quota_guard() stay within the allowance.                        *)
(***************************************************************************)
EXTENDS QuotaGuard, TLAPS

\* The organization's row has one locker.
OneHolder == \A r, s \in Holders : r = s

\* Nothing is created in a month to come.
Calendar == \A m \in Months : m > month => metered[m] = 0

\* A request that was let through has room in the month it counted, nobody
\* has created anything in a later month since, and its row is not older.
RoomLeft ==
    \A r \in In({"checked", "writing"}) :
        /\ req[r].period <= month
        /\ metered[req[r].period] < Limit
        /\ \A m \in Months : m > req[r].period => metered[m] = 0
        /\ req[r].phase = "writing" => req[r].period <= req[r].made /\ req[r].made <= month

QuotaInv == TypeOK /\ OneHolder /\ Calendar /\ RoomLeft /\ WithinQuota

LEMMA QuotaInit == Init => QuotaInv
  BY QuotaAssumption
  DEF Init, QuotaInv, TypeOK, OneHolder, Calendar, RoomLeft, WithinQuota, Holders, In,
      Idle, Months, Phases

\* A request moves to a phase in which it relies on no count, and does not
\* become a second holder: nothing else is disturbed.
LEMMA QuotaMoved ==
  ASSUME QuotaInv, NEW r \in Requests, NEW q \in [phase : Phases, period : Months, made : Months],
         req' = [req EXCEPT ![r] = q],
         month' = month, metered' = metered, other' = other,
         q.phase \notin {"checked", "writing"},
         q.phase \in {"locked", "closing"} => r \in Holders \/ Holders = {}
  PROVE  QuotaInv'
  <1>1. req'[r] = q /\ \A s \in Requests \ {r} : req'[s] = req[s]
    BY DEF QuotaInv, TypeOK
  <1>2. TypeOK'
    BY DEF QuotaInv, TypeOK
  <1>3. OneHolder'
    <2>1. CASE Holders = {}
      <3>1. \A s \in Requests : s \in Holders' => s = r
        BY <1>1, <2>1 DEF Holders, In
      <3> QED
        BY <3>1 DEF OneHolder, Holders, In
    <2>2. CASE Holders # {}
      <3>1. \A s \in Requests : s \in Holders' => s \in Holders
        BY <1>1, <2>2 DEF Holders, In
      <3> QED
        BY <3>1 DEF OneHolder, Holders, In, QuotaInv
    <2> QED
      BY <2>1, <2>2
  <1>4. Calendar' /\ WithinQuota'
    BY DEF QuotaInv, Calendar, WithinQuota
  <1>5. RoomLeft'
    BY <1>1 DEF QuotaInv, RoomLeft, In
  <1> QED
    BY <1>2, <1>3, <1>4, <1>5 DEF QuotaInv

LEMMA QuotaStep == QuotaInv /\ [Next]_vars => QuotaInv'
  <1> SUFFICES ASSUME QuotaInv, [Next]_vars
               PROVE  QuotaInv'
    OBVIOUS
  <1> USE QuotaAssumption
      DEF QuotaInv, TypeOK, OneHolder, Calendar, RoomLeft, WithinQuota, Holders, In,
          Idle, At, Move, Months, Phases
  <1>1. ASSUME NEW r \in Requests, Arrive(r)
        PROVE  QuotaInv'
    <2> DEFINE q == At("arrived", req[r].period, req[r].made)
    <2>1. q \in [phase : Phases, period : Months, made : Months]
      OBVIOUS
    <2>2. req' = [req EXCEPT ![r] = q]
      BY <1>1 DEF Arrive
    <2> HIDE DEF QuotaInv
    <2> QED
      BY <1>1, <2>1, <2>2, QuotaMoved DEF Arrive
  <1>2. ASSUME NEW r \in Requests, Connect(r)
        PROVE  QuotaInv'
    <2> DEFINE q == At("locking", req[r].period, req[r].made)
    <2>1. q \in [phase : Phases, period : Months, made : Months]
      OBVIOUS
    <2>2. req' = [req EXCEPT ![r] = q]
      BY <1>2 DEF Connect
    <2> HIDE DEF QuotaInv
    <2> QED
      BY <1>2, <2>1, <2>2, QuotaMoved DEF Connect
  <1>3. ASSUME NEW r \in Requests, Lock(r)
        PROVE  QuotaInv'
    <2> DEFINE q == At("locked", req[r].period, req[r].made)
    <2>1. q \in [phase : Phases, period : Months, made : Months]
      OBVIOUS
    <2>2. req' = [req EXCEPT ![r] = q]
      BY <1>3 DEF Lock
    <2> HIDE DEF QuotaInv
    <2> QED
      BY <1>3, <2>1, <2>2, QuotaMoved DEF Lock
  <1>4. ASSUME NEW r \in Requests, CheckMeter(r)
        PROVE  QuotaInv'
    <2>1. TypeOK'
      <3>1. CASE Used(month) >= Limit
        BY SMTT(30), <1>4, <3>1 DEF CheckMeter
      <3>2. CASE ~(Used(month) >= Limit)
        BY <1>4, <3>2 DEF CheckMeter
      <3> QED
        BY <3>1, <3>2
    <2>2. OneHolder'
      BY SMTT(30), <1>4 DEF CheckMeter, Used
    <2>3. Calendar'
      BY <1>4 DEF CheckMeter, Used
    <2>4. RoomLeft'
      <3>1. /\ month' = month /\ metered' = metered
            /\ \A s \in Requests \ {r} : req'[s] = req[s]
        BY <1>4 DEF CheckMeter
      <3>2. CASE Used(month) >= Limit
        <4>1. req'[r].phase = "idle"
          BY <1>4, <3>2 DEF CheckMeter
        <4> QED
          BY <3>1, <4>1
      <3>3. CASE ~(Used(month) >= Limit)
        <4>1. req'[r].phase = "checked" /\ req'[r].period = month
          BY <1>4, <3>3 DEF CheckMeter
        <4>2. metered[month] < Limit /\ month <= month
          <5>1. metered[month] \in Nat /\ other[month] \in Nat
            OBVIOUS
          <5> QED
            BY <3>3, <5>1 DEF Used
        <4> QED
          BY <3>1, <4>1, <4>2
      <3> QED
        BY <3>2, <3>3
    <2>5. WithinQuota'
      BY <1>4 DEF CheckMeter, Used
    <2> QED
      BY <2>1, <2>2, <2>3, <2>4, <2>5
  <1>5. ASSUME NEW r \in Requests, Open(r)
        PROVE  QuotaInv'
    <2>1. TypeOK'
      BY <1>5 DEF Open
    <2>2. OneHolder'
      BY <1>5 DEF Open
    <2>3. Calendar'
      BY <1>5 DEF Open
    <2>4. RoomLeft'
      <3>1. /\ req'[r].period = req[r].period /\ req'[r].made = month
            /\ \A s \in Requests \ {r} : req'[s] = req[s]
        BY <1>5 DEF Open
      <3>2. month' = month /\ metered' = metered /\ req[r].phase = "checked"
        BY <1>5 DEF Open
      <3>3. /\ req[r].period <= month /\ metered[req[r].period] < Limit
            /\ \A m \in Months : m > req[r].period => metered[m] = 0
        BY <3>2
      <3>4. ASSUME NEW s \in Requests, req'[s].phase \in {"checked", "writing"}
            PROVE  /\ req'[s].period <= month
                   /\ metered[req'[s].period] < Limit
                   /\ \A m \in Months : m > req'[s].period => metered[m] = 0
                   /\ req'[s].phase = "writing" =>
                         req'[s].period <= req'[s].made /\ req'[s].made <= month
        <4>1. CASE s = r
          BY <3>1, <3>3, <4>1
        <4>2. CASE s # r
          BY <3>1, <3>4, <4>2
        <4> QED
          BY <4>1, <4>2
      <3> QED
        BY <3>2, <3>4
    <2>5. WithinQuota'
      BY <1>5 DEF Open
    <2> QED
      BY <2>1, <2>2, <2>3, <2>4, <2>5
  <1>6. ASSUME NEW r \in Requests, Commit(r)
        PROVE  QuotaInv'
    <2>1. TypeOK'
      BY <1>6 DEF Commit
    <2>2. OneHolder'
      BY <1>6 DEF Commit
    <2>3. Calendar'
      BY <1>6 DEF Commit
    <2>4. RoomLeft'
      BY <1>6 DEF Commit
    <2>5. WithinQuota'
      <3>1. req[r].made \in Months /\ req[r].period \in Months /\ metered[req[r].made] \in Nat
        BY DEF Commit
      <3>2. metered[req[r].made] + 1 <= Limit
        <4>1. /\ metered[req[r].period] < Limit /\ req[r].period <= req[r].made
              /\ \A m \in Months : m > req[r].period => metered[m] = 0
          BY <1>6 DEF Commit
        <4>2. CASE req[r].made = req[r].period
          BY <3>1, <4>1, <4>2
        <4>3. CASE req[r].made > req[r].period
          BY <3>1, <4>1, <4>3
        <4>4. req[r].made = req[r].period \/ req[r].made > req[r].period
          BY <3>1, <4>1
        <4> QED
          BY <4>2, <4>3, <4>4
      <3>3. \A m \in Months : metered'[m] = IF m = req[r].made THEN metered[m] + 1 ELSE metered[m]
        BY <1>6, <3>1 DEF Commit
      <3>4. ASSUME NEW m \in Months
            PROVE  metered'[m] <= Limit
        BY <3>2, <3>3
      <3> QED
        BY <3>4
    <2> QED
      BY <2>1, <2>2, <2>3, <2>4, <2>5
  <1>7. ASSUME NEW r \in Requests, Fail(r)
        PROVE  QuotaInv'
    <2> DEFINE q == At("closing", req[r].period, req[r].made)
    <2>1. q \in [phase : Phases, period : Months, made : Months]
      OBVIOUS
    <2>2. req' = [req EXCEPT ![r] = q]
      BY <1>7 DEF Fail
    <2> HIDE DEF QuotaInv
    <2> QED
      BY <1>7, <2>1, <2>2, QuotaMoved DEF Fail
  <1>8. ASSUME NEW r \in Requests, Close(r)
        PROVE  QuotaInv'
    <2> DEFINE q == Idle
    <2>1. q \in [phase : Phases, period : Months, made : Months]
      OBVIOUS
    <2>2. req' = [req EXCEPT ![r] = q]
      BY <1>8 DEF Close
    <2> HIDE DEF QuotaInv
    <2> QED
      BY <1>8, <2>1, <2>2, QuotaMoved DEF Close
  <1>9. ASSUME NEW r \in Requests, PoolTimeout(r)
        PROVE  QuotaInv'
    <2> DEFINE q == IF req[r].phase = "arrived" THEN Idle
                    ELSE At("closing", req[r].period, req[r].made)
    <2>1. q \in [phase : Phases, period : Months, made : Months]
      OBVIOUS
    <2>2. req' = [req EXCEPT ![r] = q]
      BY <1>9 DEF PoolTimeout
    <2> HIDE DEF QuotaInv
    <2> QED
      BY <1>9, <2>1, <2>2, QuotaMoved DEF PoolTimeout
  <1>10. CASE ConvertUnmetered
    BY SMTT(30), <1>10 DEF ConvertUnmetered
  <1>11. ASSUME NEW m \in Months, DeleteDraft(m)
         PROVE  QuotaInv'
    <2>1. /\ metered' \in [Months -> Nat] /\ other' \in [Months -> Nat]
          /\ \A k \in Months : metered'[k] <= metered[k]
      <3>1. CASE metered[m] > 0 /\ metered' = [metered EXCEPT ![m] = @ - 1] /\ other' = other
        BY <3>1
      <3>2. CASE other[m] > 0 /\ other' = [other EXCEPT ![m] = @ - 1] /\ metered' = metered
        BY <3>2
      <3> QED
        BY <1>11, <3>1, <3>2 DEF DeleteDraft
    <2>2. month' = month /\ req' = req
      BY <1>11 DEF DeleteDraft
    <2>3. TypeOK' /\ OneHolder'
      BY <2>1, <2>2
    <2>4. \A k \in Months : /\ metered[k] \in Nat /\ metered'[k] \in Nat
                            /\ metered[k] = 0 => metered'[k] = 0
                            /\ metered[k] < Limit => metered'[k] < Limit
                            /\ metered[k] <= Limit => metered'[k] <= Limit
      BY <2>1
    <2>5. Calendar' /\ WithinQuota'
      BY <2>2, <2>4
    <2>6. RoomLeft'
      BY <2>2, <2>4
    <2> QED
      BY <2>3, <2>5, <2>6
  <1>12. CASE NextMonth
    BY <1>12 DEF NextMonth
  <1>13. CASE UNCHANGED vars
    BY <1>13 DEF vars
  <1> QED
    BY <1>1, <1>2, <1>3, <1>4, <1>5, <1>6, <1>7, <1>8, <1>9, <1>10, <1>11, <1>12, <1>13
    DEF Next, Served

\* quota_guard()'s row lock, held until the endpoint's own transaction is
\* over, keeps every month's metered creations within the plan's allowance,
\* whatever arrives, fails, times out, is deleted or crosses a month's end.
THEOREM QuotaHolds == Spec => []WithinQuota
  <1>1. QuotaInv => WithinQuota
    BY DEF QuotaInv
  <1> QED
    BY QuotaInit, QuotaStep, <1>1, PTL DEF Spec
=============================================================================
