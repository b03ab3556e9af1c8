------------------------- MODULE ClientSessionProofs -------------------------
(***************************************************************************)
(* For a browser that makes one call at a time, whatever expires, is       *)
(* revoked, reloaded or lost in between: what ClientSession promises of    *)
(* tokens and pages holds for any number of token pairs, people, tabs and  *)
(* faults.                                                                 *)
(***************************************************************************)
EXTENDS ClientSession, TLAPS

OneAtATime == \A c, d \in Calls : c = d

\* Rows: a pair not minted yet belongs to nobody, and an exchanged one is spent.
Rows ==
    \A p \in Pairs :
        /\ row[p] = "absent" => owner[p] = None /\ parent[p] = None
        /\ parent[p] # None => row[parent[p]] = "revoked"

\* What is stored or in a request's hands was minted.
Minted ==
    /\ store # None => row[store] # "absent"
    /\ \A c \in Calls :
          /\ call[c].got # None => row[call[c].got] # "absent"
          /\ call[c].spent # None => row[call[c].spent] # "absent"

\* A request that has asked for a refresh spends the pair that is stored; the
\* pair it brings back belongs to the same person, or to the one who signs in.
Exchange(c) ==
    LET k == call[c]
    IN  /\ k.step \in {"idle", "sent", "exchanging", "checked"} => k.got = None
        /\ k.step = "idle" => k = Idle
        /\ k.kind = "login" => k.step \in {"sent", "minted"} /\ k.who # None
        /\ k.kind = "logout" => k.step = "sent" /\ k.spent = store /\ k.spent # None
        /\ k.kind # "login" /\ k.step \in {"sent", "retried"} => k.bearer = store
        /\ k.kind # "login" /\ k.step \in {"exchanging", "checked", "minted"} =>
              k.spent = store /\ k.spent # None
        /\ k.step = "checked" => \A p \in Pairs : parent[p] # k.spent
        /\ k.step = "minted" =>
              /\ k.got # None
              /\ IF k.kind = "login" THEN owner[k.got] = k.who
                 ELSE owner[k.got] = owner[k.spent] /\ row[k.spent] = "revoked"
        /\ k.step = "retried" => k.got = store

\* Only the tab that makes calls is ever signed in.
Attended ==
    \A t \in Tabs : page[t].status = "authenticated" => \E c \in Calls : TabOf[c] = t

SessionInv ==
    /\ TypeOK /\ Rows /\ Minted /\ SingleUse
    /\ \A c \in Calls : Exchange(c)
    /\ Attended /\ PageMatchesTokens /\ NoOrphanSession

-----------------------------------------------------------------------------
(* The initial states, and the pair the server mints next.                 *)

LEMMA InitInv == Init => SessionInv
  BY SessionAssumption
  DEF Init, SessionInv, TypeOK, Rows, Minted, SingleUse, Exchange, Attended,
      PageMatchesTokens, NoOrphanSession, SignedOut, Idle, Kinds, Steps, None, Pairs

LEMMA NextPairFree ==
  ASSUME Free # {}
  PROVE  NextPair \in Pairs /\ row[NextPair] = "absent"
  BY DEF NextPair, Free

CallType == [kind : Kinds, step : Steps, who : Users \cup {None}, bearer : Pairs \cup {None},
             spent : Pairs \cup {None}, got : Pairs \cup {None}]

\* A request moves on with another pair in its hands.
LEMMA CallBrings ==
  ASSUME call \in [Calls -> CallType], NEW c \in Calls, NEW s \in Steps, NEW p \in Pairs
  PROVE  /\ [call EXCEPT ![c].step = s, ![c].got = p] \in [Calls -> CallType]
         /\ [call EXCEPT ![c].step = s, ![c].bearer = p] \in [Calls -> CallType]
  <1> DEFINE mid == [call EXCEPT ![c].step = s]
  <1>1. mid \in [Calls -> CallType]
    BY DEF CallType
  <1>2. [mid EXCEPT ![c].got = p] \in [Calls -> CallType]
    BY <1>1 DEF CallType
  <1>3. [mid EXCEPT ![c].bearer = p] \in [Calls -> CallType]
    BY <1>1 DEF CallType
  <1>4. /\ [mid EXCEPT ![c].got = p] = [call EXCEPT ![c].step = s, ![c].got = p]
        /\ [mid EXCEPT ![c].bearer = p] = [call EXCEPT ![c].step = s, ![c].bearer = p]
    BY DEF CallType
  <1> QED
    BY <1>2, <1>3, <1>4

PageType == [status : {"loading", "anonymous", "authenticated"},
             user : Users \cup {None}, at : {"login", "app"}]

\* A page learns whose tokens it holds.
LEMMA PageShows ==
  ASSUME NEW q \in PageType, NEW u \in Users \cup {None}
  PROVE  [q EXCEPT !.status = "authenticated", !.user = u] \in PageType
  <1> DEFINE mid == [q EXCEPT !.status = "authenticated"]
  <1>1. mid \in PageType
    BY DEF PageType
  <1>2. [mid EXCEPT !.user = u] \in PageType
    BY <1>1 DEF PageType
  <1>3. [mid EXCEPT !.user = u] = [q EXCEPT !.status = "authenticated", !.user = u]
    BY DEF PageType
  <1> QED
    BY <1>2, <1>3

-----------------------------------------------------------------------------
(* One lemma per action.                                                   *)

LEMMA StartLoginInv ==
  ASSUME OneAtATime, SessionInv, NEW c \in Calls, NEW u \in Users, StartLogin(c, u)
  PROVE  SessionInv'
  <1> USE SessionAssumption DEF SessionInv, OneAtATime, None, Kinds, Steps, StartLogin, Sent, Idle, server
  <1>1. TypeOK'
    BY DEF TypeOK
  <1>2. Rows'
    BY DEF TypeOK, Rows
  <1>3. Minted'
    BY DEF TypeOK, Minted
  <1>4. SingleUse'
    BY DEF TypeOK, SingleUse, Rows
  <1>5. (\A d \in Calls : Exchange(d))'
    BY DEF TypeOK, Exchange, Minted, Rows
  <1>6. Attended'
    BY DEF Attended, TypeOK
  <1>7. PageMatchesTokens'
    BY DEF PageMatchesTokens, Attended, Exchange, Minted, TypeOK
  <1>8. NoOrphanSession'
    BY DEF NoOrphanSession, Exchange, Minted, TypeOK
  <1> QED
    BY <1>1, <1>2, <1>3, <1>4, <1>5, <1>6, <1>7, <1>8

LEMMA StartDataInv ==
  ASSUME OneAtATime, SessionInv, NEW c \in Calls, StartData(c)
  PROVE  SessionInv'
  <1> USE SessionAssumption DEF SessionInv, OneAtATime, None, Kinds, Steps, StartData, Sent, Idle, server
  <1>1. TypeOK'
    BY DEF TypeOK
  <1>2. Rows'
    BY DEF TypeOK, Rows
  <1>3. Minted'
    BY DEF TypeOK, Minted
  <1>4. SingleUse'
    BY DEF TypeOK, SingleUse, Rows
  <1>5. (\A d \in Calls : Exchange(d))'
    BY DEF TypeOK, Exchange, Minted, Rows
  <1>6. Attended'
    BY DEF Attended, TypeOK
  <1>7. PageMatchesTokens'
    BY DEF PageMatchesTokens, Attended, Exchange, Minted, TypeOK
  <1>8. NoOrphanSession'
    BY DEF NoOrphanSession, Exchange, Minted, TypeOK
  <1> QED
    BY <1>1, <1>2, <1>3, <1>4, <1>5, <1>6, <1>7, <1>8

LEMMA StartLogoutInv ==
  ASSUME OneAtATime, SessionInv, NEW c \in Calls, StartLogout(c)
  PROVE  SessionInv'
  <1> USE SessionAssumption DEF SessionInv, OneAtATime, None, Kinds, Steps, server
  <1>0. /\ UNCHANGED <<row, owner, parent, expired, store, replaced, faults>>
        /\ call[c] = Idle /\ \A d \in Calls : d = c
    BY DEF StartLogout, Exchange
  <1>k. \/ /\ store = None /\ call' = call
           /\ page' = [page EXCEPT ![TabOf[c]] = SignedOut]
        \/ /\ store # None /\ page' = page
           /\ call' = [call EXCEPT ![c] =
                 [kind |-> "logout", step |-> "sent", who |-> None, bearer |-> store,
                  spent |-> store, got |-> None]]
    BY DEF StartLogout, Show, Sent, Idle
  <1>1. TypeOK'
    BY <1>0, <1>k DEF TypeOK, SignedOut
  <1>2. Rows'
    BY <1>0 DEF Rows
  <1>3. Minted'
    BY <1>0, <1>k DEF TypeOK, Minted
  <1>4. SingleUse'
    BY <1>0 DEF SingleUse
  <1>5. (\A d \in Calls : Exchange(d))'
    BY <1>0, <1>k DEF TypeOK, Exchange, Idle
  <1>6. Attended'
    BY <1>0, <1>k DEF Attended, TypeOK, SignedOut
  <1>7. PageMatchesTokens'
    BY <1>0, <1>k DEF PageMatchesTokens, TypeOK, SignedOut
  <1>8. NoOrphanSession'
    BY <1>0, <1>k DEF NoOrphanSession, TypeOK, Idle
  <1> QED
    BY <1>1, <1>2, <1>3, <1>4, <1>5, <1>6, <1>7, <1>8

LEMMA RefreshCheckInv ==
  ASSUME OneAtATime, SessionInv, NEW c \in Calls, RefreshCheck(c)
  PROVE  SessionInv'
  <1> USE SessionAssumption DEF SessionInv, OneAtATime, None, Kinds, Steps, RefreshCheck, server
  <1>1. TypeOK'
    BY DEF TypeOK
  <1>2. Rows'
    BY DEF TypeOK, Rows
  <1>3. Minted'
    BY DEF TypeOK, Minted
  <1>4. SingleUse'
    BY DEF TypeOK, SingleUse, Rows
  <1>5. (\A d \in Calls : Exchange(d))'
    BY DEF TypeOK, Exchange, Minted, Rows
  <1>6. Attended'
    BY DEF Attended, TypeOK
  <1>7. PageMatchesTokens'
    BY DEF PageMatchesTokens, Attended, Exchange, Minted, TypeOK
  <1>8. NoOrphanSession'
    BY DEF NoOrphanSession, Exchange, Minted, TypeOK
  <1> QED
    BY <1>1, <1>2, <1>3, <1>4, <1>5, <1>6, <1>7, <1>8

LEMMA ChangePasswordInv ==
  ASSUME OneAtATime, SessionInv, NEW u \in Users, ChangePassword(u)
  PROVE  SessionInv'
  <1> USE SessionAssumption DEF SessionInv, OneAtATime, None, Kinds, Steps, ChangePassword
  <1>1. TypeOK'
    BY DEF TypeOK
  <1>2. Rows'
    BY DEF TypeOK, Rows
  <1>3. Minted'
    BY DEF TypeOK, Minted
  <1>4. SingleUse'
    BY DEF TypeOK, SingleUse, Rows
  <1>5. (\A d \in Calls : Exchange(d))'
    BY DEF TypeOK, Exchange, Minted, Rows
  <1>6. Attended'
    BY DEF Attended, TypeOK
  <1>7. PageMatchesTokens'
    BY DEF PageMatchesTokens, Attended, Exchange, Minted, TypeOK
  <1>8. NoOrphanSession'
    BY DEF NoOrphanSession, Exchange, Minted, TypeOK
  <1> QED
    BY <1>1, <1>2, <1>3, <1>4, <1>5, <1>6, <1>7, <1>8

LEMMA ExpireInv ==
  ASSUME OneAtATime, SessionInv, NEW p \in Pairs, Expire(p)
  PROVE  SessionInv'
  <1> USE SessionAssumption DEF SessionInv, OneAtATime, None, Kinds, Steps, Expire, server
  <1>1. TypeOK'
    BY DEF TypeOK
  <1>2. Rows'
    BY DEF TypeOK, Rows
  <1>3. Minted'
    BY DEF TypeOK, Minted
  <1>4. SingleUse'
    BY DEF TypeOK, SingleUse, Rows
  <1>5. (\A d \in Calls : Exchange(d))'
    BY DEF TypeOK, Exchange, Minted, Rows
  <1>6. Attended'
    BY DEF Attended, TypeOK
  <1>7. PageMatchesTokens'
    BY DEF PageMatchesTokens, Attended, Exchange, Minted, TypeOK
  <1>8. NoOrphanSession'
    BY DEF NoOrphanSession, Exchange, Minted, TypeOK
  <1> QED
    BY <1>1, <1>2, <1>3, <1>4, <1>5, <1>6, <1>7, <1>8

LEMMA AnswerInv ==
  ASSUME OneAtATime, SessionInv, NEW c \in Calls, Answer(c)
  PROVE  SessionInv'
  <1> USE SessionAssumption DEF SessionInv, OneAtATime, None, Kinds, Steps, Answer, Accepted, Succeed, Done, Show, Idle, server
  <1>0. /\ call[c].bearer \in Pairs /\ row[call[c].bearer] # "absent"
        /\ call[c].bearer = store
    BY DEF TypeOK, Exchange, Minted
  <1>1. TypeOK'
    <2>1. call' \in [Calls -> CallType]
      BY DEF TypeOK, CallType
    <2>2. page' \in [Tabs -> [status : {"loading", "anonymous", "authenticated"},
                              user : Users \cup {None}, at : {"login", "app"}]]
      <3>1. TabOf[c] \in Tabs /\ owner[call[c].bearer] \in Users \cup {None}
        BY <1>0 DEF TypeOK
      <3>2. page[TabOf[c]] \in PageType
        BY <3>1 DEF TypeOK, PageType
      <3>3. [page[TabOf[c]] EXCEPT !.status = "authenticated", !.user = owner[call[c].bearer]]
              \in PageType
        BY <3>1, <3>2, PageShows
      <3>4. page \in [Tabs -> PageType]
        BY DEF TypeOK, PageType
      <3>5. \/ page' = page
            \/ page' = [page EXCEPT ![TabOf[c]] =
                 [page[TabOf[c]] EXCEPT !.status = "authenticated", !.user = owner[call[c].bearer]]]
        OBVIOUS
      <3> HIDE DEF Answer, SessionInv
      <3>6. page' \in [Tabs -> PageType]
        BY <3>1, <3>3, <3>4, <3>5
      <3> QED
        BY <3>6 DEF PageType
    <2> QED
      BY <2>1, <2>2 DEF TypeOK, CallType
  <1>2. Rows'
    BY DEF TypeOK, Rows
  <1>3. Minted'
    BY DEF TypeOK, Minted
  <1>4. SingleUse'
    BY DEF TypeOK, SingleUse, Rows
  <1>5. (\A d \in Calls : Exchange(d))'
    BY DEF TypeOK, Exchange, Minted, Rows
  <1>6. Attended'
    BY DEF Attended, TypeOK
  <1>7. PageMatchesTokens'
    <2> SUFFICES ASSUME NEW t \in Tabs, page'[t].status = "authenticated", store # None
                 PROVE  owner[store] = page'[t].user
      BY DEF PageMatchesTokens
    <2>1. CASE call[c].kind = "me" /\ t = TabOf[c]
      <3>1. page[t] \in [status : {"loading", "anonymous", "authenticated"},
                         user : Users \cup {None}, at : {"login", "app"}]
        BY DEF TypeOK
      <3>2. page'[t] = [page[t] EXCEPT !.status = "authenticated", !.user = owner[call[c].bearer]]
        BY <2>1 DEF TypeOK
      <3> QED
        BY <1>0, <3>1, <3>2
    <2>2. CASE ~(call[c].kind = "me" /\ t = TabOf[c])
      <3>1. page'[t] = page[t]
        BY <2>2 DEF TypeOK
      <3> QED
        BY <3>1 DEF PageMatchesTokens
    <2> QED
      BY <2>1, <2>2
  <1>8. NoOrphanSession'
    BY DEF NoOrphanSession, Exchange, Minted, TypeOK
  <1> QED
    BY <1>1, <1>2, <1>3, <1>4, <1>5, <1>6, <1>7, <1>8

LEMMA UnauthorizedInv ==
  ASSUME OneAtATime, SessionInv, NEW c \in Calls, Unauthorized(c)
  PROVE  SessionInv'
  <1> USE SessionAssumption DEF SessionInv, OneAtATime, None, Kinds, Steps, Unauthorized, Done, FailStore, FailPage, Show, SignedOut, Idle, server
  <1>1. TypeOK'
    BY DEF TypeOK
  <1>2. Rows'
    BY DEF TypeOK, Rows
  <1>3. Minted'
    BY DEF TypeOK, Minted
  <1>4. SingleUse'
    BY DEF TypeOK, SingleUse, Rows
  <1>5. (\A d \in Calls : Exchange(d))'
    BY DEF TypeOK, Exchange, Minted, Rows
  <1>6. Attended'
    BY DEF Attended, TypeOK
  <1>7. PageMatchesTokens'
    BY DEF PageMatchesTokens, Attended, Exchange, Minted, TypeOK
  <1>8. NoOrphanSession'
    BY DEF NoOrphanSession, Exchange, Minted, TypeOK
  <1> QED
    BY <1>1, <1>2, <1>3, <1>4, <1>5, <1>6, <1>7, <1>8

LEMMA RefusedInv ==
  ASSUME OneAtATime, SessionInv, NEW c \in Calls, Refused(c)
  PROVE  SessionInv'
  <1> USE SessionAssumption DEF SessionInv, OneAtATime, None, Kinds, Steps, Refused, Done, FailPage, Show, SignedOut, Idle, server
  <1>1. TypeOK'
    BY DEF TypeOK
  <1>2. Rows'
    BY DEF TypeOK, Rows
  <1>3. Minted'
    BY DEF TypeOK, Minted
  <1>4. SingleUse'
    BY DEF TypeOK, SingleUse, Rows
  <1>5. (\A d \in Calls : Exchange(d))'
    BY DEF TypeOK, Exchange, Minted, Rows
  <1>6. Attended'
    BY DEF Attended, TypeOK
  <1>7. PageMatchesTokens'
    BY DEF PageMatchesTokens, Attended, Exchange, Minted, TypeOK
  <1>8. NoOrphanSession'
    BY DEF NoOrphanSession, Exchange, Minted, TypeOK
  <1> QED
    BY <1>1, <1>2, <1>3, <1>4, <1>5, <1>6, <1>7, <1>8

LEMMA RetryInv ==
  ASSUME OneAtATime, SessionInv, NEW c \in Calls, Retry(c)
  PROVE  SessionInv'
  <1> USE SessionAssumption DEF SessionInv, OneAtATime, None, Kinds, Steps, Retry, server
  <1>0. call[c].got \in Pairs /\ "retried" \in Steps
    BY DEF TypeOK, Exchange
  <1>1. TypeOK'
    BY <1>0, CallBrings DEF TypeOK, CallType
  <1>2. Rows'
    BY DEF TypeOK, Rows
  <1>3. Minted'
    BY DEF TypeOK, Minted
  <1>4. SingleUse'
    BY DEF TypeOK, SingleUse, Rows
  <1>5. (\A d \in Calls : Exchange(d))'
    BY DEF TypeOK, Exchange, Minted, Rows
  <1>6. Attended'
    BY DEF Attended, TypeOK
  <1>7. PageMatchesTokens'
    BY DEF PageMatchesTokens, Attended, Exchange, Minted, TypeOK
  <1>8. NoOrphanSession'
    BY DEF NoOrphanSession, Exchange, Minted, TypeOK
  <1> QED
    BY <1>1, <1>2, <1>3, <1>4, <1>5, <1>6, <1>7, <1>8

LEMMA SignInInv ==
  ASSUME OneAtATime, SessionInv, NEW c \in Calls, SignIn(c)
  PROVE  SessionInv'
  <1> USE SessionAssumption DEF SessionInv, OneAtATime, None, Kinds, Steps, SignIn, Show, SignedIn, Done, Idle, server
  <1>1. TypeOK'
    BY DEF TypeOK
  <1>2. Rows'
    BY DEF TypeOK, Rows
  <1>3. Minted'
    BY DEF TypeOK, Minted
  <1>4. SingleUse'
    BY DEF TypeOK, SingleUse, Rows
  <1>5. (\A d \in Calls : Exchange(d))'
    BY DEF TypeOK, Exchange, Minted, Rows
  <1>6. Attended'
    BY DEF Attended, TypeOK
  <1>7. PageMatchesTokens'
    BY DEF PageMatchesTokens, Attended, Exchange, Minted, TypeOK
  <1>8. NoOrphanSession'
    BY DEF NoOrphanSession, Exchange, Minted, TypeOK
  <1> QED
    BY <1>1, <1>2, <1>3, <1>4, <1>5, <1>6, <1>7, <1>8

LEMMA SignInRefusedInv ==
  ASSUME OneAtATime, SessionInv, NEW c \in Calls, SignInRefused(c)
  PROVE  SessionInv'
  <1> USE SessionAssumption DEF SessionInv, OneAtATime, None, Kinds, Steps, SignInRefused, Done, Idle, server
  <1>1. TypeOK'
    BY DEF TypeOK
  <1>2. Rows'
    BY DEF TypeOK, Rows
  <1>3. Minted'
    BY DEF TypeOK, Minted
  <1>4. SingleUse'
    BY DEF TypeOK, SingleUse, Rows
  <1>5. (\A d \in Calls : Exchange(d))'
    BY DEF TypeOK, Exchange, Minted, Rows
  <1>6. Attended'
    BY DEF Attended, TypeOK
  <1>7. PageMatchesTokens'
    BY DEF PageMatchesTokens, Attended, Exchange, Minted, TypeOK
  <1>8. NoOrphanSession'
    BY DEF NoOrphanSession, Exchange, Minted, TypeOK
  <1> QED
    BY <1>1, <1>2, <1>3, <1>4, <1>5, <1>6, <1>7, <1>8

LEMMA SignOutInv ==
  ASSUME OneAtATime, SessionInv, NEW c \in Calls, SignOut(c)
  PROVE  SessionInv'
  <1> USE SessionAssumption DEF SessionInv, OneAtATime, None, Kinds, Steps, SignOut, Show, SignedOut, Done, Idle
  <1>1. TypeOK'
    BY DEF TypeOK
  <1>2. Rows'
    BY DEF TypeOK, Rows
  <1>3. Minted'
    BY DEF TypeOK, Minted
  <1>4. SingleUse'
    BY DEF TypeOK, SingleUse, Rows
  <1>5. (\A d \in Calls : Exchange(d))'
    BY DEF TypeOK, Exchange, Minted, Rows
  <1>6. Attended'
    BY DEF Attended, TypeOK
  <1>7. PageMatchesTokens'
    BY DEF PageMatchesTokens, Attended, Exchange, Minted, TypeOK
  <1>8. NoOrphanSession'
    BY DEF NoOrphanSession, Exchange, Minted, TypeOK
  <1> QED
    BY <1>1, <1>2, <1>3, <1>4, <1>5, <1>6, <1>7, <1>8

LEMMA LostInv ==
  ASSUME OneAtATime, SessionInv, NEW c \in Calls, Lost(c)
  PROVE  SessionInv'
  <1> USE SessionAssumption DEF SessionInv, OneAtATime, None, Kinds, Steps, Lost, FailStore, FailPage, Show, SignedOut, Done, Idle, server
  <1>1. TypeOK'
    BY DEF TypeOK
  <1>2. Rows'
    BY DEF TypeOK, Rows
  <1>3. Minted'
    BY DEF TypeOK, Minted
  <1>4. SingleUse'
    BY DEF TypeOK, SingleUse, Rows
  <1>5. (\A d \in Calls : Exchange(d))'
    BY DEF TypeOK, Exchange, Minted, Rows
  <1>6. Attended'
    BY DEF Attended, TypeOK
  <1>7. PageMatchesTokens'
    BY DEF PageMatchesTokens, Attended, Exchange, Minted, TypeOK
  <1>8. NoOrphanSession'
    BY DEF NoOrphanSession, Exchange, Minted, TypeOK
  <1> QED
    BY <1>1, <1>2, <1>3, <1>4, <1>5, <1>6, <1>7, <1>8

LEMMA ReloadInv ==
  ASSUME OneAtATime, SessionInv, NEW t \in Tabs, Reload(t)
  PROVE  SessionInv'
  <1> USE SessionAssumption DEF SessionInv, OneAtATime, None, Kinds, Steps
  <1>0. /\ UNCHANGED <<row, owner, parent, expired, store, replaced>>
        /\ \/ faults' = faults /\ \A d \in Calls : TabOf[d] = t => call[d].step = "idle"
           \/ faults < MaxFaults /\ faults' = faults + 1
    BY DEF Reload, InFlight
  <1>g. faults' \in 0..MaxFaults /\ (faults' = 0 => faults = 0 /\ faults' = faults)
    BY <1>0 DEF TypeOK
  <1>p. page' \in [Tabs -> PageType] /\ page'[t].status # "authenticated"
        /\ \A q \in Tabs \ {t} : page'[q] = page[q]
    <2>1. page[t].at \in {"login", "app"}
      BY DEF TypeOK
    <2> QED
      BY <2>1 DEF Reload, Load, Show, SignedOut, TypeOK, PageType
  <1>k. \A d \in Calls :
           \/ call'[d] = Idle
           \/ call'[d] = call[d] /\ TabOf[d] # t
           \/ /\ store # None
              /\ call'[d] = [kind |-> "me", step |-> "sent", who |-> None, bearer |-> store,
                             spent |-> None, got |-> None]
    BY DEF Reload, Load, Sent, Idle
  <1>f. call' = [d \in Calls |-> call'[d]]
    BY DEF Reload, Load
  <1>1. TypeOK'
    <2>1. \A d \in Calls : call'[d] \in CallType
      BY <1>k DEF TypeOK, CallType, Idle
    <2>2. call' \in [Calls -> CallType]
      BY <1>f, <2>1
    <2> QED
      BY <1>0, <1>g, <1>p, <2>2 DEF TypeOK, PageType, CallType
  <1>2. Rows'
    BY <1>0 DEF Rows
  <1>3. Minted'
    BY <1>0, <1>k DEF Minted, Idle
  <1>4. SingleUse'
    BY <1>0 DEF SingleUse
  <1>5. (\A d \in Calls : Exchange(d))'
    <2> SUFFICES ASSUME NEW d \in Calls
                 PROVE  Exchange(d)'
      OBVIOUS
    <2>1. CASE call'[d] = Idle
      BY <2>1 DEF Exchange, Idle
    <2>2. CASE call'[d] = call[d]
      BY <1>0, <2>2 DEF Exchange
    <2>3. CASE /\ store # None
               /\ call'[d] = [kind |-> "me", step |-> "sent", who |-> None, bearer |-> store,
                              spent |-> None, got |-> None]
      BY <1>0, <2>3 DEF Exchange
    <2> QED
      BY <1>k, <2>1, <2>2, <2>3
  <1>6. Attended'
    BY <1>p DEF Attended
  <1>7. PageMatchesTokens'
    BY <1>0, <1>p DEF PageMatchesTokens
  <1>8. NoOrphanSession'
    <2> SUFFICES ASSUME faults' = 0, NEW p \in Pairs, row[p] = "live", store # p, p \notin replaced
                 PROVE  \E d \in Calls : call'[d].got = p
      BY <1>0 DEF NoOrphanSession
    <2>1. PICK d \in Calls : call[d].got = p
      BY <1>g DEF NoOrphanSession
    <2>2. call[d].step # "idle"
      BY <2>1 DEF Exchange, Idle, Pairs
    <2>3. TabOf[d] # t
      BY <1>0, <1>g, <2>2 DEF TypeOK
    <2>4. call'[d] = call[d]
      BY <2>3, <1>k DEF Reload, Load
    <2> QED
      BY <2>1, <2>4
  <1> QED
    BY <1>1, <1>2, <1>3, <1>4, <1>5, <1>6, <1>7, <1>8

LEMMA LoginCommitInv ==
  ASSUME OneAtATime, SessionInv, NEW c \in Calls, LoginCommit(c)
  PROVE  SessionInv'
  <1> USE SessionAssumption DEF SessionInv, OneAtATime, None, Kinds, Steps, LoginCommit, Mint
  <1>0. NextPair \in Pairs /\ row[NextPair] = "absent"
    BY NextPairFree
  <1>a. None \notin Pairs /\ call[c].who \in Users /\ "minted" \in Steps
    BY DEF TypeOK, Exchange, Pairs
  <1>1. TypeOK'
    BY <1>0, <1>a, CallBrings DEF TypeOK, CallType
  <1>2. Rows'
    BY <1>0, <1>a DEF TypeOK, Rows
  <1>3. Minted'
    BY <1>0, <1>a DEF TypeOK, Minted
  <1>4. SingleUse'
    BY <1>0, <1>a DEF TypeOK, SingleUse, Rows
  <1>5. (\A d \in Calls : Exchange(d))'
    <2>1. /\ call'[c].kind = "login" /\ call'[c].step = "minted"
          /\ call'[c].got = NextPair /\ call'[c].who = call[c].who
      BY DEF TypeOK
    <2>2. owner'[NextPair] = call[c].who
      BY <1>0 DEF TypeOK
    <2>3. NextPair # None /\ call[c].who # None
      BY <1>0, <1>a
    <2>4. \A d \in Calls : d = c
      OBVIOUS
    <2> HIDE DEF LoginCommit, Mint, SessionInv
    <2> QED
      BY <2>1, <2>2, <2>3, <2>4 DEF Exchange
  <1>6. Attended'
    BY <1>0, <1>a DEF Attended, TypeOK
  <1>7. PageMatchesTokens'
    BY <1>0, <1>a DEF PageMatchesTokens, Attended, Exchange, Minted, TypeOK
  <1>8. NoOrphanSession'
    BY <1>0, <1>a DEF NoOrphanSession, Exchange, Minted, TypeOK
  <1> QED
    BY <1>1, <1>2, <1>3, <1>4, <1>5, <1>6, <1>7, <1>8

LEMMA RefreshCommitInv ==
  ASSUME OneAtATime, SessionInv, NEW c \in Calls, RefreshCommit(c)
  PROVE  SessionInv'
  <1> USE SessionAssumption DEF SessionInv, OneAtATime, None, Kinds, Steps, RefreshCommit, Mint
  <1>0. NextPair \in Pairs /\ row[NextPair] = "absent"
    BY NextPairFree
  <1>a. /\ None \notin Pairs /\ call[c].spent \in Pairs /\ "minted" \in Steps
        /\ row[call[c].spent] # "absent" /\ call[c].kind # "login"
        /\ call[c].spent = store /\ call[c].spent # NextPair
    BY <1>0 DEF TypeOK, Exchange, Minted, Pairs
  <1>1. TypeOK'
    BY <1>0, <1>a, CallBrings DEF TypeOK, CallType
  <1>2. Rows'
    <2> SUFFICES ASSUME NEW p \in Pairs
                 PROVE  /\ row'[p] = "absent" => owner'[p] = None /\ parent'[p] = None
                        /\ parent'[p] # None => row'[parent'[p]] = "revoked"
      BY DEF Rows
    <2>1. parent[p] \in Pairs \cup {None} /\ parent[p] # NextPair
      BY <1>0, <1>a DEF TypeOK, Rows
    <2> QED
      BY <1>0, <1>a, <2>1 DEF TypeOK, Rows
  <1>3. Minted'
    BY <1>0, <1>a DEF TypeOK, Minted
  <1>4. SingleUse'
    <2>1. \A p \in Pairs : parent[p] # call[c].spent
      BY DEF Exchange
    <2>2. \A p \in Pairs : parent'[p] = IF p = NextPair THEN call[c].spent ELSE parent[p]
      BY <1>0 DEF TypeOK
    <2> QED
      BY <2>1, <2>2 DEF SingleUse
  <1>5. (\A d \in Calls : Exchange(d))'
    <2>1. /\ call'[c].kind = call[c].kind /\ call'[c].step = "minted"
          /\ call'[c].got = NextPair /\ call'[c].spent = call[c].spent
      BY DEF TypeOK
    <2>2. /\ owner'[NextPair] = owner[call[c].spent]
          /\ owner'[call[c].spent] = owner[call[c].spent]
          /\ row'[call[c].spent] = "revoked"
      BY <1>0, <1>a DEF TypeOK
    <2>3. NextPair # None /\ call[c].spent # None /\ call[c].kind # "logout" /\ store' = store
      BY <1>0, <1>a DEF Exchange
    <2>4. call[c].spent = store /\ call[c].kind # "login" /\ \A d \in Calls : d = c
      BY <1>a
    <2> HIDE DEF RefreshCommit, Mint, SessionInv
    <2> QED
      BY <2>1, <2>2, <2>3, <2>4 DEF Exchange
  <1>6. Attended'
    BY <1>0, <1>a DEF Attended, TypeOK
  <1>7. PageMatchesTokens'
    BY <1>0, <1>a DEF PageMatchesTokens, Attended, Exchange, Minted, TypeOK
  <1>8. NoOrphanSession'
    BY <1>0, <1>a DEF NoOrphanSession, Exchange, Minted, TypeOK
  <1> QED
    BY <1>1, <1>2, <1>3, <1>4, <1>5, <1>6, <1>7, <1>8

-----------------------------------------------------------------------------
(* The theorems.                                                           *)

LEMMA NextInv ==
  ASSUME OneAtATime, SessionInv, [Next]_vars
  PROVE  SessionInv'
  <1>1. CASE UNCHANGED vars
    BY <1>1 DEF vars, SessionInv, TypeOK, Rows, Minted, SingleUse, Exchange, Attended,
                PageMatchesTokens, NoOrphanSession
  <1>2. CASE Next
    BY <1>2, ReloadInv, StartLoginInv, StartDataInv, StartLogoutInv, RefreshCheckInv,
       RefreshCommitInv, LoginCommitInv, AnswerInv, UnauthorizedInv, RefusedInv, RetryInv,
       SignInInv, SignInRefusedInv, SignOutInv, LostInv, ChangePasswordInv, ExpireInv
    DEF Next, Served
  <1> QED
    BY <1>1, <1>2

LEMMA SessionInductive == ASSUME OneAtATime PROVE Spec => []SessionInv
  <1>1. SessionInv /\ [Next]_vars => SessionInv'
    BY NextInv
  <1> QED
    BY InitInv, <1>1, PTL DEF Spec

\* A browser with one request in flight never has a refresh token exchanged
\* twice, for any number of pairs, expiries, revocations, reloads and losses:
\* refresh()'s unlocked check and revoke are enough for it, and only for it.
THEOREM OneCallSingleUse == ASSUME OneAtATime PROVE Spec => []SingleUse
  <1>1. SessionInv => SingleUse
    BY DEF SessionInv
  <1> QED
    BY SessionInductive, <1>1, PTL

\* With one request in flight, a page that says who is signed in never shows
\* one person while localStorage holds the tokens of another.
THEOREM OneCallPages == ASSUME OneAtATime PROVE Spec => []PageMatchesTokens
  <1>1. SessionInv => PageMatchesTokens
    BY DEF SessionInv
  <1> QED
    BY SessionInductive, <1>1, PTL

\* With one request in flight and no lost answer, every refresh token the
\* server still accepts is in the store, in the hands of the request that
\* fetched it, or was written over by a later sign-in.
THEOREM OneCallNoOrphans == ASSUME OneAtATime PROVE Spec => []NoOrphanSession
  <1>1. SessionInv => NoOrphanSession
    BY DEF SessionInv
  <1> QED
    BY SessionInductive, <1>1, PTL

\* With one request in flight, only signing out or a lost answer clears from
\* the store a pair the server would still accept: a refused refresh never
\* throws away good tokens.
THEOREM OneCallFreshTokens == ASSUME OneAtATime PROVE Spec => FreshTokensKept
  <1> DEFINE Kept == store # None /\ store' = None /\ row'[store] = "live" =>
                        \/ faults' # faults
                        \/ \E c \in Calls : call[c].kind = "logout" /\ call'[c] # call[c]
  <1>1. SessionInv /\ [Next]_vars => [Kept]_vars
    <2> SUFFICES ASSUME SessionInv, Next, store # None, store' = None, row'[store] = "live"
                 PROVE  \/ faults' # faults
                        \/ \E c \in Calls : call[c].kind = "logout" /\ call'[c] # call[c]
      OBVIOUS
    <2>1. PICK c \in Calls :
             LoginCommit(c) \/ Unauthorized(c) \/ Refused(c) \/ Retry(c) \/ SignIn(c)
             \/ SignOut(c) \/ Lost(c)
      BY DEF Next, Served, Reload, StartLogin, StartData, StartLogout, RefreshCheck,
             RefreshCommit, Answer, SignInRefused, ChangePassword, Expire
    <2>2. CASE Refused(c)
      BY <2>2 DEF Refused, server, SessionInv, Exchange, Minted, TypeOK
    <2>3. CASE Lost(c)
      BY <2>3 DEF Lost, SessionInv, TypeOK
    <2>4. CASE SignOut(c)
      BY <2>4 DEF SignOut, SessionInv, TypeOK, Exchange
    <2>5. CASE Retry(c) \/ SignIn(c)
      BY <2>5 DEF Retry, SignIn, SessionInv, Exchange
    <2>6. CASE LoginCommit(c) \/ Unauthorized(c)
      BY <2>6 DEF LoginCommit, Unauthorized, FailStore
    <2> QED
      BY <2>1, <2>2, <2>3, <2>4, <2>5, <2>6
  <1> QED
    BY SessionInductive, <1>1, PTL DEF Spec, FreshTokensKept

=============================================================================
