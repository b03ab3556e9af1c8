---------------------------- MODULE ClientSession ----------------------------
(***************************************************************************)
(* The web client's session: the ApiClient of frontend-react, which        *)
(* refreshes and retries, the token store in localStorage that all tabs    *)
(* share, the SessionProvider of frontend-saas, and the rotation of        *)
(* refresh tokens in AuthService.                                          *)
(*                                                                         *)
(* A token pair is a number.  Pair p is an access token, which the server  *)
(* accepts until it expires and cannot revoke, and a refresh token, which  *)
(* is a row the server revokes.                                            *)
(***************************************************************************)
EXTENDS Naturals, FiniteSets

CONSTANTS
    Tabs,       \* browser tabs
    Calls,      \* requests a tab may have in flight, each one slot
    TabOf,      \* the tab a slot belongs to
    Users,      \* people who sign in on this browser
    MaxPairs,   \* bound: token pairs the server mints
    MaxFaults   \* bound: answers the network loses

ASSUME SessionAssumption ==
    /\ TabOf \in [Calls -> Tabs]
    /\ MaxPairs \in Nat
    /\ MaxFaults \in Nat
    /\ 0 \notin Users

Pairs == 1..MaxPairs
None == 0

VARIABLES
    row,      \* refresh_tokens rows: row[p] of pair p
    owner,    \* the user a pair was minted for
    parent,   \* the pair whose refresh token was exchanged for this one
    expired,  \* pairs whose access token has expired
    store,    \* the pair in localStorage
    page,     \* page[t]: SessionProvider's status and user, and the route
    call,     \* the requests in flight
    replaced, \* pairs a later sign-in wrote over in the store
    faults    \* answers lost so far

vars == <<row, owner, parent, expired, store, page, call, replaced, faults>>
server == <<row, owner, parent>>

Kinds == {"me", "data", "login", "logout"}
Steps == {"idle", "sent", "exchanging", "checked", "minted", "retried"}

Idle == [kind |-> "data", step |-> "idle", who |-> None, bearer |-> None,
         spent |-> None, got |-> None]

TypeOK ==
    /\ row \in [Pairs -> {"absent", "live", "revoked"}]
    /\ owner \in [Pairs -> Users \cup {None}]
    /\ parent \in [Pairs -> Pairs \cup {None}]
    /\ expired \subseteq Pairs
    /\ store \in Pairs \cup {None}
    /\ page \in [Tabs -> [status : {"loading", "anonymous", "authenticated"},
                          user : Users \cup {None}, at : {"login", "app"}]]
    /\ call \in [Calls -> [kind : Kinds, step : Steps, who : Users \cup {None},
                           bearer : Pairs \cup {None}, spent : Pairs \cup {None},
                           got : Pairs \cup {None}]]
    /\ replaced \subseteq Pairs
    /\ faults \in 0..MaxFaults

-----------------------------------------------------------------------------
SignedOut == [status |-> "anonymous", user |-> None, at |-> "login"]
SignedIn(u) == [status |-> "authenticated", user |-> u, at |-> "app"]

Init ==
    /\ row = [p \in Pairs |-> "absent"]
    /\ owner = [p \in Pairs |-> None]
    /\ parent = [p \in Pairs |-> None]
    /\ expired = {}
    /\ store = None
    /\ page = [t \in Tabs |-> SignedOut]
    /\ call = [c \in Calls |-> Idle]
    /\ replaced = {}
    /\ faults = 0

Free == {p \in Pairs : row[p] = "absent"}
InFlight == {c \in Calls : call[c].step # "idle"}

\* Every call can make the server mint one pair; a call starts only while
\* the bound leaves one for it.
Room == Cardinality(Free) > Cardinality(InFlight)

\* rawRequest() reads the access token when it sends, not when it is answered.
Sent(kind, u) == [Idle EXCEPT !.kind = kind, !.step = "sent", !.who = u, !.bearer = store]

Done(c) == call' = [call EXCEPT ![c] = Idle]
Show(t, p) == page' = [page EXCEPT ![t] = p]

-----------------------------------------------------------------------------
(* Loading a page: SessionProvider's effect.                               *)

\* A load drops what the tab had in memory.  With tokens it asks GET
\* /users/me before it shows anything, without them it is anonymous, and
\* RequireAuth sends an anonymous page to /login.
Load(t) ==
    \/ /\ store = None
       /\ Show(t, SignedOut)
       /\ call' = [c \in Calls |-> IF TabOf[c] = t THEN Idle ELSE call[c]]
    \/ /\ store # None
       /\ Room
       /\ \E at \in {page[t].at, "login"} :
              Show(t, [status |-> "loading", user |-> None, at |-> at])
       /\ \E c \in Calls :
             /\ TabOf[c] = t
             /\ call' = [d \in Calls |-> IF d = c THEN Sent("me", None)
                                         ELSE IF TabOf[d] = t THEN Idle ELSE call[d]]

\* Whatever the tab was waiting for is lost with it.
Reload(t) ==
    /\ Load(t)
    /\ IF \E c \in InFlight : TabOf[c] = t
       THEN faults < MaxFaults /\ faults' = faults + 1
       ELSE UNCHANGED faults
    /\ UNCHANGED <<row, owner, parent, expired, store, replaced>>

-----------------------------------------------------------------------------
(* What a person starts.                                                   *)

\* LoginPage and SignupPage disable their button while a sign-in is pending.
\* /login is outside RequireAuth: it is reachable in every status.
StartLogin(c, u) ==
    LET t == TabOf[c]
    IN  /\ call[c].step = "idle" /\ Room
        /\ page[t].at = "login"
        /\ \A d \in InFlight : TabOf[d] = t => call[d].kind # "login"
        /\ call' = [call EXCEPT ![c] = Sent("login", u)]
        /\ UNCHANGED <<server, expired, store, page, replaced, faults>>

\* Any protected method: a screen of the application asks for data.
StartData(c) ==
    LET t == TabOf[c]
    IN  /\ call[c].step = "idle" /\ Room
        /\ page[t].at = "app" /\ page[t].status = "authenticated"
        /\ call' = [call EXCEPT ![c] = Sent("data", None)]
        /\ UNCHANGED <<server, expired, store, page, replaced, faults>>

\* logout() has nothing to send without a refresh token.
StartLogout(c) ==
    LET t == TabOf[c]
    IN  /\ call[c].step = "idle"
        /\ page[t].at = "app" /\ page[t].status = "authenticated"
        /\ IF store = None
           THEN Show(t, SignedOut) /\ UNCHANGED call
           ELSE /\ Room
                /\ call' = [call EXCEPT ![c] = [Sent("logout", None) EXCEPT !.spent = store]]
                /\ UNCHANGED page
        /\ UNCHANGED <<server, expired, store, replaced, faults>>

-----------------------------------------------------------------------------
(* AuthService.                                                            *)

NextPair == CHOOSE p \in Free : TRUE

\* The server adds the row of a new pair.
Mint(u, from) ==
    /\ Free # {}
    /\ row' = [p \in Pairs |-> IF p = NextPair THEN "live"
                               ELSE IF p = from THEN "revoked" ELSE row[p]]
    /\ owner' = [owner EXCEPT ![NextPair] = u]
    /\ parent' = [parent EXCEPT ![NextPair] = from]

\* Faulty variant of RefreshCommit: the exchanged token is not revoked.
RefreshKeepsOld(c) ==
    /\ call[c].step = "checked"
    /\ Free # {}
    /\ row' = [row EXCEPT ![NextPair] = "live"]
    /\ owner' = [owner EXCEPT ![NextPair] = owner[call[c].spent]]
    /\ parent' = [parent EXCEPT ![NextPair] = call[c].spent]
    /\ call' = [call EXCEPT ![c].step = "minted", ![c].got = NextPair]
    /\ UNCHANGED <<expired, store, page, replaced, faults>>

\* refresh() reads the row and later, in the same transaction but without a
\* lock, revokes it and adds the next one.
RefreshCheck(c) ==
    /\ call[c].step = "exchanging"
    /\ row[call[c].spent] = "live"
    /\ call' = [call EXCEPT ![c].step = "checked"]
    /\ UNCHANGED <<server, expired, store, page, replaced, faults>>

RefreshCommit(c) ==
    /\ call[c].step = "checked"
    /\ Mint(owner[call[c].spent], call[c].spent)
    /\ call' = [call EXCEPT ![c].step = "minted", ![c].got = NextPair]
    /\ UNCHANGED <<expired, store, page, replaced, faults>>

LoginCommit(c) ==
    /\ call[c].kind = "login" /\ call[c].step = "sent"
    /\ Mint(call[c].who, None)
    /\ call' = [call EXCEPT ![c].step = "minted", ![c].got = NextPair]
    /\ UNCHANGED <<expired, store, page, replaced, faults>>

\* Somewhere else the person changes the password: every live row is revoked.
ChangePassword(u) ==
    /\ \E p \in Pairs : row[p] = "live" /\ owner[p] = u
    /\ row' = [p \in Pairs |-> IF row[p] = "live" /\ owner[p] = u THEN "revoked" ELSE row[p]]
    /\ UNCHANGED <<owner, parent, expired, store, page, call, replaced, faults>>

\* Time: an access token outlives a round trip but not a session.
Expire(p) ==
    /\ p \notin expired
    /\ row[p] # "absent"
    /\ \A c \in InFlight : call[c].got # p
    /\ expired' = expired \cup {p}
    /\ UNCHANGED <<server, store, page, call, replaced, faults>>

-----------------------------------------------------------------------------
(* request(): the answer, one refresh, one retry.                          *)

Accepted(p) == p # None /\ p \notin expired

\* What the end of a protected call does to its page when it succeeded.
Succeed(c) ==
    LET t == TabOf[c]
    IN  IF call[c].kind = "me"
        THEN Show(t, [page[t] EXCEPT !.status = "authenticated", !.user = owner[call[c].bearer]])
        ELSE UNCHANGED page

\* An ApiError or a rejected fetch.  SessionProvider takes any failure of
\* the first read for a lost session; its logout signs the page out whether
\* or not the server heard of it.
FailStore(c) == IF call[c].kind = "me" THEN None ELSE store
FailPage(c) == IF call[c].kind \in {"me", "logout"}
               THEN Show(TabOf[c], SignedOut) ELSE UNCHANGED page

Answer(c) ==
    /\ call[c].kind \in {"me", "data"} /\ call[c].step \in {"sent", "retried"}
    /\ Accepted(call[c].bearer)
    /\ Succeed(c)
    /\ Done(c)
    /\ UNCHANGED <<server, expired, store, replaced, faults>>

\* Faulty variant of Unauthorized: a 401 signs the person out at once.
UnauthorizedClears(c) ==
    /\ call[c].kind \in {"me", "data"} /\ call[c].step = "sent"
    /\ ~Accepted(call[c].bearer)
    /\ store' = None
    /\ Show(TabOf[c], SignedOut)
    /\ Done(c)
    /\ UNCHANGED <<server, expired, replaced, faults>>

\* A 401 on the first attempt: tryRefresh() reads the store as it is now.
Unauthorized(c) ==
    /\ call[c].kind \in {"me", "data"} /\ call[c].step = "sent"
    /\ ~Accepted(call[c].bearer)
    /\ IF store = None
       THEN Done(c) /\ store' = FailStore(c) /\ FailPage(c)
       ELSE /\ call' = [call EXCEPT ![c].step = "exchanging", ![c].spent = store]
            /\ UNCHANGED <<store, page>>
    /\ UNCHANGED <<server, expired, replaced, faults>>

\* The refresh is refused: the tokens are cleared and onAuthLost() loads
\* /login, unless the page is there already and the call itself fails.
Refused(c) ==
    /\ call[c].step = "exchanging"
    /\ row[call[c].spent] = "revoked"
    /\ store' = None
    /\ IF page[TabOf[c]].at = "app"
       THEN /\ Show(TabOf[c], SignedOut)
            /\ call' = [d \in Calls |-> IF TabOf[d] = TabOf[c] THEN Idle ELSE call[d]]
       ELSE Done(c) /\ FailPage(c)
    /\ UNCHANGED <<server, expired, replaced, faults>>

\* Faulty variant of Retry: the second attempt never goes out.
RetryNever(c) == FALSE /\ UNCHANGED vars

\* The refresh succeeded: the tokens are stored and the request is sent again.
Retry(c) ==
    /\ call[c].kind # "login" /\ call[c].step = "minted"
    /\ store' = call[c].got
    /\ call' = [call EXCEPT ![c].step = "retried", ![c].bearer = call[c].got]
    /\ UNCHANGED <<server, expired, page, replaced, faults>>

\* Faulty variant of SignIn: tokens already in the store are kept.
SignInKeepsOld(c) ==
    /\ call[c].kind = "login" /\ call[c].step = "minted"
    /\ store' = IF store = None THEN call[c].got ELSE store
    /\ Show(TabOf[c], SignedIn(call[c].who))
    /\ Done(c)
    /\ UNCHANGED <<server, expired, replaced, faults>>

\* login() stores the pair over whatever is there and opens the application.
SignIn(c) ==
    /\ call[c].kind = "login" /\ call[c].step = "minted"
    /\ store' = call[c].got
    /\ replaced' = replaced \cup ({store} \ {None})
    /\ Show(TabOf[c], SignedIn(call[c].who))
    /\ Done(c)
    /\ UNCHANGED <<server, expired, faults>>

\* Wrong password: nothing changes but the message under the form.
SignInRefused(c) ==
    /\ call[c].kind = "login" /\ call[c].step = "sent"
    /\ Done(c)
    /\ UNCHANGED <<server, expired, store, page, replaced, faults>>

\* Faulty variant of SignOut: the tokens are cleared and the server not told.
SignOutLocally(c) ==
    /\ call[c].kind = "logout" /\ call[c].step = "sent"
    /\ store' = None
    /\ Show(TabOf[c], SignedOut)
    /\ Done(c)
    /\ UNCHANGED <<server, expired, replaced, faults>>

\* The server revokes the row; logout() then clears the store.
SignOut(c) ==
    /\ call[c].kind = "logout" /\ call[c].step = "sent"
    /\ row' = [row EXCEPT ![call[c].spent] = "revoked"]
    /\ store' = None
    /\ Show(TabOf[c], SignedOut)
    /\ Done(c)
    /\ UNCHANGED <<owner, parent, expired, replaced, faults>>

\* The network loses the request, or the answer of a server that committed.
Lost(c) ==
    /\ call[c].step \in {"sent", "exchanging", "minted", "retried"}
    /\ faults < MaxFaults
    /\ faults' = faults + 1
    /\ store' = FailStore(c)
    /\ FailPage(c)
    /\ Done(c)
    /\ UNCHANGED <<server, expired, replaced>>

-----------------------------------------------------------------------------
Served(c) ==
    \/ RefreshCheck(c) \/ RefreshCommit(c) \/ LoginCommit(c)
    \/ Answer(c) \/ Unauthorized(c) \/ Refused(c) \/ Retry(c)
    \/ SignIn(c) \/ SignInRefused(c) \/ SignOut(c)

Next ==
    \/ \E t \in Tabs : Reload(t)
    \/ \E c \in Calls :
          \/ \E u \in Users : StartLogin(c, u)
          \/ StartData(c) \/ StartLogout(c)
          \/ Served(c) \/ Lost(c)
    \/ \E u \in Users : ChangePassword(u)
    \/ \E p \in Pairs : Expire(p)

\* The server answers and the browser runs its handlers; people owe nothing.
Fairness == \A c \in Calls : WF_vars(Served(c))

Spec == Init /\ [][Next]_vars /\ Fairness

-----------------------------------------------------------------------------
\* refresh(): "each refresh token is single-use": no token is ever exchanged
\* for two pairs, although the row is checked and revoked in two steps.
SingleUse == \A p, q \in Pairs : parent[p] # None /\ parent[p] = parent[q] => p = q

\* Every refresh token the server would still accept is the one in the
\* browser's store or in the hands of the request about to store it: neither
\* a refresh nor a logout leaves a usable session behind that nobody holds.
\* Excepted are the pairs a second sign-in wrote over and lost answers.
NoOrphanSession ==
    faults = 0 =>
        \A p \in Pairs : row[p] = "live" =>
            \/ store = p
            \/ \E c \in Calls : call[c].got = p
            \/ p \in replaced

\* A page that says who is signed in holds that person's tokens, unless the
\* session was taken away or an answer was lost.
PageMatchesTokens ==
    \A t \in Tabs :
        page[t].status = "authenticated" /\ store # None => owner[store] = page[t].user

\* The store loses a pair that the server would still accept only when the
\* person signs out or an answer is lost: "if the refresh fails, tokens are
\* cleared" must not clear the tokens another refresh has just brought.
FreshTokensKept ==
    [][store # None /\ store' = None /\ row'[store] = "live" =>
          \/ faults' # faults
          \/ \E c \in Calls : call[c].kind = "logout" /\ call'[c] # call[c]]_vars

\* Every request ends, and so every page leaves its loading screen.
Settles ==
    /\ \A c \in Calls : call[c].step # "idle" ~> call[c].step = "idle"
    /\ \A t \in Tabs : page[t].status = "loading" ~> page[t].status # "loading"
=============================================================================
