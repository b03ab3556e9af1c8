------------------------------ MODULE QueryCache ------------------------------
(***************************************************************************)
(* What the screens know of the server: the React Query hooks of           *)
(* hooks/queries.ts over the endpoints of lib/apiClient.ts.  A query is    *)
(* cached under its key, a mutation invalidates keys when it succeeds, and *)
(* a screen shows what is cached.                                          *)
(*                                                                         *)
(* Cached entries do not influence each other: a mutation writes server    *)
(* data and invalidates keys, and an entry reacts to both by itself.  So   *)
(* the state holds one entry, of any key, beside the mutations in flight.  *)
(***************************************************************************)
EXTENDS Naturals

CONSTANTS
    Slots,      \* mutations that may be in flight together
    MaxWrites,  \* bound: mutations the server commits
    MaxFaults   \* bound: answers lost

ASSUME CacheAssumption == MaxWrites \in Nat /\ MaxFaults \in Nat

\* The entries of two tables with different names
Joined(f, g) == [x \in DOMAIN f \cup DOMAIN g |-> IF x \in DOMAIN f THEN f[x] ELSE g[x]]

-----------------------------------------------------------------------------
(* What each query's endpoint reads, by key.  A set of rows and the rows   *)
(* themselves are kept apart where an endpoint tells them apart.           *)

PartyReads == [
    companies |-> {"company list", "company"},
    company_validation |-> {"company"},
    client_list |-> {"client list", "client"},
    client_detail |-> {"client"},
    products |-> {"product list", "product"},
    organization |-> {"organization"},
    me |-> {"user", "language"}]

SalesReads == [
    invoices |-> {"draft", "invoice"},
    credit_notes |-> {"credit note"},
    payments |-> {"payment"}]

SearchReads == [
    vat_treatment |-> {"company", "client"},
    search |-> {"draft", "invoice", "credit note", "client list", "client", "product list", "product"}]

\* The reports count drafts as well: KpiSummary.counts, InvoiceReport.draft_count.
ReportReads == [
    reports |-> {"draft", "invoice", "payment", "credit note", "company"},
    client_stats |-> {"draft", "invoice", "payment", "credit note", "client", "company"}]

OverviewReads == [
    alerts |-> {"company", "draft", "invoice", "payment", "client"},
    activity |-> {"audit"}]

PlatformReads == [
    onboarding |-> {"user", "organization", "company list", "company", "client list",
                    "product list", "acceptance", "completion"},
    templates |-> {"template"},
    entitlements |-> {"plan", "company list", "client list", "product list", "draft"},
    trust |-> {"registers"},
    reference |-> {"constants"}]

Reads ==
    Joined(PartyReads, Joined(SalesReads, Joined(SearchReads,
        Joined(ReportReads, Joined(OverviewReads, PlatformReads)))))
Keys == DOMAIN Reads

-----------------------------------------------------------------------------
(* What each mutation's endpoint writes.  Every one of them leaves an      *)
(* entry in the audit log as well.                                         *)

PartyWrites == [
    createCompany |-> {"company list"},
    updateCompany |-> {"company"},
    createClient |-> {"client list"},
    updateClient |-> {"client"},
    eraseClientData |-> {"client"},
    createProduct |-> {"product list"},
    updateProduct |-> {"product"},
    updateMe |-> {"user", "language"},
    persistLanguage |-> {"language"},
    renameOrganization |-> {"organization"}]

SalesWrites == [
    createInvoice |-> {"draft"},
    duplicateInvoice |-> {"draft"},
    deleteInvoice |-> {"draft"},
    issueInvoice |-> {"draft", "invoice"},
    voidInvoice |-> {"draft", "invoice"},
    issueCreditNote |-> {"credit note", "draft", "invoice"},
    recordPayment |-> {"payment", "invoice"}]

PlatformWrites == [
    acceptLegalText |-> {"acceptance"},
    completeOnboarding |-> {"completion"},
    saveTemplate |-> {"template"},
    setDesktopPlanTier |-> {"plan"},
    commitLegacyImport |-> {"company list", "client list", "product list"},
    restoreBackup |-> UNION {Reads[k] : k \in Keys \ {"trust", "reference"}}]

Writes == Joined(PartyWrites, Joined(SalesWrites, PlatformWrites))
Mutations == DOMAIN Writes

-----------------------------------------------------------------------------
(* What each hook invalidates in onSuccess.                                *)

PartyInvalidates == [
    createCompany |-> {"companies", "onboarding"},
    updateCompany |-> {"companies", "company_validation", "activity"},
    createClient |-> {"client_list", "client_detail", "client_stats", "onboarding"},
    updateClient |-> {"client_list", "client_detail", "client_stats"},
    eraseClientData |-> {"client_detail", "activity"},
    createProduct |-> {"products", "onboarding"},
    updateProduct |-> {"products"},
    updateMe |-> {"onboarding", "me"},
    persistLanguage |-> {},
    renameOrganization |-> {"onboarding", "organization"}]

\* Faulty variant of SalesInvalidates: a payment refreshes only the payments.
PaymentInvalidatesPayments == [
    createInvoice |-> {"invoices", "reports"},
    duplicateInvoice |-> {"invoices", "activity"},
    deleteInvoice |-> {"invoices", "activity"},
    issueInvoice |-> {"invoices", "reports", "activity"},
    voidInvoice |-> {"invoices", "reports"},
    issueCreditNote |-> {"credit_notes", "invoices", "reports"},
    recordPayment |-> {"payments"}]

SalesInvalidates == [
    createInvoice |-> {"invoices", "reports"},
    duplicateInvoice |-> {"invoices", "activity"},
    deleteInvoice |-> {"invoices", "activity"},
    issueInvoice |-> {"invoices", "reports", "activity"},
    voidInvoice |-> {"invoices", "reports"},
    issueCreditNote |-> {"credit_notes", "invoices", "reports"},
    recordPayment |-> {"payments", "invoices", "reports"}]

PlatformInvalidates == [
    acceptLegalText |-> {"onboarding"},
    completeOnboarding |-> {"onboarding"},
    saveTemplate |-> {"templates"},
    setDesktopPlanTier |-> Keys,
    commitLegacyImport |-> {"companies", "client_list", "client_detail", "client_stats",
                            "products", "activity"},
    restoreBackup |-> Keys]

Invalidates == Joined(PartyInvalidates, Joined(SalesInvalidates, PlatformInvalidates))

\* Requests sent outside useMutation do not reach the MutationCache.
Bare == {"persistLanguage", "setDesktopPlanTier"}

\* BillGenProvider: every successful mutation refreshes the alerts.
Refreshed(m) == Invalidates[m] \cup (IF m \in Bare THEN {} ELSE {"alerts"})

\* Keys whose data never goes stale by age.
Endless == {"reference"}

-----------------------------------------------------------------------------
VARIABLES
    key,      \* the key of the tracked entry
    entry,    \* the cached entry
    pending,  \* pending[s]: the mutation in flight and how far it is
    prompt,   \* the upgrade dialog is open
    writes,   \* mutations committed
    faults    \* answers lost

vars == <<key, entry, pending, prompt, writes, faults>>

NoMutation == [op |-> "none", at |-> "idle"]

TypeOK ==
    /\ key \in Keys
    /\ entry \in [data : {"none", "current", "outdated"},
                  stale : BOOLEAN,     \* isInvalidated, or older than staleTime
                  fetch : {"no", "asked", "current", "outdated"},
                  watched : BOOLEAN,   \* a mounted screen uses the query
                  raced : BOOLEAN]     \* stores an answer older than a write
    /\ pending \in [Slots -> [op : Mutations \cup {"none"}, at : {"idle", "sent", "done"}]]
    /\ prompt \in BOOLEAN
    /\ writes \in 0..MaxWrites
    /\ faults \in 0..MaxFaults

Init ==
    /\ key \in Keys
    /\ entry = [data |-> "none", stale |-> FALSE, fetch |-> "no",
                watched |-> FALSE, raced |-> FALSE]
    /\ pending = [s \in Slots |-> NoMutation]
    /\ prompt = FALSE
    /\ writes = 0
    /\ faults = 0

-----------------------------------------------------------------------------
(* The query.                                                              *)

\* A screen mounts: it fetches what is missing or stale, unless a fetch is
\* already under way, and shows what is cached meanwhile.
Mount ==
    /\ ~entry.watched
    /\ entry' = [entry EXCEPT !.watched = TRUE,
                     !.fetch = IF @ = "no" /\ (entry.data = "none" \/ entry.stale)
                               THEN "asked" ELSE @]
    /\ UNCHANGED <<key, pending, prompt, writes, faults>>

Unmount ==
    /\ entry.watched
    /\ entry' = [entry EXCEPT !.watched = FALSE]
    /\ UNCHANGED <<key, pending, prompt, writes, faults>>

\* The server computes the answer from the rows as they are.
Reply ==
    /\ entry.fetch = "asked"
    /\ entry' = [entry EXCEPT !.fetch = "current"]
    /\ UNCHANGED <<key, pending, prompt, writes, faults>>

\* Faulty variant of Deliver: an answer for an invalidated entry is dropped.
DeliverUnlessStale ==
    /\ entry.fetch \in {"current", "outdated"}
    /\ entry' = IF entry.stale THEN [entry EXCEPT !.fetch = "no"]
                ELSE [entry EXCEPT !.data = entry.fetch, !.fetch = "no"]
    /\ UNCHANGED <<key, pending, prompt, writes, faults>>

\* The answer is stored and the entry counts as fresh.
Deliver ==
    /\ entry.fetch \in {"current", "outdated"}
    /\ entry' = [entry EXCEPT !.data = entry.fetch, !.stale = FALSE, !.fetch = "no",
                              !.raced = (entry.fetch = "outdated")]
    /\ UNCHANGED <<key, pending, prompt, writes, faults>>

\* retry: false, so a failed fetch stays failed until something asks again.
FetchFails ==
    /\ entry.fetch # "no"
    /\ faults < MaxFaults
    /\ faults' = faults + 1
    /\ entry' = [entry EXCEPT !.fetch = "no"]
    /\ UNCHANGED <<key, pending, prompt, writes>>

\* staleTime passes.
Age ==
    /\ entry.data # "none" /\ ~entry.stale
    /\ key \notin Endless
    /\ entry' = [entry EXCEPT !.stale = TRUE]
    /\ UNCHANGED <<key, pending, prompt, writes, faults>>

-----------------------------------------------------------------------------
(* The mutation.                                                           *)

Mutate(s, m) ==
    /\ pending[s].at = "idle"
    /\ writes < MaxWrites
    /\ pending' = [pending EXCEPT ![s] = [op |-> m, at |-> "sent"]]
    /\ UNCHANGED <<key, entry, prompt, writes, faults>>

Older(d) == IF d = "current" THEN "outdated" ELSE d

\* The server commits: what was read before is no longer what is there.
Commit(s) ==
    /\ pending[s].at = "sent"
    /\ writes < MaxWrites
    /\ writes' = writes + 1
    /\ pending' = [pending EXCEPT ![s].at = "done"]
    /\ entry' = IF Reads[key] \cap (Writes[pending[s].op] \cup {"audit"}) = {} THEN entry
                ELSE [entry EXCEPT !.data = Older(@), !.fetch = Older(@)]
    /\ UNCHANGED <<key, prompt, faults>>

\* invalidateQueries(): the entry is stale from now on.  A watched query is
\* fetched at once, cancelling the fetch under way if there is older data to
\* show meanwhile; the first load of a query is left to finish instead.
Invalidated(e) ==
    [e EXCEPT !.stale = TRUE,
              !.fetch = IF e.watched /\ (e.fetch = "no" \/ e.data # "none") THEN "asked" ELSE @]

\* Refused for another reason than the plan: a validation error, a 409.
Refuse(s) ==
    /\ pending[s].at = "sent"
    /\ pending' = [pending EXCEPT ![s] = NoMutation]
    /\ UNCHANGED <<key, entry, prompt, writes, faults>>

\* A 402: EntitlementBoundary opens the upgrade dialog and refreshes the
\* meters, because a spent allowance is news about usage.
RefuseByPlan(s) ==
    /\ pending[s].at = "sent" /\ pending[s].op \notin Bare
    /\ pending' = [pending EXCEPT ![s] = NoMutation]
    /\ prompt' = TRUE
    /\ entry' = IF key = "entitlements" THEN Invalidated(entry) ELSE entry
    /\ UNCHANGED <<key, writes, faults>>

CloseDialog ==
    /\ prompt
    /\ prompt' = FALSE
    /\ UNCHANGED <<key, entry, pending, writes, faults>>

\* onSuccess of the cache and of the hook.
Success(s) ==
    /\ pending[s].at = "done"
    /\ pending' = [pending EXCEPT ![s] = NoMutation]
    /\ entry' = IF key \in Refreshed(pending[s].op) THEN Invalidated(entry) ELSE entry
    /\ UNCHANGED <<key, prompt, writes, faults>>

\* The request or its answer is lost: no onSuccess, whatever the server did.
Lost(s) ==
    /\ pending[s].at \in {"sent", "done"}
    /\ faults < MaxFaults
    /\ faults' = faults + 1
    /\ pending' = [pending EXCEPT ![s] = NoMutation]
    /\ UNCHANGED <<key, entry, prompt, writes>>

-----------------------------------------------------------------------------
Next ==
    \/ Mount \/ Unmount \/ Reply \/ Deliver \/ FetchFails \/ Age \/ CloseDialog
    \/ \E s \in Slots :
          \/ \E m \in Mutations : Mutate(s, m)
          \/ Commit(s) \/ Refuse(s) \/ RefuseByPlan(s) \/ Success(s) \/ Lost(s)

\* The server answers what it is asked and the browser runs its callbacks.
Fairness == WF_vars(Reply) /\ WF_vars(Deliver) /\ \A s \in Slots : WF_vars(Success(s))

Spec == Init /\ [][Next]_vars /\ Fairness

-----------------------------------------------------------------------------
\* The keys whose hooks mean to follow every write of this client.
Followed == {"companies", "company_validation", "client_detail", "products", "organization",
             "invoices", "credit_notes", "payments", "alerts", "templates"}

\* Once the mutations of this client have run their callbacks, an outdated
\* answer of a followed key is either marked for refetching or being
\* refetched, unless an answer was lost or the write overtook the answer of
\* a load under way.
OwnWritesSeen ==
    (key \in Followed /\ entry.data = "outdated" /\ faults = 0 /\ ~entry.raced
        /\ \A s \in Slots : pending[s].at # "done")
    => entry.stale \/ entry.fetch = "asked"

\* What a screen shows of a followed key and knows to be outdated is
\* replaced, unless a request fails or the screen is left.
StaleViewsRefresh ==
    (key \in Followed /\ entry.data = "outdated" /\ entry.watched /\ entry.fetch = "asked")
    ~> (entry.data = "current" \/ ~entry.watched \/ faults > 0)
=============================================================================
