--------------------------- MODULE QueryCacheProofs ---------------------------
(***************************************************************************)
(* For any number of mutations in flight together: the writes of this      *)
(* client are seen by the queries that mean to follow them.  Half of the   *)
(* argument is in the tables of hooks/queries.ts (FollowedRefreshed), the  *)
(* other half in the order of commit, onSuccess and delivery (CacheInv).   *)
(***************************************************************************)
EXTENDS QueryCache, TLAPS

PartyOps == {"createCompany", "updateCompany", "createClient", "updateClient", "eraseClientData",
             "createProduct", "updateProduct", "updateMe", "persistLanguage", "renameOrganization"}
SalesOps == {"createInvoice", "duplicateInvoice", "deleteInvoice", "issueInvoice", "voidInvoice",
             "issueCreditNote", "recordPayment"}
PlatformOps == {"acceptLegalText", "completeOnboarding", "saveTemplate", "setDesktopPlanTier",
                "commitLegacyImport", "restoreBackup"}

\* The alerts follow every mutation that goes through the MutationCache.
Alerted(m) == IF m \in Bare THEN {} ELSE {"alerts"}

-----------------------------------------------------------------------------
LEMMA KeysFollowed == Followed \subseteq Keys
  BY DEF Followed, Keys, Reads, Joined, PartyReads, SalesReads, SearchReads, ReportReads,
         OverviewReads, PlatformReads

\* The followed keys an item of server data is shown under
LEMMA ReadersOf ==
  ASSUME NEW k \in Followed, NEW x \in Reads[k]
  PROVE  \/ x = "company" /\ k \in {"companies", "company_validation", "alerts"}
         \/ x = "company list" /\ k = "companies"
         \/ x = "client" /\ k \in {"client_detail", "alerts"}
         \/ x \in {"product list", "product"} /\ k = "products"
         \/ x = "organization" /\ k = "organization"
         \/ x \in {"draft", "invoice"} /\ k \in {"invoices", "alerts"}
         \/ x = "credit note" /\ k = "credit_notes"
         \/ x = "payment" /\ k \in {"payments", "alerts"}
         \/ x = "template" /\ k = "templates"
  <1>1. /\ Reads["companies"] = {"company list", "company"}
        /\ Reads["company_validation"] = {"company"}
        /\ Reads["client_detail"] = {"client"}
        /\ Reads["products"] = {"product list", "product"}
        /\ Reads["organization"] = {"organization"}
        /\ Reads["invoices"] = {"draft", "invoice"}
        /\ Reads["credit_notes"] = {"credit note"}
        /\ Reads["payments"] = {"payment"}
        /\ Reads["alerts"] = {"company", "draft", "invoice", "payment", "client"}
        /\ Reads["templates"] = {"template"}
    BY DEF Reads, Joined, PartyReads, SalesReads, SearchReads, ReportReads, OverviewReads,
           PlatformReads
  <1> QED
    BY <1>1 DEF Followed

\* The tables of the three groups of mutations do not overlap.
LEMMA GroupsApart ==
  /\ Mutations = PartyOps \cup SalesOps \cup PlatformOps
  /\ \A m \in PartyOps : Writes[m] = PartyWrites[m] /\ Invalidates[m] = PartyInvalidates[m]
  /\ \A m \in SalesOps : Writes[m] = SalesWrites[m] /\ Invalidates[m] = SalesInvalidates[m]
  /\ \A m \in PlatformOps :
        Writes[m] = PlatformWrites[m] /\ Invalidates[m] = PlatformInvalidates[m]
  <1>1. /\ DOMAIN PartyWrites = PartyOps /\ DOMAIN PartyInvalidates = PartyOps
        /\ DOMAIN SalesWrites = SalesOps /\ DOMAIN SalesInvalidates = SalesOps
        /\ DOMAIN PlatformWrites = PlatformOps /\ DOMAIN PlatformInvalidates = PlatformOps
    BY DEF PartyWrites, PartyInvalidates, PartyOps, SalesWrites, SalesInvalidates, SalesOps,
           PlatformWrites, PlatformInvalidates, PlatformOps
  <1>2. PartyOps \cap SalesOps = {} /\ (PartyOps \cup SalesOps) \cap PlatformOps = {}
    BY DEF PartyOps, SalesOps, PlatformOps
  <1> QED
    BY <1>1, <1>2 DEF Mutations, Writes, Invalidates, Joined

LEMMA PartyRefreshed ==
  ASSUME NEW k \in Followed, NEW m \in PartyOps, NEW x \in Reads[k],
         x \in PartyWrites[m] \cup {"audit"}
  PROVE  k \in PartyInvalidates[m] \cup Alerted(m)
  <1>1. \/ m = "createCompany" /\ x = "company list"
        \/ m = "updateCompany" /\ x = "company"
        \/ m = "createClient" /\ x = "client list"
        \/ m \in {"updateClient", "eraseClientData"} /\ x = "client"
        \/ m = "createProduct" /\ x = "product list"
        \/ m = "updateProduct" /\ x = "product"
        \/ m \in {"updateMe", "persistLanguage"} /\ x \in {"user", "language"}
        \/ m = "renameOrganization" /\ x = "organization"
        \/ x = "audit"
    <2>1. /\ PartyWrites["createCompany"] = {"company list"}
          /\ PartyWrites["updateCompany"] = {"company"}
          /\ PartyWrites["createClient"] = {"client list"}
          /\ PartyWrites["updateClient"] = {"client"}
          /\ PartyWrites["eraseClientData"] = {"client"}
          /\ PartyWrites["createProduct"] = {"product list"}
          /\ PartyWrites["updateProduct"] = {"product"}
          /\ PartyWrites["updateMe"] = {"user", "language"}
          /\ PartyWrites["persistLanguage"] = {"language"}
          /\ PartyWrites["renameOrganization"] = {"organization"}
      BY DEF PartyWrites
    <2> QED
      BY ZenonT(30), <2>1 DEF PartyOps
  <1>2. /\ "companies" \in PartyInvalidates["createCompany"]
        /\ {"companies", "company_validation"} \subseteq PartyInvalidates["updateCompany"]
        /\ "client_detail" \in PartyInvalidates["updateClient"]
        /\ "client_detail" \in PartyInvalidates["eraseClientData"]
        /\ "products" \in PartyInvalidates["createProduct"]
        /\ "products" \in PartyInvalidates["updateProduct"]
        /\ "organization" \in PartyInvalidates["renameOrganization"]
    BY DEF PartyInvalidates
  <1> QED
    BY <1>1, <1>2, ReadersOf DEF Bare, Alerted

LEMMA SalesRefreshed ==
  ASSUME NEW k \in Followed, NEW m \in SalesOps, NEW x \in Reads[k],
         x \in SalesWrites[m] \cup {"audit"}
  PROVE  k \in SalesInvalidates[m] \cup Alerted(m)
  <1>1. \/ x \in {"draft", "invoice"}
        \/ m = "issueCreditNote" /\ x = "credit note"
        \/ m = "recordPayment" /\ x = "payment"
        \/ x = "audit"
    <2>1. /\ SalesWrites["createInvoice"] = {"draft"}
          /\ SalesWrites["duplicateInvoice"] = {"draft"}
          /\ SalesWrites["deleteInvoice"] = {"draft"}
          /\ SalesWrites["issueInvoice"] = {"draft", "invoice"}
          /\ SalesWrites["voidInvoice"] = {"draft", "invoice"}
          /\ SalesWrites["issueCreditNote"] = {"credit note", "draft", "invoice"}
          /\ SalesWrites["recordPayment"] = {"payment", "invoice"}
      BY DEF SalesWrites
    <2> QED
      BY <2>1 DEF SalesOps
  <1>2. "invoices" \in SalesInvalidates[m]
    <2>1. /\ "invoices" \in SalesInvalidates["createInvoice"]
          /\ "invoices" \in SalesInvalidates["duplicateInvoice"]
          /\ "invoices" \in SalesInvalidates["deleteInvoice"]
          /\ "invoices" \in SalesInvalidates["issueInvoice"]
          /\ "invoices" \in SalesInvalidates["voidInvoice"]
          /\ "invoices" \in SalesInvalidates["issueCreditNote"]
          /\ "invoices" \in SalesInvalidates["recordPayment"]
      BY DEF SalesInvalidates
    <2> QED
      BY <2>1 DEF SalesOps
  <1>3. /\ "credit_notes" \in SalesInvalidates["issueCreditNote"]
        /\ "payments" \in SalesInvalidates["recordPayment"]
    BY DEF SalesInvalidates
  <1>4. m \notin Bare
    BY DEF SalesOps, Bare
  <1> QED
    BY <1>1, <1>2, <1>3, <1>4, ReadersOf DEF Alerted

LEMMA PlatformRefreshed ==
  ASSUME NEW k \in Followed, NEW m \in PlatformOps, NEW x \in Reads[k],
         x \in PlatformWrites[m] \cup {"audit"}
  PROVE  k \in PlatformInvalidates[m] \cup Alerted(m)
  <1>1. /\ PlatformInvalidates["setDesktopPlanTier"] = Keys
        /\ PlatformInvalidates["restoreBackup"] = Keys
        /\ "templates" \in PlatformInvalidates["saveTemplate"]
        /\ {"companies", "products"} \subseteq PlatformInvalidates["commitLegacyImport"]
    BY DEF PlatformInvalidates
  <1>2. \/ m \in {"setDesktopPlanTier", "restoreBackup"}
        \/ m = "saveTemplate" /\ x = "template"
        \/ m = "commitLegacyImport" /\ x \in {"company list", "client list", "product list"}
        \/ x \in {"acceptance", "completion", "audit"}
    <2>1. /\ PlatformWrites["acceptLegalText"] = {"acceptance"}
          /\ PlatformWrites["completeOnboarding"] = {"completion"}
          /\ PlatformWrites["saveTemplate"] = {"template"}
          /\ PlatformWrites["commitLegacyImport"] = {"company list", "client list", "product list"}
      BY DEF PlatformWrites
    <2> QED
      BY <2>1 DEF PlatformOps
  <1> QED
    BY <1>1, <1>2, ReadersOf, KeysFollowed

\* Whatever a followed query reads and a mutation writes, the mutation's
\* callbacks refresh that query: the tables of the hooks have no gap.
LEMMA FollowedRefreshed ==
  ASSUME NEW k \in Followed, NEW m \in Mutations,
         Reads[k] \cap (Writes[m] \cup {"audit"}) # {}
  PROVE  k \in Refreshed(m)
  <1>1. PICK x \in Reads[k] : x \in Writes[m] \cup {"audit"}
    OBVIOUS
  <1>2. Refreshed(m) = Invalidates[m] \cup Alerted(m)
    BY DEF Refreshed, Alerted
  <1>3. CASE m \in PartyOps
    BY <1>1, <1>2, <1>3, GroupsApart, PartyRefreshed
  <1>4. CASE m \in SalesOps
    BY <1>1, <1>2, <1>4, GroupsApart, SalesRefreshed
  <1>5. CASE m \in PlatformOps
    BY <1>1, <1>2, <1>5, GroupsApart, PlatformRefreshed
  <1> QED
    BY <1>3, <1>4, <1>5, GroupsApart

-----------------------------------------------------------------------------
\* A write this client has not been told of yet, that will refresh the entry
Announced == \E s \in Slots : pending[s].at = "done" /\ key \in Refreshed(pending[s].op)

\* While a write is committed and its callbacks have not run, the outdated
\* entry need not be marked: some pending callback will do it.
Marked ==
    (key \in Followed /\ entry.data = "outdated" /\ faults = 0 /\ ~entry.raced)
        => entry.stale \/ Announced

CacheInv ==
    /\ TypeOK
    /\ \A s \in Slots : pending[s].at # "idle" => pending[s].op \in Mutations
    /\ Marked

Entries == [data : {"none", "current", "outdated"}, stale : BOOLEAN,
            fetch : {"no", "asked", "current", "outdated"}, watched : BOOLEAN, raced : BOOLEAN]

Pendings == [op : Mutations \cup {"none"}, at : {"idle", "sent", "done"}]

LEMMA CacheBase == Init => CacheInv
  <1> SUFFICES ASSUME Init
               PROVE  CacheInv
    OBVIOUS
  <1>1. entry.data = "none" /\ entry \in Entries
    BY DEF Init, Entries
  <1>2. pending \in [Slots -> Pendings] /\ \A s \in Slots : pending[s].at = "idle"
    BY DEF Init, Pendings, NoMutation
  <1>3. key \in Keys /\ prompt \in BOOLEAN /\ writes \in 0..MaxWrites /\ faults \in 0..MaxFaults
    <2>1. key \in Keys /\ prompt = FALSE /\ writes = 0 /\ faults = 0
      BY DEF Init
    <2>2. prompt \in BOOLEAN
      BY ONLY <2>1
    <2>3. writes \in 0..MaxWrites /\ faults \in 0..MaxFaults
      BY ONLY <2>1, CacheAssumption
    <2> QED
      BY ONLY <2>1, <2>2, <2>3
  <1>4. TypeOK
    BY <1>1, <1>2, <1>3 DEF TypeOK, Entries, Pendings
  <1> QED
    BY <1>1, <1>2, <1>4 DEF CacheInv, Marked

\* Invalidating marks the entry and touches neither its data nor its race.
LEMMA InvalidatedMarks ==
  ASSUME NEW e \in Entries
  PROVE  /\ Invalidated(e) \in Entries /\ Invalidated(e).stale
         /\ Invalidated(e).data = e.data /\ Invalidated(e).raced = e.raced
  BY DEF Entries, Invalidated

\* A mutation that leaves its slot without having committed leaves the mark.
LEMMA SlotFreed ==
  ASSUME CacheInv, NEW s \in Slots, pending' = [pending EXCEPT ![s] = NoMutation],
         UNCHANGED <<key, faults>>, entry' \in Entries, entry'.data = entry.data,
         entry'.raced = entry.raced, entry'.stale \/ (entry'.stale = entry.stale),
         \/ pending[s].at # "done"
         \/ key \in Refreshed(pending[s].op) => entry'.stale,
         prompt' \in BOOLEAN, writes' = writes
  PROVE  CacheInv'
  <1>1. pending \in [Slots -> Pendings]
    BY DEF CacheInv, TypeOK, Pendings
  <1>2. NoMutation \in Pendings /\ NoMutation.at = "idle"
    BY DEF NoMutation, Pendings
  <1>3. \A o \in Slots : pending'[o] = IF o = s THEN NoMutation ELSE pending[o]
    BY <1>1
  <1>4. pending' \in [Slots -> Pendings]
    BY <1>1, <1>2
  <1>5. TypeOK'
    BY <1>4 DEF CacheInv, TypeOK, Entries, Pendings
  <1>6. \A o \in Slots : pending'[o].at # "idle" => pending'[o].op \in Mutations
    BY <1>2, <1>3 DEF CacheInv
  <1>7. Marked'
    <2> SUFFICES ASSUME key \in Followed, entry'.data = "outdated", faults = 0, ~entry'.raced,
                        ~entry'.stale
                 PROVE  Announced'
      BY DEF Marked
    <2>1. Announced
      BY DEF CacheInv, Marked
    <2>2. PICK o \in Slots : pending[o].at = "done" /\ key \in Refreshed(pending[o].op)
      BY <2>1 DEF Announced
    <2>3. o # s
      BY <2>2
    <2>4. pending'[o] = pending[o]
      BY <1>3, <2>3
    <2> QED
      BY <2>2, <2>4 DEF Announced, Refreshed, Invalidates
  <1> QED
    BY <1>5, <1>6, <1>7 DEF CacheInv

\* A step of the query alone
LEMMA EntryMoves ==
  ASSUME CacheInv, UNCHANGED <<key, pending, writes>>, entry' \in Entries, prompt' \in BOOLEAN,
         faults' \in 0..MaxFaults, faults' # 0 \/ faults' = faults,
         entry'.data = "outdated" /\ faults' = 0 /\ ~entry'.raced
            => entry.data = "outdated" /\ ~entry.raced /\ (entry.stale => entry'.stale)
  PROVE  CacheInv'
  <1>1. TypeOK'
    BY DEF CacheInv, TypeOK, Entries
  <1>2. Announced => Announced'
    BY DEF Announced, Refreshed, Invalidates
  <1>3. Marked'
    BY <1>2 DEF CacheInv, Marked
  <1> QED
    BY <1>1, <1>3 DEF CacheInv

LEMMA CacheStep == CacheInv /\ [Next]_vars => CacheInv'
  <1> SUFFICES ASSUME CacheInv, [Next]_vars
               PROVE  CacheInv'
    OBVIOUS
  <1>1. entry \in Entries /\ pending \in [Slots -> Pendings] /\ prompt \in BOOLEAN
        /\ writes \in 0..MaxWrites /\ faults \in 0..MaxFaults
    BY DEF CacheInv, TypeOK, Entries, Pendings
  <1>2. CASE Mount
    <2>1. UNCHANGED <<key, pending, prompt, writes, faults>>
      BY <1>2 DEF Mount
    <2>2. entry' \in Entries /\ entry'.data = entry.data /\ entry'.raced = entry.raced
             /\ entry'.stale = entry.stale
      BY <1>1, <1>2 DEF Mount, Entries
    <2> QED
      BY <1>1, <2>1, <2>2, EntryMoves
  <1>3. CASE Unmount
    <2>1. UNCHANGED <<key, pending, prompt, writes, faults>>
      BY <1>3 DEF Unmount
    <2>2. entry' \in Entries /\ entry'.data = entry.data /\ entry'.raced = entry.raced
             /\ entry'.stale = entry.stale
      BY <1>1, <1>3 DEF Unmount, Entries
    <2> QED
      BY <1>1, <2>1, <2>2, EntryMoves
  <1>4. CASE Reply
    <2>1. UNCHANGED <<key, pending, prompt, writes, faults>>
      BY <1>4 DEF Reply
    <2>2. entry' \in Entries /\ entry'.data = entry.data /\ entry'.raced = entry.raced
             /\ entry'.stale = entry.stale
      BY <1>1, <1>4 DEF Reply, Entries
    <2> QED
      BY <1>1, <2>1, <2>2, EntryMoves
  <1>5. CASE Deliver
    <2>1. UNCHANGED <<key, pending, prompt, writes, faults>>
      BY <1>5 DEF Deliver
    <2>2. entry' \in Entries /\ entry'.data = entry.fetch /\ (entry'.raced <=> entry.fetch = "outdated")
      BY <1>1, <1>5 DEF Deliver, Entries
    <2> QED
      BY <1>1, <2>1, <2>2, EntryMoves
  <1>6. CASE FetchFails
    <2>1. UNCHANGED <<key, pending, prompt, writes>> /\ faults' \in 0..MaxFaults /\ faults' # 0
      BY <1>1, <1>6, CacheAssumption DEF FetchFails
    <2>2. entry' \in Entries
      BY <1>1, <1>6 DEF FetchFails, Entries
    <2> QED
      BY <1>1, <2>1, <2>2, EntryMoves
  <1>7. CASE Age
    <2>1. UNCHANGED <<key, pending, prompt, writes, faults>>
      BY <1>7 DEF Age
    <2>2. entry' \in Entries /\ entry'.data = entry.data /\ entry'.raced = entry.raced
             /\ entry'.stale
      BY <1>1, <1>7 DEF Age, Entries
    <2> QED
      BY <1>1, <2>1, <2>2, EntryMoves
  <1>8. CASE CloseDialog \/ UNCHANGED vars
    <2>1. UNCHANGED <<key, entry, pending, writes, faults>> /\ prompt' \in BOOLEAN
      BY <1>1, <1>8 DEF CloseDialog, vars
    <2> QED
      BY <1>1, <2>1, EntryMoves
  <1>9. ASSUME NEW s \in Slots, NEW m \in Mutations, Mutate(s, m)
        PROVE  CacheInv'
    <2> DEFINE p == [op |-> m, at |-> "sent"]
    <2>1. pending[s].at = "idle" /\ pending' = [pending EXCEPT ![s] = p]
          /\ UNCHANGED <<key, entry, prompt, writes, faults>>
      BY <1>9 DEF Mutate
    <2>2. p \in Pendings /\ p.op = m /\ p.at = "sent"
      BY DEF Pendings
    <2> HIDE DEF p
    <2>3. \A o \in Slots : pending'[o] = IF o = s THEN p ELSE pending[o]
      BY <1>1, <2>1
    <2>4. TypeOK'
      BY <1>1, <2>1, <2>2 DEF CacheInv, TypeOK, Entries, Pendings
    <2>5. Announced => Announced'
      BY <2>1, <2>3 DEF Announced, Refreshed, Invalidates
    <2>6. Marked'
      BY <2>1, <2>5 DEF CacheInv, Marked
    <2> QED
      BY <2>2, <2>3, <2>4, <2>6 DEF CacheInv
  <1>10. ASSUME NEW s \in Slots, Commit(s)
         PROVE  CacheInv'
    <2> DEFINE shown == Reads[key] \cap (Writes[pending[s].op] \cup {"audit"}) # {}
    <2>1. /\ pending[s].at = "sent" /\ pending' = [pending EXCEPT ![s].at = "done"]
          /\ UNCHANGED <<key, prompt, faults>> /\ writes' \in 0..MaxWrites
      BY <1>1, <1>10, CacheAssumption DEF Commit
    <2>2. \A o \in Slots :
             /\ pending'[o].op = pending[o].op
             /\ pending'[o].at = IF o = s THEN "done" ELSE pending[o].at
      BY <1>1, <2>1 DEF Pendings
    <2>3. pending' \in [Slots -> Pendings]
      BY <1>1, <2>1 DEF Pendings
    <2>4. /\ entry' \in Entries /\ entry'.stale = entry.stale /\ entry'.raced = entry.raced
          /\ ~shown => entry' = entry
      <3>1. CASE shown
        <4>1. entry' = [entry EXCEPT !.data = Older(entry.data), !.fetch = Older(entry.fetch)]
          BY <1>10, <3>1 DEF Commit
        <4> QED
          BY <1>1, <3>1, <4>1 DEF Entries, Older
      <3>2. CASE ~shown
        BY <1>1, <1>10, <3>2 DEF Commit
      <3> QED
        BY <3>1, <3>2
    <2>5. TypeOK'
      BY <2>1, <2>3, <2>4 DEF CacheInv, TypeOK, Entries, Pendings
    <2>6. \A o \in Slots : pending'[o].at # "idle" => pending'[o].op \in Mutations
      BY <2>1, <2>2 DEF CacheInv
    <2>7. Announced => Announced'
      BY <2>1, <2>2 DEF Announced, Refreshed, Invalidates
    <2>8. key \in Followed /\ shown => Announced'
      <3> SUFFICES ASSUME key \in Followed, shown PROVE Announced'
        OBVIOUS
      <3>1. pending[s].op \in Mutations
        BY <2>1 DEF CacheInv
      <3>2. key \in Refreshed(pending[s].op)
        BY <3>1, FollowedRefreshed
      <3>3. key' \in Refreshed(pending'[s].op)
        BY <2>1, <2>2, <3>2
      <3> QED
        BY <2>2, <3>3 DEF Announced
    <2>9. Marked'
      BY <2>1, <2>4, <2>7, <2>8 DEF CacheInv, Marked
    <2> QED
      BY <2>5, <2>6, <2>9 DEF CacheInv
  <1>11. ASSUME NEW s \in Slots, Refuse(s)
         PROVE  CacheInv'
    BY <1>1, <1>11, SlotFreed DEF Refuse
  <1>12. ASSUME NEW s \in Slots, RefuseByPlan(s)
         PROVE  CacheInv'
    <2>1. /\ pending' = [pending EXCEPT ![s] = NoMutation] /\ pending[s].at # "done"
          /\ UNCHANGED <<key, writes, faults>> /\ prompt' \in BOOLEAN
          /\ entry' = Invalidated(entry) \/ entry' = entry
      BY <1>12 DEF RefuseByPlan
    <2> QED
      BY <1>1, <2>1, InvalidatedMarks, SlotFreed
  <1>13. ASSUME NEW s \in Slots, Success(s)
         PROVE  CacheInv'
    <2>1. /\ pending' = [pending EXCEPT ![s] = NoMutation]
          /\ UNCHANGED <<key, prompt, writes, faults>>
          /\ entry' = IF key \in Refreshed(pending[s].op) THEN Invalidated(entry) ELSE entry
      BY <1>13 DEF Success
    <2>2. /\ entry' \in Entries /\ entry'.data = entry.data /\ entry'.raced = entry.raced
          /\ entry'.stale \/ entry'.stale = entry.stale
          /\ key \in Refreshed(pending[s].op) => entry'.stale
      BY <1>1, <2>1, InvalidatedMarks
    <2> QED
      BY <1>1, <2>1, <2>2, SlotFreed
  <1>14. ASSUME NEW s \in Slots, Lost(s)
         PROVE  CacheInv'
    <2>1. /\ pending' = [pending EXCEPT ![s] = NoMutation] /\ UNCHANGED <<key, entry, prompt, writes>>
          /\ faults' \in 0..MaxFaults /\ faults' # 0
      BY <1>1, <1>14, CacheAssumption DEF Lost
    <2>2. NoMutation \in Pendings /\ NoMutation.at = "idle"
      BY DEF NoMutation, Pendings
    <2>3. \A o \in Slots : pending'[o] = IF o = s THEN NoMutation ELSE pending[o]
      BY <1>1, <2>1
    <2>4. TypeOK'
      BY <1>1, <2>1, <2>2 DEF CacheInv, TypeOK, Entries, Pendings
    <2> QED
      BY <2>1, <2>2, <2>3, <2>4 DEF CacheInv, Marked
  <1> QED
    BY <1>2, <1>3, <1>4, <1>5, <1>6, <1>7, <1>8, <1>9, <1>10, <1>11, <1>12, <1>13, <1>14 DEF Next

\* However many mutations of this client overlap, once their callbacks have
\* run an outdated answer of a followed key is marked or being fetched again,
\* unless an answer was lost or a write overtook the answer of a load.
THEOREM WritesFollowed == Spec => []OwnWritesSeen
  <1>1. CacheInv => OwnWritesSeen
    BY DEF CacheInv, Marked, Announced, OwnWritesSeen
  <1> QED
    BY CacheBase, CacheStep, <1>1, PTL DEF Spec
=============================================================================
