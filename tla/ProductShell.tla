--------------------------- MODULE ProductShell ---------------------------
(***************************************************************************)
(* The shell of both frontends: the information architecture every build   *)
(* prunes once (scaffold/ia.ts), the routes generated from it              *)
(* (shell/routes.tsx), the doors the navigation, the palette, the account  *)
(* menu and each screen open onto those routes (shell/ProductShell.tsx),   *)
(* the company being worked on, and the guided tour.                       *)
(*                                                                         *)
(* A place is the path of a route below /app; the id of a record is        *)
(* abstracted, so the two record screens are one place each.               *)
(***************************************************************************)
EXTENDS Naturals, Sequences, FiniteSets, Functions

CONSTANTS
  Companies,        \* companies of the organization
  HitKinds,         \* kinds of record the server's search can return
  MaxShellMoves,    \* bound: moves of the person and of other windows
  MaxShellFaults    \* bound: reads of the company list that fail

ASSUME ShellAssumption ==
  /\ Companies # {} /\ IsFiniteSet(Companies)
  /\ {MaxShellMoves, MaxShellFaults} \subseteq Nat

VARIABLES
  build,        \* the frontend: its surface and its exposure
  location,     \* the place the router shows
  owned,         \* the companies in the database, by name
  listed,       \* the answer useCompanies() holds, empty for none
  fetch,        \* "loading" | "success" | "error": the state of that query
  companyId,   \* the company pinned or picked, or NoCompany
  paletteOpen,
  typed,        \* what the palette's field holds: nothing, one letter, a term
  searching,    \* the debounced term is being searched
  hits,         \* the kinds of record the palette has hits of
  tour,         \* localStorage: "absent" | "pending" | "done"
  tourOpen,
  shellMoves, loadFaults

companyVars == <<owned, listed, fetch, companyId, loadFaults>>
paletteVars == <<paletteOpen, typed, searching, hits>>
tourVars == <<tour, tourOpen>>
shellVars == <<build, location, companyVars, paletteVars, tourVars, shellMoves>>

NoPath == "(none)"
NoCompany == "(none)"

-----------------------------------------------------------------------------
(* The information architecture. *)

Node(path, backend) ==
  [path |-> path, status |-> backend, surface |-> "both", primary |-> FALSE,
   nav |-> TRUE, mergedInto |-> NoPath, children |-> {}]
Wired(paths) == {Node(p, "wired") : p \in paths}
Partial(paths) == {Node(p, "partial") : p \in paths}
Unbuilt(paths) == {Node(p, "none") : p \in paths}
OffNav(nodes) == {[n EXCEPT !.nav = FALSE] : n \in nodes}
Merged(nodes, path) == {[n EXCEPT !.mergedInto = path] : n \in OffNav(nodes)}
Section(path, children) == [Node(path, "partial") EXCEPT !.children = children]
Primary(section) == [section EXCEPT !.primary = TRUE]

InvoiceDetail == "sales/invoices/id/:invoiceId"
ClientDetail == "customers/clients/:clientId"

\* the seven panels of the dashboard have no path of their own and are alike
Dashboard == Primary(Section("", Wired({NoPath})))

InvoiceFilters ==
  Wired({"sales/invoices/draft", "sales/invoices/issued", "sales/invoices/paid",
         "sales/invoices/partially_paid", "sales/invoices/overdue",
         "sales/invoices/voided"})
  \cup Unbuilt({"sales/invoices/sent", "sales/invoices/viewed"})

Sales == Primary(Section("sales",
  {[Node("sales/invoices", "wired") EXCEPT !.children = InvoiceFilters]}
  \cup OffNav(Partial({InvoiceDetail})) \cup Wired({"sales/credit-notes"})
  \cup Unbuilt({"sales/recurring", "sales/quotes", "sales/proforma",
                "sales/reminders"})))

Customers == Primary(Section("customers",
  Wired({"customers/clients"}) \cup OffNav(Partial({ClientDetail}))
  \cup Merged(Unbuilt({"customers/contacts", "customers/history",
                       "customers/documents"}), "customers/clients")
  \cup Unbuilt({"customers/groups"}) \cup OffNav(Wired({"customers/activity"}))))

Catalog == Primary(Section("catalog",
  Wired({"catalog/products", "catalog/templates", "catalog/archived"})
  \cup Partial({"catalog/services", "catalog/categories", "catalog/pricing",
                "catalog/vat"})))

Reports == Primary(Section("reports",
  Wired({"reports/revenue", "reports/invoices", "reports/payments",
         "reports/outstanding", "reports/overdue"})
  \cup Partial({"reports/vat", "reports/export"})
  \cup Unbuilt({"reports/clients", "reports/products"})))

Company == Section("company", Merged(
  Wired({"company/profile", "company/legal", "company/vat", "company/numbering"})
  \cup Partial({"company/bank", "company/defaults"})
  \cup Unbuilt({"company/payment-terms", "company/branding",
                "company/documents"}), "company"))

Billing == Section("billing",
  Wired({"billing/plan", "billing/usage"})
  \cup Unbuilt({"billing/subscription", "billing/invoices", "billing/payment-method",
                "billing/history", "billing/change-plan", "billing/cancel"}))

Documents == Section("documents",
  Unbuilt({"documents/all", "documents/folders", "documents/invoice-attachments",
           "documents/client", "documents/company", "documents/archived",
           "documents/trash"}))

Explore == Section("explore",
  Partial({"explore/filters", "explore/activity"})
  \cup Unbuilt({"explore/search", "explore/saved", "explore/documents"}))

Activity == Section("activity",
  Wired({"activity/audit", "activity/user", "activity/security"})
  \cup Unbuilt({"activity/notifications", "activity/system"}))

Settings == Section("settings",
  Wired({"settings/backup", "settings/appearance"})
  \cup Partial({"settings/account", "settings/security", "settings/integrations",
                "settings/privacy", "settings/cookies", "settings/import",
                "settings/export", "settings/localization"})
  \cup Unbuilt({"settings/team", "settings/notifications", "settings/email",
                "settings/api", "settings/advanced"}))

Help == Section("help",
  Partial({"help/status"})
  \cup Unbuilt({"help/center", "help/getting-started", "help/tutorials", "help/faq",
                "help/contact", "help/whats-new"}))

LegalPages == Section("legal",
  Partial({"legal/terms", "legal/privacy", "legal/cookies", "legal/dpa",
           "legal/subprocessors", "legal/ai-transparency", "legal/sla",
           "legal/notices"})
  \cup Unbuilt({"legal/contracts"}))

Onboarding == Section("onboarding", OffNav(Wired({"onboarding/wizard"})))

Desktop == [Section("desktop",
  Partial({"desktop/connection", "desktop/backup", "desktop/printing"})
  \cup Unbuilt({"desktop/offline", "desktop/updates"})) EXCEPT !.surface = "desktop"]

IA == {Dashboard, Sales, Customers, Catalog, Reports, Company, Billing, Documents,
       Explore, Activity, Settings, Help, LegalPages, Onboarding, Desktop}

\* the first release, as a list of destinations
MVP_SURFACE ==
  {"sales/invoices", "sales/invoices/draft", "sales/invoices/issued",
   "sales/invoices/paid", "sales/invoices/partially_paid", "sales/invoices/overdue",
   "sales/invoices/voided", InvoiceDetail, "customers/clients", ClientDetail,
   "catalog/products", "catalog/templates", "company/profile", "company/legal",
   "company/vat", "company/numbering", "billing/plan", "billing/usage",
   "settings/account", "settings/backup", "settings/appearance", "settings/privacy",
   "onboarding/wizard"}

\* the web app is built with everything, the desktop with the first release
\* (with everything under vite dev)
Builds == {[surface |-> "saas", exposure |-> "all"],
           [surface |-> "desktop", exposure |-> "all"],
           [surface |-> "desktop", exposure |-> "mvp"]}

\* the tree is three deep
FlattenIa(nodes) ==
  LET below(ns) == UNION {n.children : n \in ns}
  IN nodes \cup below(nodes) \cup below(below(nodes))

OnSurface(node, surface) == node.surface \in {"both", surface}

IsExposed(node, exposure) ==
  CASE exposure = "all" -> TRUE
    [] exposure = "wired" \/ node.path = NoPath -> node.status = "wired"
    [] OTHER -> node.path \in MVP_SURFACE

AlertsOffered(exposure) == exposure # "mvp"

\* prune(), level by level: a branch lives on its descendants, a leaf on itself
Leaves(nodes, b) ==
  {n \in nodes : n.children = {} /\ OnSurface(n, b.surface) /\ IsExposed(n, b.exposure)}
Prune(nodes, b) ==
  LET branches == {[n EXCEPT !.children = Leaves(@, b)] :
                     n \in {m \in nodes : m.children # {} /\ OnSurface(m, b.surface)}}
  IN Leaves(nodes, b)
       \cup {n \in branches : b.exposure = "all" \/ n.children # {}}

\* iaFor(): the one tree that the nav, the palette, the router and the landings read
IaFor == [b \in Builds |->
  LET sections == {[s EXCEPT !.children = Prune(@, b)] :
                     s \in {t \in IA : OnSurface(t, b.surface)}}
  IN {s \in sections : b.exposure = "all" \/ s.children # {}}]

RoutableNodes(b) == {n \in FlattenIa(IaFor[b]) : n.path # NoPath}

IsNavDestination(node) == node.path # NoPath /\ node.nav

\* iaTrail() without its last element; it reads the unpruned web tree
Ancestors(path) ==
  {n \in FlattenIa({s \in IA : OnSurface(s, "saas")}) :
     \E d \in FlattenIa(n.children) : d.path = path}

-----------------------------------------------------------------------------
(* The routes, and the screens behind them. *)

Builder == "sales/invoices/new"    \* an action, not a node of the tree

\* addresses from before the tree, kept by the web app only
Legacy == [p \in {"invoices/new", "invoices", "clients", "products", "import"} |->
  CASE p = "invoices/new" -> Builder
    [] p = "invoices" -> "sales/invoices"
    [] p = "clients" -> "customers/clients"
    [] p = "products" -> "catalog/products"
    [] OTHER -> "settings/import"]

\* buildAppRoutes(), and the routes the two App.tsx declare beside it
Routes == [b \in Builds |-> {n.path : n \in RoutableNodes(b)} \cup {Builder}]

\* SectionIndex, the landing of every section but the dashboard and the company
SectionPlaces ==
  {"sales", "customers", "catalog", "reports", "billing", "documents", "explore",
   "activity", "settings", "help", "legal", "onboarding", "desktop"}

InvoicePlaces == {"sales/invoices"} \cup {n.path : n \in {f \in InvoiceFilters : f.status = "wired"}}

\* BUILT: the places that are more than a scaffold
Built ==
  {"", "company", "catalog/templates", "sales/credit-notes", ClientDetail, InvoiceDetail,
   "customers/clients", "catalog/products", "catalog/archived", "customers/activity",
   "reports/revenue", "reports/outstanding", "reports/overdue", "reports/invoices",
   "reports/payments", "billing/usage", "billing/plan", "reports/vat",
   "settings/account", "settings/appearance", "settings/privacy", "settings/import",
   "settings/backup", "onboarding/wizard", "activity/audit", Builder}
  \cup SectionPlaces \cup InvoicePlaces

\* a tile or a row per child that has a path, route parameters and all
SectionDoors(b, path) ==
  {n.path : n \in UNION {s.children : s \in {t \in IaFor[b] : t.path = path}}} \ {NoPath}

\* DashboardScreen: the shortcuts, the audit log where it is a screen, the alerts
DashboardDoors(b) ==
  {Builder, "customers/clients", "catalog/products", "settings/backup"}
  \cup {p \in {"activity/audit"} : IsExposed(Node(p, "wired"), b.exposure)}
  \cup IF AlertsOffered(b.exposure)
       THEN {InvoiceDetail, ClientDetail, "company/profile"} ELSE {}

\* InvoicesScreen: New, the tabs of the wired filters, the rows
InvoicesDoors == {Builder, InvoiceDetail} \cup InvoicePlaces

\* what the other entries of BUILT navigate to
BuiltDoors(path) ==
  CASE path = "sales/credit-notes" -> {"sales/invoices"}
    [] path = ClientDetail -> {"customers/clients", InvoiceDetail, Builder}
    [] path = InvoiceDetail -> {"sales/invoices", ClientDetail, InvoiceDetail}
    [] path = "customers/clients" -> {ClientDetail}
    [] path \in {"reports/outstanding", "reports/overdue", "reports/payments"} -> {InvoiceDetail}
    [] path = "billing/usage" -> {"billing/plan"}
    [] path = "settings/privacy" -> {"settings/backup"}
    [] path = Builder -> {"sales/invoices"}
    [] path = "onboarding/wizard" -> {"", Builder, "company/profile"}
    [] OTHER -> {}

\* IaBreadcrumbs: every ancestor (one that has its child's name is left out)
Breadcrumbs(path) == {n.path : n \in Ancestors(path)}

\* SettingsFrame: the rail, around every settings page
Rail(b, path) ==
  IF \E n \in Settings.children : n.path = path
  THEN {n.path : n \in {m \in Settings.children : IsExposed(m, b.exposure)}}
  ELSE {}

ScreenDoors(b, path) ==
  Breadcrumbs(path) \cup Rail(b, path)
  \cup CASE path = "" -> DashboardDoors(b)
         [] path \in SectionPlaces -> SectionDoors(b, path)
         [] path \in InvoicePlaces -> InvoicesDoors
         [] OTHER -> BuiltDoors(path)

-----------------------------------------------------------------------------
(* The shell around them. *)

\* the top bar: home, create, the bell, each primary section and its sub-pages
Links(b) ==
  LET primary == {s \in IaFor[b] : s.primary}
  IN {"", Builder} \cup {s.path : s \in primary}
     \cup {n.path : n \in {c \in UNION {s.children : s \in primary} : IsNavDestination(c)}}

\* the account menu: the other sections, and the tour, which starts at home
AccountItems(b) == {s.path : s \in {t \in IaFor[b] : ~t.primary}} \cup {""}

\* OrgSwitcher's "New company", EntitlementBoundary's "See plans"
ShellDoors(b) == Links(b) \cup AccountItems(b) \cup {"company/profile", "billing/plan"}

HIT_DESTINATION ==
  [k \in {"invoice", "client", "quote", "credit_note", "product"} |->
     CASE k = "invoice" -> InvoiceDetail
       [] k = "client" -> ClientDetail
       [] k = "quote" -> "sales/quotes"
       [] k = "credit_note" -> "sales/credit-notes"
       [] OTHER -> "catalog/products"]

\* Faulty variant of RecordCommands: the routable set is not asked.
RecordCommandsAnywhere(b, kinds) ==
  {HIT_DESTINATION[k] : k \in kinds \cap DOMAIN HIT_DESTINATION}

\* a kind without a destination, or without a screen in this build, is not shown
RecordCommands(b, kinds) ==
  {HIT_DESTINATION[k] :
     k \in {h \in kinds \cap DOMAIN HIT_DESTINATION : HIT_DESTINATION[h] \in Routes[b]}}

\* the sections and their children, where the path needs no id
Commands(b) ==
  {Builder}
  \cup ({n.path : n \in IaFor[b] \cup UNION {s.children : s \in IaFor[b]}}
         \ {NoPath, InvoiceDetail, ClientDetail})

\* the doors that do not depend on what was searched
Doors == [b \in Builds |-> [p \in Routes[b] |-> ShellDoors(b) \cup ScreenDoors(b, p)]]
PaletteDoors == [b \in Builds |-> Commands(b)]

MergedInto(b, path) == {n.mergedInto : n \in {m \in RoutableNodes(b) : m.path = path}} \ {NoPath}

\* where an address ends: at home when nothing is mounted there, elsewhere when
\* its node was merged or the address is an old one
Landing == [b \in Builds |-> [p \in Routes[b] |->
  IF MergedInto(b, p) = {} THEN p ELSE CHOOSE q \in MergedInto(b, p) : TRUE]]
Land(b, path) ==
  IF path \in Routes[b] THEN Landing[b][path]
  ELSE IF b.surface = "saas" /\ path \in DOMAIN Legacy THEN Legacy[path] ELSE ""

\* the company every screen is about
ActiveCompany ==
  CASE listed = <<>> -> NoCompany
    [] \E i \in DOMAIN listed : listed[i] = companyId -> companyId
    [] OTHER -> Head(listed)

\* the shell shows the app once a company is there
InApp == listed # <<>>

ByName == UNION {{l \in [1 .. n -> Companies] : \A i, j \in 1 .. n : l[i] = l[j] => i = j} :
                   n \in 0 .. Cardinality(Companies)}

\* what may stand in the address bar: any node, mounted or not, or an old address
Addresses == {n.path : n \in FlattenIa(IA)} \cup DOMAIN Legacy \cup {Builder}

ShellInit ==
  /\ build \in Builds /\ location = ""
  /\ owned \in ByName /\ listed = <<>> /\ fetch = "loading" /\ companyId = NoCompany
  /\ paletteOpen = FALSE /\ typed = "" /\ searching = FALSE /\ hits = {}
  /\ tour \in {"absent", "pending", "done"} /\ tourOpen = (tour = "pending")
  /\ shellMoves = 0 /\ loadFaults = 0

Moves == shellMoves < MaxShellMoves /\ shellMoves' = shellMoves + 1

-----------------------------------------------------------------------------
(* Navigation. *)

\* the effect on the pathname: a tour that is owed opens off the wizard
TourFor(place) ==
  tourOpen \/ (tour = "pending" /\ place \notin {"onboarding", "onboarding/wizard"})

\* navigate(): the router follows its redirects, the effect runs on a new place
Goto(path) ==
  /\ location' = Land(build, path)
  /\ tourOpen' = IF location' = location THEN tourOpen ELSE TourFor(location')
  /\ UNCHANGED <<build, companyVars, tour>>

\* a door of the shell or of the screen is pressed; the palette and the tour lie
\* over both, and the keyboard reaches the palette over the tour
Go ==
  /\ Moves /\ InApp /\ ~paletteOpen /\ ~tourOpen
  /\ \E path \in Doors[build][location] : Goto(path)
  /\ UNCHANGED paletteVars

\* an address is typed or a page reloaded: the web app starts again there.
\* The desktop window has no address bar.
OpenUrl(path) ==
  /\ Moves /\ build.surface = "saas"
  /\ location' = Land(build, path)
  /\ tourOpen' = (tour = "pending" /\ location' \notin {"onboarding", "onboarding/wizard"})
  /\ listed' = <<>> /\ fetch' = "loading" /\ companyId' = NoCompany
  /\ paletteOpen' = FALSE /\ typed' = "" /\ searching' = FALSE /\ hits' = {}
  /\ UNCHANGED <<build, owned, loadFaults, tour>>

-----------------------------------------------------------------------------
(* The palette. *)

\* Ctrl/Cmd-K, which also closes it, or the search button; the field is emptied on
\* opening, the hits of the last search stay (placeholderData)
TogglePalette ==
  /\ Moves /\ InApp
  /\ paletteOpen' = ~paletteOpen
  /\ typed' = IF paletteOpen THEN typed ELSE ""
  /\ UNCHANGED <<build, location, companyVars, searching, hits, tourVars>>

TypeQuery(text) ==
  /\ Moves /\ InApp /\ paletteOpen /\ text # typed
  /\ typed' = text
  /\ UNCHANGED <<build, location, companyVars, paletteOpen, searching, hits, tourVars>>

\* 180 ms without a key: a term of two letters or more is searched
Debounced ==
  /\ searching # (paletteOpen /\ typed = "term")
  /\ searching' = ~searching
  /\ UNCHANGED <<build, location, companyVars, paletteOpen, typed, hits, tourVars, shellMoves>>

\* the search covers every kind of record, whatever this build mounts
SearchServed(kinds) ==
  /\ searching /\ kinds # hits
  /\ hits' = kinds
  /\ UNCHANGED <<build, location, companyVars, paletteOpen, typed, searching, tourVars, shellMoves>>

\* a command closes the palette, then navigates
RunCommand ==
  /\ Moves /\ InApp /\ paletteOpen
  /\ paletteOpen' = FALSE
  /\ \E path \in PaletteDoors[build] \cup RecordCommands(build, hits) : Goto(path)
  /\ UNCHANGED <<typed, searching, hits>>

-----------------------------------------------------------------------------
(* The company being worked on. *)

\* useCompanies() answers, at first or again; the first company of the first
\* answer that has one is pinned
CompaniesRead ==
  /\ listed # owned \/ fetch # "success"
  /\ listed' = owned /\ fetch' = "success"
  /\ companyId' = IF companyId = NoCompany /\ owned # <<>> THEN Head(owned) ELSE companyId
  /\ UNCHANGED <<build, location, owned, loadFaults, paletteVars, tourVars, shellMoves>>

\* the read fails: an earlier answer stays, without one the first-company form shows
CompaniesFail ==
  /\ loadFaults < MaxShellFaults /\ fetch # "error"
  /\ fetch' = "error" /\ loadFaults' = loadFaults + 1
  /\ UNCHANGED <<build, location, owned, listed, companyId, paletteVars, tourVars, shellMoves>>

\* a company is created, imported or renamed, here or in another window: the
\* list is ordered by name, so it may come first
CompanyWritten ==
  /\ Moves
  /\ owned' \in {l \in ByName : Range(owned) \subseteq Range(l) /\ l # owned}
  /\ UNCHANGED <<build, location, listed, fetch, companyId, loadFaults, paletteVars, tourVars>>

\* the switcher does nothing for the company already active
SwitchCompany(c) ==
  /\ Moves /\ InApp /\ ~paletteOpen /\ ~tourOpen
  /\ c \in Range(listed) \ {ActiveCompany}
  /\ companyId' = c
  /\ UNCHANGED <<build, location, owned, listed, fetch, loadFaults, paletteVars, tourVars>>

-----------------------------------------------------------------------------
(* The tour. *)

\* the wizard's Finish is answered: the tour is owed once the wizard is left
RequestTour ==
  /\ Moves /\ InApp /\ location = "onboarding/wizard"
  /\ tour' = "pending"
  /\ UNCHANGED <<build, location, companyVars, paletteVars, tourOpen>>

StartTour ==
  /\ Moves /\ InApp /\ ~paletteOpen /\ ~tourOpen
  /\ location' = "" /\ tourOpen' = TRUE
  /\ UNCHANGED <<build, companyVars, paletteVars, tour>>

CloseTour ==
  /\ Moves /\ InApp /\ tourOpen
  /\ tour' = "done" /\ tourOpen' = FALSE
  /\ UNCHANGED <<build, location, companyVars, paletteVars>>

ShellNext ==
  \/ \E path \in Addresses : OpenUrl(path)
  \/ \E text \in {"", "letter", "term"} : TypeQuery(text)
  \/ \E kinds \in SUBSET HitKinds : SearchServed(kinds)
  \/ \E c \in Companies : SwitchCompany(c)
  \/ Go \/ RunCommand \/ TogglePalette \/ Debounced
  \/ CompaniesRead \/ CompaniesFail \/ CompanyWritten
  \/ RequestTour \/ StartTour \/ CloseTour

-----------------------------------------------------------------------------

\* The shell's state is well formed, and the router is never at an address that
\* is not mounted or that redirects.
ShellTypeOK ==
  /\ build \in Builds
  /\ location \in Routes[build] /\ Landing[build][location] = location
  /\ {owned, listed} \subseteq ByName /\ fetch \in {"loading", "success", "error"}
  /\ companyId \in Companies \cup {NoCompany}
  /\ {paletteOpen, searching, tourOpen} \subseteq BOOLEAN
  /\ typed \in {"", "letter", "term"} /\ hits \subseteq HitKinds
  /\ tour \in {"absent", "pending", "done"}
  /\ shellMoves \in 0 .. MaxShellMoves /\ loadFaults \in 0 .. MaxShellFaults

\* No door leads nowhere.  The nav, the menus, the palette with its search hits,
\* the breadcrumbs, the settings rail, the landings and the screens read the tree
\* in seven places; whatever one of them offers is mounted in this build, and in
\* a handed-over build it ends at a screen that is built.
NoDeadDoors ==
  LET offered == Doors[build][location] \cup PaletteDoors[build]
                   \cup RecordCommands(build, hits)
  IN InApp =>
     /\ offered \subseteq Routes[build]
     /\ build.exposure # "all" => \A d \in offered : Landing[build][d] \in Built
==============================================================================
