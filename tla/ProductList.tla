---------------------------- MODULE ProductList ----------------------------
(***************************************************************************)
(* The catalogue screen (ProductsPanel.tsx): a filtered, sorted and paged  *)
(* list read through the query cache, a drawer that shows and edits the    *)
(* record selected by id, and a dialog that creates one.  The catalogue    *)
(* itself is the server's, and other users edit it too.                    *)
(*                                                                         *)
(* What a person types is a value of its own: [for, n] where for is the    *)
(* product whose drawer it was typed in (0: the create dialog) and n a     *)
(* fresh number, which also stands for the name the list is sorted by.     *)
(***************************************************************************)
EXTENDS Integers, FiniteSets, SequencesExt

CONSTANTS
  Stock,          \* how many products the company starts with
  PageSize,       \* PAGE_SIZE
  MaxTexts,       \* bound: texts typed, by this user or another
  MaxListMoves,   \* bound: clicks that type nothing
  MaxListFaults   \* bound: requests that fail or whose answer is lost

ASSUME ListAssumption ==
  /\ {Stock, PageSize} \subseteq Nat \ {0}
  /\ {MaxTexts, MaxListMoves, MaxListFaults} \subseteq Nat

VARIABLES
  catalog,        \* the server's products, in creation order
  lists,          \* the query cache: filter -> the rows last read, once read
  filter,         \* the status filter, part of the query's key
  descending,     \* the sort direction (by name)
  listPage,       \* the page shown
  selectedId,     \* the record the drawer is addressed to, 0 for none
  drawerEditing,  \* editing
  editDraft,      \* the edit form, blank before a first record is opened
  savedBanner,    \* saved
  updating,       \* updateProduct: the request in flight, or NoUpdate
  createOpen,     \* the create dialog is open
  createDraft,    \* the create form
  productsSent,       \* createProduct: the drafts in flight
  texts, listMoves, listFaults,
  listLost        \* an answer was lost on the way back

drawerVars == <<selectedId, drawerEditing, editDraft, savedBanner, updating>>
createVars == <<createOpen, createDraft, productsSent>>
viewVars == <<lists, filter, descending, listPage>>
faultVars == <<listFaults, listLost>>
listVars == <<catalog, viewVars, drawerVars, createVars, texts, listMoves,
              faultVars>>

Filters == {"any", "active", "archived"}
Typed(id, n) == [for |-> id, n |-> n]
Blank == [val |-> Typed(0, 0), active |-> TRUE]
NoUpdate == [id |-> 0, draft |-> Blank]

Ids == 1 .. Stock + MaxTexts + MaxListFaults
Drafts == [val : [for : Ids \cup {0}, n : 0 .. MaxTexts], active : BOOLEAN]
Row(i) == [id |-> i, val |-> catalog[i].val, active |-> catalog[i].active]

\* GET /products?status=...: the rows that match; a row's id is its place in
\* creation order, the order in which they are sent
Rows(f) ==
  {Row(i) : i \in {j \in DOMAIN catalog : f = "any" \/ catalog[j].active = (f = "active")}}

\* `products`, and the record the drawer shows: found in the list by its id
Loaded == filter \in DOMAIN lists
Fetched == IF Loaded THEN lists[filter] ELSE {}
Found == {r \in Fetched : r.id = selectedId}
Selected == CHOOSE r \in Found : TRUE

\* The place of a row in the order of the chosen column: a stable sort
Before(a, b) ==
  IF a.val.n = b.val.n THEN a.id < b.id
  ELSE IF descending THEN a.val.n > b.val.n ELSE a.val.n < b.val.n
Place(r) == Cardinality({q \in Fetched : Before(q, r)})

PageCount ==
  LET n == (Cardinality(Fetched) + PageSize - 1) \div PageSize
  IN IF n = 0 THEN 1 ELSE n

\* sorted.slice((page - 1) * PAGE_SIZE, page * PAGE_SIZE)
Visible(p) == {r \in Fetched : Place(r) \in (p - 1) * PageSize .. p * PageSize - 1}

ListInit ==
  /\ catalog = [i \in 1 .. Stock |->
                  [val |-> Typed(i, 0), active |-> i = 1 \/ i < Stock]]
  /\ lists = <<>>
  /\ filter \in Filters /\ descending = FALSE /\ listPage = 1
  /\ selectedId = 0 /\ drawerEditing = FALSE /\ editDraft = Blank
  /\ savedBanner = FALSE /\ updating = NoUpdate
  /\ createOpen = FALSE /\ createDraft = Blank /\ productsSent = <<>>
  /\ texts = 0 /\ listMoves = 0 /\ listFaults = 0 /\ listLost = FALSE

-----------------------------------------------------------------------------
(* The list. *)

\* A read of the current key: mount, a key change, a refetch, a retry.
ReadList ==
  /\ Loaded => Fetched # Rows(filter)
  /\ lists' = [f \in DOMAIN lists \cup {filter} |->
                 IF f = filter THEN Rows(filter) ELSE lists[f]]
  /\ UNCHANGED <<catalog, filter, descending, listPage, drawerVars, createVars,
                 texts, listMoves, faultVars>>

ListClick == listMoves < MaxListMoves /\ listMoves' = listMoves + 1

\* The drawer and the dialog lay an overlay over the list.
ListInReach == Found = {} /\ ~createOpen

SetFilter(f) ==
  /\ ListClick /\ ListInReach /\ f # filter
  /\ filter' = f /\ listPage' = 1
  /\ UNCHANGED <<catalog, lists, descending, drawerVars, createVars, texts,
                 faultVars>>

SetSort ==
  /\ ListClick /\ ListInReach /\ Loaded
  /\ descending' = ~descending /\ listPage' = 1
  /\ UNCHANGED <<catalog, lists, filter, drawerVars, createVars, texts,
                 faultVars>>

\* Pagination: the numbered buttons (the ends, the neighbours of the page
\* shown, a page hidden alone between two of them) and the two arrows; the
\* page shown may lie beyond the last one
PageEntries ==
  LET wanted == ({1, PageCount} \cup (listPage - 1 .. listPage + 1))
                  \cap (1 .. PageCount)
  IN wanted \cup {p \in 1 .. PageCount : {p - 1, p + 1} \subseteq wanted}
Previous == {listPage - 1} \ {0}

TurnPage(p) ==
  /\ ListClick /\ ListInReach /\ PageCount > 1 /\ p # listPage
  /\ listPage' = p
  /\ UNCHANGED <<catalog, lists, filter, descending, drawerVars, createVars,
                 texts, faultVars>>

\* Faulty variant of OpenRecord: the edit form is filled once only.
OpenRecordKeepingDraft(r) ==
  /\ ListClick /\ ListInReach /\ r \in Visible(listPage)
  /\ selectedId' = r.id /\ drawerEditing' = FALSE /\ savedBanner' = FALSE
  /\ editDraft' = IF editDraft = Blank
                  THEN [val |-> r.val, active |-> r.active] ELSE editDraft
  /\ UNCHANGED <<catalog, viewVars, updating, createVars, texts, faultVars>>

OpenRecord(r) ==
  /\ ListClick /\ ListInReach /\ r \in Visible(listPage)
  /\ selectedId' = r.id /\ drawerEditing' = FALSE /\ savedBanner' = FALSE
  /\ editDraft' = [val |-> r.val, active |-> r.active]
  /\ UNCHANGED <<catalog, viewVars, updating, createVars, texts, faultVars>>

-----------------------------------------------------------------------------
(* The drawer.  It is open while its record is in the list, so a read can  *)
(* close it and a later one open it again as it was left.                  *)

CloseDrawer ==
  /\ ListClick /\ Found # {}
  /\ selectedId' = 0
  /\ UNCHANGED <<catalog, viewVars, drawerEditing, editDraft, savedBanner,
                 updating, createVars, texts, faultVars>>

\* Edit and Cancel: neither touches the draft
SetEditing ==
  /\ ListClick /\ Found # {}
  /\ drawerEditing' = ~drawerEditing
  /\ UNCHANGED <<catalog, viewVars, selectedId, editDraft, savedBanner,
                 updating, createVars, texts, faultVars>>

DismissSavedBanner ==
  /\ Found # {} /\ ~drawerEditing /\ savedBanner
  /\ savedBanner' = FALSE
  /\ UNCHANGED <<catalog, viewVars, selectedId, drawerEditing, editDraft,
                 updating, createVars, texts, listMoves, faultVars>>

TypeEdit(active) ==
  /\ Found # {} /\ drawerEditing /\ texts < MaxTexts
  /\ texts' = texts + 1
  /\ editDraft' = [val |-> Typed(selectedId, texts + 1), active |-> active]
  /\ UNCHANGED <<catalog, viewVars, selectedId, drawerEditing, savedBanner,
                 updating, createVars, listMoves, faultVars>>

\* submitEdit: the whole draft, to the record found in the list
SubmitEdit ==
  /\ ListClick /\ Found # {} /\ drawerEditing
  /\ updating = NoUpdate
  /\ updating' = [id |-> Selected.id, draft |-> editDraft]
  /\ UNCHANGED <<catalog, viewVars, selectedId, drawerEditing, editDraft,
                 savedBanner, createVars, texts, faultVars>>

Write(c, u) == [c EXCEPT ![u.id] = u.draft]

\* ProductService.update, and onSuccess: whichever record is open by then
UpdateServed ==
  /\ updating # NoUpdate
  /\ catalog' = Write(catalog, updating)
  /\ updating' = NoUpdate
  /\ drawerEditing' = FALSE /\ savedBanner' = TRUE
  /\ UNCHANGED <<viewVars, selectedId, editDraft, createVars, texts, listMoves,
                 faultVars>>

Faulted(lost) ==
  /\ listFaults < MaxListFaults
  /\ listFaults' = listFaults + 1
  /\ listLost' = (listLost \/ lost)

\* The request fails, or is served and its answer lost: the form stays.
UpdateFails(lost) ==
  /\ updating # NoUpdate /\ Faulted(lost)
  /\ catalog' = IF lost THEN Write(catalog, updating) ELSE catalog
  /\ updating' = NoUpdate
  /\ UNCHANGED <<viewVars, selectedId, drawerEditing, editDraft, savedBanner,
                 createVars, texts, listMoves>>

-----------------------------------------------------------------------------
(* The create dialog. *)

\* The add button, and Cancel: neither touches the draft
SetCreateOpen ==
  /\ ListClick /\ Found = {}
  /\ createOpen' = ~createOpen
  /\ UNCHANGED <<catalog, viewVars, drawerVars, createDraft, productsSent, texts,
                 faultVars>>

TypeCreate ==
  /\ createOpen /\ texts < MaxTexts
  /\ texts' = texts + 1
  /\ createDraft' = [createDraft EXCEPT !.val = Typed(0, texts + 1)]
  /\ UNCHANGED <<catalog, viewVars, drawerVars, createOpen, productsSent, listMoves,
                 faultVars>>

\* submitCreate: the name and the price are required
SubmitCreate ==
  /\ ListClick /\ createOpen /\ createDraft # Blank
  /\ productsSent = <<>>
  /\ productsSent' = Append(productsSent, createDraft)
  /\ UNCHANGED <<catalog, viewVars, drawerVars, createOpen, createDraft, texts,
                 faultVars>>

\* ProductService.create, and onSuccess: the form is blanked and closed, also
\* when it has been closed, reopened and filled again by then
CreateServed ==
  /\ productsSent # <<>>
  /\ catalog' = Append(catalog, Head(productsSent))
  /\ productsSent' = Tail(productsSent)
  /\ createDraft' = Blank /\ createOpen' = FALSE
  /\ UNCHANGED <<viewVars, drawerVars, texts, listMoves, faultVars>>

CreateFails(lost) ==
  /\ productsSent # <<>> /\ Faulted(lost)
  /\ catalog' = IF lost THEN Append(catalog, Head(productsSent)) ELSE catalog
  /\ productsSent' = Tail(productsSent)
  /\ UNCHANGED <<viewVars, drawerVars, createOpen, createDraft, texts,
                 listMoves>>

\* Another user edits a product in a window of their own.
OthersEdit(i, active) ==
  /\ texts < MaxTexts
  /\ texts' = texts + 1
  /\ catalog' = [catalog EXCEPT ![i] = [val |-> Typed(i, texts + 1),
                                        active |-> active]]
  /\ UNCHANGED <<viewVars, drawerVars, createVars, listMoves, faultVars>>

ListNext ==
  \/ ReadList
  \/ \E f \in Filters : SetFilter(f)
  \/ SetSort
  \/ \E p \in PageEntries \cup Previous : TurnPage(p)
  \/ \E r \in Visible(listPage) : OpenRecord(r)
  \/ CloseDrawer
  \/ SetEditing
  \/ DismissSavedBanner
  \/ \E active \in BOOLEAN : TypeEdit(active)
  \/ SubmitEdit
  \/ UpdateServed
  \/ \E lost \in BOOLEAN : UpdateFails(lost)
  \/ SetCreateOpen
  \/ TypeCreate
  \/ SubmitCreate
  \/ CreateServed
  \/ \E lost \in BOOLEAN : CreateFails(lost)
  \/ \E i \in DOMAIN catalog, active \in BOOLEAN : OthersEdit(i, active)

ListSpec == ListInit /\ [][ListNext]_listVars

-----------------------------------------------------------------------------
(* Properties. *)

\* The screen's state is well formed: what is selected, listed or being saved is
\* of the catalogue, and no more than one product is being created.
ListTypeOK ==
  /\ catalog \in Seq(Drafts)
  /\ DOMAIN lists \subseteq Filters
  /\ \A f \in DOMAIN lists :
       {r.id : r \in lists[f]} \subseteq DOMAIN catalog
  /\ filter \in Filters /\ {descending, drawerEditing, savedBanner, createOpen,
                            listLost} \subseteq BOOLEAN
  /\ listPage \in Nat \ {0}
  /\ selectedId \in DOMAIN catalog \cup {0}
  /\ {editDraft, createDraft} \subseteq Drafts
  /\ updating = NoUpdate \/ updating.id \in DOMAIN catalog
  /\ Len(productsSent) <= 1 /\ Range(productsSent) \subseteq Drafts

\* submitEdit sends the whole draft: what is stored for a product was typed
\* for that product (or created it), however drawers were opened, closed by a
\* read, reopened and saved late.
EditsOwnProduct ==
  \A i \in DOMAIN catalog :
    catalog[i].val.for = i \/ (catalog[i].val.for = 0 /\ i > Stock)

\* One filling of the create dialog creates one product, unless an answer was
\* lost and the person pressed Save again.
CreatedOnce ==
  \A i, j \in DOMAIN catalog :
    /\ i # j /\ catalog[i].val = catalog[j].val
    => listLost

=============================================================================
