---- MODULE InvoiceWorkspace ----
(***************************************************************************)
(* The four-step invoice workspace: the steps, the customer picker and its *)
(* drawer, the items table and the drawer that edits one line through a    *)
(* local copy, the dates, the readiness check of the review step and the   *)
(* delivery panel behind it, with the totals that follow every keystroke.  *)
(* The workspace owns no data: it calls onDraftChange with the whole draft.*)
(* Names are one bit each, dates small numbers; the text of a quantity or  *)
(* of a price is the amount num() reads in it, and whether a bare Number() *)
(* reads it too.                                                           *)
(***************************************************************************)
EXTENDS Integers, Sequences, FiniteSets, SequencesExt, FiniteSetsExt

CONSTANTS Products,      \* the catalog
          Price, Rate,   \* the price and the VAT rate of each product
          MaxDate,       \* dates are 1..MaxDate; 0 is "not given"
          MaxKeys,       \* bound on the lines ever created
          MaxSteps       \* bound on the user's actions

ASSUME WorkspaceAssumption ==
    /\ Price \in [Products -> Nat] /\ Rate \in [Products -> Nat]
    /\ MaxDate \in Nat /\ MaxKeys \in Nat /\ MaxSteps \in Nat

VARIABLES step,              \* the step shown
          customer,          \* draft.customer: none, a listed one, a new one
          issueDate, dueDate,
          items,             \* draft.lines
          creatingCustomer,  \* the customer drawer is open
          editing,           \* editingLineKey, 0 for none
          copy,              \* the drawer's local copy of the line, or NoCopy
          delivering,        \* the review's Continue was pressed
          keys,              \* the line keys handed out so far
          moves

wsVars == <<step, customer, issueDate, dueDate, items, creatingCustomer, editing, copy,
            delivering, keys, moves>>

WorkspaceSteps == <<"customer", "items", "details", "review">>
StepIndex(s) == CHOOSE i \in DOMAIN WorkspaceSteps : WorkspaceSteps[i] = s

NoProduct == "no product"
NoCopy == [key |-> 0]

\* "3"; "1,5", where num() puts a dot for the comma; "abc", where it reads 0.
Plain(n) == [n |-> n, plain |-> TRUE]
WithComma(n) == [n |-> n, plain |-> FALSE]
Garbage == [n |-> 0, plain |-> FALSE]

\* emptyLine(): quantity 1, price 0, 21 %, no product.
EmptyItem(k) == [key |-> k, named |-> FALSE, quantity |-> Plain(1), price |-> Plain(0),
                 rate |-> 21, discount |-> 0, product |-> NoProduct]

CatalogItem(k, p) == [EmptyItem(k) EXCEPT !.named = TRUE, !.price = Plain(Price[p]),
                                          !.rate = Rate[p], !.product = p]

(***************************************************************************)
(* computeTotals and lineSubtotal.  Percentages are kept exact by counting *)
(* in parts: a subtotal in 1/100, an amount after the invoice discount in  *)
(* 1/10000 and a VAT amount in 1/1000000 of the currency.                  *)
(***************************************************************************)
SumOver(amount, I) == SumFunctionOnSet(amount, I)

Gross(l) == l.quantity.n * l.price.n
LineSubtotal(l) == Gross(l) * (100 - l.discount)

Subtotals(ls) == [i \in DOMAIN ls |-> LineSubtotal(ls[i])]
VatRates(ls) == {ls[i].rate : i \in DOMAIN ls}
RowOf(ls, r) == {i \in DOMAIN ls : ls[i].rate = r}

VatSummary(ls, discount) ==
    [r \in VatRates(ls) |->
        LET base == SumOver(Subtotals(ls), RowOf(ls, r)) * (100 - discount)
        IN  [base |-> base, vat |-> base * r]]

ComputeTotals(ls, discount) ==
    LET gross == SumOver([i \in DOMAIN ls |-> Gross(ls[i])], DOMAIN ls)
        net == SumOver(Subtotals(ls), DOMAIN ls)
        vat == SumOver([i \in DOMAIN ls |-> LineSubtotal(ls[i]) * (100 - discount) * ls[i].rate], DOMAIN ls)
    IN  [subtotal |-> net * (100 - discount),
         discount |-> (gross * 100 - net) * 100 + net * discount,
         vat      |-> vat,
         total    |-> net * (100 - discount) * 100 + vat,
         summary  |-> VatSummary(ls, discount)]

\* A line as the live preview prints it, before its own discount: Number() of
\* the texts, not num(), so that a row with a comma in it reads NaN.
Legible(l) == l.quantity.plain /\ l.price.plain
PreviewRow(l) ==
    IF Legible(l) THEN [nan |-> FALSE, total |-> Gross(l), vat |-> Gross(l) * l.rate]
    ELSE [nan |-> TRUE]

\* The document the preview draws, and the list the review step draws.
LivePreview(discount) ==
    [customer |-> customer, dates |-> <<issueDate, dueDate>>,
     rows |-> [i \in DOMAIN items |-> PreviewRow(items[i])],
     totals |-> ComputeTotals(items, discount)]

ReviewSummary(discount) ==
    LET t == ComputeTotals(items, discount)
    IN  [customer |-> customer, dates |-> <<issueDate, dueDate>>, lines |-> Len(items),
         subtotal |-> t.subtotal, vat |-> t.vat, total |-> t.total]

\* InvoiceTotals: a VAT row per rate once there are two, one row before that.
VatRows(t) ==
    IF Cardinality(DOMAIN t.summary) > 1 THEN {t.summary[r].vat : r \in DOMAIN t.summary}
    ELSE {t.vat}

(***************************************************************************)
(* checkReadiness: the blocking items of the draft.                        *)
(***************************************************************************)
Blocking ==
    {b \in {"customer", "dates", "due_before_issue", "lines"} :
        \/ b = "customer" /\ customer = "none"
        \/ b = "dates" /\ issueDate = 0
        \/ b = "due_before_issue" /\ issueDate # 0 /\ dueDate # 0 /\ dueDate < issueDate
        \/ b = "lines" /\ \A i \in DOMAIN items : ~items[i].named}

IsReady == Blocking = {}

WsTypeOK ==
    /\ step \in Range(WorkspaceSteps) /\ customer \in {"none", "listed", "new"}
    /\ issueDate \in 0..MaxDate /\ dueDate \in 0..MaxDate
    /\ creatingCustomer \in BOOLEAN /\ delivering \in BOOLEAN
    /\ keys \in 0..MaxKeys /\ moves \in 0..MaxSteps
    /\ \A i, j \in DOMAIN items : items[i].key = items[j].key => i = j
    /\ editing # 0 => editing \in {items[i].key : i \in DOMAIN items}

WsInit ==
    /\ step = "customer" /\ customer = "none" /\ issueDate = 0 /\ dueDate = 0
    /\ items = <<>> /\ creatingCustomer = FALSE
    /\ editing = 0 /\ copy = NoCopy /\ delivering = FALSE
    /\ keys = 0 /\ moves = 0

Move == moves < MaxSteps /\ moves' = moves + 1

Document == <<customer, issueDate, dueDate, items, keys>>
Drawers == <<creatingCustomer, editing, copy>>

(***************************************************************************)
(* The steps.  Continue is never disabled; the stepper goes back only.     *)
(***************************************************************************)
Continue ==
    /\ Move /\ step # "review"
    /\ step' = WorkspaceSteps[StepIndex(step) + 1]
    /\ UNCHANGED <<Document, Drawers, delivering>>

Back ==
    /\ Move /\ StepIndex(step) > 1 /\ (step = "review" => ~delivering)
    /\ step' = WorkspaceSteps[StepIndex(step) - 1]
    /\ UNCHANGED <<Document, Drawers, delivering>>

StepClick(s) ==
    /\ Move /\ StepIndex(s) < StepIndex(step)
    /\ step' = s
    /\ UNCHANGED <<Document, Drawers, delivering>>

\* The review's Continue, disabled while anything is blocking.
ToDelivery ==
    /\ Move /\ step = "review" /\ ~delivering /\ IsReady
    /\ delivering' = TRUE
    /\ UNCHANGED <<step, Document, Drawers>>

(***************************************************************************)
(* The customer.                                                           *)
(***************************************************************************)
SelectCustomer(c) ==
    /\ Move /\ step = "customer"
    /\ (customer = "none" /\ c = "listed") \/ (customer # "none" /\ c = "none")
    /\ customer' = c
    /\ UNCHANGED <<step, issueDate, dueDate, items, keys, Drawers, delivering>>

OpenCustomerDrawer ==
    /\ Move /\ step = "customer" /\ customer = "none"
    /\ creatingCustomer' = TRUE
    /\ UNCHANGED <<step, Document, editing, copy, delivering>>

\* The new customer is selected at once, before the server knows it.
SubmitCustomer ==
    /\ Move /\ creatingCustomer
    /\ customer' = "new" /\ creatingCustomer' = FALSE
    /\ UNCHANGED <<step, issueDate, dueDate, items, keys, editing, copy, delivering>>

CloseCustomerDrawer ==
    /\ Move /\ creatingCustomer
    /\ creatingCustomer' = FALSE
    /\ UNCHANGED <<step, Document, editing, copy, delivering>>

(***************************************************************************)
(* The items.                                                              *)
(***************************************************************************)
AddBlank ==
    /\ Move /\ step = "items" /\ keys < MaxKeys
    /\ keys' = keys + 1 /\ items' = Append(items, EmptyItem(keys + 1))
    /\ UNCHANGED <<step, customer, issueDate, dueDate, Drawers, delivering>>

AddFromCatalog(p) ==
    /\ Move /\ step = "items" /\ keys < MaxKeys
    /\ keys' = keys + 1 /\ items' = Append(items, CatalogItem(keys + 1, p))
    /\ UNCHANGED <<step, customer, issueDate, dueDate, Drawers, delivering>>

\* The drawer is keyed by the line: it is mounted anew and copies the line.
OpenLine(i) ==
    /\ Move /\ step = "items" /\ editing # items[i].key
    /\ editing' = items[i].key /\ copy' = items[i]
    /\ UNCHANGED <<step, Document, creatingCustomer, delivering>>

CloseLine ==
    /\ Move /\ editing # 0
    /\ editing' = 0 /\ copy' = NoCopy
    /\ UNCHANGED <<step, Document, creatingCustomer, delivering>>

\* Faulty variant of DropLine: the drawer stays open.
DropLineKeepingDrawer ==
    /\ Move /\ editing # 0
    /\ \E i \in DOMAIN items : items[i].key = copy.key /\ items' = RemoveAt(items, i)
    /\ UNCHANGED <<step, customer, issueDate, dueDate, keys, Drawers, delivering>>

\* onRemove: the line with the drawer's key is gone and its drawer closed.
DropLine ==
    /\ Move /\ editing # 0
    /\ \E i \in DOMAIN items : items[i].key = copy.key /\ items' = RemoveAt(items, i)
    /\ editing' = 0 /\ copy' = NoCopy
    /\ UNCHANGED <<step, customer, issueDate, dueDate, keys, creatingCustomer, delivering>>

\* The fields of the drawer; the ones a product decides break the link to it.
Edits(l) ==
    {[l EXCEPT !.named = ~@, !.product = NoProduct],
     [l EXCEPT !.rate = IF @ = 21 THEN 6 ELSE 21, !.product = NoProduct],
     [l EXCEPT !.discount = 50]}
        \cup {[l EXCEPT !.price = t, !.product = NoProduct] :
                 t \in {Plain(l.price.n + 1), WithComma(l.price.n + 1), Garbage}}
        \cup {[l EXCEPT !.quantity = t] : t \in {Plain(2), WithComma(2), Garbage}}

Patch(next) ==
    /\ Move /\ editing # 0
    /\ copy' = next
    /\ items' = [i \in DOMAIN items |-> IF items[i].key = next.key THEN next ELSE items[i]]
    /\ UNCHANGED <<step, customer, issueDate, dueDate, keys, creatingCustomer, editing,
                   delivering>>

(***************************************************************************)
(* The dates.                                                              *)
(***************************************************************************)
SetDates(from, to) ==
    /\ Move /\ step = "details"
    /\ from = issueDate \/ to = dueDate
    /\ issueDate' = from /\ dueDate' = to
    /\ UNCHANGED <<step, customer, items, keys, Drawers, delivering>>

WsNext ==
    \/ Continue \/ Back \/ ToDelivery
    \/ \E s \in Range(WorkspaceSteps) : StepClick(s)
    \/ \E c \in {"none", "listed"} : SelectCustomer(c)
    \/ OpenCustomerDrawer \/ SubmitCustomer \/ CloseCustomerDrawer
    \/ AddBlank \/ \E p \in Products : AddFromCatalog(p)
    \/ \E i \in DOMAIN items : OpenLine(i)
    \/ CloseLine \/ DropLine
    \/ editing # 0 /\ \E next \in Edits(copy) : Patch(next)
    \/ \E from, to \in 0..MaxDate : SetDates(from, to)

WsSpec == WsInit /\ [][WsNext]_wsVars

(***************************************************************************)
(* Properties.                                                             *)
(***************************************************************************)

\* The open drawer edits the line it was opened for: its local copy is that
\* line as the draft holds it, whichever line was open before and whatever the
\* canvas changed meanwhile (the keyed remount of EditItemDrawer).
DrawerShowsLine ==
    editing # 0 => \E i \in DOMAIN items : items[i].key = editing /\ items[i] = copy

\* What the screens compute adds up, with and without an invoice discount: the
\* VAT summary the review's VAT and subtotal, both the total, and the rows of the
\* preview, where none of them is NaN, less the discount the subtotal
\* (computeTotals and the three places that draw it: LiveInvoicePreview,
\* InvoiceTotals, InvoiceReview).  A row whose quantity or price was typed with a
\* comma is NaN in the preview and counted in every sum.
TotalsAddUp ==
    \A discount \in {0, 10, 100} :
        LET document == LivePreview(discount)
            t == document.totals
            rates == DOMAIN t.summary
            review == ReviewSummary(discount)
            legible == \A i \in DOMAIN document.rows : ~document.rows[i].nan
            printed == [i \in DOMAIN document.rows |-> document.rows[i].total]
        IN  /\ legible =>
                 SumOver(printed, DOMAIN printed) * 10000 - t.discount = review.subtotal
            /\ SumOver([r \in rates |-> t.summary[r].base], rates) = review.subtotal
            /\ SumOver([r \in rates |-> t.summary[r].vat], rates) = review.vat
            /\ Cardinality(rates) < 2 => VatRows(t) = {review.vat}
            /\ review.total = review.subtotal * 100 + review.vat
====
