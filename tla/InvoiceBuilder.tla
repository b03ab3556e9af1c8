---- MODULE InvoiceBuilder ----
(***************************************************************************)
(* The screen that composes an invoice (InvoiceBuilderPanel): a customer,  *)
(* lines, the totals the server previews, the overlay that adds a product  *)
(* to the catalog, and the button that saves the draft.  Every answer of   *)
(* the server (VAT rates, VAT treatment of the customer, preview, new      *)
(* product, saved draft) arrives as a step of its own, in any order with   *)
(* what the user does.  A step of this module is one event followed by the *)
(* render and the effects it causes: React flushes them before the next    *)
(* event.  Descriptions, quantities and prices are one bit, "the line is   *)
(* valid"; a VAT rate keeps its number and its spelling, because the code  *)
(* compares rates as strings.                                              *)
(***************************************************************************)
EXTENDS Naturals, Sequences, FiniteSets, SequencesExt

CONSTANTS Clients,     \* the customers of the company
          Foreign,     \* those the server answers reverse charge for
          MaxLines,    \* bound on the lines of the draft
          MaxClicks,   \* bound on the user's actions
          MaxFaults    \* bound on failed or lost answers

ASSUME BuilderAssumption ==
    /\ Foreign \subseteq Clients /\ "no client" \notin Clients
    /\ MaxLines \in Nat \ {0} /\ MaxClicks \in Nat /\ MaxFaults \in Nat

VARIABLES client,      \* clientId
          lines,       \* the lines on the screen
          served,      \* GET /vat-rates has answered
          treated,     \* the customers whose GET /vat-treatment has answered
          applied,     \* appliedDefault.current
          asked,       \* what the pending preview was asked for, or NoLines
          totals,      \* what the totals on the screen were computed for
          newItem,     \* the overlay: its line and rate, or None
          creating,    \* the pending createProduct and its closure, or None
          saving,      \* the pending createInvoice requests
          drafts,      \* the drafts the server has stored
          edition,     \* history: how many compositions were begun
          clicks, faults

builderVars == <<client, lines, served, treated, applied, asked, totals, newItem,
          creating, saving, drafts, edition, clicks, faults>>

None == [none |-> TRUE]
NoLines == <<>>       \* no preview asked for, no totals shown
NoClient == "no client"

\* A rate as a string: the served list says "21", the product column "21.00".
Listed(n) == [n |-> n, spelling |-> "listed"]
Column(n) == [n |-> n, spelling |-> "column"]
Rates == {Listed(n) : n \in {0, 6, 21}} \cup {Column(n) : n \in {0, 6, 21}}

\* FALLBACK_RATE and EMPTY_LINE.
FallbackRate == Listed(21)
EmptyLine == [valid |-> FALSE, rate |-> FallbackRate, product |-> FALSE, by |-> "default"]

Lines == [valid : BOOLEAN, rate : Rates, product : BOOLEAN,
          by : {"default", "product", "user"}]

\* The part of a line the API is sent.
ToApiLines(ls, cat) ==
    [i \in DOMAIN ls |-> [product |-> ls[i].product, rate |-> ls[i].rate, category |-> cat]]

LinesAreValid(ls) == ls # <<>> /\ \A i \in DOMAIN ls : ls[i].valid

(***************************************************************************)
(* What the treatment says of the customer, as the screen knows it.        *)
(***************************************************************************)
CategoryOf(cl, tr) == IF cl \in tr /\ cl \in Foreign THEN "AE" ELSE "S"
DefaultOf(cl, tr) == IF CategoryOf(cl, tr) = "S" THEN FallbackRate ELSE Listed(0)

Category == CategoryOf(client, treated)
DefaultRate == DefaultOf(client, treated)

ServedSpelling(r) == IF served THEN Listed(r.n) ELSE r

BuilderTypeOK ==
    /\ client \in Clients \cup {NoClient}
    /\ lines \in Seq(Lines) /\ Len(lines) \in 1..MaxLines
    /\ served \in BOOLEAN /\ treated \subseteq Clients /\ applied \in Rates
    /\ totals # NoLines => asked = NoLines
    /\ creating # None => newItem # None
    /\ newItem # None => newItem.line \in 1..MaxLines /\ newItem.rate \in Rates
    /\ \A d \in Range(drafts) : d.client \in Clients /\ LinesAreValid(d.lines)
    /\ edition \in Nat /\ clicks \in 0..MaxClicks /\ faults \in 0..MaxFaults

BuilderInit ==
    /\ client = NoClient /\ lines = <<EmptyLine>>
    /\ served = FALSE /\ treated = {} /\ applied = FallbackRate
    /\ asked = NoLines /\ totals = NoLines
    /\ newItem = None /\ creating = None
    /\ saving = {} /\ drafts = <<>> /\ edition = 0
    /\ clicks = 0 /\ faults = 0

(***************************************************************************)
(* The two effects.  Lines that sit on the old default move to the new one;*)
(* a valid draft whose lines or category changed asks for a new preview,   *)
(* which drops the totals of the old one and makes its answer late.        *)
(***************************************************************************)
Moved(ls, from, to) ==
    [i \in DOMAIN ls |-> IF ls[i].rate = from THEN [ls[i] EXCEPT !.rate = to] ELSE ls[i]]

\* Faulty variant of PreviewDeps: the effect does not depend on the category.
PreviewDepsLines(ls, cat) == [lines |-> ls]

PreviewDeps(ls, cat) == [lines |-> ls, category |-> cat]

Render(cl, ls, tr) ==
    LET default == DefaultOf(cl, tr)
        cat     == CategoryOf(cl, tr)
        now     == Moved(ls, applied, default)
    IN  /\ client' = cl /\ treated' = tr /\ lines' = now /\ applied' = default
        /\ IF LinesAreValid(now) /\ PreviewDeps(now, cat) # PreviewDeps(lines, Category)
           THEN asked' = ToApiLines(now, cat) /\ totals' = NoLines
           ELSE UNCHANGED <<asked, totals>>

SetLine(ls, i, line) == IF i \in DOMAIN ls THEN [ls EXCEPT ![i] = line] ELSE ls

Click == clicks < MaxClicks /\ clicks' = clicks + 1
Fault == faults < MaxFaults /\ faults' = faults + 1

Overlay == <<newItem, creating>>
Server == <<saving, drafts, edition>>

(***************************************************************************)
(* The user's actions.                                                     *)
(***************************************************************************)
PickClient(c) ==
    /\ Click /\ c # client
    /\ Render(c, lines, treated)
    /\ UNCHANGED <<served, Overlay, Server, faults>>

\* Typing a description, a quantity or a price, well or badly.
TypeLine(i) ==
    /\ Click
    /\ Render(client, [lines EXCEPT ![i].valid = ~@], treated)
    /\ UNCHANGED <<served, Overlay, Server, faults>>

\* The rate picker: the served rates, or the fallback until they are served.
ChooseRate(i, n) ==
    /\ Click /\ (served \/ n = FallbackRate.n)
    /\ Render(client, [lines EXCEPT ![i].rate = Listed(n), ![i].by = "user"], treated)
    /\ UNCHANGED <<served, Overlay, Server, faults>>

AddLine ==
    /\ Click /\ Len(lines) < MaxLines
    /\ Render(client, Append(lines, [EmptyLine EXCEPT !.rate = DefaultRate]), treated)
    /\ UNCHANGED <<served, Overlay, Server, faults>>

RemoveLine(i) ==
    /\ Click /\ Len(lines) > 1
    /\ Render(client, RemoveAt(lines, i), treated)
    /\ UNCHANGED <<served, Overlay, Server, faults>>

\* fillFromProduct: the treatment wins over the product's rate, both as they
\* were in the render the handler belongs to.
FillFromProduct(ls, i, rate, cat, default) ==
    SetLine(ls, i, [valid |-> TRUE, product |-> TRUE, by |-> "product",
                    rate |-> IF cat = "S" THEN ServedSpelling(rate) ELSE default])

PickProduct(i, n) ==
    /\ Click
    /\ Render(client, FillFromProduct(lines, i, Column(n), Category, DefaultRate), treated)
    /\ UNCHANGED <<served, Overlay, Server, faults>>

PickFreeText(i) ==
    /\ Click /\ lines[i].product
    /\ Render(client, [lines EXCEPT ![i].product = FALSE], treated)
    /\ UNCHANGED <<served, Overlay, Server, faults>>

OpenNewItem(i) ==
    /\ Click /\ newItem = None
    /\ newItem' = [line |-> i, rate |-> ServedSpelling(lines[i].rate)]
    /\ UNCHANGED <<client, lines, served, treated, applied, asked, totals,
                   creating, Server, faults>>

\* Cancel, Escape and the backdrop: the answer's callback is dropped.
CloseNewItem ==
    /\ Click /\ newItem # None
    /\ newItem' = None /\ creating' = None
    /\ UNCHANGED <<client, lines, served, treated, applied, asked, totals, Server, faults>>

\* The closure keeps the line's index, the category and the default rate.
SubmitNewItem ==
    /\ Click /\ newItem # None /\ creating = None
    /\ creating' = [line |-> newItem.line, rate |-> Column(newItem.rate.n),
                    category |-> Category, default |-> DefaultRate]
    /\ UNCHANGED <<client, lines, served, treated, applied, asked, totals,
                   newItem, Server, faults>>

\* handleCreate: the button is disabled while a save is pending.
HandleCreate ==
    /\ Click
    /\ LinesAreValid(lines) /\ client # NoClient /\ saving = {}
    /\ saving' = saving \cup {[client |-> client, lines |-> lines, category |-> Category,
                               edition |-> edition, press |-> clicks]}
    /\ UNCHANGED <<client, lines, served, treated, applied, asked, totals,
                   Overlay, drafts, edition, faults>>

(***************************************************************************)
(* The server's answers.                                                   *)
(***************************************************************************)
RatesServed ==
    /\ ~served /\ served' = TRUE
    /\ UNCHANGED <<client, lines, treated, applied, asked, totals, Overlay, Server,
                   clicks, faults>>

\* Only the chosen customer is asked for; the answer stays cached.
TreatmentServed ==
    /\ client \in Clients \ treated
    /\ Render(client, lines, treated \cup {client})
    /\ UNCHANGED <<served, Overlay, Server, clicks, faults>>

\* Faulty variant of PreviewServed: the answer waits for the VAT rates.
PreviewServedLate ==
    /\ asked # NoLines /\ served
    /\ totals' = asked /\ asked' = NoLines
    /\ UNCHANGED <<client, lines, served, treated, applied, Overlay, Server, clicks, faults>>

\* Only the answer of the last preview asked for reaches the screen.
PreviewServed ==
    /\ asked # NoLines
    /\ totals' = asked /\ asked' = NoLines
    /\ UNCHANGED <<client, lines, served, treated, applied, Overlay, Server, clicks, faults>>

PreviewFails ==
    /\ Fault /\ asked # NoLines /\ asked' = NoLines
    /\ UNCHANGED <<client, lines, served, treated, applied, totals, Overlay, Server, clicks>>

ProductCreated ==
    /\ creating # None
    /\ Render(client, FillFromProduct(lines, creating.line, creating.rate,
                                      creating.category, creating.default), treated)
    /\ newItem' = None /\ creating' = None
    /\ UNCHANGED <<served, Server, clicks, faults>>

ProductRefused ==
    /\ Fault /\ creating # None /\ creating' = None
    /\ UNCHANGED <<client, lines, served, treated, applied, asked, totals,
                   newItem, Server, clicks>>

\* What a request stores, and whether its answer was lost.
Draft(r, lost) ==
    [client |-> r.client, lines |-> r.lines, category |-> r.category, edition |-> r.edition,
     press |-> r.press, lost |-> lost]

\* The draft is stored and the screen starts over, whatever was typed since.
DraftCreated(r) ==
    /\ saving' = saving \ {r}
    /\ drafts' = Append(drafts, Draft(r, FALSE))
    /\ edition' = edition + 1
    /\ Render(NoClient, <<EmptyLine>>, treated)
    /\ UNCHANGED <<served, Overlay, clicks, faults>>

\* The draft is stored and its answer lost: the screen shows an error.
DraftAnswerLost(r) ==
    /\ Fault
    /\ saving' = saving \ {r}
    /\ drafts' = Append(drafts, Draft(r, TRUE))
    /\ UNCHANGED <<client, lines, served, treated, applied, asked, totals, Overlay,
                   edition, clicks>>

DraftRefused(r) ==
    /\ Fault
    /\ saving' = saving \ {r}
    /\ UNCHANGED <<client, lines, served, treated, applied, asked, totals, Overlay,
                   drafts, edition, clicks>>

EditLine ==
    \E i \in DOMAIN lines :
        \/ TypeLine(i) \/ RemoveLine(i) \/ PickFreeText(i) \/ OpenNewItem(i)
        \/ \E n \in {0, 6, 21} : ChooseRate(i, n)
        \/ \E n \in {6, 21} : PickProduct(i, n)

Answers ==
    \/ RatesServed \/ TreatmentServed \/ PreviewServed \/ ProductCreated
    \/ \E r \in saving : DraftCreated(r)

Failures ==
    \/ PreviewFails \/ ProductRefused
    \/ \E r \in saving : DraftAnswerLost(r) \/ DraftRefused(r)

BuilderNext ==
    \/ \E c \in Clients \cup {NoClient} : PickClient(c)
    \/ EditLine \/ AddLine \/ CloseNewItem \/ SubmitNewItem \/ HandleCreate
    \/ Answers \/ Failures

\* The server and the network answer in the end.
BuilderFairness == WF_builderVars(PreviewServed) /\ WF_builderVars(TreatmentServed)

BuilderSpec == BuilderInit /\ [][BuilderNext]_builderVars /\ BuilderFairness

(***************************************************************************)
(* Properties.                                                             *)
(***************************************************************************)

\* The totals on the screen are the server's for exactly the lines and the
\* VAT category on the screen: no late preview, and none kept over a change of
\* customer, line or treatment (the preview effect and React Query's mutate).
TotalsMatchLines ==
    LinesAreValid(lines) /\ totals # NoLines => totals = ToApiLines(lines, Category)

\* A line whose rate neither the user nor a product has set is always at the
\* default of the customer's treatment, however the customer, the lines and
\* the server's answers follow each other, a saved draft's reset included.
FreeLinesFollowTreatment ==
    \A i \in DOMAIN lines : lines[i].by = "default" => lines[i].rate = DefaultRate

\* One composition is stored twice only when the answer of the first save was
\* lost: the button is disabled while a save is pending and the success resets
\* the form.
OneDraftPerComposition ==
    \A i, j \in DOMAIN drafts :
        i < j /\ drafts[i].edition = drafts[j].edition => drafts[i].lost

\* Unless a preview fails, a valid draft in the end shows totals or is edited
\* out of validity.
TotalsAppear ==
    LinesAreValid(lines) ~> (totals # NoLines \/ ~LinesAreValid(lines) \/ faults > 0)

\* A draft saved under reverse charge carries no line with Belgian VAT except
\* where the user chose the rate ("the rate has to follow the category", "the
\* treatment wins").
ReverseChargeUntaxed ==
    \A d \in Range(drafts) :
        d.category # "S" => \A i \in DOMAIN d.lines : d.lines[i].by # "user" =>
            d.lines[i].rate.n = 0
====
