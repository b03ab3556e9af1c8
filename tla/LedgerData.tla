------------------------------ MODULE LedgerData ------------------------------
(***************************************************************************)
(* The data of one company's books, shared by the promised behaviour       *)
(* (AtomicLedger) and by the code's behaviour (InvoiceLedger).  An invoice *)
(* row keeps the columns the lifecycle reads and writes; lines, dates,     *)
(* party details and the money columns other than total_ttc never decide   *)
(* anything here, so they are left out.                                    *)
(***************************************************************************)
EXTENDS Naturals

CONSTANTS
    Invoices,    \* invoice ids (uuid4, hence never reused)
    Clients,     \* clients of the company
    ClientOf,    \* ClientOf[i]: the client an invoice is drawn up for
    Initials,    \* Initials[c]: the two letters client_initials() derives
    Months,      \* issue months (the year travels with the month)
    Total        \* total_ttc of every invoice, in the smallest currency unit

\* Two different clients may have the same initials; nothing in the code says otherwise.
ASSUME LedgerAssumption ==
    /\ Invoices # {} /\ Months \subseteq Nat \ {0}
    /\ ClientOf \in [Invoices -> Clients]
    /\ Total \in Nat

\* A display reference is determined by initials, month and bucket number:
\* format_display_reference() only pads and concatenates them.
Refs == {Initials[c] : c \in Clients} \X Months \X Nat

\* NULL in the reference column.
NoRef == <<>>

\* The stored statuses, and the two ways not to be in the table: OVERDUE is derived, never stored.
Stored == {"draft", "issued", "partially_paid", "paid", "voided"}
Statuses == Stored \cup {"absent", "deleted"}

\* sequence_global and voided_by_credit_note_id are 0 for NULL (both count from 1).
Row == [status : Statuses, seq : Nat, ref : Refs \cup {NoRef}, voidedBy : Nat]

Unnumbered(status) == [status |-> status, seq |-> 0, ref |-> NoRef, voidedBy |-> 0]

AbsentRow == Unnumbered("absent")

DraftRow == Unnumbered("draft")

DeletedRow == Unnumbered("deleted")

WithStatus(row, status) ==
    [status |-> status, seq |-> row.seq, ref |-> row.ref, voidedBy |-> row.voidedBy]

\* The columns InvoiceService.issue() stamps on its copy of the row.
IssuedRow(row, n, reference) ==
    [status |-> "issued", seq |-> n, ref |-> reference, voidedBy |-> row.voidedBy]

\* Faulty variant of PaidRow: stores the derived status.
PaidRowStoresOverdue(row, sum) ==
    WithStatus(row, IF sum = Total THEN "paid" ELSE "overdue")

\* PaymentService.record(): the status follows from the sum it computed.
PaidRow(row, sum) ==
    WithStatus(row, IF sum = Total THEN "paid" ELSE "partially_paid")

VoidedRow(row) == WithStatus(row, "voided")

\* CreditNoteService.issue() voids and links.
CreditedRow(row, n) ==
    [status |-> "voided", seq |-> row.seq, ref |-> row.ref, voidedBy |-> n]

\* The display reference of the n-th invoice to a client in a month.
DisplayReference(i, m, n) == <<Initials[ClientOf[i]], m, n>>

Unpayable == {"voided", "draft"}

Numbered(row) == row.seq # 0

InTable(row) == row.status \in Stored
=============================================================================
