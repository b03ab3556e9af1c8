----------------------------- MODULE AtomicLedger -----------------------------
(***************************************************************************)
(* What the ledger promises: every use case of InvoiceService,             *)
(* PaymentService and CreditNoteService acts on the books at one instant.  *)
(* This is the reading a caller gets from the services' text, in which the *)
(* status checked at the top is the status that is changed at the bottom.  *)
(***************************************************************************)
EXTENDS LedgerData

VARIABLES
    invoices,     \* the invoices table
    paid,         \* paid[i]: sum of the payments rows of invoice i
    creditNotes,  \* the credit_notes table: number and credited invoice
    counter,      \* sequences rows of INVOICE_SERIES and CREDIT_NOTE_SERIES
    bucket        \* sequences rows of the monthly buckets

books == <<invoices, paid, creditNotes, counter, bucket>>

LedgerInit ==
    /\ invoices = [i \in Invoices |-> AbsentRow]
    /\ paid = [i \in Invoices |-> 0]
    /\ creditNotes = {}
    /\ counter = [s \in {"invoice", "credit_note"} |-> 0]
    /\ bucket = [c \in Clients |-> [m \in Months |-> 0]]

CreateDraft(i) ==
    /\ invoices[i].status = "absent"
    /\ invoices' = [invoices EXCEPT ![i] = DraftRow]
    /\ UNCHANGED <<paid, creditNotes, counter, bucket>>

\* Issuing takes the next number of the series and of the client's month.
Issue(i, m) ==
    LET n == counter["invoice"] + 1
        k == bucket[ClientOf[i]][m] + 1
    IN  /\ invoices[i].status = "draft"
        /\ invoices' = [invoices EXCEPT ![i] = IssuedRow(@, n, DisplayReference(i, m, k))]
        /\ counter' = [counter EXCEPT !["invoice"] = n]
        /\ bucket' = [bucket EXCEPT ![ClientOf[i]][m] = k]
        /\ UNCHANGED <<paid, creditNotes>>

Record(i, amount) ==
    /\ invoices[i].status \in Stored \ Unpayable
    /\ paid[i] + amount <= Total
    /\ paid' = [paid EXCEPT ![i] = @ + amount]
    /\ invoices' = [invoices EXCEPT ![i] = PaidRow(@, paid[i] + amount)]
    /\ UNCHANGED <<creditNotes, counter, bucket>>

Void(i) ==
    /\ invoices[i].status \in Stored \ {"voided"}
    /\ invoices' = [invoices EXCEPT ![i] = VoidedRow(@)]
    /\ UNCHANGED <<paid, creditNotes, counter, bucket>>

\* Nothing in the code keeps a draft from being credited or voided.
Credit(i) ==
    LET n == counter["credit_note"] + 1
    IN  /\ invoices[i].status \in Stored \ {"voided"}
        /\ invoices' = [invoices EXCEPT ![i] = CreditedRow(@, n)]
        /\ creditNotes' = creditNotes \cup {[seq |-> n, invoice |-> i]}
        /\ counter' = [counter EXCEPT !["credit_note"] = n]
        /\ UNCHANGED <<paid, bucket>>

DeleteDraft(i) ==
    /\ invoices[i].status = "draft"
    /\ invoices' = [invoices EXCEPT ![i] = DeletedRow]
    /\ UNCHANGED <<paid, creditNotes, counter, bucket>>

LedgerNext ==
    \E i \in Invoices :
        \/ CreateDraft(i)
        \/ \E m \in Months : Issue(i, m)
        \/ \E amount \in 1..Total : Record(i, amount)
        \/ Void(i)
        \/ Credit(i)
        \/ DeleteDraft(i)

LedgerSpec == LedgerInit /\ [][LedgerNext]_books
=============================================================================
