---------------------------- MODULE BackupRestore -----------------------------
(***************************************************************************)
(* BackupService over one company's books.  export() is one transaction,   *)
(* but at READ COMMITTED each of its SELECTs sees what is committed by     *)
(* then, so the ledger (AtomicLedger) moves between them.  restore() puts  *)
(* the file into an organization without companies, in one transaction,    *)
(* and the restored books live on.                                         *)
(*                                                                         *)
(* Fresh ids leave every reference as it was, so a restored invoice keeps  *)
(* its name here; the sequences travel verbatim.                           *)
(***************************************************************************)
EXTENDS AtomicLedger, FiniteSets

CONSTANT MaxRestores   \* bound: disasters

ASSUME BackupAssumption == MaxRestores \in Nat

VARIABLES
    export,     \* the export in progress: its phase and what it has read
    file,       \* the finished backup, or NoFile
    disturbed,  \* whether the books moved while export, or file, was read, and
                \* whether the books go back to such a file
    restores

backup == <<export, file, disturbed, restores>>
backupVars == <<books, backup>>

Nothing == [i \in Invoices |-> AbsentRow]
NoExport == [phase |-> "idle", invoices |-> Nothing, notes |-> {},
             paid |-> [i \in Invoices |-> 0], unread |-> {}]
NoFile == <<>>

BackupInit ==
    /\ LedgerInit
    /\ export = NoExport
    /\ file = NoFile
    /\ disturbed = [export |-> FALSE, file |-> FALSE, books |-> FALSE]
    /\ restores = 0

\* A use case commits; an export that has begun may see half of it.
LedgerStep ==
    /\ LedgerNext
    /\ disturbed' = [disturbed EXCEPT !.export = @ \/ export.phase # "idle"]
    /\ UNCHANGED <<export, file, restores>>

-----------------------------------------------------------------------------
(* export(), one action per SELECT.                                        *)

\* uow.invoices.list().  Bound: one backup between two disasters, since an
\* earlier one is the same as one taken instead of it.
ReadInvoices ==
    /\ export.phase = "idle"
    /\ file = NoFile /\ restores < MaxRestores
    /\ export' = [NoExport EXCEPT
          !.phase = "credit_notes",
          !.invoices = [i \in Invoices |-> IF InTable(invoices[i]) THEN invoices[i] ELSE AbsentRow],
          !.unread = {i \in Invoices : InTable(invoices[i])}]
    /\ disturbed' = [disturbed EXCEPT !.export = FALSE]
    /\ UNCHANGED <<books, file, restores>>

\* uow.credit_notes.list()
ReadCreditNotes ==
    /\ export.phase = "credit_notes"
    /\ export' = [export EXCEPT !.phase = "payments", !.notes = creditNotes]
    /\ UNCHANGED <<books, file, disturbed, restores>>

\* Faulty variant of ReadPayments: a settled invoice's payments are left out.
ReadPaymentsOpen(i) ==
    /\ export.phase = "payments" /\ i \in export.unread
    /\ export' = [export EXCEPT
          !.paid[i] = IF export.invoices[i].status = "paid" THEN 0 ELSE paid[i],
          !.unread = @ \ {i}]
    /\ UNCHANGED <<books, file, disturbed, restores>>

\* uow.payments.list_for_invoice() of every invoice that was read
ReadPayments(i) ==
    /\ export.phase = "payments" /\ i \in export.unread
    /\ export' = [export EXCEPT !.paid[i] = paid[i], !.unread = @ \ {i}]
    /\ UNCHANGED <<books, file, disturbed, restores>>

File(e, c, b) ==
    [invoices |-> e.invoices, notes |-> e.notes, paid |-> e.paid, counter |-> c, bucket |-> b]

\* Faulty variant of ReadSequences: counters recomputed from the rows.
ReadSequencesRecomputed ==
    LET top(S) == CHOOSE n \in S : \A k \in S : k <= n
    IN  /\ export.phase = "payments" /\ export.unread = {}
        /\ file' = File(export,
              [counter EXCEPT !["invoice"] =
                  top({0} \cup {export.invoices[i].seq :
                                i \in {j \in Invoices : export.invoices[j].status # "voided"}})],
              bucket)
        /\ disturbed' = [disturbed EXCEPT !.file = disturbed.export \/ disturbed.books]
        /\ export' = NoExport
        /\ UNCHANGED <<books, restores>>

\* uow.sequences.snapshot(), the last read: all counters in one SELECT.
ReadSequences ==
    /\ export.phase = "payments" /\ export.unread = {}
    /\ file' = File(export, counter, bucket)
    /\ disturbed' = [disturbed EXCEPT !.file = disturbed.export \/ disturbed.books]
    /\ export' = NoExport
    /\ UNCHANGED <<books, restores>>

-----------------------------------------------------------------------------
\* credit_notes.invoice_id is a foreign key: a note of an invoice that is not
\* in the file fails the whole restore.
Restorable(f) == \A n \in f.notes : InTable(f.invoices[n.invoice])

\* The database is lost; a new organization, without companies, takes the
\* file, and the series go on from the restored counters.
Restore ==
    /\ file # NoFile /\ Restorable(file)
    /\ restores < MaxRestores
    /\ restores' = restores + 1
    /\ invoices' = file.invoices
    /\ paid' = file.paid
    /\ creditNotes' = file.notes
    /\ counter' = file.counter
    /\ bucket' = file.bucket
    /\ export' = NoExport
    /\ disturbed' = [export |-> FALSE, file |-> FALSE, books |-> disturbed.file]
    /\ file' = NoFile

BackupNext ==
    \/ LedgerStep
    \/ ReadInvoices \/ ReadCreditNotes \/ ReadSequences
    \/ \E i \in Invoices : ReadPayments(i)
    \/ Restore

BackupSpec == BackupInit /\ [][BackupNext]_backupVars

-----------------------------------------------------------------------------
\* No number of the series c is on two rows, or still to be given out.
OnceIn(inv, notes, c) ==
    /\ \A i \in Invoices : inv[i].seq <= c["invoice"]
    /\ \A i, j \in Invoices : Numbered(inv[i]) /\ inv[i].seq = inv[j].seq => i = j
    /\ \A n \in notes : n.seq <= c["credit_note"]
    /\ \A n, k \in notes : n.seq = k.seq => n = k

\* Restored books never issue a number they already have, whatever committed
\* between export()'s reads, because the counters are read last.
NumberedOnce == OnceIn(invoices, creditNotes, counter)

\* ADR-0003: "The next issued invoice continues the gapless series exactly
\* where the backup left off."
RestoredGapless ==
    {invoices[i].seq : i \in Invoices} \ {0} = 1..counter["invoice"]

\* If nothing was committed while the backup was read, the books restored
\* from it are books a ledger could have: gapless, each status as the payments
\* say, each credit note's invoice voided by it, and the restore succeeds.
UndisturbedWhole ==
    /\ ~disturbed.books =>
          /\ RestoredGapless
          /\ \A i \in Invoices :
                /\ invoices[i].status = "paid" => paid[i] = Total
                /\ invoices[i].status = "partially_paid" => 0 < paid[i] /\ paid[i] < Total
                /\ invoices[i].status \in {"draft", "issued", "absent"} => paid[i] = 0
          /\ \A n \in creditNotes :
                invoices[n.invoice].status = "voided" /\ invoices[n.invoice].voidedBy = n.seq
    /\ file # NoFile /\ ~disturbed.file => Restorable(file)
=============================================================================
