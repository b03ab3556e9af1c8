---------------------------- MODULE InvoiceLedger -----------------------------
(***************************************************************************)
(* The invoice, payment and credit note services as they run: each request *)
(* is served by a worker thread, opens one unit of work and talks to the   *)
(* database statement by statement, so requests interleave between any two *)
(* statements.                                                             *)
(*                                                                         *)
(* Every statement sees committed rows plus the request's own writes.      *)
(*   - Engine = "postgres": READ COMMITTED.  SELECT ... FOR UPDATE and     *)
(*     every UPDATE keep their row locked until the transaction ends.      *)
(*   - Engine = "sqlite": FOR UPDATE is dropped, SELECTs before the first  *)
(*     write run in autocommit, and from its first write to its end a      *)
(*     transaction is the only writer.                                     *)
(* The last write of a use case and its COMMIT are one step: nothing in    *)
(* between reads or locks anything another request writes.  A rollback     *)
(* undoes everything, so a transaction's writes are kept in its tx record  *)
(* and reach the books at the commit.                                      *)
(***************************************************************************)
EXTENDS LedgerData

CONSTANTS
    Requests,   \* worker threads that serve requests concurrently
    Engine,     \* "postgres" (hosted) or "sqlite" (desktop)
    Serial      \* TRUE: callers have one request in flight per invoice

ASSUME EngineAssumption == Engine \in {"postgres", "sqlite"} /\ Serial \in BOOLEAN

VARIABLES invoices, paid, creditNotes, counter, bucket,  \* the committed books
          tx                                             \* tx[r]: what request r is doing

books == <<invoices, paid, creditNotes, counter, bucket>>

vars == <<books, tx>>

-----------------------------------------------------------------------------
(***************************************************************************)
(* A request's progress:                                                   *)
(*   idle -> read        the invoice was read and its status accepted      *)
(*        -> summed      (payment) the earlier payments were added up      *)
(*        -> counted     (issue, credit note) the sequence row was read    *)
(*        -> written     the first write of the use case was flushed       *)
(*        -> reselected  the repository read the row again to update it    *)
(*        -> idle        committed                                         *)
(***************************************************************************)
Phases == {"idle", "read", "summed", "counted", "written", "reselected"}

Ops == {"none", "issue", "record", "void", "credit_note", "delete"}

Tx == [phase : Phases, op : Ops, inv : Invoices,
       arg : Nat,     \* the month of an issue, the amount of a payment
       old : Row,     \* the invoice as uow.invoices.get() returned it
       sum : Nat,     \* already_paid
       num : Nat,     \* the number taken from the series
       new : Row,     \* the copy handed to uow.invoices.update()
       fresh : Row]   \* the row update() or delete() loaded itself

Idle == [phase |-> "idle", op |-> "none", inv |-> CHOOSE i \in Invoices : TRUE,
         arg |-> 0, old |-> AbsentRow, sum |-> 0, num |-> 0,
         new |-> AbsentRow, fresh |-> AbsentRow]

Started(op, i, arg, row) ==
    [phase |-> "read", op |-> op, inv |-> i, arg |-> arg, old |-> row,
     sum |-> 0, num |-> 0, new |-> AbsentRow, fresh |-> AbsentRow]

\* The request reaches a phase with what it has read and computed so far.
Reached(t, phase, sum, num, new, fresh) ==
    [phase |-> phase, op |-> t.op, inv |-> t.inv, arg |-> t.arg, old |-> t.old,
     sum |-> sum, num |-> num, new |-> new, fresh |-> fresh]

Advance(r, phase, sum, num, new, fresh) ==
    /\ tx' = [tx EXCEPT ![r] = Reached(tx[r], phase, sum, num, new, fresh)]
    /\ UNCHANGED books

Init ==
    /\ invoices = [i \in Invoices |-> AbsentRow]
    /\ paid = [i \in Invoices |-> 0]
    /\ creditNotes = {}
    /\ counter = [s \in {"invoice", "credit_note"} |-> 0]
    /\ bucket = [c \in Clients |-> [m \in Months |-> 0]]
    /\ tx = [r \in Requests |-> Idle]

Active(r) == tx[r].phase # "idle"

Others(r) == Requests \ {r}

SeriesOf(op) == IF op = "issue" THEN "invoice" ELSE "credit_note"

\* SQLite: r has written and not yet committed, so it holds the file's write lock.
InWrite(r) ==
    \/ tx[r].phase = "written"
    \/ tx[r].phase = "reselected" /\ tx[r].op # "void"

\* A write of r can be executed now (on Postgres, row locks decide instead).
MayWrite(r) == Engine = "sqlite" => \A o \in Others(r) : ~InWrite(o)

\* Faulty variant of HoldsSeries: next_value() without with_for_update().
HoldsSeriesAfterWrite(r, op) ==
    Engine = "postgres" /\ tx[r].op = op /\ tx[r].phase \in {"written", "reselected"}

\* Postgres: r holds the lock of its series' sequences row.  SELECT ... FOR UPDATE
\* locks an existing row; the first number of a series is locked by its INSERT.
HoldsSeries(r, op) ==
    /\ Engine = "postgres"
    /\ tx[r].op = op
    /\ \/ tx[r].phase \in {"written", "reselected"}
       \/ tx[r].phase = "counted" /\ tx[r].num > 1

SeriesFree(r, op) == \A o \in Others(r) : ~HoldsSeries(o, op)

\* Postgres: a payment or credit note that another request in flight has inserted keeps
\* the invoice it references under a KEY SHARE lock, which a DELETE of the invoice or a
\* change of its unique columns waits for.
KeyFree(r) ==
    Engine = "postgres" =>
        \A o \in Others(r) :
            ~ /\ tx[o].inv = tx[r].inv
              /\ tx[o].op \in {"record", "credit_note"}
              /\ tx[o].phase \in {"written", "reselected"}

-----------------------------------------------------------------------------
(***************************************************************************)
(* Reading: uow.invoices.get() and the checks on what it returned.         *)
(***************************************************************************)
Begin(r, op, i, arg) ==
    /\ ~Active(r)
    /\ Serial => \A o \in Requests : Active(o) => tx[o].inv # i
    /\ tx' = [tx EXCEPT ![r] = Started(op, i, arg, invoices[i])]
    /\ UNCHANGED books

\* Faulty variants: record() that accepts drafts, and CreditNoteService.issue() that does
\* not refuse a voided invoice.
BeginRecordOnDraft(r, i, amount) ==
    /\ invoices[i].status \in Stored \ {"voided"}
    /\ Begin(r, "record", i, amount)

BeginCreditAgain(r, i) ==
    /\ invoices[i].status \in Stored
    /\ Begin(r, "credit_note", i, 0)

\* The compliance gate comes before the numbers: a blocked issue is a Rollback from here.
BeginIssue(r, i, m) ==
    /\ invoices[i].status = "draft"
    /\ Begin(r, "issue", i, m)

BeginRecord(r, i, amount) ==
    /\ invoices[i].status \in Stored \ Unpayable
    /\ Begin(r, "record", i, amount)

BeginVoid(r, i) ==
    /\ invoices[i].status \in Stored \ {"voided"}
    /\ Begin(r, "void", i, 0)

BeginCredit(r, i) ==
    /\ invoices[i].status \in Stored \ {"voided"}
    /\ Begin(r, "credit_note", i, 0)

BeginDelete(r, i) ==
    /\ invoices[i].status = "draft"
    /\ Begin(r, "delete", i, 0)

\* Faulty variant of SumPayments: the sum leaves out the payment being recorded.
SumPaymentsBefore(r) ==
    /\ tx[r].op = "record" /\ tx[r].phase = "read"
    /\ paid[tx[r].inv] < Total
    /\ Advance(r, "summed", paid[tx[r].inv], 0, AbsentRow, AbsentRow)

\* payments.list_for_invoice() and the overpayment check.
SumPayments(r) ==
    /\ tx[r].op = "record" /\ tx[r].phase = "read"
    /\ paid[tx[r].inv] + tx[r].arg <= Total
    /\ Advance(r, "summed", paid[tx[r].inv], 0, AbsentRow, AbsentRow)

\* sequences.next_value(), first half: SELECT ... FOR UPDATE, then value + 1 in memory.
\* A row that does not exist yet cannot be locked and does not block.
ReadCounter(r) ==
    LET value == counter[SeriesOf(tx[r].op)]
    IN  /\ tx[r].op \in {"issue", "credit_note"} /\ tx[r].phase = "read"
        /\ value > 0 => SeriesFree(r, tx[r].op)
        /\ Advance(r, "counted", 0, value + 1, AbsentRow, AbsentRow)

-----------------------------------------------------------------------------
(***************************************************************************)
(* Writing.  next_value(), second half: INSERT of a missing row (refused   *)
(* by its unique constraint if another request's row was committed in the  *)
(* meantime) or UPDATE of the value computed in memory.                    *)
(***************************************************************************)
WriteCounter(r, op) ==
    /\ tx[r].op = op /\ tx[r].phase = "counted"
    /\ MayWrite(r) /\ SeriesFree(r, op)
    /\ tx[r].num = 1 => counter[SeriesOf(op)] = 0

\* Faulty variant of NumberInvoice: the number is consumed in a transaction of its own.
NumberInvoiceBurned(r) ==
    LET i == tx[r].inv
        k == bucket[ClientOf[i]][tx[r].arg] + 1
    IN  /\ WriteCounter(r, "issue")
        /\ tx' = [tx EXCEPT ![r] =
                     Reached(@, "written", 0, @.num,
                             IssuedRow(@.old, @.num, DisplayReference(i, @.arg, k)), AbsentRow)]
        /\ counter' = [counter EXCEPT !["invoice"] = tx[r].num]
        /\ UNCHANGED <<invoices, paid, creditNotes, bucket>>

\* The bucket row is read and written while the series row is held, so it never waits.
NumberInvoice(r) ==
    LET i == tx[r].inv
        k == bucket[ClientOf[i]][tx[r].arg] + 1
    IN  /\ WriteCounter(r, "issue")
        /\ Advance(r, "written", 0, tx[r].num,
                   IssuedRow(tx[r].old, tx[r].num, DisplayReference(i, tx[r].arg, k)),
                   AbsentRow)

\* Faulty variant of InsertCreditNote: the number is consumed in a transaction of its own.
InsertCreditNoteBurned(r) ==
    /\ WriteCounter(r, "credit_note")
    /\ InTable(invoices[tx[r].inv])
    /\ tx' = [tx EXCEPT ![r] =
                 Reached(@, "written", 0, @.num, CreditedRow(@.old, @.num), AbsentRow)]
    /\ counter' = [counter EXCEPT !["credit_note"] = tx[r].num]
    /\ UNCHANGED <<invoices, paid, creditNotes, bucket>>

\* The number and the credit_notes row with it.
InsertCreditNote(r) ==
    /\ WriteCounter(r, "credit_note")
    /\ \A n \in creditNotes : n.seq # tx[r].num
    /\ InTable(invoices[tx[r].inv])
    /\ Advance(r, "written", 0, tx[r].num, CreditedRow(tx[r].old, tx[r].num), AbsentRow)

InsertPayment(r) ==
    /\ tx[r].op = "record" /\ tx[r].phase = "summed"
    /\ MayWrite(r)
    /\ InTable(invoices[tx[r].inv])
    /\ Advance(r, "written", tx[r].sum, 0, PaidRow(tx[r].old, tx[r].sum + tx[r].arg), AbsentRow)

\* delete_draft() writes its audit entry before it deletes.
InsertAudit(r) ==
    /\ tx[r].op = "delete" /\ tx[r].phase = "read"
    /\ MayWrite(r)
    /\ Advance(r, "written", 0, 0, AbsentRow, AbsentRow)

\* update() and delete() load the row themselves before they change it.
Reselect(r) ==
    LET row == invoices[tx[r].inv]
    IN  /\ tx[r].phase = "written"
        /\ IF tx[r].op = "delete" THEN row.status = "draft" ELSE InTable(row)
        /\ Advance(r, "reselected", tx[r].sum, tx[r].num, tx[r].new, row)

\* void() writes nothing before its update().
ReselectVoid(r) ==
    LET row == invoices[tx[r].inv]
    IN  /\ tx[r].op = "void" /\ tx[r].phase = "read"
        /\ InTable(row)
        /\ Advance(r, "reselected", 0, 0, VoidedRow(tx[r].old), row)

-----------------------------------------------------------------------------
(***************************************************************************)
(* Committing.  The UPDATE carries the columns in which the caller's copy  *)
(* differs from the reloaded row, and is applied to the row as it stands   *)
(* once its lock is granted.                                               *)
(***************************************************************************)
Column(new, fresh, current) == IF new # fresh THEN new ELSE current

Merged(t) ==
    LET row == invoices[t.inv]
    IN  [status   |-> Column(t.new.status, t.fresh.status, row.status),
         seq      |-> Column(t.new.seq, t.fresh.seq, row.seq),
         ref      |-> Column(t.new.ref, t.fresh.ref, row.ref),
         voidedBy |-> Column(t.new.voidedBy, t.fresh.voidedBy, row.voidedBy)]

\* uq_invoices_sequence_global and uq_invoices_reference; NULLs are distinct.
Unique(i, row) ==
    \A j \in Invoices \ {i} :
        /\ row.seq # 0 => invoices[j].seq # row.seq
        /\ row.ref # NoRef => invoices[j].ref # row.ref

Update(r, op) ==
    LET i == tx[r].inv
        row == Merged(tx[r])
    IN  /\ tx[r].op = op /\ tx[r].phase = "reselected"
        /\ MayWrite(r)
        /\ InTable(invoices[i])
        /\ Unique(i, row)
        /\ (row.seq # invoices[i].seq \/ row.ref # invoices[i].ref) => KeyFree(r)
        /\ invoices' = [invoices EXCEPT ![i] = row]
        /\ tx' = [tx EXCEPT ![r] = Idle]

CommitIssue(r) ==
    /\ Update(r, "issue")
    /\ counter' = [counter EXCEPT !["invoice"] = tx[r].num]
    /\ bucket' = [bucket EXCEPT ![ClientOf[tx[r].inv]][tx[r].arg] = @ + 1]
    /\ UNCHANGED <<paid, creditNotes>>

CommitRecord(r) ==
    /\ Update(r, "record")
    /\ paid' = [paid EXCEPT ![tx[r].inv] = @ + tx[r].arg]
    /\ UNCHANGED <<creditNotes, counter, bucket>>

CommitVoid(r) ==
    /\ Update(r, "void")
    /\ UNCHANGED <<paid, creditNotes, counter, bucket>>

CommitCredit(r) ==
    /\ Update(r, "credit_note")
    /\ creditNotes' = creditNotes \cup {[seq |-> tx[r].num, invoice |-> tx[r].inv]}
    /\ counter' = [counter EXCEPT !["credit_note"] = tx[r].num]
    /\ UNCHANGED <<paid, bucket>>

\* DELETE ... WHERE id = ?: the status was checked on the reloaded row, not by the
\* statement.  The foreign keys of payments and credit_notes are.
CommitDelete(r) ==
    LET i == tx[r].inv
    IN  /\ tx[r].op = "delete" /\ tx[r].phase = "reselected"
        /\ MayWrite(r) /\ KeyFree(r)
        /\ paid[i] = 0 /\ \A n \in creditNotes : n.invoice # i
        /\ invoices' = [invoices EXCEPT ![i] = DeletedRow]
        /\ tx' = [tx EXCEPT ![r] = Idle]
        /\ UNCHANGED <<paid, creditNotes, counter, bucket>>

\* A refused check, a violated constraint, a lock timeout or a crash: the unit of work
\* rolls back and nothing of the request remains.
Rollback(r) ==
    /\ Active(r)
    /\ tx' = [tx EXCEPT ![r] = Idle]
    /\ UNCHANGED books

\* create_draft() inserts one row and its audit entry; it has nothing to wait for but,
\* on SQLite, the write lock.
CreateDraft(i) ==
    /\ invoices[i].status = "absent"
    /\ Engine = "sqlite" => \A r \in Requests : ~InWrite(r)
    /\ invoices' = [invoices EXCEPT ![i] = DraftRow]
    /\ UNCHANGED <<paid, creditNotes, counter, bucket, tx>>

BeginAny(r) ==
    \E i \in Invoices :
        \/ \E m \in Months : BeginIssue(r, i, m)
        \/ \E amount \in 1..Total : BeginRecord(r, i, amount)
        \/ BeginVoid(r, i)
        \/ BeginCredit(r, i)
        \/ BeginDelete(r, i)

Work(r) ==
    \/ SumPayments(r) \/ ReadCounter(r)
    \/ NumberInvoice(r) \/ InsertCreditNote(r) \/ InsertPayment(r) \/ InsertAudit(r)
    \/ Reselect(r) \/ ReselectVoid(r)

Commit(r) ==
    CommitIssue(r) \/ CommitRecord(r) \/ CommitVoid(r) \/ CommitCredit(r) \/ CommitDelete(r)

Next ==
    \/ \E i \in Invoices : CreateDraft(i)
    \/ \E r \in Requests : BeginAny(r) \/ Work(r) \/ Commit(r) \/ Rollback(r)

Spec == Init /\ [][Next]_vars

-----------------------------------------------------------------------------
\* The tables hold the columns' types, and a status is always one that is stored: no request
\* writes the derived OVERDUE or keeps a row it did not read.
TypeOK ==
    /\ invoices \in [Invoices -> Row]
    /\ paid \in [Invoices -> Nat]
    /\ creditNotes \in SUBSET [seq : Nat, invoice : Invoices]
    /\ counter \in [{"invoice", "credit_note"} -> Nat]
    /\ bucket \in [Clients -> [Months -> Nat]]
    /\ tx \in [Requests -> Tx]

(***************************************************************************)
(* What holds when callers keep to one request per invoice (Serial).       *)
(***************************************************************************)

\* The invoice series has no hole and no repeat: the rows in the table carry exactly the
\* numbers 1..n, each once, whatever rolled back in between (numbering_service.py,
\* ADR-0002, HANDBOOK section 4).
Gapless ==
    /\ \A k \in 1..counter["invoice"] : \E i \in Invoices : invoices[i].seq = k
    /\ \A i \in Invoices : invoices[i].seq <= counter["invoice"]
    /\ \A i, j \in Invoices : i # j /\ Numbered(invoices[i]) => invoices[i].seq # invoices[j].seq

\* An invoice is never paid beyond its total, and until it is voided its status says what
\* its payments add up to (PaymentService.record()).
StatusMatchesPayments ==
    \A i \in Invoices :
        /\ paid[i] <= Total
        /\ invoices[i].status = "paid" => paid[i] = Total
        /\ invoices[i].status = "partially_paid" => paid[i] \in 1..(Total - 1)
        /\ invoices[i].status \in {"draft", "issued"} => paid[i] = 0

\* A credit note cancels its invoice for good: the invoice is voided and names that credit
\* note, so no two credit notes cancel the same invoice (CreditNoteService.issue()).
CreditNotesCancel ==
    \A n \in creditNotes :
        /\ invoices[n.invoice].status = "voided"
        /\ invoices[n.invoice].voidedBy = n.seq

(***************************************************************************)
(* What the sequence table and the constraints guarantee by themselves,    *)
(* whatever callers do.                                                    *)
(***************************************************************************)

\* The credit note series has no hole and no repeat, on either engine: credit notes are
\* inserted with their number and never rewritten (allocate_credit_note_numbers()).
CreditNotesGapless ==
    /\ {n.seq : n \in creditNotes} = 1..counter["credit_note"]
    /\ \A n, o \in creditNotes : n.seq = o.seq => n = o

\* A request that has its number is never about to write one that is on another row: the
\* lock of next_value() hands numbers out one transaction at a time.
NoNumberCollision ==
    \A r \in Requests :
        tx[r].op = "issue" /\ tx[r].phase \in {"written", "reselected"} =>
            \A j \in Invoices : invoices[j].seq # tx[r].num

\* The refinement mapping: the abstract books are the committed tables, and what a request
\* has read or not committed yet is hidden.
Atomic == INSTANCE AtomicLedger WITH
    invoices <- invoices, paid <- paid, creditNotes <- creditNotes,
    counter <- counter, bucket <- bucket

\* The concurrent services implement the promise: every commit is one use case acting on
\* the books at that instant.
ImplementsAtomicLedger == Atomic!LedgerSpec
=============================================================================
