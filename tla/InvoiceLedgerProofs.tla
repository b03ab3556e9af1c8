-------------------------- MODULE InvoiceLedgerProofs -------------------------
(***************************************************************************)
(* Proofs about InvoiceLedger for any number of requests, invoices,        *)
(* clients and months, and for any invoice total.                          *)
(***************************************************************************)
EXTENDS InvoiceLedger, TLAPS

Late == {"written", "reselected"}

\* What locks and constraints alone give: one request at a time is past WriteCounter on a
\* series ...
SeriesExclusive ==
    \A r, o \in Requests :
        /\ tx[r].op = tx[o].op /\ tx[r].op \in {"issue", "credit_note"}
        /\ tx[r].phase \in Late /\ tx[o].phase \in Late
        => r = o

\* ... and a credit note number in flight is the next one.
CreditNumberNext ==
    \A r \in Requests :
        tx[r].op = "credit_note" =>
            /\ tx[r].phase = "counted" => tx[r].num \in 1..(counter["credit_note"] + 1)
            /\ tx[r].phase \in Late => tx[r].num = counter["credit_note"] + 1

SeriesInv == SeriesExclusive /\ CreditNumberNext /\ CreditNotesGapless

\* Postgres: the lock of the invoice series has one holder ...
LockExclusive ==
    \A r, o \in Requests : HoldsSeries(r, "issue") /\ HoldsSeries(o, "issue") => r = o

\* ... who has the next number, and no number anywhere, stored or copied, is beyond the
\* counter or that next number.
NumbersBelow ==
    /\ \A i \in Invoices : invoices[i].seq <= counter["invoice"]
    /\ \A r \in Requests :
          /\ HoldsSeries(r, "issue") => tx[r].num = counter["invoice"] + 1
          /\ tx[r].op = "issue" /\ tx[r].phase = "counted" =>
                tx[r].num \in 1..(counter["invoice"] + 1)
          /\ tx[r].old.seq <= counter["invoice"]
          /\ \/ tx[r].new.seq <= counter["invoice"]
             \/ HoldsSeries(r, "issue") /\ tx[r].new.seq = tx[r].num

LockInv == LockExclusive /\ NumbersBelow

\* Serial callers: at most one request at work on an invoice ...
OnePerInvoice ==
    \A r, o \in Requests :
        tx[r].op # "none" /\ tx[o].op # "none" /\ tx[r].inv = tx[o].inv => r = o

\* ... so a request's copies are the row itself until it commits ...
CopiesCurrent ==
    \A r \in Requests :
        LET t == tx[r]
            row == invoices[t.inv]
        IN  /\ t.op = "none" <=> t.phase = "idle"
            /\ t.op # "none" => t.old = row
            /\ t.phase = "reselected" => t.fresh = row
            /\ t.op \in {"issue", "delete"} => row.status = "draft"
            /\ t.op = "record" => row.status \in Stored \ Unpayable
            /\ t.op \in {"void", "credit_note"} => row.status \in Stored \ {"voided"}

\* ... and what it is about to write is what the use case makes of the books as they are.
PendingWrites ==
    \A r \in Requests :
        LET t == tx[r]
            row == invoices[t.inv]
        IN  /\ t.op = "issue" /\ t.phase \in Late \cup {"counted"} =>
                  t.num \in 1..(counter["invoice"] + 1)
            /\ t.op = "issue" /\ t.phase \in Late =>
                  t.new = IssuedRow(row, t.num, DisplayReference(t.inv, t.arg, bucket[ClientOf[t.inv]][t.arg] + 1))
            /\ t.op = "record" => t.arg \in 1..Total
            /\ t.op = "record" /\ t.phase \in Late \cup {"summed"} =>
                  t.sum = paid[t.inv] /\ paid[t.inv] + t.arg <= Total
            /\ t.op = "record" /\ t.phase \in Late => t.new = PaidRow(row, t.sum + t.arg)
            /\ t.op = "credit_note" /\ t.phase \in Late => t.new = CreditedRow(row, t.num)
            /\ t.op = "void" /\ t.phase \in Late => t.new = VoidedRow(row)

CopiesInv == OnePerInvoice /\ CopiesCurrent /\ PendingWrites

\* An invoice that was never issued has no number and no payments.
PlainRows ==
    \A i \in Invoices :
        invoices[i].status \in {"absent", "draft", "deleted"} =>
            invoices[i].seq = 0 /\ paid[i] = 0

BooksInv == PlainRows /\ Gapless /\ StatusMatchesPayments /\ CreditNotesCancel

SerialInv == BooksInv /\ CopiesInv

-----------------------------------------------------------------------------
(***************************************************************************)
(* Rows.  Every operator that builds a row builds one of the right type.   *)
(***************************************************************************)

\* NULL, a new draft and a deleted invoice are rows, and there is an invoice to name in Idle.
LEMMA RowConstants ==
    /\ AbsentRow \in Row /\ DraftRow \in Row /\ DeletedRow \in Row
    /\ Idle \in Tx
  <1>1. AbsentRow \in Row /\ DraftRow \in Row /\ DeletedRow \in Row
    BY DEF AbsentRow, DraftRow, DeletedRow, Unnumbered, Row, Statuses, Stored
  <1>2. (CHOOSE i \in Invoices : TRUE) \in Invoices
    BY LedgerAssumption
  <1> QED
    BY <1>1, <1>2 DEF Idle, Tx, Phases, Ops

\* The copies the services make of a row with model_copy() are rows.
LEMMA RowUpdates ==
    ASSUME NEW row \in Row, NEW n \in Nat, NEW reference \in Refs
    PROVE  /\ IssuedRow(row, n, reference) \in Row
           /\ PaidRow(row, n) \in Row
           /\ VoidedRow(row) \in Row
           /\ CreditedRow(row, n) \in Row
  BY DEF IssuedRow, PaidRow, VoidedRow, CreditedRow, WithStatus, Row, Statuses, Stored

\* format_display_reference() yields a reference.
LEMMA ReferenceType ==
    ASSUME NEW i \in Invoices, NEW m \in Months, NEW n \in Nat
    PROVE  DisplayReference(i, m, n) \in Refs
  BY LedgerAssumption DEF DisplayReference, Refs

\* The row an UPDATE leaves behind is a row.
LEMMA MergedType ==
    ASSUME TypeOK, NEW r \in Requests
    PROVE  Merged(tx[r]) \in Row
  <1>1. tx[r].new \in Row /\ tx[r].fresh \in Row /\ invoices[tx[r].inv] \in Row
    BY DEF TypeOK, Tx
  <1> QED
    BY <1>1 DEF Merged, Column, Row

\* The month of an issue in flight is one of Months: what TypeOK does not say of arg.
MonthsOK == \A r \in Requests : tx[r].op = "issue" => tx[r].arg \in Months

TypeInv == TypeOK /\ MonthsOK

\* Empty books and idle workers have the right types.
LEMMA TypeInit == Init => TypeInv
  <1> SUFFICES ASSUME Init PROVE TypeOK /\ MonthsOK
    BY DEF TypeInv
  <1>1. TypeOK
    BY RowConstants DEF Init, TypeOK
  <1>2. MonthsOK
    BY DEF Init, MonthsOK, Idle
  <1> QED
    BY <1>1, <1>2

\* Every action keeps the types, of a request in flight included.
LEMMA TypeStep == TypeInv /\ [Next]_vars => TypeInv'
  <1> SUFFICES ASSUME TypeInv, [Next]_vars PROVE TypeInv'
    OBVIOUS
  <1> USE DEF TypeInv, TypeOK, MonthsOK, books
  <1>1. ASSUME NEW i \in Invoices, CreateDraft(i) PROVE TypeInv'
    BY <1>1, RowConstants DEF CreateDraft
  <1>2. ASSUME NEW r \in Requests, BeginAny(r) PROVE TypeInv'
    <2> PICK op \in Ops, i \in Invoices, arg \in Nat :
           Begin(r, op, i, arg) /\ (op = "issue" => arg \in Months)
      BY <1>2, LedgerAssumption
         DEF BeginAny, BeginIssue, BeginRecord, BeginVoid, BeginCredit, BeginDelete, Ops
    <2> QED
      BY RowConstants DEF Begin, Started, Tx, Phases
  <1>3. ASSUME NEW r \in Requests, Rollback(r) PROVE TypeInv'
    BY <1>3, RowConstants DEF Rollback, Idle
  <1>4. ASSUME NEW r \in Requests, SumPayments(r) PROVE TypeInv'
    BY <1>4, RowConstants DEF SumPayments, Advance, Reached, Tx, Phases
  <1>5. ASSUME NEW r \in Requests, ReadCounter(r) PROVE TypeInv'
    BY <1>5, RowConstants DEF ReadCounter, Advance, Reached, Tx, Phases, SeriesOf
  <1>6. ASSUME NEW r \in Requests, NumberInvoice(r) PROVE TypeInv'
    <2> DEFINE i == tx[r].inv
               k == bucket[ClientOf[i]][tx[r].arg] + 1
    <2>1. i \in Invoices /\ tx[r].num \in Nat /\ tx[r].old \in Row /\ tx[r].arg \in Months /\ k \in Nat
      BY <1>6, LedgerAssumption DEF NumberInvoice, WriteCounter, Tx
    <2>2. IssuedRow(tx[r].old, tx[r].num, DisplayReference(i, tx[r].arg, k)) \in Row
      BY <2>1, RowUpdates, ReferenceType
    <2> QED
      BY <1>6, <2>1, <2>2, RowConstants DEF NumberInvoice, Advance, Reached, Tx, Phases
  <1>7. ASSUME NEW r \in Requests, InsertCreditNote(r) PROVE TypeInv'
    <2>1. tx[r].num \in Nat /\ CreditedRow(tx[r].old, tx[r].num) \in Row
      BY DEF Tx, CreditedRow, Row, Statuses, Stored
    <2> QED
      BY <1>7, <2>1, RowConstants DEF InsertCreditNote, Advance, Reached, Tx, Phases
  <1>8. ASSUME NEW r \in Requests, InsertPayment(r) PROVE TypeInv'
    <2>1. tx[r].sum \in Nat /\ PaidRow(tx[r].old, tx[r].sum + tx[r].arg) \in Row
      BY DEF Tx, PaidRow, WithStatus, Row, Statuses, Stored
    <2> QED
      BY <1>8, <2>1, RowConstants DEF InsertPayment, Advance, Reached, Tx, Phases
  <1>9. ASSUME NEW r \in Requests, InsertAudit(r) PROVE TypeInv'
    BY <1>9, RowConstants DEF InsertAudit, Advance, Reached, Tx, Phases
  <1>10. ASSUME NEW r \in Requests, Reselect(r) PROVE TypeInv'
    BY <1>10 DEF Reselect, Advance, Reached, Tx, Phases
  <1>11. ASSUME NEW r \in Requests, ReselectVoid(r) PROVE TypeInv'
    <2>1. VoidedRow(tx[r].old) \in Row
      BY DEF Tx, VoidedRow, WithStatus, Row, Statuses, Stored
    <2> QED
      BY <1>11, <2>1 DEF ReselectVoid, Advance, Reached, Tx, Phases
  <1>12. ASSUME NEW r \in Requests, Commit(r) PROVE TypeInv'
    <2>1. invoices' \in [Invoices -> Row] /\ tx' = [tx EXCEPT ![r] = Idle]
      BY <1>12, MergedType, RowConstants
         DEF Commit, CommitIssue, CommitRecord, CommitVoid, CommitCredit, CommitDelete, Update
    <2>2. tx' \in [Requests -> Tx] /\ MonthsOK'
      BY <2>1, RowConstants DEF Idle
    <2>3. tx[r].inv \in Invoices /\ tx[r].arg \in Nat /\ tx[r].num \in Nat
      BY DEF Tx
    <2>4. CASE CommitIssue(r)
      <3> DEFINE c == ClientOf[tx[r].inv]
                 m == tx[r].arg
      <3>1. c \in Clients /\ m \in Months
        BY <2>3, <2>4, LedgerAssumption DEF CommitIssue, Update
      <3>2. [bucket[c] EXCEPT ![m] = bucket[c][m] + 1] \in [Months -> Nat]
        BY <3>1
      <3>3. bucket' = [bucket EXCEPT ![c] = [bucket[c] EXCEPT ![m] = bucket[c][m] + 1]]
        BY <2>4, <3>1 DEF CommitIssue
      <3>4. bucket' \in [Clients -> [Months -> Nat]]
        BY <3>2, <3>3
      <3> QED
        BY <2>1, <2>2, <2>3, <2>4, <3>4 DEF CommitIssue
    <2>5. CASE CommitRecord(r)
      BY <2>1, <2>2, <2>3, <2>5 DEF CommitRecord
    <2>6. CASE CommitVoid(r) \/ CommitDelete(r)
      BY <2>1, <2>2, <2>6 DEF CommitVoid, CommitDelete
    <2>7. CASE CommitCredit(r)
      BY <2>1, <2>2, <2>3, <2>7 DEF CommitCredit
    <2> QED
      BY <1>12, <2>4, <2>5, <2>6, <2>7 DEF Commit
  <1>13. CASE UNCHANGED vars
    BY <1>13 DEF vars
  <1> QED
    BY <1>1, <1>2, <1>3, <1>4, <1>5, <1>6, <1>7, <1>8, <1>9, <1>10, <1>11, <1>12, <1>13
       DEF Next, Work

\* Type correctness of every table and of every request in flight, on both engines.
THEOREM TypeCorrect == Spec => []TypeOK
  <1>1. TypeInv => TypeOK
    BY DEF TypeInv
  <1> QED
    BY <1>1, TypeInit, TypeStep, PTL DEF Spec

-----------------------------------------------------------------------------
(***************************************************************************)
(* The credit note series, on both engines and for any callers.            *)
(***************************************************************************)

\* Nothing is numbered at the start.
LEMMA SeriesInit == Init => SeriesInv
  <1> SUFFICES ASSUME Init PROVE SeriesExclusive /\ CreditNumberNext /\ CreditNotesGapless
    BY DEF SeriesInv
  <1>1. SeriesExclusive /\ CreditNumberNext
    BY DEF Init, SeriesExclusive, CreditNumberNext, Idle, Late
  <1>2. CreditNotesGapless
    BY DEF Init, CreditNotesGapless
  <1> QED
    BY <1>1, <1>2

\* Every step keeps the numbers of the credit note series exclusive and consecutive.
LEMMA SeriesStep == TypeInv /\ SeriesInv /\ [Next]_vars => SeriesInv'
  <1> SUFFICES ASSUME TypeInv, SeriesInv, [Next]_vars PROVE SeriesInv'
    OBVIOUS
  <1> USE DEF TypeInv, TypeOK, SeriesInv, books
  <1>1. ASSUME UNCHANGED <<tx, counter, creditNotes>> PROVE SeriesInv'
    BY <1>1 DEF SeriesExclusive, CreditNumberNext, CreditNotesGapless
  <1>2. ASSUME NEW r \in Requests, NEW t, tx' = [tx EXCEPT ![r] = t], t.phase \notin Late,
               t.op = "credit_note" => t.phase # "counted",
               counter'["credit_note"] = counter["credit_note"], UNCHANGED creditNotes
        PROVE  SeriesInv'
    BY <1>2 DEF SeriesExclusive, CreditNumberNext, CreditNotesGapless
  <1>3. ASSUME NEW r \in Requests, BeginAny(r) PROVE SeriesInv'
    <2> PICK op \in Ops, i \in Invoices, arg \in Nat : Begin(r, op, i, arg)
      BY <1>3, LedgerAssumption
         DEF BeginAny, BeginIssue, BeginRecord, BeginVoid, BeginCredit, BeginDelete, Ops
    <2> QED
      BY <1>2 DEF Begin, Started, Late
  <1>4. ASSUME NEW r \in Requests, Rollback(r) PROVE SeriesInv'
    BY <1>2, <1>4 DEF Rollback, Idle, Late
  <1>5. ASSUME NEW r \in Requests, SumPayments(r) PROVE SeriesInv'
    BY <1>2, <1>5 DEF SumPayments, Advance, Reached, Late
  <1>6. ASSUME NEW r \in Requests, ReadCounter(r) PROVE SeriesInv'
    BY <1>6 DEF ReadCounter, Advance, Reached, SeriesOf, Late,
                SeriesExclusive, CreditNumberNext, CreditNotesGapless
  <1>7. ASSUME NEW r \in Requests, NEW op \in {"issue", "credit_note"}, WriteCounter(r, op)
        PROVE  \A o \in Requests \ {r} : ~(tx[o].op = op /\ tx[o].phase \in Late)
    BY <1>7, EngineAssumption
       DEF WriteCounter, MayWrite, InWrite, SeriesFree, HoldsSeries, Others, Late
  <1>8. ASSUME NEW r \in Requests, NumberInvoice(r) PROVE SeriesInv'
    BY <1>7, <1>8 DEF NumberInvoice, WriteCounter, Advance, Reached,
                      SeriesExclusive, CreditNumberNext, CreditNotesGapless
  <1>9. ASSUME NEW r \in Requests, InsertCreditNote(r) PROVE SeriesInv'
    <2>1. tx[r].num = counter["credit_note"] + 1
      BY <1>9 DEF InsertCreditNote, WriteCounter, CreditNumberNext, CreditNotesGapless, Tx
    <2> QED
      BY <1>7, <1>9, <2>1 DEF InsertCreditNote, WriteCounter, Advance, Reached,
                              SeriesExclusive, CreditNumberNext, CreditNotesGapless
  <1>10. ASSUME NEW r \in Requests, InsertPayment(r) \/ InsertAudit(r) \/ ReselectVoid(r)
         PROVE  SeriesInv'
    BY <1>10 DEF InsertPayment, InsertAudit, ReselectVoid, Advance, Reached,
                 SeriesExclusive, CreditNumberNext, CreditNotesGapless
  <1>11. ASSUME NEW r \in Requests, Reselect(r) PROVE SeriesInv'
    BY <1>11 DEF Reselect, Advance, Reached, Late,
                 SeriesExclusive, CreditNumberNext, CreditNotesGapless
  <1>12. ASSUME NEW r \in Requests, CommitCredit(r) PROVE SeriesInv'
    <2>1. tx[r].num = counter["credit_note"] + 1 /\ tx[r].inv \in Invoices
      BY <1>12 DEF CommitCredit, Update, Late, CreditNumberNext, Tx
    <2>2. counter'["credit_note"] = counter["credit_note"] + 1 /\ counter["credit_note"] \in Nat
      BY <1>12, <2>1 DEF CommitCredit
    <2>3. tx' = [tx EXCEPT ![r] = Idle]
      BY <1>12 DEF CommitCredit, Update
    <2>4. SeriesExclusive'
      BY <2>3 DEF SeriesExclusive, Idle, Late
    <2>5. CreditNumberNext'
      BY <1>12, <2>2, <2>3 DEF CommitCredit, Update, CreditNumberNext, SeriesExclusive, Idle, Late, Tx
    <2>6. CreditNotesGapless'
      <3> DEFINE k == counter["credit_note"]
                 new == [seq |-> k + 1, invoice |-> tx[r].inv]
      <3>1. creditNotes' = creditNotes \cup {new}
        BY <1>12, <2>1 DEF CommitCredit
      <3>2. {n.seq : n \in creditNotes'} = {n.seq : n \in creditNotes} \cup {k + 1}
        <4> HIDE DEF new
        <4>1. new.seq = k + 1
          BY DEF new
        <4> QED
          BY <3>1, <4>1
      <3>3. 1..(k + 1) = (1..k) \cup {k + 1}
        BY <2>2
      <3>4. {n.seq : n \in creditNotes'} = 1..(k + 1)
        BY <3>2, <3>3 DEF CreditNotesGapless
      <3>5. \A n \in creditNotes : n.seq \in 1..k
        BY DEF CreditNotesGapless
      <3>6. \A n, o \in creditNotes' : n.seq = o.seq => n = o
        BY <2>2, <3>1, <3>5 DEF CreditNotesGapless
      <3> QED
        BY <2>2, <3>4, <3>6 DEF CreditNotesGapless
    <2> QED
      BY <2>4, <2>5, <2>6
  <1>13. ASSUME NEW r \in Requests, Commit(r), ~CommitCredit(r) PROVE SeriesInv'
    BY <1>2, <1>13 DEF Commit, CommitIssue, CommitRecord, CommitVoid, CommitDelete, Update, Idle, Late
  <1> QED
    BY <1>1, <1>3, <1>4, <1>5, <1>6, <1>8, <1>9, <1>10, <1>11, <1>12, <1>13
       DEF Next, Work, CreateDraft, vars

\* The credit note series is gapless and without repeats for any number of concurrent
\* requests, on Postgres and on SQLite, whatever the callers do.
THEOREM CreditSeriesGapless == Spec => []CreditNotesGapless
  <1>1. SeriesInv => CreditNotesGapless
    BY DEF SeriesInv
  <1> QED
    BY <1>1, TypeInit, TypeStep, SeriesInit, SeriesStep, PTL DEF Spec

-----------------------------------------------------------------------------
(***************************************************************************)
(* The row lock of the invoice series, on Postgres and for any callers.    *)
(***************************************************************************)

\* Every step keeps the holder of the series lock unique and its number the next one.
LEMMA LockStep == Engine = "postgres" /\ TypeInv /\ LockInv /\ [Next]_vars => LockInv'
  <1> SUFFICES ASSUME Engine = "postgres", TypeInv, LockInv, [Next]_vars PROVE LockInv'
    OBVIOUS
  <1> USE DEF TypeInv, TypeOK, LockInv, books
  <1>1. ASSUME UNCHANGED vars PROVE LockInv'
    BY <1>1 DEF vars, LockExclusive, NumbersBelow, HoldsSeries
  <1>2. ASSUME NEW i \in Invoices, CreateDraft(i) PROVE LockInv'
    BY <1>2 DEF CreateDraft, DraftRow, Unnumbered, LockExclusive, NumbersBelow, HoldsSeries
  \* A step of r that leaves it without the lock and without a new number.
  <1>3. ASSUME NEW r \in Requests, NEW t \in Tx, tx' = [tx EXCEPT ![r] = t], UNCHANGED books,
               t.phase \in {"idle", "read", "summed"} \/ t.op # "issue",
               t.old.seq <= counter["invoice"], t.new.seq <= counter["invoice"]
        PROVE  LockInv'
    BY <1>3 DEF LockExclusive, NumbersBelow, HoldsSeries
  <1>4. ASSUME NEW r \in Requests, BeginAny(r) PROVE LockInv'
    <2> PICK op \in Ops, i \in Invoices, arg \in Nat : Begin(r, op, i, arg)
      BY <1>4, LedgerAssumption
         DEF BeginAny, BeginIssue, BeginRecord, BeginVoid, BeginCredit, BeginDelete, Ops
    <2> DEFINE t == Started(op, i, arg, invoices[i])
    <2>1. t \in Tx /\ t.phase = "read"
      BY RowConstants DEF Started, Tx, Phases
    <2>2. t.old.seq <= counter["invoice"] /\ t.new.seq <= counter["invoice"]
      BY DEF Started, NumbersBelow, AbsentRow, Unnumbered
    <2> QED
      BY <1>3, <2>1, <2>2 DEF Begin
  <1>5. ASSUME NEW r \in Requests, Rollback(r) PROVE LockInv'
    <2>1. Idle.phase = "idle" /\ Idle.old.seq <= counter["invoice"] /\ Idle.new.seq <= counter["invoice"]
      BY DEF Idle, AbsentRow, Unnumbered
    <2> QED
      BY <1>3, <1>5, <2>1, RowConstants DEF Rollback
  <1>6. ASSUME NEW r \in Requests, ReadCounter(r) PROVE LockInv'
    BY <1>6 DEF ReadCounter, Advance, Reached, SeriesOf, SeriesFree, Others, AbsentRow, Unnumbered,
                LockExclusive, NumbersBelow, HoldsSeries
  <1>7. ASSUME NEW r \in Requests, NumberInvoice(r) PROVE LockInv'
    <2>1. tx[r].num = counter["invoice"] + 1
      BY <1>7 DEF NumberInvoice, WriteCounter, SeriesOf, NumbersBelow, HoldsSeries, Tx
    <2> QED
      BY <1>7, <2>1 DEF NumberInvoice, WriteCounter, Advance, Reached, SeriesFree, Others,
                        IssuedRow, LockExclusive, NumbersBelow, HoldsSeries
  <1>8. ASSUME NEW r \in Requests, SumPayments(r) \/ InsertCreditNote(r) \/ InsertPayment(r)
                                   \/ InsertAudit(r) \/ ReselectVoid(r)
        PROVE  LockInv'
    BY <1>8 DEF SumPayments, InsertCreditNote, InsertPayment, InsertAudit, ReselectVoid,
                WriteCounter, Advance, Reached, AbsentRow, Unnumbered, CreditedRow, PaidRow,
                VoidedRow, WithStatus, LockExclusive, NumbersBelow, HoldsSeries
  <1>9. ASSUME NEW r \in Requests, Reselect(r) PROVE LockInv'
    BY <1>9 DEF Reselect, Advance, Reached, LockExclusive, NumbersBelow, HoldsSeries
  <1>10. ASSUME NEW r \in Requests, Commit(r) PROVE LockInv'
    <2>1. tx' = [tx EXCEPT ![r] = Idle] /\ tx[r].inv \in Invoices /\ tx[r].num \in Nat
      BY <1>10 DEF Commit, CommitIssue, CommitRecord, CommitVoid, CommitCredit, CommitDelete, Update, Tx
    <2>2. CASE CommitIssue(r)
      <3>1. HoldsSeries(r, "issue")
        BY <2>2 DEF CommitIssue, Update, HoldsSeries
      <3>2. counter'["invoice"] = counter["invoice"] + 1
        BY <2>2, <3>1 DEF CommitIssue, NumbersBelow
      <3>3. \A i \in Invoices : invoices'[i].seq <= counter'["invoice"]
        <4>1. counter["invoice"] \in Nat /\ \A i \in Invoices : invoices[i].seq \in Nat
          BY DEF Row
        <4>2. Merged(tx[r]).seq <= counter["invoice"] + 1
          BY <2>1, <3>1, <4>1 DEF Merged, Column, NumbersBelow, Row, Tx
        <4>3. invoices' = [invoices EXCEPT ![tx[r].inv] = Merged(tx[r])]
          BY <2>2 DEF CommitIssue, Update
        <4> QED
          BY <2>1, <3>2, <4>1, <4>2, <4>3 DEF NumbersBelow
      <3>4. \A o \in Requests \ {r} : tx'[o] = tx[o] /\ ~HoldsSeries(o, "issue")
        BY <2>1, <3>1 DEF LockExclusive
      <3>5. tx'[r] = Idle /\ Idle.op = "none" /\ Idle.old.seq = 0 /\ Idle.new.seq = 0
        BY <2>1 DEF Idle, AbsentRow, Unnumbered
      <3>6. LockExclusive'
        BY <3>4, <3>5 DEF LockExclusive, HoldsSeries
      <3>7. ASSUME NEW o \in Requests \ {r}
            PROVE  /\ ~HoldsSeries(o, "issue")'
                   /\ tx[o].op = "issue" /\ tx[o].phase = "counted" =>
                         tx[o].num \in 1..(counter["invoice"] + 1 + 1)
                   /\ tx[o].old.seq <= counter["invoice"] + 1
                   /\ tx[o].new.seq <= counter["invoice"] + 1
        <4>1. tx[o].old.seq \in Nat /\ tx[o].new.seq \in Nat /\ counter["invoice"] \in Nat
          BY DEF Tx, Row
        <4> QED
          BY <3>4, <4>1 DEF NumbersBelow, HoldsSeries
      <3> QED
        BY <3>2, <3>3, <3>4, <3>5, <3>6, <3>7 DEF NumbersBelow, HoldsSeries
    <2>3. CASE ~CommitIssue(r)
      <3>1. counter'["invoice"] = counter["invoice"]
        BY <1>10, <2>3 DEF Commit, CommitRecord, CommitVoid, CommitCredit, CommitDelete
      <3>2. \A i \in Invoices : invoices'[i].seq <= counter["invoice"]
        BY <1>10, <2>1, <2>3 DEF Commit, CommitRecord, CommitVoid, CommitCredit, CommitDelete, Update,
           Merged, Column, NumbersBelow, HoldsSeries, DeletedRow, Unnumbered
      <3> QED
        BY <2>1, <3>1, <3>2 DEF LockExclusive, NumbersBelow, HoldsSeries, Idle, AbsentRow, Unnumbered
    <2> QED
      BY <2>2, <2>3
  <1> QED
    BY <1>1, <1>2, <1>4, <1>5, <1>6, <1>7, <1>8, <1>9, <1>10 DEF Next, Work

\* On Postgres no request that has been given an invoice number can ever find it on
\* another row, whatever the callers do: the lock of next_value() is enough.
THEOREM SeriesLockWorks == Engine = "postgres" => (Spec => []NoNumberCollision)
  <1> SUFFICES ASSUME Engine = "postgres" PROVE Spec => []NoNumberCollision
    OBVIOUS
  <1>1. Init => LockInv
    <2> SUFFICES ASSUME Init PROVE LockInv
      OBVIOUS
    <2>1. \A r \in Requests : tx[r].op = "none" /\ tx[r].old.seq = 0 /\ tx[r].new.seq = 0
      BY DEF Init, Idle, AbsentRow, Unnumbered
    <2>2. counter["invoice"] = 0 /\ \A i \in Invoices : invoices[i].seq = 0
      BY DEF Init, AbsentRow, Unnumbered
    <2> QED
      BY <2>1, <2>2 DEF LockInv, LockExclusive, NumbersBelow, HoldsSeries
  <1>2. TypeInv /\ LockInv => NoNumberCollision
    BY DEF TypeInv, TypeOK, LockInv, NumbersBelow, HoldsSeries, NoNumberCollision, Row, Tx
  <1>3. TypeInv /\ LockInv /\ [Next]_vars => LockInv'
    BY LockStep
  <1> QED
    BY <1>1, <1>2, <1>3, TypeInit, TypeStep, PTL DEF Spec

-----------------------------------------------------------------------------
(***************************************************************************)
(* One request per invoice: the services implement AtomicLedger, and the   *)
(* books are right.  First, AtomicLedger keeps the books right.            *)
(***************************************************************************)

\* The two specifications speak of the same rows.
LEMMA SameRows ==
    /\ Atomic!AbsentRow = AbsentRow /\ Atomic!DraftRow = DraftRow /\ Atomic!DeletedRow = DeletedRow
    /\ Atomic!Stored = Stored /\ Atomic!Unpayable = Unpayable
    /\ \A row, n, reference : Atomic!IssuedRow(row, n, reference) = IssuedRow(row, n, reference)
    /\ \A row, n : Atomic!PaidRow(row, n) = PaidRow(row, n)
    /\ \A row : Atomic!VoidedRow(row) = VoidedRow(row)
    /\ \A row, n : Atomic!CreditedRow(row, n) = CreditedRow(row, n)
    /\ \A i, m, n : Atomic!DisplayReference(i, m, n) = DisplayReference(i, m, n)
  BY DEF AbsentRow, DraftRow, DeletedRow, Unnumbered, NoRef, Atomic!NoRef, Stored, Unpayable, IssuedRow, PaidRow,
         WithStatus, VoidedRow, CreditedRow, DisplayReference,
         Atomic!AbsentRow, Atomic!DraftRow, Atomic!DeletedRow, Atomic!Unnumbered, Atomic!Stored,
         Atomic!Unpayable, Atomic!IssuedRow, Atomic!PaidRow, Atomic!WithStatus, Atomic!VoidedRow,
         Atomic!CreditedRow, Atomic!DisplayReference

\* Each use case, acting at one instant, keeps numbers, payments and credit notes in step.
LEMMA BooksStep == TypeOK /\ BooksInv /\ Atomic!LedgerNext => BooksInv'
  <1> SUFFICES ASSUME TypeOK, BooksInv, NEW i \in Invoices,
                      \/ Atomic!CreateDraft(i)
                      \/ \E m \in Months : Atomic!Issue(i, m)
                      \/ \E amount \in 1..Total : Atomic!Record(i, amount)
                      \/ Atomic!Void(i)
                      \/ Atomic!Credit(i)
                      \/ Atomic!DeleteDraft(i)
               PROVE  BooksInv'
    BY DEF Atomic!LedgerNext
  <1> USE DEF TypeOK, BooksInv
  <1> DEFINE old == invoices[i]
             row == invoices'[i]
  <1>0. /\ \A j \in Invoices \ {i} : invoices'[j] = invoices[j]
        /\ \A j \in Invoices : invoices[j].seq \in Nat /\ paid[j] \in Nat
        /\ counter["invoice"] \in Nat
    BY DEF Atomic!CreateDraft, Atomic!Issue, Atomic!Record, Atomic!Void, Atomic!Credit,
           Atomic!DeleteDraft, Row
  <1> HIDE DEF TypeOK
  \* What a step has to show of the one row it changes.
  <1>1. ASSUME counter'["invoice"] = counter["invoice"], row.seq = old.seq
        PROVE  Gapless'
    BY <1>0, <1>1 DEF Gapless, Numbered
  <1>2. ASSUME \A j \in Invoices \ {i} : paid'[j] = paid[j],
               paid'[i] <= Total,
               row.status = "paid" => paid'[i] = Total,
               row.status = "partially_paid" => paid'[i] \in 1..(Total - 1),
               row.status \in {"absent", "draft", "issued", "deleted"} => paid'[i] = 0,
               row.status \in {"absent", "draft", "deleted"} => row.seq = 0
        PROVE  PlainRows' /\ StatusMatchesPayments'
    BY <1>0, <1>2 DEF PlainRows, StatusMatchesPayments
  <1>3. ASSUME old.status # "voided", UNCHANGED creditNotes
        PROVE  CreditNotesCancel'
    BY <1>0, <1>3 DEF CreditNotesCancel, TypeOK
  <1>4. ASSUME Atomic!CreateDraft(i) PROVE BooksInv'
    <2>1. row = DraftRow /\ old.status = "absent" /\ UNCHANGED <<paid, creditNotes, counter>>
      BY <1>4, SameRows DEF Atomic!CreateDraft, TypeOK
    <2>2. row.status = "draft" /\ row.seq = 0 /\ old.seq = 0 /\ paid[i] = 0
      BY <2>1 DEF DraftRow, Unnumbered, PlainRows
    <2> QED
      BY <1>1, <1>2, <1>3, <2>1, <2>2, LedgerAssumption
  <1>5. ASSUME NEW m \in Months, Atomic!Issue(i, m) PROVE BooksInv'
    <2>1. /\ row.status = "issued" /\ row.seq = counter["invoice"] + 1 /\ old.status = "draft"
          /\ counter'["invoice"] = counter["invoice"] + 1 /\ UNCHANGED <<paid, creditNotes>>
      BY <1>5, SameRows DEF Atomic!Issue, IssuedRow, TypeOK
    <2>2. old.seq = 0 /\ paid[i] = 0
      BY <2>1 DEF PlainRows
    <2>3. Gapless'
      BY <1>0, <2>1, <2>2 DEF Gapless, Numbered
    <2> QED
      BY <1>2, <1>3, <2>1, <2>2, <2>3, LedgerAssumption
  <1>6. ASSUME NEW amount \in 1..Total, Atomic!Record(i, amount) PROVE BooksInv'
    <2>1. /\ row = PaidRow(old, paid[i] + amount) /\ old.status \in Stored \ Unpayable
          /\ paid'[i] = paid[i] + amount /\ paid[i] + amount <= Total
          /\ \A j \in Invoices \ {i} : paid'[j] = paid[j]
          /\ UNCHANGED <<counter, creditNotes>>
      BY <1>6, SameRows DEF Atomic!Record, TypeOK
    <2>2. row.seq = old.seq /\ row.status = IF paid[i] + amount = Total THEN "paid" ELSE "partially_paid"
      BY <2>1 DEF PaidRow, WithStatus
    <2> QED
      BY <1>0, <1>1, <1>2, <1>3, <2>1, <2>2, LedgerAssumption DEF Unpayable
  <1>7. ASSUME Atomic!Void(i) PROVE BooksInv'
    <2>1. /\ row.status = "voided" /\ row.seq = old.seq /\ old.status # "voided"
          /\ UNCHANGED <<paid, creditNotes, counter>>
      BY <1>7, SameRows DEF Atomic!Void, VoidedRow, WithStatus, TypeOK
    <2> QED
      BY <1>1, <1>2, <1>3, <2>1 DEF StatusMatchesPayments
  <1>8. ASSUME Atomic!Credit(i) PROVE BooksInv'
    <2> DEFINE n == counter["credit_note"] + 1
    <2>1. /\ row.status = "voided" /\ row.seq = old.seq /\ row.voidedBy = n
          /\ old.status # "voided" /\ counter'["invoice"] = counter["invoice"] /\ UNCHANGED paid
          /\ creditNotes' = creditNotes \cup {[seq |-> n, invoice |-> i]}
      BY <1>8, SameRows DEF Atomic!Credit, CreditedRow, TypeOK
    <2>2. CreditNotesCancel'
      BY <1>0, <2>1 DEF CreditNotesCancel, TypeOK
    <2> QED
      BY <1>1, <1>2, <2>1, <2>2 DEF StatusMatchesPayments
  <1>9. ASSUME Atomic!DeleteDraft(i) PROVE BooksInv'
    <2>1. row = DeletedRow /\ old.status = "draft" /\ UNCHANGED <<paid, creditNotes, counter>>
      BY <1>9, SameRows DEF Atomic!DeleteDraft, TypeOK
    <2>2. row.status = "deleted" /\ row.seq = 0 /\ old.seq = 0 /\ paid[i] = 0
      BY <2>1 DEF DeletedRow, Unnumbered, PlainRows
    <2> QED
      BY <1>1, <1>2, <1>3, <2>1, <2>2, LedgerAssumption
  <1> QED
    BY <1>4, <1>5, <1>6, <1>7, <1>8, <1>9

\* The counter was read before the lock was certain, and the unique constraint settles it:
\* an issue that commits carries the next number.
LEMMA CommitNumber ==
    ASSUME TypeInv, SerialInv, NEW r \in Requests, CommitIssue(r)
    PROVE  tx[r].num = counter["invoice"] + 1
  <1> DEFINE i == tx[r].inv
             t == tx[r]
             m == t.arg
             k == bucket[ClientOf[i]][m] + 1
  <1> USE DEF TypeInv, TypeOK, SerialInv, CopiesInv
  <1>0. i \in Invoices /\ t \in Tx
    BY DEF Tx
  <1>1. Update(r, "issue") /\ t.op = "issue" /\ t.phase = "reselected"
    BY DEF CommitIssue, Update
  <1>2. t.new = IssuedRow(invoices[i], t.num, DisplayReference(i, m, k))
    BY <1>1 DEF PendingWrites, Late
  <1>3. invoices[i].status = "draft" /\ t.num \in 1..(counter["invoice"] + 1)
    BY <1>1 DEF CopiesCurrent, PendingWrites, Late
  <1>4. \A j \in Invoices : invoices[j].seq # t.num
    <2>1. t.new.seq = t.num /\ t.num # 0 /\ t.fresh = invoices[i] /\ invoices[i].seq = 0
      <3>1. t.new.seq = t.num /\ t.num # 0
        BY <1>2, <1>3 DEF IssuedRow
      <3>2. t.fresh = invoices[i]
        BY <1>1 DEF CopiesCurrent
      <3>3. invoices[i].seq = 0
        BY <1>0, <1>3 DEF BooksInv, PlainRows
      <3> QED
        BY <3>1, <3>2, <3>3
    <2>2. Merged(t).seq = t.num
      BY <2>1 DEF Merged, Column
    <2> QED
      BY <1>1, <2>1, <2>2 DEF Update, Unique
  <1>5. t.num = counter["invoice"] + 1
    <2>1. counter["invoice"] \in Nat /\ t.num \in Nat
      BY <1>0 DEF Tx
    <2>2. ~(t.num \in 1..counter["invoice"])
      BY <1>4 DEF BooksInv, Gapless
    <2> QED
      BY <1>3, <2>1, <2>2
  <1> QED
    BY <1>5

\* A request that commits does to the books what its use case does at one instant.
LEMMA CommitIsAtomic ==
    ASSUME TypeInv, SeriesInv, SerialInv, NEW r \in Requests, Commit(r)
    PROVE  Atomic!LedgerNext
  <1> DEFINE i == tx[r].inv
             t == tx[r]
  <1> USE DEF TypeInv, TypeOK, SerialInv, CopiesInv
  <1>1. i \in Invoices /\ t \in Tx
    BY DEF Tx
  <1>2. ASSUME NEW op \in {"issue", "record", "void", "credit_note"}, Update(r, op)
        PROVE  invoices' = [invoices EXCEPT ![i] = t.new]
    <2>1. t.fresh = invoices[i]
      BY <1>2 DEF Update, CopiesCurrent
    <2>2. Merged(t) = t.new
      BY <1>1, <2>1 DEF Merged, Column, Row, Tx
    <2> QED
      BY <1>2, <2>2 DEF Update
  <1>3. CASE CommitIssue(r)
    <2> DEFINE m == t.arg
               k == bucket[ClientOf[i]][m] + 1
    <2>1. Update(r, "issue") /\ t.op = "issue" /\ t.phase = "reselected" /\ m \in Months
      BY <1>3 DEF CommitIssue, Update, MonthsOK
    <2>2. t.new = IssuedRow(invoices[i], t.num, DisplayReference(i, m, k))
      BY <2>1 DEF PendingWrites, Late
    <2>3. invoices[i].status = "draft"
      BY <2>1 DEF CopiesCurrent
    <2>4. t.num = counter["invoice"] + 1
      BY <1>3, CommitNumber
    <2>5. Atomic!Issue(i, m)
      BY <1>2, <1>3, <2>1, <2>2, <2>3, <2>4, SameRows DEF CommitIssue, Atomic!Issue
    <2> QED
      BY <1>1, <2>1, <2>5 DEF Atomic!LedgerNext
  <1>4. CASE CommitRecord(r)
    <2>1. Update(r, "record") /\ t.op = "record" /\ t.phase \in Late
      BY <1>4 DEF CommitRecord, Update, Late
    <2>2. /\ t.new = PaidRow(invoices[i], paid[i] + t.arg) /\ t.arg \in 1..Total
          /\ paid[i] + t.arg <= Total /\ invoices[i].status \in Stored \ Unpayable
      BY <2>1 DEF CopiesCurrent, PendingWrites
    <2>3. Atomic!Record(i, t.arg)
      BY <1>2, <1>4, <2>1, <2>2, SameRows DEF CommitRecord, Atomic!Record
    <2> QED
      BY <1>1, <2>2, <2>3 DEF Atomic!LedgerNext
  <1>5. CASE CommitVoid(r)
    <2>1. Update(r, "void") /\ t.op = "void" /\ t.phase \in Late
      BY <1>5 DEF CommitVoid, Update, Late
    <2>2. t.new = VoidedRow(invoices[i]) /\ invoices[i].status \in Stored \ {"voided"}
      BY <2>1 DEF CopiesCurrent, PendingWrites
    <2>3. Atomic!Void(i)
      BY <1>2, <1>5, <2>1, <2>2, SameRows DEF CommitVoid, Atomic!Void
    <2> QED
      BY <1>1, <2>3 DEF Atomic!LedgerNext
  <1>6. CASE CommitCredit(r)
    <2>1. Update(r, "credit_note") /\ t.op = "credit_note" /\ t.phase \in Late
      BY <1>6 DEF CommitCredit, Update, Late
    <2>2. t.new = CreditedRow(invoices[i], t.num) /\ invoices[i].status \in Stored \ {"voided"}
      BY <2>1 DEF CopiesCurrent, PendingWrites
    <2>3. t.num = counter["credit_note"] + 1
      BY <2>1 DEF SeriesInv, CreditNumberNext
    <2>4. Atomic!Credit(i)
      BY <1>2, <1>6, <2>1, <2>2, <2>3, SameRows DEF CommitCredit, Atomic!Credit
    <2> QED
      BY <1>1, <2>4 DEF Atomic!LedgerNext
  <1>7. CASE CommitDelete(r)
    <2>1. invoices[i].status = "draft"
      BY <1>7 DEF CommitDelete, CopiesCurrent
    <2>2. Atomic!DeleteDraft(i)
      BY <1>7, <2>1, SameRows DEF CommitDelete, Atomic!DeleteDraft
    <2> QED
      BY <1>1, <2>2 DEF Atomic!LedgerNext
  <1> QED
    BY <1>3, <1>4, <1>5, <1>6, <1>7 DEF Commit

\* A request that commits leaves the copies and the pending writes of the others right.
LEMMA CommitKeepsCopies ==
    ASSUME TypeInv, SeriesInv, SerialInv, NEW r \in Requests, Commit(r)
    PROVE  CopiesInv'
  <1> USE DEF TypeInv, TypeOK, SerialInv, CopiesInv
  <1>1. tx' = [tx EXCEPT ![r] = Idle] /\ tx[r].op # "none" /\ tx[r].inv \in Invoices
    BY DEF Commit, CommitIssue, CommitRecord, CommitVoid, CommitCredit, CommitDelete, Update, Tx
  <1>2. \A j \in Invoices : j # tx[r].inv => invoices'[j] = invoices[j] /\ paid'[j] = paid[j]
    BY <1>1 DEF Commit, CommitIssue, CommitRecord, CommitVoid, CommitCredit, CommitDelete, Update
  <1>3. ASSUME NEW o \in Requests, o # r, tx[o].op # "none"
        PROVE  /\ tx'[o] = tx[o] /\ tx[o].inv \in Invoices
               /\ invoices'[tx[o].inv] = invoices[tx[o].inv] /\ paid'[tx[o].inv] = paid[tx[o].inv]
    BY <1>1, <1>2, <1>3 DEF OnePerInvoice, Tx
  <1>4. tx'[r] = Idle /\ Idle.op = "none" /\ Idle.phase = "idle"
    BY <1>1 DEF Idle
  <1>5. OnePerInvoice'
    BY <1>1, <1>4 DEF OnePerInvoice
  <1>6. CopiesCurrent'
    BY <1>1, <1>3, <1>4 DEF CopiesCurrent
  <1>7. PendingWrites'
    <2>1. CASE CommitIssue(r)
      <3>1. tx[r].op = "issue" /\ tx[r].phase \in Late
        BY <2>1 DEF CommitIssue, Update, Late
      <3>2. \A o \in Requests \ {r} : tx[o].op = "issue" => tx[o].phase \notin Late
        BY <3>1 DEF SeriesInv, SeriesExclusive
      <3>3. counter'["invoice"] = counter["invoice"] + 1 /\ counter["invoice"] \in Nat
        BY <2>1, CommitNumber DEF CommitIssue
      <3> QED
        BY <1>1, <1>3, <1>4, <3>2, <3>3 DEF PendingWrites, Tx, Late
    <2>2. CASE ~CommitIssue(r)
      <3>1. bucket' = bucket /\ counter'["invoice"] = counter["invoice"]
        BY <2>2 DEF Commit, CommitRecord, CommitVoid, CommitCredit, CommitDelete
      <3> QED
        BY <1>1, <1>3, <1>4, <3>1 DEF PendingWrites, Late
    <2> QED
      BY <2>1, <2>2
  <1> QED
    BY <1>5, <1>6, <1>7

\* A statement of a request in flight leaves the books alone and its own record right.
LEMMA WorkKeepsCopies ==
    ASSUME TypeInv, SerialInv, NEW r \in Requests, Work(r)
    PROVE  CopiesInv'
  <1> DEFINE t == tx[r]
             i == tx[r].inv
  <1> USE DEF TypeInv, TypeOK, SerialInv, CopiesInv, books
  <1>1. t.phase # "idle" /\ t.op # "none" /\ t.old = invoices[i] /\ i \in Invoices /\ t \in Tx
    BY DEF Work, SumPayments, ReadCounter, NumberInvoice, InsertCreditNote, WriteCounter,
           InsertPayment, InsertAudit, Reselect, ReselectVoid, CopiesCurrent, Tx
  <1>2. PICK phase, sum, num, new, fresh : Advance(r, phase, sum, num, new, fresh) /\ phase # "idle"
    BY DEF Work, SumPayments, ReadCounter, NumberInvoice, InsertCreditNote, InsertPayment,
           InsertAudit, Reselect, ReselectVoid
  <1>3. OnePerInvoice'
    BY <1>2 DEF Advance, Reached, OnePerInvoice
  \* What a statement has to show of the record it leaves.
  <1>4. ASSUME NEW p, NEW s, NEW n, NEW w, NEW f, Advance(r, p, s, n, w, f), p # "idle",
               p = "reselected" => f = invoices[i],
               t.op = "issue" /\ p \in Late \cup {"counted"} => n \in 1..(counter["invoice"] + 1),
               t.op = "issue" /\ p \in Late =>
                   w = IssuedRow(invoices[i], n, DisplayReference(i, t.arg, bucket[ClientOf[i]][t.arg] + 1)),
               t.op = "record" /\ p \in Late \cup {"summed"} => s = paid[i] /\ paid[i] + t.arg <= Total,
               t.op = "record" /\ p \in Late => w = PaidRow(invoices[i], s + t.arg),
               t.op = "credit_note" /\ p \in Late => w = CreditedRow(invoices[i], n),
               t.op = "void" /\ p \in Late => w = VoidedRow(invoices[i])
        PROVE  CopiesInv'
    <2>1. tx'[r] = Reached(t, p, s, n, w, f) /\ UNCHANGED books
      BY <1>4 DEF Advance
    <2>2. \A o \in Requests \ {r} : tx'[o] = tx[o]
      BY <1>4 DEF Advance
    <2>3. CopiesCurrent'
      BY <1>1, <1>4, <2>1, <2>2 DEF CopiesCurrent, Reached
    <2>4. PendingWrites'
      BY <1>4, <2>1, <2>2 DEF PendingWrites, Reached
    <2> QED
      BY <1>3, <2>3, <2>4
  <1>5. CASE SumPayments(r)
    BY <1>4, <1>5 DEF SumPayments, Late
  <1>6. CASE ReadCounter(r)
    BY <1>4, <1>6 DEF ReadCounter, SeriesOf, Late
  <1>7. CASE NumberInvoice(r)
    BY <1>1, <1>4, <1>7 DEF NumberInvoice, WriteCounter, PendingWrites, Late
  <1>8. CASE InsertCreditNote(r)
    BY <1>1, <1>4, <1>8 DEF InsertCreditNote, WriteCounter, Late
  <1>9. CASE InsertPayment(r)
    BY <1>1, <1>4, <1>9 DEF InsertPayment, PendingWrites, Late
  <1>10. CASE InsertAudit(r)
    BY <1>4, <1>10 DEF InsertAudit, Late
  <1>11. CASE Reselect(r)
    BY <1>4, <1>11 DEF Reselect, PendingWrites, Late
  <1>12. CASE ReselectVoid(r)
    BY <1>1, <1>4, <1>12 DEF ReselectVoid, Late
  <1> QED
    BY <1>5, <1>6, <1>7, <1>8, <1>9, <1>10, <1>11, <1>12 DEF Work

\* A request starts on an invoice nobody is at work on, with the row as it is.
LEMMA BeginKeepsCopies ==
    ASSUME Serial, TypeInv, SerialInv, NEW r \in Requests, BeginAny(r)
    PROVE  CopiesInv'
  <1> USE DEF TypeInv, TypeOK, SerialInv, CopiesInv, books
  <1>1. PICK op \in Ops, i \in Invoices, arg \in Nat :
           /\ Begin(r, op, i, arg) /\ op # "none"
           /\ op = "record" => arg \in 1..Total
           /\ op \in {"issue", "delete"} => invoices[i].status = "draft"
           /\ op = "record" => invoices[i].status \in Stored \ Unpayable
           /\ op \in {"void", "credit_note"} => invoices[i].status \in Stored \ {"voided"}
    BY LedgerAssumption DEF BeginAny, BeginIssue, BeginRecord, BeginVoid, BeginCredit, BeginDelete, Ops
  <1>2. tx'[r] = Started(op, i, arg, invoices[i]) /\ UNCHANGED books
    BY <1>1 DEF Begin
  <1>3. \A o \in Requests \ {r} : tx'[o] = tx[o] /\ (tx[o].op # "none" => tx[o].inv # i)
    BY <1>1 DEF Begin, Active, CopiesCurrent
  <1>4. OnePerInvoice'
    BY <1>2, <1>3 DEF OnePerInvoice, Started
  <1>5. CopiesCurrent'
    BY <1>1, <1>2, <1>3 DEF CopiesCurrent, Started
  <1>6. PendingWrites'
    BY <1>1, <1>2, <1>3 DEF PendingWrites, Started, Late
  <1> QED
    BY <1>4, <1>5, <1>6

\* The whole invariant is inductive for serial callers.
LEMMA SerialStep == Serial /\ TypeInv /\ SeriesInv /\ SerialInv /\ [Next]_vars => SerialInv'
  <1> SUFFICES ASSUME Serial, TypeInv, SeriesInv, SerialInv, [Next]_vars PROVE SerialInv'
    OBVIOUS
  <1>1. ASSUME UNCHANGED books PROVE BooksInv'
    BY <1>1 DEF books, SerialInv, BooksInv, PlainRows, Gapless, StatusMatchesPayments, CreditNotesCancel
  <1>2. ASSUME NEW r \in Requests, Commit(r) PROVE SerialInv'
    BY <1>2, CommitIsAtomic, CommitKeepsCopies, BooksStep DEF SerialInv, TypeInv
  <1>3. ASSUME NEW r \in Requests, Work(r) PROVE SerialInv'
    <2>1. UNCHANGED books
      BY <1>3 DEF Work, SumPayments, ReadCounter, NumberInvoice, InsertCreditNote, InsertPayment,
                  InsertAudit, Reselect, ReselectVoid, Advance
    <2> QED
      BY <1>1, <1>3, <2>1, WorkKeepsCopies DEF SerialInv
  <1>4. ASSUME NEW r \in Requests, BeginAny(r) PROVE SerialInv'
    <2>1. UNCHANGED books
      BY <1>4 DEF BeginAny, BeginIssue, BeginRecord, BeginVoid, BeginCredit, BeginDelete, Begin
    <2> QED
      BY <1>1, <1>4, <2>1, BeginKeepsCopies DEF SerialInv
  <1>5. ASSUME NEW r \in Requests, Rollback(r) PROVE SerialInv'
    <2>1. /\ tx'[r] = Idle /\ Idle.op = "none" /\ Idle.phase = "idle" /\ UNCHANGED books
          /\ \A o \in Requests \ {r} : tx'[o] = tx[o]
      BY <1>5 DEF Rollback, Idle, TypeInv, TypeOK
    <2>2. CopiesInv'
      BY <2>1 DEF SerialInv, CopiesInv, OnePerInvoice, CopiesCurrent, PendingWrites, Late, books
    <2> QED
      BY <1>1, <2>1, <2>2 DEF SerialInv
  <1>6. ASSUME NEW i \in Invoices, CreateDraft(i) PROVE SerialInv'
    <2>1. Atomic!LedgerNext
      BY <1>6, SameRows DEF CreateDraft, Atomic!CreateDraft, Atomic!LedgerNext
    <2>2. \A r \in Requests : tx[r].op # "none" => invoices'[tx[r].inv] = invoices[tx[r].inv]
      BY <1>6 DEF CreateDraft, SerialInv, CopiesInv, CopiesCurrent, TypeInv, TypeOK, Tx, Ops, Stored
    <2>3. CopiesInv'
      BY <1>6, <2>2 DEF CreateDraft, SerialInv, CopiesInv, OnePerInvoice, CopiesCurrent, PendingWrites, Late
    <2> QED
      BY <2>1, <2>3, BooksStep DEF SerialInv, TypeInv
  <1>7. ASSUME UNCHANGED vars PROVE SerialInv'
    BY <1>1, <1>7 DEF vars, books, SerialInv, CopiesInv, OnePerInvoice, CopiesCurrent, PendingWrites
  <1> QED
    BY <1>2, <1>3, <1>4, <1>5, <1>6, <1>7 DEF Next

\* Everything the induction for serial callers carries along.
LEMMA SerialInductive ==
    ASSUME Serial
    PROVE  Spec => [](TypeInv /\ SeriesInv /\ SerialInv)
  <1>1. Init => SerialInv
    <2> SUFFICES ASSUME Init PROVE SerialInv
      OBVIOUS
    <2>1. \A r \in Requests : tx[r].op = "none" /\ tx[r].phase = "idle"
      BY DEF Init, Idle
    <2>2. CopiesInv
      BY <2>1 DEF CopiesInv, OnePerInvoice, CopiesCurrent, PendingWrites, Late
    <2>3. \A i \in Invoices : invoices[i].status = "absent" /\ invoices[i].seq = 0 /\ paid[i] = 0
      BY DEF Init, AbsentRow, Unnumbered
    <2>4. BooksInv
      BY <2>3, LedgerAssumption
         DEF Init, BooksInv, PlainRows, Gapless, StatusMatchesPayments, CreditNotesCancel, Numbered
    <2> QED
      BY <2>2, <2>4 DEF SerialInv
  <1>2. TypeInv /\ SeriesInv /\ SerialInv /\ [Next]_vars => (TypeInv /\ SeriesInv /\ SerialInv)'
    BY TypeStep, SeriesStep, SerialStep
  <1> QED
    BY <1>1, <1>2, TypeInit, SeriesInit, PTL DEF Spec

\* When callers keep to one request per invoice, the invoice series never has a hole or a
\* repeat, statuses say what the payments add up to, and every credit note has cancelled its
\* invoice: for any number of concurrent requests and invoices, on both engines.
THEOREM SerialBooks == Serial => (Spec => [](Gapless /\ StatusMatchesPayments /\ CreditNotesCancel))
  <1> SUFFICES ASSUME Serial PROVE Spec => [](Gapless /\ StatusMatchesPayments /\ CreditNotesCancel)
    OBVIOUS
  <1>1. SerialInv => Gapless /\ StatusMatchesPayments /\ CreditNotesCancel
    BY DEF SerialInv, BooksInv
  <1> QED
    BY <1>1, SerialInductive, PTL

\* When callers keep to one request per invoice, an invoice's stored status always says what
\* its payments add up to (PaymentService.record() and the services that lock the invoice).
COROLLARY SerialStatuses == Serial => (Spec => []StatusMatchesPayments)
  BY SerialBooks, PTL

\* When callers keep to one request per invoice, a credit note in the books has cancelled the
\* invoice it names (CreditNoteService.issue_for_invoice()).
COROLLARY SerialCredits == Serial => (Spec => []CreditNotesCancel)
  BY SerialBooks, PTL

\* When callers keep to one request per invoice, the interleaved statements of the services
\* implement use cases that act at one instant.
THEOREM SerialRefinement == Serial => (Spec => ImplementsAtomicLedger)
  <1> SUFFICES ASSUME Serial PROVE Spec => ImplementsAtomicLedger
    OBVIOUS
  <1>1. Init => Atomic!LedgerInit
    BY SameRows DEF Init, Atomic!LedgerInit
  <1>2. TypeInv /\ SeriesInv /\ SerialInv /\ [Next]_vars => [Atomic!LedgerNext]_(Atomic!books)
    <2> SUFFICES ASSUME TypeInv, SeriesInv, SerialInv, [Next]_vars
                 PROVE  Atomic!LedgerNext \/ UNCHANGED books
      BY DEF Atomic!books, books
    <2>1. ASSUME NEW i \in Invoices, CreateDraft(i) PROVE Atomic!LedgerNext
      BY <2>1, SameRows DEF CreateDraft, Atomic!CreateDraft, Atomic!LedgerNext
    <2>2. ASSUME NEW r \in Requests, BeginAny(r) \/ Work(r) \/ Rollback(r) PROVE UNCHANGED books
      BY <2>2 DEF BeginAny, BeginIssue, BeginRecord, BeginVoid, BeginCredit, BeginDelete, Begin,
                  Work, SumPayments, ReadCounter, NumberInvoice, InsertCreditNote, InsertPayment,
                  InsertAudit, Reselect, ReselectVoid, Advance, Rollback
    <2>3. ASSUME NEW r \in Requests, Commit(r) PROVE Atomic!LedgerNext
      BY <2>3, CommitIsAtomic
    <2> QED
      BY <2>1, <2>2, <2>3 DEF Next, vars, books
  <1> QED
    BY <1>1, <1>2, SerialInductive, PTL DEF Spec, ImplementsAtomicLedger, Atomic!LedgerSpec
=============================================================================
