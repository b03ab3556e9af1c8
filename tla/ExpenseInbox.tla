----------------------------- MODULE ExpenseInbox -----------------------------
(***************************************************************************)
(* Supplier documents of one company (core/services/expense_service.py and *)
(* core/tva): a document is imported with the fields read off it, checked, *)
(* looked up among the earlier ones, classified, reviewed by a person,     *)
(* perhaps deleted, and summed into the VAT position of a period.          *)
(*                                                                         *)
(* Money is in cents.  A VAT number is a record of the supplier it is the  *)
(* number of and of how it is spelled; a field nobody read is None.        *)
(***************************************************************************)
EXTENDS RequestThreads, Integers, Sequences, FiniteSetsExt, Functions

CONSTANTS
    Documents,   \* the ExtractedFields a client may post
    Percents,    \* the deductible_percent a client may post
    Period,      \* the days of the period looked at
    MaxImports   \* bound: imports

Treatments == {"recoverable", "partial", "non_recoverable", "review_required"}

\* TvaClassification without its confidence and its reasons
Classifications ==
    [treatment : Treatments, detected : Int, recoverable : Int, percent : Int, confirmed : BOOLEAN]

ASSUME ExpenseAssumption ==
    /\ MaxImports \in Nat
    /\ Percents \subseteq Int
    /\ None \notin Int /\ None \notin Classifications
    /\ \A f \in Documents : f.tva \in Int \cup {None}

VARIABLES
    imported,  \* imports so far; the k-th one has identity k
    expenses,  \* expenses[k]: the row, or None
    expenseTx         \* expenseTx[r]: what request r has read, or None

expenseVars == <<imported, expenses, expenseTx>>

Ids == 1..MaxImports
StoredExpenses == {k \in Ids : expenses[k] # None}

ExpenseInit ==
    /\ imported = 0
    /\ expenses = [k \in Ids |-> None]
    /\ expenseTx = [r \in Requests |-> None]

-----------------------------------------------------------------------------
(* Document checks. *)

Abs(n) == IF n < 0 THEN -n ELSE n

\* HT + TVA = TTC within two cents; unknown when one of them is missing
ArithmeticFails(f) ==
    /\ None \notin {f.ht, f.tva, f.ttc}
    /\ Abs(f.ht + f.tva - f.ttc) > 2

\* A Belgian rate more than half a point off what the amounts imply.  A foreign
\* rate is a warning only.
RateFails(f) ==
    /\ f.rate \in {0, 6, 12, 21}
    /\ None \notin {f.ht, f.tva} /\ f.ht # 0
    /\ Abs(200 * f.tva - 2 * f.rate * f.ht) > Abs(f.ht)

ChecksFail(f) ==
    f.name = None \/ f.number = None \/ f.date = None \/ ArithmeticFails(f) \/ RateFails(f)

\* "Both identifiers or nothing"
Identified(f) == f.vat # None /\ f.number # None

\* Faulty variant of FindDuplicate: it looks among what still waits for review.
FindDuplicateWaiting(f) ==
    {k \in StoredExpenses :
        /\ Identified(f)
        /\ expenses[k].state = "analyzed"
        /\ expenses[k].fields.vat = f.vat
        /\ expenses[k].fields.number = f.number}

\* The rows find_duplicate() may return: equal columns, whatever their state
FindDuplicate(f) ==
    {k \in StoredExpenses :
        /\ Identified(f)
        /\ expenses[k].fields.vat = f.vat
        /\ expenses[k].fields.number = f.number}

-----------------------------------------------------------------------------
(* Classification. *)

\* BELGIAN_CATEGORY_RULES, one category of each kind
Categories == {"software", "fuel", "restaurant", "gifts"}
Percent(category) ==
    CASE category = "software" -> 100 [] category = "fuel" -> 50 [] OTHER -> 0
RequiresConfirmation(category) == category \in {"fuel", "gifts"}

Classification(treatment, detected, recoverable, percent) ==
    [treatment |-> treatment, detected |-> detected, recoverable |-> recoverable,
     percent |-> percent, confirmed |-> FALSE]

\* ROUND_HALF_UP of a share of an amount that is not negative
PercentOf(detected, percent) == (detected * percent + 50) \div 100

Blocked(f) == f.tva = None \/ ChecksFail(f) \/ f.vat = None \/ f.category \notin Categories

Classify(f) ==
    IF Blocked(f)
    THEN Classification("review_required", IF f.tva = None THEN 0 ELSE f.tva, 0, 0)
    ELSE LET percent == Percent(f.category) IN
         IF RequiresConfirmation(f.category)
         THEN Classification("review_required", f.tva, 0, percent)
         ELSE IF percent = 0
         THEN Classification("non_recoverable", f.tva, 0, 0)
         ELSE Classification(IF percent = 100 THEN "recoverable" ELSE "partial",
                             f.tva, PercentOf(f.tva, percent), percent)

\* The amounts of a TvaClassification are not negative; anything else raises.
Classifiable(f) == f.tva # None => f.tva >= 0

-----------------------------------------------------------------------------
(* The state machine. *)

\* _TRANSITIONS
CanTransition(from, to) ==
    to \in CASE from = "imported" -> {"processing"}
             [] from = "processing" -> {"extracted", "failed"}
             [] from = "extracted" -> {"validating"}
             [] from = "validating" -> {"classifying", "failed"}
             [] from = "classifying" -> {"analyzed", "failed"}
             [] from = "analyzed" -> {"reviewed", "classifying"}
             [] from = "reviewed" -> {"reconciled", "classifying"}
             [] from = "reconciled" -> {"ready", "classifying"}
             [] from = "failed" -> {"processing"}
             [] OTHER -> {}

\* _advance() over a path: every step must be an edge
Advance(path) == \A n \in 1..(Len(path) - 1) : CanTransition(path[n], path[n + 1])

-----------------------------------------------------------------------------
ExpenseAlone == Serial => \A r \in Requests : expenseTx[r] = None

\* import_document(), up to the duplicate lookup
Look(r, f) ==
    /\ expenseTx[r] = None /\ ExpenseAlone
    /\ imported < MaxImports
    /\ \E d \in IF FindDuplicate(f) = {} THEN {None} ELSE FindDuplicate(f) :
          expenseTx' = [expenseTx EXCEPT ![r] = [op |-> "import", fields |-> f, duplicate |-> d]]
    /\ UNCHANGED <<imported, expenses>>

\* The row an import adds: a failed check or a duplicate stops it at "failed".
ExpenseRow(f, duplicate) ==
    IF duplicate # None \/ ChecksFail(f)
    THEN [fields |-> f, state |-> "failed", duplicateOf |-> duplicate, classification |-> None]
    ELSE [fields |-> f, state |-> "analyzed", duplicateOf |-> None, classification |-> Classify(f)]

\* import_document(), the insert and the commit.  A row it repeats must still
\* be there (duplicate_of_id is a foreign key).
Store(r) ==
    /\ expenseTx[r] # None /\ expenseTx[r].op = "import"
    /\ imported < MaxImports
    /\ LET f == expenseTx[r].fields
           row == ExpenseRow(f, expenseTx[r].duplicate)
       IN /\ Advance(<<"imported", "processing", "extracted", "validating">>
                        \o IF row.state = "failed" THEN <<"failed">>
                           ELSE <<"classifying", "analyzed">>)
          /\ row.state # "failed" => Classifiable(f)
          /\ row.duplicateOf # None => row.duplicateOf \in StoredExpenses
          /\ imported' = imported + 1
          /\ expenses' = [expenses EXCEPT ![imported'] = row]
    /\ expenseTx' = [expenseTx EXCEPT ![r] = None]

LegalPercent(percent) == percent = None \/ percent \in 0..100

\* Faulty variant of Read: no _advance().
ReadAnyState(r, k, treatment, percent) ==
    /\ expenseTx[r] = None /\ ExpenseAlone
    /\ k \in StoredExpenses /\ expenses[k].classification # None
    /\ LegalPercent(percent)
    /\ expenseTx' = [expenseTx EXCEPT ![r] =
                        [op |-> "review", id |-> k, seen |-> expenses[k],
                         treatment |-> treatment, percent |-> percent]]
    /\ UNCHANGED <<imported, expenses>>

\* review(), up to the write: the row it judges is the one it read
Read(r, k, treatment, percent) ==
    /\ expenseTx[r] = None /\ ExpenseAlone
    /\ k \in StoredExpenses /\ expenses[k].classification # None
    /\ LegalPercent(percent)
    /\ CanTransition(expenses[k].state, "reviewed")
    /\ expenseTx' = [expenseTx EXCEPT ![r] =
                        [op |-> "review", id |-> k, seen |-> expenses[k],
                         treatment |-> treatment, percent |-> percent]]
    /\ UNCHANGED <<imported, expenses>>

\* _recoverable()
Recoverable(detected, treatment, percent) ==
    CASE treatment \in {"non_recoverable", "review_required"} -> 0
      [] treatment = "recoverable" -> detected
      [] OTHER -> PercentOf(detected, percent)

\* review(), the update and the commit: every column is written again.  A row
\* deleted meanwhile raises.
Confirm(r) ==
    /\ expenseTx[r] # None /\ expenseTx[r].op = "review"
    /\ expenseTx[r].id \in StoredExpenses
    /\ LET seen == expenseTx[r].seen
           c == seen.classification
           percent == IF expenseTx[r].percent = None THEN c.percent ELSE expenseTx[r].percent
           decided == [c EXCEPT !.treatment = expenseTx[r].treatment, !.percent = percent,
                                !.recoverable = Recoverable(c.detected, expenseTx[r].treatment, percent),
                                !.confirmed = TRUE]
       IN expenses' = [expenses EXCEPT ![expenseTx[r].id] =
                         [seen EXCEPT !.state = "reviewed", !.classification = decided]]
    /\ expenseTx' = [expenseTx EXCEPT ![r] = None]
    /\ UNCHANGED imported

\* The foreign key has no ON DELETE: a row another one repeats stays.
Deletable(k) == \A j \in StoredExpenses : expenses[j].duplicateOf # k

\* delete(), in any state of the row
DeleteExpense(k) ==
    /\ ExpenseAlone
    /\ k \in StoredExpenses /\ Deletable(k)
    /\ expenses' = [expenses EXCEPT ![k] = None]
    /\ UNCHANGED <<imported, expenseTx>>

\* The request raises or its connection is lost: rolled back.
ExpenseRollback(r) ==
    /\ expenseTx[r] # None
    /\ expenseTx' = [expenseTx EXCEPT ![r] = None]
    /\ UNCHANGED <<imported, expenses>>

ExpenseNext ==
    \/ \E r \in Requests :
          \/ \E f \in Documents : Look(r, f)
          \/ Store(r)
          \/ \E k \in Ids, t \in Treatments, p \in Percents \cup {None} : Read(r, k, t, p)
          \/ Confirm(r)
          \/ ExpenseRollback(r)
    \/ \E k \in Ids : DeleteExpense(k)

ExpenseSpec == ExpenseInit /\ [][ExpenseNext]_expenseVars

-----------------------------------------------------------------------------
(* analyze() over the documents dated in the period. *)

Analyzed ==
    {k \in StoredExpenses : expenses[k].fields.date \in Period /\ expenses[k].classification # None}

ExpenseTotal(field, S) == SumFunctionOnSet([k \in S |-> expenses[k].classification[field]], S)

Treated(treatment) == {k \in Analyzed : expenses[k].classification.treatment = treatment}
Confirmed == {k \in Analyzed : expenses[k].classification.confirmed}

TvaPosition ==
    [detected |-> ExpenseTotal("detected", Analyzed),
     confirmed_recoverable |-> ExpenseTotal("recoverable", Confirmed),
     potential_recoverable |-> ExpenseTotal("recoverable", Analyzed \ Confirmed),
     review_required |-> ExpenseTotal("detected", Treated("review_required")),
     non_recoverable |-> ExpenseTotal("detected", Treated("non_recoverable"))]

-----------------------------------------------------------------------------
Rows ==
    [fields : Documents, state : {"failed", "analyzed", "reviewed"},
     duplicateOf : Ids \cup {None}, classification : Classifications \cup {None}]

\* Also: a row carries an amount exactly if it passed its checks and repeats
\* no other.
ExpenseTypeOK ==
    /\ imported \in 0..MaxImports
    /\ expenses \in [Ids -> Rows \cup {None}]
    /\ \A k \in StoredExpenses : k <= imported
    /\ \A k \in StoredExpenses : expenses[k].classification # None <=>
          expenses[k].duplicateOf = None /\ ~ChecksFail(expenses[k].fields)

\* "Set by the duplicate check": however often one supplier document is
\* imported, and whatever is reviewed and deleted in between, one row of it at
\* most carries an amount a VAT return sums.
CountedOnce ==
    \A k, j \in StoredExpenses :
        /\ expenses[k].classification # None /\ expenses[j].classification # None
        /\ Identified(expenses[k].fields)
        /\ expenses[k].fields.vat = expenses[j].fields.vat
        /\ expenses[k].fields.number = expenses[j].fields.number
        => k = j

\* The figures of a period never claim more than the documents say: what is
\* confirmed, what is potential, what awaits review and what is excluded are
\* parts of the VAT detected, after overrides and rounding.
PositionAddsUp ==
    LET p == TvaPosition
    IN p.confirmed_recoverable + p.potential_recoverable + p.review_required + p.non_recoverable
          <= p.detected

\* The state machine has no edge from reviewed to reviewed: a decision a
\* person confirmed stands until its row is deleted.
DecisionStands ==
    [][\A k \in StoredExpenses \cap StoredExpenses' :
          expenses[k].state = "reviewed" => expenses'[k] = expenses[k]]_expenseVars
=============================================================================
