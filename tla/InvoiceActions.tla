---- MODULE InvoiceActions ----
(***************************************************************************)
(* The actions on existing invoices, from the list with its document sheet *)
(* (HistoryPanel) or from the record screen (InvoiceDetailPanel): issue,   *)
(* delete, void, credit note, payment, duplicate.  Each goes through a     *)
(* dialog to a React Query mutation; what the screen shows is a cached     *)
(* copy that other users make stale; answers may be refused or lost.       *)
(* The server is the outcome of the services' status checks, the ledger of *)
(* InvoiceLedger in one step.                                              *)
(***************************************************************************)
EXTENDS Naturals, Sequences, FiniteSets, SequencesExt

CONSTANTS Invoices,     \* the invoices of the list
          MaxForms,     \* bound on the dialogs opened
          MaxPresses,   \* bound on the submissions
          MaxLosses,    \* bound on lost answers
          MaxOthers     \* bound on what other users do

ASSUME ActionsAssumption ==
    MaxForms \in Nat /\ MaxPresses \in Nat /\ MaxLosses \in Nat /\ MaxOthers \in Nat

VARIABLES screen,    \* "list" or "detail"
          status,    \* the server's status of each invoice
          shown,     \* the status the screen shows
          dialog,    \* the open dialog, or NoDialog
          form,      \* history: which filling of the form is on the screen
          sent,      \* the mutations under way
          failed,    \* the mutation hooks in the state isError
          rejected,  \* history: the forms whose last answer was an error
          recorded,  \* history: the payments and credit notes the server recorded
          deleted,   \* history: this screen was told its invoice was deleted
          gone,      \* the screen navigated away
          presses, losses, others

actVars == <<screen, status, shown, dialog, form, sent, failed, rejected, recorded, deleted, gone,
             presses, losses, others>>

Statuses == {"draft", "issued", "partially_paid", "paid", "voided", "absent"}
Kinds == {"issue", "delete", "void", "credit_note", "payment", "duplicate"}
NoDialog == [kind |-> "none"]

(***************************************************************************)
(* What the services accept and what an accepted action leaves.            *)
(***************************************************************************)
Legal(kind, s) ==
    CASE kind \in {"issue", "delete"} -> s = "draft"
      [] kind = "payment" -> s \in {"issued", "partially_paid"}
      [] kind \in {"void", "credit_note"} -> s \notin {"voided", "absent"}
      [] kind = "duplicate" -> s # "absent"

After(kind, s) ==
    CASE kind = "issue" -> {"issued"}
      [] kind = "delete" -> {"absent"}
      [] kind = "payment" -> {"partially_paid", "paid"}
      [] kind \in {"void", "credit_note"} -> {"voided"}
      [] kind = "duplicate" -> {s}

\* sheetActions and ActionsCard: the actions offered for the status shown.
Offered(s) ==
    IF s = "draft" THEN {"issue", "delete"}
    ELSE IF s \in {"voided", "absent"} THEN {}
    ELSE {"void", "credit_note"} \cup (IF screen = "list" /\ s = "paid" THEN {} ELSE {"payment"})

ActTypeOK ==
    /\ screen \in {"list", "detail"}
    /\ status \in [Invoices -> Statuses] /\ shown \in [Invoices -> Statuses]
    /\ dialog # NoDialog => dialog.invoice \in Invoices /\ dialog.kind \in Kinds
    /\ \A m, n \in sent : m.kind = n.kind /\ m.latest /\ n.latest => m = n
    /\ failed \subseteq Kinds /\ form \in 0..MaxForms

ActInit ==
    /\ screen \in {"list", "detail"}
    /\ status \in [Invoices -> {"draft", "issued"}] /\ shown = status
    /\ dialog = NoDialog /\ form = 0 /\ sent = {} /\ failed = {}
    /\ rejected = {} /\ recorded = <<>> /\ deleted = FALSE /\ gone = FALSE
    /\ presses = 0 /\ losses = 0 /\ others = 0

Pending == {m.kind : m \in {n \in sent : n.latest}}
ActionPending == Pending # {}

\* Starting a mutation: the hook forgets its last error, and the callbacks of
\* an earlier mutation of the same hook are dropped.
Mutate(kind, i) ==
    /\ presses < MaxPresses /\ presses' = presses + 1
    /\ failed' = failed \ {kind}
    /\ sent' = {IF m.kind = kind THEN [m EXCEPT !.latest = FALSE] ELSE m : m \in sent}
               \cup {[kind |-> kind, invoice |-> i, form |-> form, latest |-> TRUE,
                      press |-> presses]}

World == <<screen, status, shown, rejected, recorded, deleted, gone, losses, others>>

(***************************************************************************)
(* The dialogs.  closeAction resets every field: a dialog opened later is  *)
(* another filling of the form.                                            *)
(***************************************************************************)
\* setAction: the list opens it from the sheet, also while a mutation is
\* pending; the record screen disables its buttons meanwhile.
StartAction(kind, i) ==
    /\ ~gone /\ dialog = NoDialog /\ form < MaxForms
    /\ kind \in Offered(shown[i])
    /\ screen = "detail" => ~ActionPending
    /\ dialog' = [kind |-> kind, invoice |-> i] /\ form' = form + 1
    /\ UNCHANGED <<World, sent, failed, presses>>

CloseAction ==
    /\ ~gone /\ dialog # NoDialog
    /\ dialog' = NoDialog
    /\ UNCHANGED <<World, form, sent, failed, presses>>

\* Faulty variant of SubmitAction: the submit button is never disabled.
SubmitActionAgain ==
    /\ ~gone /\ dialog # NoDialog
    /\ screen = "list" \/ dialog.kind \in {"void", "credit_note", "payment"}
    /\ Mutate(dialog.kind, dialog.invoice)
    /\ UNCHANGED <<World, dialog, form>>

\* The form of the dialog: its submit button is disabled while anything is
\* pending.
SubmitAction ==
    /\ ~gone /\ dialog # NoDialog /\ ~ActionPending
    /\ screen = "list" \/ dialog.kind \in {"void", "credit_note", "payment"}
    /\ Mutate(dialog.kind, dialog.invoice)
    /\ UNCHANGED <<World, dialog, form>>

\* The record screen confirms issue and delete in a ConfirmDialog, whose
\* button knows nothing of the mutation.
ConfirmAction ==
    /\ ~gone /\ screen = "detail" /\ dialog.kind \in {"issue", "delete"}
    /\ Mutate(dialog.kind, dialog.invoice)
    /\ UNCHANGED <<World, dialog, form>>

Duplicate(i) ==
    /\ ~gone /\ screen = "detail" /\ dialog = NoDialog /\ ~ActionPending
    /\ shown[i] # "absent"
    /\ Mutate("duplicate", i)
    /\ UNCHANGED <<World, dialog, form>>

(***************************************************************************)
(* The answers.                                                            *)
(***************************************************************************)
Record(m, lost) ==
    recorded' = IF m.kind \in {"payment", "credit_note"}
                THEN Append(recorded, [form |-> m.form, lost |-> lost]) ELSE recorded

\* Success: the queries refetch, and the callback of the hook's latest
\* mutation closes the dialog, or leaves the screen.
Accepted(m) ==
    /\ Legal(m.kind, status[m.invoice])
    /\ \E s \in After(m.kind, status[m.invoice]) : status' = [status EXCEPT ![m.invoice] = s]
    /\ shown' = status'
    /\ Record(m, FALSE)
    /\ sent' = sent \ {m}
    /\ deleted' = (deleted \/ m.kind = "delete")
    /\ dialog' = IF m.latest /\ m.kind # "duplicate" THEN NoDialog ELSE dialog
    /\ gone' = (gone \/ (m.latest /\ screen = "detail" /\ m.kind \in {"delete", "duplicate"}))
    /\ UNCHANGED <<screen, form, failed, rejected, presses, losses, others>>

Refused(m) ==
    /\ ~Legal(m.kind, status[m.invoice])
    /\ sent' = sent \ {m}
    /\ failed' = IF m.latest THEN failed \cup {m.kind} ELSE failed
    /\ rejected' = rejected \cup {m.form}
    /\ UNCHANGED <<screen, status, shown, dialog, form, recorded, deleted, gone, presses,
                   losses, others>>

\* The action is done and its answer lost.
AnswerLost(m) ==
    /\ losses < MaxLosses /\ losses' = losses + 1
    /\ Legal(m.kind, status[m.invoice])
    /\ \E s \in After(m.kind, status[m.invoice]) : status' = [status EXCEPT ![m.invoice] = s]
    /\ Record(m, TRUE)
    /\ sent' = sent \ {m}
    /\ failed' = IF m.latest THEN failed \cup {m.kind} ELSE failed
    /\ rejected' = rejected \cup {m.form}
    /\ UNCHANGED <<screen, shown, dialog, form, deleted, gone, presses, others>>

\* Another user or tab; the screen keeps what it read until a refetch.
Elsewhere(kind, i) ==
    /\ others < MaxOthers /\ others' = others + 1
    /\ kind # "duplicate" /\ Legal(kind, status[i])
    /\ \E s \in After(kind, status[i]) : status' = [status EXCEPT ![i] = s]
    /\ UNCHANGED <<screen, shown, dialog, form, sent, failed, rejected, recorded, deleted, gone,
                   presses, losses>>

Refetch ==
    /\ shown # status /\ shown' = status
    /\ UNCHANGED <<screen, status, dialog, form, sent, failed, rejected, recorded, deleted, gone,
                   presses, losses, others>>

Answer(m) == Accepted(m) \/ Refused(m)

ActNext ==
    \/ \E kind \in Kinds, i \in Invoices : StartAction(kind, i) \/ Elsewhere(kind, i)
    \/ CloseAction \/ SubmitAction \/ ConfirmAction \/ Refetch
    \/ \E i \in Invoices : Duplicate(i)
    \/ \E m \in sent : Answer(m) \/ AnswerLost(m)

ActSpec == ActInit /\ [][ActNext]_actVars

(***************************************************************************)
(* Properties.                                                             *)
(***************************************************************************)

\* One filling of the form records at most one payment or credit note, unless
\* the first answer was lost: submit is disabled while a mutation is pending
\* and a success empties the form, on both screens, also when the dialog was
\* closed and another opened meanwhile.
RecordedOnce ==
    \A i, j \in DOMAIN recorded :
        i < j /\ recorded[i].form = recorded[j].form => recorded[i].lost

\* The list tells the outcome of every action: when the answer to the form on
\* the screen was an error and nothing is pending, the dialog says so
\* (actionFailed looks at all five hooks, and no hook forgets its error early).
OutcomeShown ==
    screen = "list" /\ dialog # NoDialog /\ form \in rejected /\ ~ActionPending
        => failed # {}
====
