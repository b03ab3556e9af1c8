---------------------------- MODULE QuotePipeline -----------------------------
(***************************************************************************)
(* QuoteService: an offer is drafted, sent, decided, and an accepted one   *)
(* becomes a draft invoice.  Requests interleave between any two database  *)
(* statements, as in InvoiceLedger; a conversion is three transactions     *)
(* (read the quote, create the draft invoice, mark the quote converted)    *)
(* and may stop between any two of them.                                   *)
(*                                                                         *)
(* Quote numbers are left out: next_value() is modelled in InvoiceLedger,  *)
(* and nothing a quote does depends on its number.                         *)
(***************************************************************************)
EXTENDS RequestThreads

CONSTANTS
    Quotes,     \* quote ids
    Drafts,     \* ids of the draft invoices conversions create
    Engine      \* "postgres" or "sqlite"

ASSUME PipelineAssumption ==
    /\ None \notin Drafts \cup Quotes
    /\ Engine \in {"postgres", "sqlite"}

VARIABLES
    quotes,     \* the quotes table: status and converted_invoice_id
    drafts,     \* drafts[d]: the quote d was made from, and whether it is in the invoices table
    returned,   \* history: the conversions that were answered with 201, [quote, draft]
    tx          \* tx[r]: what request r is doing

quoteVars == <<quotes, drafts, returned, tx>>

-----------------------------------------------------------------------------
StoredQuotes == {"draft", "sent", "accepted", "rejected", "expired", "converted"}

QuoteRow == [status : StoredQuotes \cup {"absent", "deleted"}, invoice : Drafts \cup {None}]

AbsentQuote == [status |-> "absent", invoice |-> None]

QuoteInTable(row) == row.status \in StoredQuotes

\* _ALLOWED, as pairs.  A decided quote stays decided.
Allowed ==
    {<<"draft", "sent">>,
     <<"sent", "accepted">>, <<"sent", "rejected">>, <<"sent", "expired">>,
     <<"accepted", "converted">>}

Transitions == {"sent", "accepted", "rejected", "expired"}

\* A request is named by the status it moves its quote to.
Ops == {"none", "delete", "converted"} \cup Transitions

(***************************************************************************)
(* A request's progress:                                                   *)
(*   checked     (convert) the quote was accepted when get() returned it   *)
(*   drafted     (convert) the draft invoice is committed                  *)
(*   read        the quote was read and the step accepted                  *)
(*   audited     (delete) the audit entry is written                       *)
(*   reselected  the repository read the row again to change it            *)
(***************************************************************************)
Phases == {"idle", "checked", "drafted", "read", "audited", "reselected"}

Tx == [phase : Phases, op : Ops, quote : Quotes \cup {None},
       draft : Drafts \cup {None},   \* the invoice create_draft() returned
       old : QuoteRow,                    \* the quote as uow.quotes.get() returned it
       fresh : QuoteRow]                  \* the row update() or delete() loaded itself

Idle == [phase |-> "idle", op |-> "none", quote |-> None,
         draft |-> None, old |-> AbsentQuote, fresh |-> AbsentQuote]

At(phase, op, q, d, old, fresh) ==
    [phase |-> phase, op |-> op, quote |-> q, draft |-> d, old |-> old, fresh |-> fresh]

QuoteInit ==
    /\ quotes = [q \in Quotes |-> AbsentQuote]
    /\ drafts = [d \in Drafts |-> [of |-> None, status |-> "absent"]]
    /\ returned = {}
    /\ tx = [r \in Requests |-> Idle]

Active(r) == tx[r].phase # "idle"

\* SQLite: a delete past its audit entry holds the write lock until it ends.
InWrite(r) == tx[r].op = "delete" /\ tx[r].phase \in {"audited", "reselected"}

MayWrite(r) == Engine = "sqlite" => \A o \in Requests \ {r} : ~InWrite(o)

May(r, q) ==
    /\ ~Active(r)
    /\ Serial => \A o \in Requests : Active(o) => tx[o].quote # q

-----------------------------------------------------------------------------
\* create(): numbered and inserted in one transaction.
Create(q) ==
    /\ quotes[q].status = "absent"
    /\ Engine = "sqlite" => \A r \in Requests : ~InWrite(r)
    /\ quotes' = [quotes EXCEPT ![q] = [status |-> "draft", invoice |-> None]]
    /\ UNCHANGED <<drafts, returned, tx>>

\* Faulty variant of BeginTransition: _transition() without its check.
BeginTransitionAny(r, q, target) ==
    /\ May(r, q)
    /\ QuoteInTable(quotes[q])
    /\ tx' = [tx EXCEPT ![r] = At("read", target, q, None, quotes[q], AbsentQuote)]
    /\ UNCHANGED <<quotes, drafts, returned>>

\* _transition() up to its check, for mark_sent(), accept(), reject() and expire().
\* Nothing here looks at valid_until: an offer past it can still be accepted.
BeginTransition(r, q, target) ==
    /\ May(r, q)
    /\ <<quotes[q].status, target>> \in Allowed
    /\ tx' = [tx EXCEPT ![r] = At("read", target, q, None, quotes[q], AbsentQuote)]
    /\ UNCHANGED <<quotes, drafts, returned>>

\* convert(), first transaction: get() and the two status checks.
BeginConvert(r, q) ==
    /\ May(r, q)
    /\ quotes[q].status = "accepted"
    /\ tx' = [tx EXCEPT ![r] = At("checked", "converted", q, None, quotes[q], AbsentQuote)]
    /\ UNCHANGED <<quotes, drafts, returned>>

\* convert(), second transaction: InvoiceService.create_draft().
CreateInvoice(r, d) ==
    LET q == tx[r].quote
    IN  /\ tx[r].phase = "checked"
        /\ drafts[d].status = "absent"
        /\ MayWrite(r)
        /\ drafts' = [drafts EXCEPT ![d] = [of |-> q, status |-> "draft"]]
        /\ tx' = [tx EXCEPT ![r] = At("drafted", "converted", q, d, tx[r].old, AbsentQuote)]
        /\ UNCHANGED <<quotes, returned>>

\* convert(), third transaction: _transition() reads and checks the quote again.
ReadForConvert(r) ==
    LET q == tx[r].quote
    IN  /\ tx[r].phase = "drafted"
        /\ <<quotes[q].status, "converted">> \in Allowed
        /\ tx' = [tx EXCEPT ![r] = At("read", "converted", q, tx[r].draft, quotes[q], AbsentQuote)]
        /\ UNCHANGED <<quotes, drafts, returned>>

\* update() loads the row itself.
Reselect(r) ==
    LET t == tx[r]
    IN  /\ t.phase = "read" /\ t.op # "delete"
        /\ QuoteInTable(quotes[t.quote])
        /\ tx' = [tx EXCEPT ![r] = At("reselected", t.op, t.quote, t.draft, t.old, quotes[t.quote])]
        /\ UNCHANGED <<quotes, drafts, returned>>

Column(new, fresh, current) == IF new # fresh THEN new ELSE current

\* Faulty variant of Link: convert() does not pass converted_invoice_id.
LinkForgotten(t) == t.old.invoice

\* Only a conversion sets converted_invoice_id; the other columns come from the copy that
\* get() returned.
Link(t) == IF t.op = "converted" THEN t.draft ELSE t.old.invoice

\* The UPDATE carries the columns in which the caller's copy differs from the reloaded row.
Merged(t) ==
    [status  |-> Column(t.op, t.fresh.status, quotes[t.quote].status),
     invoice |-> Column(Link(t), t.fresh.invoice, quotes[t.quote].invoice)]

\* An UPDATE of a row that has gone matches nothing and the unit of work rolls back.
CommitTransition(r) ==
    LET t == tx[r]
    IN  /\ t.phase = "reselected" /\ t.op # "delete"
        /\ MayWrite(r)
        /\ QuoteInTable(quotes[t.quote])
        /\ quotes' = [quotes EXCEPT ![t.quote] = Merged(t)]
        /\ returned' = IF t.op = "converted"
                       THEN returned \cup {[quote |-> t.quote, draft |-> t.draft]}
                       ELSE returned
        /\ tx' = [tx EXCEPT ![r] = Idle]
        /\ UNCHANGED drafts

-----------------------------------------------------------------------------
\* delete(): a converted quote is refused.
BeginDelete(r, q) ==
    /\ May(r, q)
    /\ quotes[q].status \in StoredQuotes \ {"converted"}
    /\ tx' = [tx EXCEPT ![r] = At("read", "delete", q, None, quotes[q], AbsentQuote)]
    /\ UNCHANGED <<quotes, drafts, returned>>

InsertAudit(r) ==
    LET t == tx[r]
    IN  /\ t.phase = "read" /\ t.op = "delete"
        /\ MayWrite(r)
        /\ tx' = [tx EXCEPT ![r] = At("audited", "delete", t.quote, None, t.old, AbsentQuote)]
        /\ UNCHANGED <<quotes, drafts, returned>>

\* The repository's delete() looks at converted_invoice_id, not at the status.
ReselectDelete(r) ==
    LET t == tx[r]
        row == quotes[t.quote]
    IN  /\ t.phase = "audited"
        /\ QuoteInTable(row) /\ row.invoice = None
        /\ tx' = [tx EXCEPT ![r] = At("reselected", "delete", t.quote, None, t.old, row)]
        /\ UNCHANGED <<quotes, drafts, returned>>

\* DELETE ... WHERE id = ?.
CommitDelete(r) ==
    LET t == tx[r]
    IN  /\ t.phase = "reselected" /\ t.op = "delete"
        /\ MayWrite(r)
        /\ quotes' = [quotes EXCEPT ![t.quote] = [status |-> "deleted", invoice |-> None]]
        /\ tx' = [tx EXCEPT ![r] = Idle]
        /\ UNCHANGED <<drafts, returned>>

\* InvoiceService.delete_draft() on a draft a conversion made: it knows nothing of quotes.
DeleteInvoice(d) ==
    /\ drafts[d].status = "draft"
    /\ Engine = "sqlite" => \A r \in Requests : ~InWrite(r)
    /\ drafts' = [drafts EXCEPT ![d] = [of |-> drafts[d].of, status |-> "deleted"]]
    /\ UNCHANGED <<quotes, returned, tx>>

\* A refused check, an error or a crash ends the request: the open transaction is rolled
\* back, and a draft invoice that was already committed stays.
Fail(r) ==
    /\ Active(r)
    /\ tx' = [tx EXCEPT ![r] = Idle]
    /\ UNCHANGED <<quotes, drafts, returned>>

Begin(r) ==
    \E q \in Quotes :
        \/ \E target \in Transitions : BeginTransition(r, q, target)
        \/ BeginConvert(r, q)
        \/ BeginDelete(r, q)

Work(r) ==
    \/ \E d \in Drafts : CreateInvoice(r, d)
    \/ ReadForConvert(r) \/ Reselect(r) \/ InsertAudit(r) \/ ReselectDelete(r)

QuoteNext ==
    \/ \E q \in Quotes : Create(q)
    \/ \E d \in Drafts : DeleteInvoice(d)
    \/ \E r \in Requests : \/ Begin(r) \/ Work(r) \/ Fail(r)
                           \/ CommitTransition(r) \/ CommitDelete(r)

QuoteSpec == QuoteInit /\ [][QuoteNext]_quoteVars

-----------------------------------------------------------------------------
\* The tables and the requests in flight keep their shape; every conversion that was answered
\* names a quote and a draft invoice, whatever failed in between (QuoteService.convert()).
QuoteTypeOK ==
    /\ quotes \in [Quotes -> QuoteRow]
    /\ drafts \in [Drafts -> [of : Quotes \cup {None}, status : {"absent", "draft", "deleted"}]]
    /\ returned \subseteq [quote : Quotes, draft : Drafts]
    /\ tx \in [Requests -> Tx]

\* convert(): "Turn an accepted quote into a DRAFT invoice, once".  A conversion that was
\* answered with success is the only one of its quote, the quote says converted and links
\* to the very invoice of the answer, for good.
ConvertHonoured ==
    \A c \in returned :
        /\ quotes[c.quote].status = "converted"
        /\ quotes[c.quote].invoice = c.draft
        /\ drafts[c.draft].of = c.quote

\* _ALLOWED: "A quote that has been decided stays decided".  Whatever the interleaving, a
\* status only moves along _ALLOWED, and only a quote that was not converted is deleted.
DecidedStaysDecided ==
    [][\A q \in Quotes :
          LET before == quotes[q].status
              after == quotes'[q].status
          IN  after # before =>
                \/ before = "absent" /\ after = "draft"
                \/ <<before, after>> \in Allowed
                \/ after = "deleted" /\ before \in StoredQuotes \ {"converted"}]_quotes
=============================================================================
