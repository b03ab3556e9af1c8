------------------------------ MODULE MCServices ------------------------------
(***************************************************************************)
(* The services beside the ledger, on small instances.  They have no       *)
(* table, file or counter in common, so that a behaviour of the server is, *)
(* for each of them, a behaviour of that one alone: the behaviours of this *)
(* module are those of one service, whichever it is.                       *)
(***************************************************************************)
EXTENDS QuotePipeline, BackupRestore, DesktopBackups, RateLimit, ExpenseInbox,
        TemplateLibrary, InvoiceMoney, TLC

CONSTANTS i1, i2, c1, Amounts, Offs

VARIABLE service   \* the service of this behaviour

Services == {"quotes", "backup", "desktop", "rate limit", "expenses", "templates", "money"}

-----------------------------------------------------------------------------
\* One client, so that nothing but the series ties the invoices together.
OneClientOf == [i \in Invoices |-> c1]
OneInitials == [c \in Clients |-> "AB"]

\* One supplier's document as it was read, and as it may be read differently
Good == [name |-> "supplier", vat |-> [of |-> "s1", as |-> "plain"], number |-> 1, date |-> 1,
         ht |-> 100, rate |-> 21, tva |-> 21, ttc |-> 121, category |-> "software"]

MCDocuments ==
    { Good,
      [Good EXCEPT !.vat.as = "spaced"],
      [Good EXCEPT !.ttc = 124],                        \* a misread total
      [Good EXCEPT !.vat = None, !.number = 2, !.date = 2, !.tva = None],
      [Good EXCEPT !.number = 3, !.category = "fuel"],
      [Good EXCEPT !.number = 4, !.category = "restaurant"],
      [Good EXCEPT !.number = 6, !.ht = -100, !.tva = -21, !.ttc = -121] }

MCVats == {<<"S", 21>>, <<"S", 12>>, <<"S", 6>>, <<"AE", 0>>, <<"AE", 21>>}

MCLines == {[gross |-> g, off |-> o, category |-> v[1], rate |-> v[2]] :
              g \in Amounts, o \in Offs, v \in MCVats}

MCDiscounts ==
    {[type |-> "percentage", value |-> p] : p \in {10, 33, 100}}
      \cup {[type |-> "fixed", value |-> v] : v \in {2, 50}}

\* Requests are interchangeable, and so are invoices.
Symmetry == Permutations(Requests) \cup Permutations(Invoices)

-----------------------------------------------------------------------------
Init ==
    /\ service \in Services
    /\ QuoteInit /\ BackupInit /\ DesktopInit /\ RateInit /\ ExpenseInit /\ TemplateInit
    /\ MoneyInit

Next ==
    /\ UNCHANGED service
    /\ \/ /\ service = "quotes" /\ QuoteNext
          /\ UNCHANGED <<backupVars, desktopVars, rateVars, expenseVars, templateVars, moneyVars>>
       \/ /\ service = "backup" /\ BackupNext
          /\ UNCHANGED <<quoteVars, desktopVars, rateVars, expenseVars, templateVars, moneyVars>>
       \/ /\ service = "desktop" /\ DesktopNext
          /\ UNCHANGED <<quoteVars, backupVars, rateVars, expenseVars, templateVars, moneyVars>>
       \/ /\ service = "rate limit" /\ RateNext
          /\ UNCHANGED <<quoteVars, backupVars, desktopVars, expenseVars, templateVars, moneyVars>>
       \/ /\ service = "expenses" /\ ExpenseNext
          /\ UNCHANGED <<quoteVars, backupVars, desktopVars, rateVars, templateVars, moneyVars>>
       \/ /\ service = "templates" /\ TemplateNext
          /\ UNCHANGED <<quoteVars, backupVars, desktopVars, rateVars, expenseVars, moneyVars>>
       \/ /\ service = "money" /\ MoneyNext
          /\ UNCHANGED <<quoteVars, backupVars, desktopVars, rateVars, expenseVars, templateVars>>

Spec ==
    Init /\ [][Next]_<<service, quoteVars, backupVars, desktopVars, rateVars, expenseVars,
                       templateVars, moneyVars>>

-----------------------------------------------------------------------------
\* A figure that is computed in two places, or rounded in parts, is one
\* figure: an invoice's headline, its VAT buckets, the taxable amounts of its
\* e-invoice, and the parts of a VAT position.
FiguresAgree == HeadlineAgrees /\ BucketsMatchTotals /\ TaxableNetsOut /\ PositionAddsUp
=============================================================================
