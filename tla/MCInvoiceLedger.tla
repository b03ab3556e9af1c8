--------------------------- MODULE MCInvoiceLedger ----------------------------
(***************************************************************************)
(* Small instances of InvoiceLedger.                                       *)
(***************************************************************************)
EXTENDS InvoiceLedger, TLC

CONSTANTS i1, i2, i3, c1, c2

\* i1 is drawn up for one client, the others for another.
MCClientOf == [i \in Invoices |-> IF i = i1 THEN c1 ELSE c2]

\* Clients whose names give the same initials, so that their references can collide ...
MCSameInitials == [c \in Clients |-> "AB"]

\* ... and clients whose names do not.
MCInitials == [c \in Clients |-> IF c = c1 THEN "AB" ELSE "CD"]

\* Requests are interchangeable.
Symmetry == Permutations(Requests)
=============================================================================
