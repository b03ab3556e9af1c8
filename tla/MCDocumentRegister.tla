-------------------------- MODULE MCDocumentRegister --------------------------
(***************************************************************************)
(* Small instances of DocumentRegister.                                    *)
(***************************************************************************)
EXTENDS DocumentRegister, TLC

\* Every invoice has a path of its own.
MCOwnPaths == [i \in Invoices |-> i]

Symmetry == Permutations(Requests)
=============================================================================
