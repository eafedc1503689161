---------------------------- MODULE InvoicingMC ----------------------------
(***************************************************************************)
(* A small instance of Invoicing for TLC: two jobs and two invoices, of    *)
(* every kind, with two requests at a time.                                *)
(***************************************************************************)
EXTENDS Invoicing, TLC

\* Jobs and slots are interchangeable.
Symmetry == Permutations(Jobs) \cup Permutations(Requests)
=============================================================================
