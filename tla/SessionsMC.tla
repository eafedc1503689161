----------------------------- MODULE SessionsMC -----------------------------
(***************************************************************************)
(* A small instance of Sessions for TLC: two devices and two logins.       *)
(***************************************************************************)
EXTENDS Sessions, TLC

\* Devices and slots are interchangeable.
Symmetry == Permutations(Devices) \cup Permutations(Requests)
=============================================================================
