---------------------------- MODULE DispatchingMC ----------------------------
(***************************************************************************)
(* A small instance of Dispatching for TLC: two jobs, one rep and a van    *)
(* with one seat.  A job is at noon, with the one flight or without, or    *)
(* meets that flight at a time nobody knows yet.                           *)
(***************************************************************************)
EXTENDS Dispatching, TLC

CONSTANTS van, flight

SeatsOf == van :> 1

WhensOf == {[time |-> 12, flight |-> flight], [time |-> 12, flight |-> NoFlight],
            [time |-> NoTime, flight |-> flight]}

\* Jobs and slots are interchangeable.
Symmetry == Permutations(Jobs) \cup Permutations(Requests)
=============================================================================
