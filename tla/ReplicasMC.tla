----------------------------- MODULE ReplicasMC -----------------------------
(***************************************************************************)
(* A small instance of Replicas for TLC: two pods and two legs.            *)
(***************************************************************************)
EXTENDS Replicas
=============================================================================
