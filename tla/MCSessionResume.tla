-------------------------- MODULE MCSessionResume --------------------------
(* Two replicas, a client that posts its answers besides the connections.  *)
EXTENDS SessionResume, TLC
CONSTANTS r1, r2, x1
ReplicaSymmetry == Permutations(Replicas)
=============================================================================
