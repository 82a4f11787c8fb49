----------------------- MODULE MCTcpUpstreamForwarder -----------------------
(* TcpUpstreamForwarder for TLC. *)
EXTENDS TcpUpstreamForwarder, TLC

Symmetry == Permutations(Queries) \cup Permutations(Conns)
=============================================================================
