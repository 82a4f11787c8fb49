----------------------- MODULE MCUdpUpstreamForwarder -----------------------
(* UdpUpstreamForwarder for TLC. *)
EXTENDS UdpUpstreamForwarder, TLC

Symmetry == Permutations(Queries) \cup Permutations(Threads)
=============================================================================
