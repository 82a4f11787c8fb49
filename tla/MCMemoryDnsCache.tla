-------------------------- MODULE MCMemoryDnsCache --------------------------
(* MemoryDnsCache for TLC: a positive answer, a negative one whose SOA record *)
(* makes it expire at once, and a failure without an SOA record.             *)
EXTENDS CacheEvictionLoop, TLC

MCResponses ==
    { [rcode |-> 0, rr |-> {1, 2}, soa |-> <<>>],
      [rcode |-> 3, rr |-> {}, soa |-> <<0>>],
      [rcode |-> 2, rr |-> {1}, soa |-> <<>>] }

Symmetry == Permutations(Keys)
=============================================================================
