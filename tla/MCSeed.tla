----------------------------------- MODULE MCSeed -----------------------------------
(* Instances of the API on a seeded database for TLC: ids are model values. *)
EXTENDS Seed, TLC

IdSymmetry ==
  Permutations(Items \ ClientItems) \cup Permutations(ClientItems)
    \cup Permutations(Requests) \cup Permutations(Users)
    \cup Permutations(Tickets) \cup Permutations(Extensions)
=============================================================================
