------------------------------- MODULE MCAssetPilot -------------------------------
(* Instances of AssetPilot and of its Promises for TLC: ids are model values. *)
EXTENDS Promises, TLC

\* Every request is filed straight to IT.
DirectToIT == {<<"pending_it_approval", "not_required">>}

\* Ids of one kind that the configuration does not tell apart.
IdSymmetry ==
  Permutations(Items \ ClientItems) \cup Permutations(ClientItems)
    \cup Permutations(Requests) \cup Permutations(Users)
    \cup Permutations(Tickets) \cup Permutations(Extensions)
=============================================================================
