------------------------------ MODULE MCChannel ------------------------------
(* Channel on small instances.                                              *)
EXTENDS Channel, TLC

Symmetry ==
    Permutations(Senders) \cup Permutations(Receivers) \cup Permutations(Values) \cup Permutations(Slots)
=============================================================================
