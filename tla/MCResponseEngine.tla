-------------------------- MODULE MCResponseEngine --------------------------
(* Instance of ResponseEngine for TLC: a block, a gray verdict, one with   *)
(* no confidence; three windows, so that a cap of two can be exceeded.     *)
EXTENDS ResponseEngine, TLC

CONSTANTS i1, i2, w1, w2, w3

MCVerdicts ==
  {[tier |-> "bouncer", label |-> "flood", confidence |-> 85],
   [tier |-> "detective", label |-> "uncertain", confidence |-> 84]}

MCSymmetry == Permutations({i1, i2}) \cup Permutations({w1, w2, w3})

=============================================================================
