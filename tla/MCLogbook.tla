----------------------------- MODULE MCLogbook -----------------------------
(* Instance of LiveFeed for TLC: the appenders are interchangeable. *)
EXTENDS LiveFeed, TLC

MCSymmetry == Permutations(Appenders)

=============================================================================
