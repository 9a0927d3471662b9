---- MODULE MCModelRegistry ----
(* Instances of ModelRegistry for TLC. *)
EXTENDS ModelRegistry, TLC

CONSTANTS a, b

MCSaveOrder == <<"bouncer.json", "calibration.json">>
MCSymmetry == Permutations({a, b})

====
