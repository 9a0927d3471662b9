--------------------------- MODULE MCPolicyClient ---------------------------
(* Instance of PolicyClient for TLC: both sides of every threshold, and a  *)
(* value below and above the legal range of confidences.                   *)
EXTENDS PolicyClient

MCConfidences == {-1, 0, 49, 50, 84, 85, 100, 101}
MCPredicted == {"flood", "port_scan", "lateral_movement", "benign"}

=============================================================================
