------------------------------ MODULE MCLanes -------------------------------
(* Instance of Lanes for TLC: flows of two hosts in both directions, and one *)
(* of a host to itself without a port; a capture of a conversation between   *)
(* them in both directions, and of two more at one of its ports each.        *)
EXTENDS Lanes

CONSTANTS a, b

MCFlows ==
  {[src |-> a, dst |-> b, port |-> 80],
   [src |-> b, dst |-> a, port |-> 99],
   [src |-> b, dst |-> b, port |-> NoPort]}

MCPackets ==
  {[src |-> <<a, 99>>, dst |-> <<b, 80>>],
   [src |-> <<b, 80>>, dst |-> <<a, 99>>],
   [src |-> <<b, 97>>, dst |-> <<a, 99>>],
   [src |-> <<a, 98>>, dst |-> <<b, 80>>]}

=============================================================================
