----------------------------- MODULE EventTime ------------------------------
(***************************************************************************)
(* The clock of the telemetry: events and packets carry the time at which  *)
(* they happened, and need not arrive in that order.                       *)
(***************************************************************************)
EXTENDS Integers

CONSTANTS
  MaxLate,     \* how much older than an earlier one an arriving event may be
  MaxTime,     \* bound on timestamps, for TLC
  MaxEvents    \* bound on the events of a run, for TLC

Times == 0..MaxTime

=============================================================================
