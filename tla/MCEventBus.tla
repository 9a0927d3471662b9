----------------------------- MODULE MCEventBus -----------------------------
(* Instance of EventBackends for TLC: two groups, one of them with two      *)
(* readers that compete; queue objects enough to register again after a     *)
(* close, and sessions enough for a group to begin again twice.             *)
EXTENDS EventBackends, TLC

CONSTANTS r1, r2, r3, bouncer, graph

MCGroupOf == (r1 :> bouncer) @@ (r2 :> bouncer) @@ (r3 :> graph)

=============================================================================
