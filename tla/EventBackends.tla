--------------------------- MODULE EventBackends ----------------------------
(***************************************************************************)
(* The event bus of a process: which one it is, api/serve.py decides from  *)
(* its configuration when it starts.                                       *)
(***************************************************************************)
EXTENDS EventBus, Redpanda

VARIABLE backend   \* event_bus_backend

backendVars == <<vars, redpandaVars, backend>>

\* _build_event_bus
BackendInit ==
  /\ backend \in {"memory", "redpanda"}
  /\ Init
  /\ RedpandaInit

BackendNext ==
  /\ UNCHANGED backend
  /\ \/ backend = "memory" /\ Next /\ UNCHANGED redpandaVars
     \/ backend = "redpanda" /\ RedpandaNext /\ UNCHANGED vars

BackendFairness ==
  \A r \in Steady :
    /\ WF_backendVars(backend = "memory" /\ Subscribe(r) /\ UNCHANGED <<redpandaVars, backend>>)
    /\ WF_backendVars(backend = "memory" /\ Get(r) /\ UNCHANGED <<redpandaVars, backend>>)

BackendSpec == BackendInit /\ [][BackendNext]_backendVars /\ BackendFairness

=============================================================================
