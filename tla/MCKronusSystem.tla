--------------------------- MODULE MCKronusSystem ---------------------------
(* Instances of KronusSystem for TLC: events from host 2 to host 1, the     *)
(* address that comes first in string order, in five environments.         *)
EXTENDS KronusSystem, TLC

CONSTANTS r1, r2, e1, e2

MCSource == [e \in Events |-> 2]
MCDest == [e \in Events |-> 1]

Attack == [label |-> "flood", confidence |-> 85]
Clear == [label |-> "benign", confidence |-> 90]

\* All entry points, on SQLite and the in-memory bus.
Local ==
  [calls |-> {"ingest_event", "handle_decoy_session", "flush_graph_window",
              "record_correction", "drain_explanation_jobs", "start_stop"},
   verdicts |-> {Attack, Clear}, interleaved |-> FALSE, broker |-> FALSE,
   mayFail |-> FALSE, mayCrash |-> FALSE, mayReject |-> TRUE, started |-> TRUE,
   maxVerdicts |-> 3, maxLog |-> 6]

\* What the API calls when serve has started it; an append or opa may raise.
Served ==
  [calls |-> {"ingest_event", "record_correction"},
   verdicts |-> {Attack, Clear}, interleaved |-> FALSE, broker |-> FALSE,
   mayFail |-> TRUE, mayCrash |-> FALSE, mayReject |-> TRUE, started |-> FALSE,
   maxVerdicts |-> 2, maxLog |-> 6]

\* Postgres, which fails, and the in-memory bus, under a process that is restarted.
Networked ==
  [calls |-> {"ingest_event", "drain_explanation_jobs"},
   verdicts |-> {Attack}, interleaved |-> TRUE, broker |-> FALSE,
   mayFail |-> TRUE, mayCrash |-> TRUE, mayReject |-> TRUE, started |-> TRUE,
   maxVerdicts |-> 2, maxLog |-> 7]

\* Redpanda: one verdict, the jobs of which come again.
Broker ==
  [Networked EXCEPT !.calls = @ \cup {"start_stop"}, !.broker = TRUE, !.mayReject = FALSE,
                    !.maxVerdicts = 1, !.maxLog = 5]

\* The networked one with one event, and nothing that fails.
Quiet ==
  [Networked EXCEPT !.mayFail = FALSE, !.mayCrash = FALSE, !.mayReject = FALSE,
                    !.maxVerdicts = 1, !.maxLog = 6]

\* A local process that drains, raises and is restarted.
Fragile == [Networked EXCEPT !.interleaved = FALSE, !.maxLog = 8]

MCEnvironments == {Local, Served, Networked, Broker, Fragile}
MCQuiet == {Quiet}

\* All events have the same addresses.
MCSymmetry == Permutations(Requests) \cup Permutations(Events)

=============================================================================
