---------------------------- MODULE GraphBuilder ----------------------------
(***************************************************************************)
(* services/graph_builder/builder.py: WindowedGraphBuilder cuts the events *)
(* of the deep lane into tumbling windows, and build_snapshot draws the    *)
(* graph of a window.                                                      *)
(*                                                                         *)
(* The builder has no clock of its own: windows are cut by the timestamps  *)
(* that events carry, in the order in which the events arrive.  Events of  *)
(* several sensors, and events posted to the API, do not arrive in the     *)
(* order of their timestamps; an event is at most MaxLate older than the   *)
(* newest one before it.                                                   *)
(***************************************************************************)
EXTENDS EventTime, Sequences, FiniteSets, FiniteSetsExt

CONSTANTS
  Flows,       \* [src, dst, port] of the events that may arrive
  NoPort,      \* dest_port: None
  Window       \* window_seconds of the deep lane

ASSUME BuilderAssumption ==
  /\ Window \in Nat \ {0}
  /\ MaxLate \in Nat /\ MaxTime \in Nat /\ MaxEvents \in Nat

VARIABLES
  buffer,        \* _buffer
  windowStart,   \* _window_start
  emitted,       \* history: the windows handed to the Detective, in order
  arrived,       \* history: the number of events ingested
  newest         \* history: the greatest timestamp ingested

vars == <<buffer, windowStart, emitted, arrived, newest>>

NoStart == -1                 \* _window_start is None

Event(n, flow, ts) == [id |-> n, flow |-> flow, ts |-> ts]

\* A closed window.  Only one closed by an event is known to have elapsed.
Closed(events, start, elapsed) ==
  [events |-> events, start |-> start, elapsed |-> elapsed]

-----------------------------------------------------------------------------
(* build_snapshot: nodes and edges, with the features the Detective reads. *)

Where(events, Test(_)) == {i \in 1..Len(events) : Test(events[i].flow)}

Sources(events) == {events[i].flow.src : i \in 1..Len(events)}
Targets(events) == {events[i].flow.dst : i \in 1..Len(events)}

\* Mutant: only senders become nodes.
HostIdsSenders(events) == Sources(events)

\* host_ids: whoever sent or received something.
HostIds(events) == Sources(events) \cup Targets(events)

PortsOf(events, h) ==
  {events[i].flow.port : i \in Where(events, LAMBDA f : f.src = h)} \ {NoPort}

Nodes(events) ==
  [h \in HostIds(events) |->
     [degreeOut |-> Cardinality(Where(events, LAMBDA f : f.src = h)),
      degreeIn  |-> Cardinality(Where(events, LAMBDA f : f.dst = h)),
      ports     |-> Cardinality(PortsOf(events, h))]]

\* out_edges: one edge per ordered pair, carrying its number of flows.
Edges(events) ==
  [p \in {<<events[i].flow.src, events[i].flow.dst>> : i \in 1..Len(events)} |->
     Cardinality(Where(events, LAMBDA f : f.src = p[1] /\ f.dst = p[2]))]

-----------------------------------------------------------------------------
(* WindowedGraphBuilder *)

\* Mutant: an event at the very end of a window still belongs to it.
ElapsedClosed(start, ts) == ts - start > Window

\* The window that began at start is over for an event at ts.
Elapsed(start, ts) == ts - start >= Window

\* Mutant: the event that closes a window is lost.
OpenedWithNothing(e) == <<>>

\* The buffer of a window that e opens.
OpenedWith(e) == <<e>>

\* ingest: the event that finds the window elapsed closes it and opens the next.
Ingest(flow, ts) ==
  LET e == Event(arrived + 1, flow, ts)
      start == IF windowStart = NoStart THEN ts ELSE windowStart
      closes == Elapsed(start, ts) /\ buffer # <<>>
  IN /\ arrived < MaxEvents
     /\ ts >= newest - MaxLate
     /\ arrived' = arrived + 1
     /\ newest' = IF ts > newest THEN ts ELSE newest
     /\ IF closes
        THEN /\ emitted' = Append(emitted, Closed(buffer, start, TRUE))
             /\ buffer' = OpenedWith(e)
             /\ windowStart' = ts
        ELSE /\ buffer' = Append(buffer, e)
             /\ windowStart' = start
             /\ UNCHANGED emitted

\* flush, when something is buffered; otherwise it changes nothing.
Flush ==
  /\ buffer # <<>>
  /\ windowStart # NoStart
  /\ emitted' = Append(emitted, Closed(buffer, windowStart, FALSE))
  /\ buffer' = <<>>
  /\ windowStart' = NoStart
  /\ UNCHANGED <<arrived, newest>>

Init ==
  /\ buffer = <<>>
  /\ windowStart = NoStart
  /\ emitted = <<>>
  /\ arrived = 0
  /\ newest = 0

Next ==
  \/ \E flow \in Flows, ts \in Times : Ingest(flow, ts)
  \/ Flush

Spec == Init /\ [][Next]_vars

-----------------------------------------------------------------------------
(* Properties *)

Events == [id : Nat, flow : Flows, ts : Nat]

\* Buffer and windows hold events; a window is open exactly while the buffer is
\* not empty (so `and self._buffer' of ingest never keeps a window open).
TypeOK ==
  /\ buffer \in Seq(Events)
  /\ windowStart \in Nat \cup {NoStart}
  /\ windowStart = NoStart <=> buffer = <<>>
  /\ emitted \in Seq([events : Seq(Events), start : Nat, elapsed : BOOLEAN])
  /\ arrived \in Nat /\ newest \in Nat

\* A run of events is the events first, first + 1, ... in the order of arrival.
RunFrom(events, first) == \A i \in 1..Len(events) : events[i].id = first + i - 1

FirstId(k) == IF k > Len(emitted) THEN arrived - Len(buffer) + 1
              ELSE emitted[k].events[1].id

\* Every event is in exactly one window or still buffered: the windows cut the
\* stream in consecutive runs and the buffer is what is left.  The event that
\* closes a window is the first of the next (test_graph_builder.py:59-65).
EventsOnce ==
  /\ FirstId(1) = 1
  /\ RunFrom(buffer, FirstId(Len(emitted) + 1))
  /\ \A k \in 1..Len(emitted) :
       /\ emitted[k].events # <<>>
       /\ RunFrom(emitted[k].events, FirstId(k))
       /\ FirstId(k + 1) = FirstId(k) + Len(emitted[k].events)

\* A window spans less than Window seconds after its start, and reaches back
\* before it only as far as events may be late.
WindowSpan ==
  \A k \in 1..Len(emitted) : \A i \in 1..Len(emitted[k].events) :
    LET w == emitted[k] IN
    /\ w.events[i].ts < w.start + Window
    /\ w.events[i].ts >= w.start - MaxLate

\* Windows do not overlap in event time, but for late events: what comes after a
\* window that elapsed is not older than its end, less the lateness.
WindowsInOrder ==
  \A j, k \in 1..Len(emitted) : \A i \in 1..Len(emitted[k].events) :
    j < k /\ emitted[j].elapsed =>
      emitted[k].events[i].ts >= emitted[j].start + Window - MaxLate

\* Where the windows lie in event time, in one.
WindowTimes == WindowSpan /\ WindowsInOrder

\* The graph of a window accounts for every flow of it: in-degrees, out-degrees
\* and flow counts each add up to the number of events, every endpoint of an edge
\* is a node (the Detective indexes nodes by it), and a host contacts at most one
\* port per flow it sends.
GraphAccounts ==
  \A k \in 1..Len(emitted) :
    LET events == emitted[k].events
        nodes == Nodes(events)
        edges == Edges(events)
    IN /\ \A p \in DOMAIN edges : {p[1], p[2]} \subseteq DOMAIN nodes
       /\ MapThenSumSet(LAMBDA p : edges[p], DOMAIN edges) = Len(events)
       /\ MapThenSumSet(LAMBDA h : nodes[h].degreeOut, DOMAIN nodes) = Len(events)
       /\ MapThenSumSet(LAMBDA h : nodes[h].degreeIn, DOMAIN nodes) = Len(events)
       /\ \A h \in DOMAIN nodes : nodes[h].ports <= nodes[h].degreeOut

=============================================================================
