------------------------------- MODULE Lanes --------------------------------
(***************************************************************************)
(* What the two lanes make of the events they are fed.  An event goes to   *)
(* the fast lane's features first and to the deep lane's window then       *)
(* (pipeline/kronus_system.py, ingest_event).  The events are those that   *)
(* sensors and clients post, late ones among them, or the flows of a       *)
(* capture, which the experiments replay at the times they began: then the *)
(* extraction (FlowExtraction) has put them in order.                      *)
(***************************************************************************)
EXTENDS FlowFeaturizer, GraphBuilder, FlowExtraction

CONSTANTS
  Resets   \* bound on the resets of the featurizer, for TLC

\* flow_row_to_event: the addresses of a row, or packet, and the port it goes to.
FlowOf(f) == [src |-> f.src[1], dst |-> f.dst[1], port |-> f.dst[2]]

ASSUME LanesAssumption ==
  /\ Resets \in Nat
  /\ \A flow \in Flows : flow.src \in Addresses
  /\ \A p \in Packets : FlowOf(p) \in Flows

VARIABLES
  origin,    \* where the events come from: "posted" or "capture"
  replayed,  \* how many flows of the capture have been replayed
  resets     \* how often the featurizer was reset

lanes == <<featurizerVars, vars>>
allVars == <<lanes, extractionVars, origin, replayed, resets>>

IngestEvent(flow, ts) == FeaturesFor(flow.src, ts) /\ Ingest(flow, ts)

Post(flow, ts) ==
  /\ origin = "posted"
  /\ IngestEvent(flow, ts)
  /\ UNCHANGED <<extractionVars, origin, replayed, resets>>

Extract ==
  /\ origin = "capture"
  /\ \/ \E p \in Packets, ts \in Times : ReadPacket(p, ts)
     \/ DropFrame
     \/ EndOfCapture
  /\ UNCHANGED <<lanes, origin, replayed, resets>>

Replay ==
  LET f == finished[replayed + 1] IN
  /\ origin = "capture"
  /\ extraction = "extracted"
  /\ replayed < Len(finished)
  /\ IngestEvent(FlowOf(f), f.first)
  /\ replayed' = replayed + 1
  /\ UNCHANGED <<extractionVars, origin, resets>>

\* A window may be flushed at any time, and at the end of a replay is.
FlushWindow ==
  /\ Flush
  /\ origin = "capture" => extraction = "extracted" /\ replayed = Len(finished)
  /\ UNCHANGED <<featurizerVars, extractionVars, origin, replayed, resets>>

\* Nothing calls reset yet; between two replays is where a run would.
ResetFeatures ==
  /\ origin = "posted"
  /\ buffer = <<>> /\ arrived > 0
  /\ resets < Resets
  /\ Reset
  /\ resets' = resets + 1
  /\ UNCHANGED <<vars, extractionVars, origin, replayed>>

LanesInit ==
  /\ FeaturizerInit /\ Init /\ ExtractionInit
  /\ origin \in {"posted", "capture"}
  /\ replayed = 0
  /\ resets = 0

LanesNext ==
  \/ \E flow \in Flows, ts \in Times : Post(flow, ts)
  \/ Extract
  \/ Replay
  \/ FlushWindow
  \/ ResetFeatures

LanesSpec == LanesInit /\ [][LanesNext]_allVars

-----------------------------------------------------------------------------

\* A replay knows no late events, though the capture may: windows then overlap
\* nowhere, a window starts with its oldest event, and the features are computed from
\* exactly the flows of the last HistorySpan.
ReplayInOrder ==
  origin = "capture" =>
    /\ \A k \in 1..Len(emitted) : \A i \in 1..Len(emitted[k].events) :
         LET ts == emitted[k].events[i].ts IN
         /\ emitted[k].start <= ts /\ ts < emitted[k].start + Window
         /\ \A j \in 1..(k - 1) : ts >= emitted[j].start + Window
    /\ \A s \in Addresses : \A i \in 1..Len(seen[s]) :
         Latest(s) - seen[s][i] <= HistorySpan <=> i > Len(seen[s]) - Len(history[s])

\* A capture gives the lanes exactly what it holds: its packets cut into flows, and its
\* flows fed in order.
CaptureExact == FlowsCut /\ ReplayInOrder

=============================================================================
