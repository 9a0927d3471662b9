--------------------------- MODULE FlowFeaturizer ---------------------------
(***************************************************************************)
(* FlowFeaturizer of services/bouncer/features.py: the sliding window, per *)
(* source address, over which the fast lane computes its features.         *)
(*                                                                         *)
(* The window is evicted by the timestamp of the event at hand, from the   *)
(* front only, when an event of that source arrives.  features_for asks to *)
(* be called in the order of timestamps; its callers (POST /events, the    *)
(* replays) pass on what they are given, so an event of a source may be up *)
(* to MaxLate older than an earlier one.  What the features are computed   *)
(* from is the window as features_for leaves it.                           *)
(***************************************************************************)
EXTENDS EventTime, Sequences

CONSTANTS
  Addresses,   \* source addresses
  HistorySpan  \* window_seconds of the fast lane

ASSUME FeaturizerAssumption ==
  /\ HistorySpan \in Nat /\ MaxLate \in Nat
  /\ MaxTime \in Nat /\ MaxEvents \in Nat

VARIABLES
  history,   \* _history: the timestamps of the events kept for a source
  seen       \* history variable: the timestamps of all its events

featurizerVars == <<history, seen>>

\* Mutant: an event as old as the window is already stale.
StaleClosed(ts, now) == now - ts >= HistorySpan

Stale(ts, now) == now - ts > HistorySpan

\* _evict_stale pops the front while it is stale: k events go.
EvictedCount(q, now, k) ==
  /\ k \in 0..Len(q)
  /\ \A j \in 1..k : Stale(q[j], now)
  /\ k < Len(q) => ~Stale(q[k + 1], now)

FeaturesFor(s, ts) ==
  LET q == Append(history[s], ts) IN
  /\ Len(seen[s]) < MaxEvents
  /\ \A i \in 1..Len(seen[s]) : ts >= seen[s][i] - MaxLate
  /\ seen' = [seen EXCEPT ![s] = Append(@, ts)]
  /\ \E k \in 0..Len(q) :
       /\ EvictedCount(q, ts, k)
       /\ history' = [history EXCEPT ![s] = SubSeq(q, k + 1, Len(q))]

\* reset forgets every window.
Reset ==
  /\ history' = [s \in Addresses |-> <<>>]
  /\ seen' = [s \in Addresses |-> <<>>]

FeaturizerInit ==
  /\ history = [s \in Addresses |-> <<>>]
  /\ seen = [s \in Addresses |-> <<>>]

FeaturizerNext ==
  \/ \E s \in Addresses, ts \in Times : FeaturesFor(s, ts)
  \/ Reset

FeaturizerSpec == FeaturizerInit /\ [][FeaturizerNext]_featurizerVars

-----------------------------------------------------------------------------
(* Properties *)

\* Timestamps are naturals.
FeaturizerTypeOK ==
  /\ history \in [Addresses -> Seq(Nat)]
  /\ seen \in [Addresses -> Seq(Nat)]

Latest(s) == seen[s][Len(seen[s])]

\* A window is the tail of its own source's events, down to the event at hand:
\* features never see another source, and never divide by an empty window
\* (features.py:55-65, test_bouncer_features.py:57-62).
WindowIsTail ==
  \A s \in Addresses :
    /\ seen[s] # <<>> => history[s] # <<>>
    /\ Len(history[s]) <= Len(seen[s])
    /\ \A i \in 1..Len(history[s]) :
         history[s][i] = seen[s][Len(seen[s]) - Len(history[s]) + i]

\* No event that is too old is counted: one that eviction cannot reach, behind a
\* fresher front, is older than the window by no more than events may be late.
WindowFresh ==
  \A s \in Addresses : \A i \in 1..Len(history[s]) :
    Latest(s) - history[s][i] <= HistorySpan + MaxLate

\* No recent event is missed: eviction on behalf of a newer event, before a late
\* one arrives, costs the late one no event younger than HistorySpan - MaxLate.
WindowComplete ==
  \A s \in Addresses : \A i \in 1..Len(seen[s]) :
    Latest(s) - seen[s][i] <= HistorySpan - MaxLate => i > Len(seen[s]) - Len(history[s])

\* What the features of a source are computed from, in one.
WindowExact == WindowIsTail /\ WindowFresh /\ WindowComplete

=============================================================================
