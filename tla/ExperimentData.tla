--------------------------- MODULE ExperimentData ---------------------------
(* What the experiment scripts (scripts/run_*_experiment.py) train and score *)
(* their models on.  A corpus is the sequence of rows a loader returned; a   *)
(* stream is a sequence of positions of that corpus.  An example, a feature  *)
(* vector of the Bouncer or a graph window of the Detective, is kept as its  *)
(* label and the set of rows that went into it: its numbers are functions of *)
(* those rows.                                                               *)
EXTENDS Orders, SequencesExt

CONSTANTS
  WindowSeconds, \* of FlowFeaturizer and of WindowedGraphBuilder
  GuardSeconds,  \* ATTACK_INTERVAL_GUARD_SECONDS of twin/cicids2018.py
  RowSpacing,    \* ROW_SPACING_MS, in the unit of the other two
  MinPerClass,   \* MIN_ROWS_PER_CLASS, MIN_ROWS_PER_CLASS_PER_DAY
  FloodDays,     \* BOUNCER_FLOOD_DAYS
  BenignDays,    \* BOUNCER_BENIGN_DAYS
  DetectiveDays  \* DETECTIVE_DAYS

Lanes == {"bouncer", "detective"}
Sides == {"train", "test"}

\* The class a lane learns to tell from the rest: "flood" is the category dos, "probe"
\* is probe, or lateral_movement in the two tunnel datasets.
AttackOf == [bouncer |-> "flood", detective |-> "probe"]

-----------------------------------------------------------------------------
(* Streams.                                                                  *)

ByTime(rows, S) == SortBy(S, [i \in S |-> rows[i].at])
BySource(rows, s) == SortBy(ToSet(s), [i \in ToSet(s) |-> rows[i].source])

\* What s has at these positions, in its order
Kept(s, positions) ==
  LET order == InOrder(positions) IN [k \in DOMAIN order |-> s[order[k]]]

Positions(s) == [i \in DOMAIN s |-> i]

OfClass(rows, classes) == InOrder({i \in DOMAIN rows : rows[i].class \in classes})
InGroup(rows, s, g) == Kept(s, {k \in DOMAIN s : rows[s[k]].group = g})
Groups(rows) == {rows[i].group : i \in DOMAIN rows}

\* rows[:limit], where a limit of 0 is none
Prefix(s, limit) == IF limit = 0 \/ Len(s) <= limit THEN s ELSE SubSeq(s, 1, limit)

\* _bounded_sample, _evenly_spaced
Strided(s, limit) ==
  IF limit = 0 \/ Len(s) <= limit THEN s
  ELSE [k \in 1..limit |-> s[1 + ((k - 1) * Len(s)) \div limit]]

\* _even_subsample: the first and the last item are kept
EvenSubsample(s, n) ==
  IF n = 0 \/ Len(s) <= n THEN s
  ELSE [k \in 1..n |-> s[IF n = 1 THEN 1 ELSE 1 + ((k - 1) * (Len(s) - 1)) \div (n - 1)]]

\* A seed fixes a permutation order[n] of every length n; the first m of it are for
\* training, and both parts keep the order of s.
SplitAt(s, order, m) ==
  LET train == {i \in DOMAIN s : \E k \in 1..m : order[Len(s)][k] = i}
  IN [train |-> Kept(s, train), test |-> Kept(s, DOMAIN s \ train)]

\* _stratified_split with TRAIN_RATIO 0.67: int(n * ratio)
SplitOf(s, order) == SplitAt(s, order, (Len(s) * 67) \div 100)

-----------------------------------------------------------------------------
(* Examples.  at[k] is the time of the k-th event of a replay: every RowSpacing, or *)
(* when it was recorded.                                                     *)

Spaced(s) == [k \in DOMAIN s |-> k * RowSpacing]
AsRecorded(rows, s) == [k \in DOMAIN s |-> rows[s[k]].at]

\* FlowFeaturizer.features_for over a stream, in its order
History(rows, s, at, k) ==
  {s[j] : j \in {i \in 1..k : /\ rows[s[i]].source = rows[s[k]].source
                              /\ at[k] - at[i] <= WindowSeconds}}

Vectors(rows, s, at, label) ==
  [k \in DOMAIN s |-> [label |-> label, rows |-> History(rows, s, at, k)]]

\* WindowedGraphBuilder.ingest over a stream: an event that is past the window closes
\* it and opens the next.  The window of the k-th event begins with event Opener[k].
Opener(at) ==
  LET First[k \in DOMAIN at] ==
        IF k = 1 THEN 1
        ELSE LET open == First[k - 1]
             IN IF at[k] - at[open] >= WindowSeconds THEN k ELSE open
  IN First

\* ... and flush: the windows, with the rows that open and close them
Flushed(s, at) ==
  LET opener == Opener(at)
      opens == InOrder({k \in DOMAIN s : opener[k] = k})
  IN [n \in DOMAIN opens |->
        [rows |-> {s[k] : k \in {j \in DOMAIN s : opener[j] = opens[n]}},
         first |-> s[opens[n]],
         last |-> IF n = Len(opens) THEN s[Len(s)] ELSE s[opens[n + 1]]]]

\* Without a flush the last window stays open.
Closed(s, at) ==
  LET windows == Flushed(s, at) IN SubSeq(windows, 1, Len(windows) - 1)

Windows(s, at, label) ==
  LET cut == Flushed(s, at) IN [k \in DOMAIN cut |-> [label |-> label, rows |-> cut[k].rows]]

\* The examples of both classes on each side; each class was replayed on its own.
Together(benign, attack) == [side \in Sides |-> ToSet(benign[side]) \cup ToSet(attack[side])]

Scores(kind, sides) == [kind |-> kind, train |-> sides["train"], test |-> sides["test"]]

Skipped == [outcome |-> "skipped", scores |-> {}]
Raises == [outcome |-> "raises", scores |-> {}]
Trained(scores) == [outcome |-> "trained", scores |-> scores]

Labels(examples) == {e.label : e \in examples}
BothClasses(examples) == {"benign", "attack"} \subseteq Labels(examples)
=============================================================================
