--------------------------- MODULE ExperimentLanes ---------------------------
(* The train_bouncer and train_detective of every experiment script: what   *)
(* each lane is fitted on, what it is scored on, and when it is skipped.     *)
(* shuffles[1] is the permutation under the script's seed, shuffles[2] the   *)
(* one under seed + 1.                                                       *)
EXTENDS ExperimentData

-----------------------------------------------------------------------------
(* Rows of each class, shuffled and cut at two thirds: CIC-IDS2017,          *)
(* UNSW-NB15, DoHBrw-2020 and DNS-EXF-2021.                                  *)

\* Rows are put in the order of their sources before the replay.
SpacedVectors(rows, split, label) ==
  [side \in Sides |-> LET s == BySource(rows, split[side]) IN Vectors(rows, s, Spaced(s), label)]

SpacedWindows(split, label) ==
  [side \in Sides |-> Windows(split[side], Spaced(split[side]), label)]

BouncerByRows(rows, limit, shuffles) ==
  LET flood == Prefix(OfClass(rows, {"flood"}), limit)
      normal == Prefix(OfClass(rows, {"normal"}), limit)
      b == SplitOf(normal, shuffles[2])
      a == SplitOf(flood, shuffles[1])
  IN IF flood = <<>> \/ normal = <<>> THEN Skipped
     ELSE Trained({Scores("split", Together(SpacedVectors(rows, b, "benign"),
                                            SpacedVectors(rows, a, "attack")))})

\* A model without test windows is returned, but it is not saved and has no score.
DetectiveByRows(normal, probe, shuffles) ==
  LET sides == Together(SpacedWindows(SplitOf(normal, shuffles[1]), "benign"),
                        SpacedWindows(SplitOf(probe, shuffles[2]), "attack"))
  IN IF normal = <<>> \/ probe = <<>> \/ sides["train"] = {} \/ sides["test"] = {} THEN Skipped
     ELSE Trained({Scores("split", sides)})

CicBouncer(rows, shuffles) == BouncerByRows(rows, 0, shuffles)

CicDetective(rows, limit, shuffles) ==
  DetectiveByRows(Prefix(OfClass(rows, {"normal"}), limit),
                  Prefix(OfClass(rows, {"probe"}), limit), shuffles)

UnswBouncer(rows, limit, shuffles) == BouncerByRows(rows, limit, shuffles)

UnswDetective(rows, limit, shuffles) == CicDetective(rows, limit, shuffles)

DohDetective(rows, limit, shuffles) ==
  DetectiveByRows(Strided(OfClass(rows, {"normal"}), limit),
                  Strided(OfClass(rows, {"probe"}), limit), shuffles)

DnsExfDetective(rows, limit, shuffles) == DohDetective(rows, limit, shuffles)

-----------------------------------------------------------------------------
(* NSL-KDD (run_repo_experiment.py over services/*/train.py) and the events  *)
(* sent over the API: group 1 is what is trained on, group 2 what is tested. *)

File == [train |-> 1, test |-> 2]

RepoBouncer(rows) ==
  LET Of(classes) == [side \in Sides |-> InGroup(rows, OfClass(rows, classes), File[side])]
  IN Trained({Scores("files", Together(SpacedVectors(rows, Of({"normal", "probe"}), "benign"),
                                       SpacedVectors(rows, Of({"flood"}), "attack")))})

RepoDetective(rows, limit) ==
  LET Of(class) == [side \in Sides |->
                      Prefix(InGroup(rows, OfClass(rows, {class}), File[side]), limit \div 2)]
  IN Trained({Scores("files", Together(SpacedWindows(Of("normal"), "benign"),
                                       SpacedWindows(Of("probe"), "attack")))})

Recorded(rows, side) == InGroup(rows, Positions(rows), File[side])

\* build_api_features: one featurizer over all the labels of a side
ApiBouncer(rows) ==
  Trained({Scores("files",
    [side \in Sides |->
       LET s == Recorded(rows, side)
       IN {[label |-> IF rows[s[k]].class = "flood" THEN "attack" ELSE "benign",
            rows |-> History(rows, s, AsRecorded(rows, s), k)] : k \in DOMAIN s}])})

\* build_api_snapshots: a window has the label of the event that closed it.
ApiDetective(rows) ==
  Trained({Scores("files",
    [side \in Sides |->
       LET s == Recorded(rows, side)
           cut == Flushed(s, AsRecorded(rows, s))
       IN {[label |-> IF rows[cut[k].last].class = "probe" THEN "attack" ELSE "benign",
            rows |-> cut[k].rows] : k \in DOMAIN cut}])})

-----------------------------------------------------------------------------
(* CSE-CIC-IDS2018 and CIC-DDoS2019: days, each split by itself.             *)

\* Mutant: the test part of a day is cut out of another permutation than the
\* training part.
SplitByDayTwice(pools, shuffles, n, take) ==
  [d \in DOMAIN pools |-> SplitOf(pools[d], shuffles[IF take = "test" THEN 3 - n ELSE n])[take]]

\* _split_by_day, which is called once for the training part and once for the test
SplitByDay(pools, shuffles, n, take) ==
  [d \in DOMAIN pools |-> SplitOf(pools[d], shuffles[n])[take]]

\* Days of a pool that has nothing are not in it.
Pools(of) == [d \in {g \in DOMAIN of : of[g] # <<>>} |-> of[d]]

\* Mutant: benign rows are held out only next to the attack rows before them.
InsideAttackAfter(rows, d, t) ==
  \E i \in DOMAIN rows : /\ rows[i].group = d /\ rows[i].class # "normal"
                         /\ rows[i].at <= t /\ t <= rows[i].at + GuardSeconds

\* in_any_interval(t, attack_intervals(rows of the day))
InsideAttack(rows, d, t) ==
  \E i \in DOMAIN rows : /\ rows[i].group = d /\ rows[i].class # "normal"
                         /\ rows[i].at - GuardSeconds <= t /\ t <= rows[i].at + GuardSeconds

FloodPools2018(rows, limit) ==
  Pools([d \in Groups(rows) |-> EvenSubsample(InGroup(rows, OfClass(rows, {"flood"}), d), limit)])

BenignPools2018(rows, limit) ==
  Pools([d \in Groups(rows) |->
    LET day == InGroup(rows, OfClass(rows, {"normal"}), d)
    IN EvenSubsample(Kept(day, {k \in DOMAIN day : ~InsideAttack(rows, d, rows[day[k]].at)}), limit)])

\* _replay_bouncer_features: a fresh featurizer for every day
ReplayDays(rows, pools, label) ==
  UNION {ToSet(Vectors(rows, pools[d], AsRecorded(rows, pools[d]), label)) : d \in DOMAIN pools}

FitDays2018(rows, flood, benign, shuffles) ==
  [side \in Sides |-> ReplayDays(rows, SplitByDay(flood, shuffles, 1, side), "attack")
                        \cup ReplayDays(rows, SplitByDay(benign, shuffles, 2, side), "benign")]

Only(pools, days) == [d \in days \cap DOMAIN pools |-> pools[d]]

\* Fit on one flood day and one benign day, score the others
FitOn(rows, flood, benign, f, b) ==
  [train |-> ReplayDays(rows, Only(flood, {f}), "attack")
               \cup ReplayDays(rows, Only(benign, {b}), "benign"),
   test |-> ReplayDays(rows, Only(flood, FloodDays \ {f}), "attack")
              \cup ReplayDays(rows, Only(benign, BenignDays \ {b}), "benign")]

AcrossDays2018(rows, flood, benign) ==
  IF ~(FloodDays \subseteq DOMAIN flood /\ BenignDays \subseteq DOMAIN benign) THEN {}
  ELSE {Scores("across", FitOn(rows, flood, benign, f, b)) : f \in FloodDays, b \in BenignDays}

Bouncer2018(rows, limit, shuffles) ==
  LET flood == FloodPools2018(rows, limit)
      benign == BenignPools2018(rows, limit)
      sides == FitDays2018(rows, flood, benign, shuffles)
  IN IF DOMAIN flood = {} \/ DOMAIN benign = {} THEN Skipped
     ELSE IF ~BothClasses(sides["train"]) THEN Raises
     ELSE Trained({Scores("split", sides)} \cup AcrossDays2018(rows, flood, benign))

\* collect_detective: every day is windowed whole and never flushed, a window is an
\* attack when it starts inside an attack interval, and a day keeps the first windows
\* of each kind up to its share of the quota.
DayWindows2018(rows, label, d, limit) ==
  LET s == InGroup(rows, Positions(rows), d)
      cut == Closed(s, AsRecorded(rows, s))
      Label(w) == IF InsideAttack(rows, d, rows[w.first].at) THEN "attack" ELSE "benign"
      quota == limit \div Cardinality(DetectiveDays)
  IN Prefix(Kept(cut, {k \in DOMAIN cut : Label(cut[k]) = label}), IF quota = 0 THEN 1 ELSE quota)

\* Day after day, each in the order of its windows
Windows2018(rows, label, limit) ==
  LET windows == UNION {ToSet(DayWindows2018(rows, label, d, limit)) : d \in DetectiveDays}
      openers == {w.first : w \in windows}
      order == SortBy(openers, [i \in openers |-> rows[i].group])
  IN [k \in DOMAIN order |->
        [label |-> label, rows |-> (CHOOSE w \in windows : w.first = order[k]).rows]]

Detective2018(rows, limit, shuffles) ==
  LET attack == EvenSubsample(Windows2018(rows, "attack", limit), limit)
      benign == EvenSubsample(Windows2018(rows, "benign", limit), limit)
      a == SplitOf(attack, shuffles[1])
      b == SplitOf(benign, shuffles[2])
  IN IF attack = <<>> \/ benign = <<>> THEN Skipped
     ELSE Trained({Scores("split", [side \in Sides |-> ToSet(a[side]) \cup ToSet(b[side])])})

\* The flood hosts that _collect_day has when it drops the benign rows: those of the
\* whole day.
FloodHosts(rows, d) ==
  {rows[i].source : i \in {j \in DOMAIN rows : rows[j].group = d /\ rows[j].class = "flood"}}

\* _collect_day: all rows of the day drive one featurizer; what is split are vectors.
DayVectors(rows, d, class, label, limit) ==
  LET s == InGroup(rows, Positions(rows), d)
      kept == {k \in DOMAIN s : /\ rows[s[k]].class = class
                                /\ class = "normal" => rows[s[k]].source \notin FloodHosts(rows, d)}
  IN EvenSubsample(Kept(Vectors(rows, s, AsRecorded(rows, s), label), kept), limit)

UsableDays(rows, limit) ==
  {d \in Groups(rows) : /\ Len(DayVectors(rows, d, "flood", "attack", limit)) >= MinPerClass
                        /\ Len(DayVectors(rows, d, "normal", "benign", limit)) >= MinPerClass}

VectorsOf(pools) == UNION {ToSet(pools[d]) : d \in DOMAIN pools}

LeaveOut(flood, benign, archives, t) ==
  [train |-> VectorsOf(Only(flood, archives \ {t})) \cup VectorsOf(Only(benign, archives \ {t})),
   test |-> VectorsOf(Only(flood, {t})) \cup VectorsOf(Only(benign, {t}))]

\* Leave one day out, where there is another
AcrossDays2019(flood, benign, archives) ==
  IF ~(archives \subseteq DOMAIN flood) THEN {}
  ELSE {Scores("across", LeaveOut(flood, benign, archives, t)) : t \in {d \in archives : archives # {d}}}

Bouncer2019(rows, limit, shuffles) ==
  LET usable == UsableDays(rows, limit)
      flood == [d \in usable |-> DayVectors(rows, d, "flood", "attack", limit)]
      benign == [d \in usable |-> DayVectors(rows, d, "normal", "benign", limit)]
      sides == [side \in Sides |-> VectorsOf(SplitByDay(flood, shuffles, 1, side))
                                     \cup VectorsOf(SplitByDay(benign, shuffles, 2, side))]
  IN IF usable = {} THEN Skipped
     ELSE IF ~BothClasses(sides["train"]) THEN Raises
     ELSE Trained({Scores("split", sides)} \cup AcrossDays2019(flood, benign, Groups(rows)))

-----------------------------------------------------------------------------
(* CIC IoT 2023: whole captures are held out.                                *)

\* _pool: the captures of a family, which their first flow tells
CapturesOf(rows, class) ==
  {g \in Groups(rows) : rows[InGroup(rows, Positions(rows), g)[1]].class = class}

FlowsOf(rows, captures) == ByTime(rows, {i \in DOMAIN rows : rows[i].group \in captures})

Smaller(m, n) == IF m <= n THEN m ELSE n

\* min(n - 1, max(1, round(n * ratio))) of n captures, n >= 2
CaptureShare(n) == Smaller(n - 1, (n * 67 + 50) \div 100)

\* _split_pool: with a single capture, every third flow is for the test.
SplitPool(rows, class, shuffle) ==
  LET captures == CapturesOf(rows, class)
      held == SplitAt(InOrder(captures), shuffle, CaptureShare(Cardinality(captures)))
      flows == InOrder({i \in DOMAIN rows : rows[i].group \in captures})
      third == {k \in DOMAIN flows : k % 3 = 0}
  IN IF Cardinality(captures) >= 2
     THEN [side \in Sides |-> FlowsOf(rows, ToSet(held[side]))]
     ELSE [train |-> ByTime(rows, ToSet(Kept(flows, DOMAIN flows \ third))),
           test |-> ByTime(rows, ToSet(Kept(flows, third)))]

\* _balance_pair, _balance_windows: the larger class is strided down to the smaller.
Balanced(benign, attack, limit) ==
  LET n == Smaller(Len(benign), Len(attack))
      target == IF limit = 0 THEN n ELSE Smaller(n, limit)
  IN IF n = 0 THEN ToSet(benign) \cup ToSet(attack)
     ELSE ToSet(Strided(benign, target)) \cup ToSet(Strided(attack, target))

CiciotBouncer(rows, shuffles) ==
  LET f == SplitPool(rows, "flood", shuffles[1])
      b == SplitPool(rows, "normal", shuffles[2])
      Replay(s, label) == Vectors(rows, s, AsRecorded(rows, s), label)
  IN IF \/ Len(f["train"]) < MinPerClass \/ Len(b["train"]) < MinPerClass
        \/ f["test"] = <<>> \/ b["test"] = <<>>
     THEN Skipped
     ELSE Trained({Scores("split",
            [side \in Sides |-> Balanced(Replay(b[side], "benign"), Replay(f[side], "attack"), 0)])})

CiciotDetective(rows, limit, shuffles) ==
  LET p == SplitPool(rows, "probe", shuffles[1])
      b == SplitPool(rows, "normal", shuffles[2])
      Replay(s, label) == Windows(s, AsRecorded(rows, s), label)
  IN IF \E side \in Sides : p[side] = <<>> \/ b[side] = <<>> THEN Skipped
     ELSE Trained({Scores("split",
            [side \in Sides |-> Balanced(Replay(b[side], "benign"), Replay(p[side], "attack"), limit)])})

-----------------------------------------------------------------------------
(* run_lane_substitution_experiment.py: the split of the Detective's rows is *)
(* made again, the windows of its test side are scored by the two models on  *)
(* disk and by a Bouncer that is fitted on the training side.                *)
SubstitutionRows(rows, limit, shuffles) ==
  [benign |-> SplitOf(Prefix(OfClass(rows, {"normal"}), limit), shuffles[1]),
   attack |-> SplitOf(Prefix(OfClass(rows, {"probe"}), limit), shuffles[2])]

SubstitutionWindows(split) ==
  Together(SpacedWindows(split.benign, "benign"), SpacedWindows(split.attack, "attack"))["test"]

\* "Deliberately NOT re-sorted": the Bouncer sees the Detective's stream.
Retrained(rows, split) ==
  LET Replay(s, label) == Vectors(rows, s, Spaced(s), label) IN
  Scores("retrained",
    Together([side \in Sides |-> Replay(split.benign[side], "benign")],
             [side \in Sides |-> Replay(split.attack[side], "attack")]))

=============================================================================
