----------------------------- MODULE Experiment -----------------------------
(* The experiment scripts as programs: one after another they look for the  *)
(* data, train and save each lane, load the weights back, and write the      *)
(* report, over whatever an earlier run of the same script left on the disk; *)
(* any of them can be stopped at any step.  run_lane_substitution scores the *)
(* weights that are there.  Between two runs the data set may be downloaded  *)
(* again, with other files, or be gone.                                      *)
EXTENDS ExperimentLanes

CONSTANTS
  Corpora,      \* a script and what its loader returns of each download, [script, downloads]
  Shuffles,     \* the pairs of permutations the seeds can stand for
  Limits,       \* --limit, --detective-limit, --bouncer-limit; 0 is none
  DefaultLimit, \* detective_limit of DATASETS in run_lane_substitution_experiment.py
  MaxRuns       \* bound: runs of the script

Scripts == {"repo", "api", "cic", "unsw", "doh", "dnsexf", "cicids2018", "cicddos2019", "ciciot2023"}

\* A row of a loader.  Its source orders the replay, its group is the file, the day or
\* the capture it is from.
Row == [class : STRING, source : Int, group : Nat \ {0}, at : Int]

\* What a script can count on in the rows of a download: run_api_experiment sends the
\* events of a class from hosts of their own, the loader of CSE-CIC-IDS2018 sorts a day by
\* time, and a capture of CIC IoT 2023 has the class of its folder.
Loaded(name, r) ==
  \A i, j \in DOMAIN r :
    /\ name = "api" /\ r[i].source = r[j].source => r[i].class = r[j].class
    /\ name = "cicids2018" /\ r[i].group = r[j].group /\ i <= j => r[i].at <= r[j].at
    /\ name = "ciciot2023" /\ r[i].group = r[j].group => r[i].class = r[j].class

\* The guard is wider than a window (3.0 and 2.0 seconds).
ASSUME WindowAssumption ==
  WindowSeconds \in Nat /\ GuardSeconds \in Nat /\ WindowSeconds <= GuardSeconds

ASSUME ExperimentAssumption ==
  /\ \A c \in Corpora : /\ c.script \in Scripts /\ c.downloads \in Seq(Seq(Row)) \ {<<>>}
                        /\ \A d \in DOMAIN c.downloads : Loaded(c.script, c.downloads[d])
  /\ Limits \subseteq Nat /\ DefaultLimit \in Limits \ {0}
  /\ IsFiniteSet(DetectiveDays)

VARIABLES
  corpus,   \* [script, downloads]
  shuffles,
  data,     \* the download that is there
  run,      \* runs begun
  limit,    \* of the run
  stage,
  trained,  \* lanes this run has saved
  scores,   \* the examples of what was scored last
  verified, \* lanes this run has loaded back
  weights,  \* of each lane, on the disk: [run, data, limit, rows]
  report,   \* metrics.json: [status, run, lanes, verified]
  ended     \* how each run has ended

vars == <<corpus, shuffles, data, run, limit, stage, trained, scores, verified, weights, report, ended>>

NoWeights == [run |-> 0, data |-> 0, limit |-> 0, rows |-> {}]
NoReport == [status |-> "none", run |-> 0, lanes |-> {}, verified |-> {}]

script == corpus.script
rows == corpus.downloads[data]

ExperimentInit ==
  /\ corpus \in Corpora
  /\ shuffles \in Shuffles
  /\ data = 1 /\ run = 0 /\ limit = 0 /\ stage = "idle"
  /\ trained = {} /\ scores = {} /\ verified = {}
  /\ weights = [l \in Lanes |-> NoWeights]
  /\ report = NoReport
  /\ ended = <<>>

-----------------------------------------------------------------------------
(* The main of every script: what it does for a lane, and the lanes whose   *)
(* weights its verify_weights looks for afterwards.                          *)

\* A run that gives up writes no report.
GivesUp == [outcome |-> "gives_up", scores |-> {}]

RepoMain(lane) == IF lane = "bouncer" THEN RepoBouncer(rows) ELSE RepoDetective(rows, limit)
RepoLooks == Lanes

ApiMain(lane) == IF lane = "bouncer" THEN ApiBouncer(rows) ELSE ApiDetective(rows)
ApiLooks == Lanes

CicMain(lane) ==
  IF lane = "bouncer" THEN CicBouncer(rows, shuffles) ELSE CicDetective(rows, limit, shuffles)

\* Without a Bouncer the Detective counts as not loadable.
CicLooks == IF "bouncer" \in trained THEN Lanes ELSE {}

UnswMain(lane) ==
  IF rows = <<>> THEN GivesUp
  ELSE IF lane = "bouncer" THEN UnswBouncer(rows, limit, shuffles)
  ELSE UnswDetective(rows, limit, shuffles)

UnswLooks == Lanes

DohMain(lane) ==
  IF rows = <<>> THEN GivesUp
  ELSE IF lane = "bouncer" THEN Skipped ELSE DohDetective(rows, limit, shuffles)

DohLooks == {"detective"}

DnsExfMain(lane) ==
  IF rows = <<>> THEN GivesUp
  ELSE IF lane = "bouncer" THEN Skipped ELSE DnsExfDetective(rows, limit, shuffles)

DnsExfLooks == {"detective"}

\* Gives up without windows, when it may have saved a Bouncer.
Cicids2018Main(lane) ==
  IF lane = "bouncer" THEN Bouncer2018(rows, limit, shuffles)
  ELSE IF Windows2018(rows, "attack", limit) \o Windows2018(rows, "benign", limit) = <<>> THEN GivesUp
  ELSE Detective2018(rows, limit, shuffles)

Cicids2018Looks == trained

\* There is no Detective, and no report without a Bouncer.
Cicddos2019Main(lane) ==
  LET bouncer == Bouncer2019(rows, limit, shuffles) IN
  IF lane = "detective" THEN Skipped
  ELSE IF bouncer = Skipped THEN GivesUp
  ELSE bouncer

Cicddos2019Looks == trained

\* Gives up without rows, and when neither lane could be trained.
Ciciot2023Main(lane) ==
  LET detective == CiciotDetective(rows, limit, shuffles) IN
  IF rows = <<>> THEN GivesUp
  ELSE IF lane = "bouncer" THEN CiciotBouncer(rows, shuffles)
  ELSE IF detective = Skipped /\ trained = {} THEN GivesUp
  ELSE detective

Ciciot2023Looks == trained

Result(lane) ==
  CASE script = "repo"        -> RepoMain(lane)
    [] script = "api"         -> ApiMain(lane)
    [] script = "cic"         -> CicMain(lane)
    [] script = "unsw"        -> UnswMain(lane)
    [] script = "doh"         -> DohMain(lane)
    [] script = "dnsexf"      -> DnsExfMain(lane)
    [] script = "cicids2018"  -> Cicids2018Main(lane)
    [] script = "cicddos2019" -> Cicddos2019Main(lane)
    [] script = "ciciot2023"  -> Ciciot2023Main(lane)

Looked ==
  CASE script = "repo"        -> RepoLooks
    [] script = "api"         -> ApiLooks
    [] script = "cic"         -> CicLooks
    [] script = "unsw"        -> UnswLooks
    [] script = "doh"         -> DohLooks
    [] script = "dnsexf"      -> DnsExfLooks
    [] script = "cicids2018"  -> Cicids2018Looks
    [] script = "cicddos2019" -> Cicddos2019Looks
    [] script = "ciciot2023"  -> Ciciot2023Looks

-----------------------------------------------------------------------------
End(how) ==
  /\ ended' = Append(ended, how)
  /\ stage' = "idle" /\ trained' = {} /\ verified' = {} /\ scores' = {}

Begin ==
  /\ stage = "idle" /\ run < MaxRuns
  /\ run' = run + 1
  /\ data' \in DOMAIN corpus.downloads
  /\ limit' \in Limits
  /\ stage' = "bouncer" /\ scores' = {}
  /\ UNCHANGED <<corpus, shuffles, trained, verified, weights, report, ended>>

\* Without data run_cic_experiment.py replaces the report; the others leave it.
NoData ==
  /\ stage = "bouncer" /\ script # "api"
  /\ End("no_data")
  /\ report' = IF script = "cic" THEN [NoReport EXCEPT !.status = "NOT_RUN", !.run = run]
               ELSE report
  /\ UNCHANGED <<corpus, shuffles, data, run, limit, weights>>

After == [bouncer |-> "detective", detective |-> "verify"]
Saving == [bouncer |-> "save_bouncer", detective |-> "save_detective"]

\* What main does with the result of a lane
Proceed(lane, result) ==
  IF result.outcome = "gives_up" THEN End("gave_up")
  ELSE IF result.outcome = "raises" THEN End("raised")
  ELSE /\ scores' = result.scores
       /\ stage' = IF result.outcome = "trained" THEN Saving[lane] ELSE After[lane]
       /\ UNCHANGED <<trained, verified, ended>>

Train(lane) ==
  /\ stage = lane
  /\ Proceed(lane, Result(lane))
  /\ UNCHANGED <<corpus, shuffles, data, run, limit, weights, report>>

RowsOf(examples) == UNION {e.rows : e \in examples}

\* Mutant: both lanes are saved in the directory of the Bouncer.
SaveInOnePlace(lane) ==
  /\ stage = Saving[lane]
  /\ LET fitted == CHOOSE s \in scores : s.kind # "across"
     IN weights' = [weights EXCEPT !["bouncer"] =
                      [run |-> run, data |-> data, limit |-> limit, rows |-> RowsOf(fitted.train)]]
  /\ trained' = trained \cup {lane}
  /\ stage' = After[lane] /\ scores' = {}
  /\ UNCHANGED <<corpus, shuffles, data, run, limit, verified, report, ended>>

\* The rows the saved model was fitted on: those of the split, not of the blocks
\* across days.
Save(lane) ==
  /\ stage = Saving[lane]
  /\ LET fitted == CHOOSE s \in scores : s.kind # "across"
     IN weights' = [weights EXCEPT ![lane] =
                      [run |-> run, data |-> data, limit |-> limit, rows |-> RowsOf(fitted.train)]]
  /\ trained' = trained \cup {lane}
  /\ stage' = After[lane] /\ scores' = {}
  /\ UNCHANGED <<corpus, shuffles, data, run, limit, verified, report, ended>>

Verify ==
  /\ stage = "verify"
  /\ verified' = {l \in Looked : weights[l].run > 0}
  /\ stage' = "report"
  /\ UNCHANGED <<corpus, shuffles, data, run, limit, trained, scores, weights, report, ended>>

WriteReport ==
  /\ stage = "report"
  /\ report' = [status |-> "COMPLETE", run |-> run, lanes |-> trained, verified |-> verified]
  /\ End("complete")
  /\ UNCHANGED <<corpus, shuffles, data, run, limit, weights>>

\* Killed, out of memory, or an exception nothing catches
Crash ==
  /\ stage # "idle"
  /\ End("crashed")
  /\ UNCHANGED <<corpus, shuffles, data, run, limit, weights, report>>

\* run_dataset of run_lane_substitution_experiment.py
Substitute ==
  /\ stage = "idle" /\ script \in {"cic", "unsw"}
  /\ \A l \in Lanes : weights[l].run > 0
  /\ \A class \in {"normal", "probe"} : OfClass(rows, {class}) # <<>>
  /\ LET split == SubstitutionRows(rows, DefaultLimit, shuffles)
         windows == SubstitutionWindows(split)
         Frozen(l) == [kind |-> l, test |-> windows,
                       train |-> {[label |-> "benign", rows |-> weights[l].rows]}]
     IN /\ windows # {}
        /\ scores' = {Frozen(l) : l \in Lanes} \cup {Retrained(rows, split)}
  /\ UNCHANGED <<corpus, shuffles, data, run, limit, stage, trained, verified, weights, report, ended>>

ExperimentNext ==
  \/ Begin \/ NoData \/ Verify \/ WriteReport \/ Crash \/ Substitute
  \/ \E lane \in Lanes : Train(lane) \/ Save(lane)

ExperimentSpec == ExperimentInit /\ [][ExperimentNext]_vars

-----------------------------------------------------------------------------
(* Properties.                                                               *)

\* What a model is scored on has no row that went into what it was fitted on: not
\* through a split, not through the history of a feature or the events of a window, and
\* not across days.  Two scripts do not keep this.  run_cicddos2019 splits vectors whose
\* histories overlap, so only its blocks across days are held to it; and
\* run_lane_substitution makes the split of a Detective again, over whole files: the one
\* its weights saw only if they were trained on the same download under the same limit and
\* without --sample-per-file (which the model leaves at its default, none), and never the
\* one its Bouncer was trained under.
TestsUnseen ==
  \A s \in scores :
    \/ script = "cicddos2019" /\ s.kind = "split"
    \/ s.kind = "bouncer"
    \/ /\ s.kind = "detective"
       /\ weights["detective"].limit # DefaultLimit \/ weights["detective"].data # data
    \/ RowsOf(s.train) \cap RowsOf(s.test) = {}

\* No example is called benign that has a row of the lane's attack in its history or its
\* window: the rows beside an attack are held out, the hosts that flood lose their
\* benign rows wherever in the day they flood, and the guard around an attack is wider
\* than a window.  The exception is the Detective of run_api_experiment, which labels a
\* window by the event that closed it.
LaneScored == IF stage = "save_bouncer" THEN "bouncer" ELSE "detective"

BenignIsBenign ==
  \A s \in scores : \A e \in s.train \cup s.test :
    \/ script = "api" /\ LaneScored = "detective"
    \/ s.kind \in Lanes \/ e.label = "attack"
    \/ \A i \in e.rows : rows[i].class # AttackOf[LaneScored]

\* A run that may have saved a lane and has not written its report: run_cicids2018 gives
\* up for want of windows after it has saved its Bouncer.
CutShort(r) ==
  \/ r > Len(ended)
  \/ ended[r] = "crashed"
  \/ ended[r] = "gave_up" /\ script = "cicids2018"

\* A complete report is about the weights beside it: unless a later run was cut short,
\* every lane it scores is the one on the disk, and no other lane has been saved since;
\* a lane it scores has been loaded back, but where run_cic asks for no lane because its
\* Bouncer was skipped.  Scripts that ask only for what they have trained never vouch
\* for weights of an earlier run.
ReportIsOfTheseWeights ==
  report.status = "COMPLETE" =>
    /\ report.lanes \subseteq report.verified \/ (script = "cic" /\ "bouncer" \notin report.lanes)
    /\ script \in {"cicids2018", "cicddos2019", "ciciot2023"} => report.verified = report.lanes
    /\ \A l \in Lanes :
         \/ \E r \in report.run + 1..run : CutShort(r)
         \/ IF l \in report.lanes THEN weights[l].run = report.run ELSE weights[l].run < report.run
=============================================================================
