-------------------------- MODULE ExperimentProofs --------------------------
EXTENDS Experiment, LoaderProofs, FiniteSetTheorems, SequenceTheorems, WellFoundedInduction, TLAPS

-----------------------------------------------------------------------------
(* A report and the weights beside it *)

Stages == {"idle", "bouncer", "save_bouncer", "detective", "save_detective", "verify", "report"}
Endings == {"no_data", "gave_up", "raised", "complete", "crashed"}

\* The scripts that give up when their loader returns nothing.
NeedRows == {"unsw", "doh", "dnsexf", "ciciot2023"}

\* The scripts that train no Bouncer.
TunnelScripts == {"doh", "dnsexf"}

TypeInv ==
  /\ script \in Scripts
  /\ run \in Nat
  /\ stage \in Stages
  /\ trained \subseteq Lanes
  /\ weights = [l \in Lanes |-> weights[l]]
  /\ \A l \in Lanes : weights[l].run \in 0..run
  /\ report.run \in 0..run
  /\ report.lanes \subseteq Lanes
  /\ ended \in Seq(Endings)
  /\ Len(ended) = IF stage = "idle" THEN run ELSE run - 1

\* What a run under way has saved.
RunInv ==
  /\ stage = "idle" => trained = {}
  /\ stage \in {"bouncer", "save_bouncer"} => trained = {}
  /\ stage \in {"detective", "save_detective"} => "detective" \notin trained
  /\ stage # "idle" => \A l \in Lanes : weights[l].run = run <=> l \in trained
  /\ script \in TunnelScripts => stage # "save_bouncer" /\ "bouncer" \notin trained
  /\ script \in NeedRows /\ stage \notin {"idle", "bouncer"} => rows # <<>>
  /\ stage = "report" => verified = {l \in Looked : weights[l].run > 0}
  /\ stage # "idle" => report.run < run

\* A run that was not cut short, and is not the one reported, has left no weights.
EndedInv ==
  \A r \in 1..Len(ended) :
    /\ ended[r] = "complete" => r <= report.run
    /\ ~CutShort(r) /\ r > report.run => \A l \in Lanes : weights[l].run # r

\* What a complete report says of the weights, but for the runs since.
ReportInv ==
  report.status = "COMPLETE" =>
    /\ report.lanes \subseteq report.verified \/ (script = "cic" /\ "bouncer" \notin report.lanes)
    /\ script \in {"cicids2018", "cicddos2019", "ciciot2023"} => report.verified = report.lanes
    /\ \A l \in Lanes : IF l \in report.lanes THEN weights[l].run >= report.run
                        ELSE weights[l].run # report.run

IInv == TypeInv /\ RunInv /\ EndedInv /\ ReportInv

-----------------------------------------------------------------------------
(* What a lane comes to *)

Outcomes == {"gives_up", "raises", "skipped", "trained"}

LEMMA ByRows ==
  ASSUME NEW a, NEW b, NEW c, NEW d
  PROVE  /\ BouncerByRows(a, b, c).outcome \in {"skipped", "trained"}
         /\ DetectiveByRows(a, b, c).outcome \in {"skipped", "trained"}
<1>1. BouncerByRows(a, b, c).outcome \in {"skipped", "trained"}
  BY DEF BouncerByRows, Skipped, Trained
<1>2. DetectiveByRows(a, b, c).outcome \in {"skipped", "trained"}
  BY DEF DetectiveByRows, Skipped, Trained
<1> QED
  BY <1>1, <1>2

LEMMA Outcome ==
  ASSUME script \in Scripts, NEW lane \in Lanes
  PROVE  /\ Result(lane).outcome \in Outcomes
         /\ Result(lane).outcome = "raises" => lane = "bouncer"
         /\ script \in TunnelScripts /\ lane = "bouncer" => Result(lane).outcome # "trained"
         /\ script \in NeedRows /\ rows = <<>> => Result(lane).outcome = "gives_up"
         /\ lane = "detective" /\ trained # {} /\ Result(lane).outcome = "gives_up" =>
              script = "cicids2018" \/ (script \in NeedRows /\ rows = <<>>)
<1>1. CASE script = "repo"
  <2>1. Result(lane).outcome = "trained"
    BY <1>1 DEF Result, RepoMain, RepoBouncer, RepoDetective, Trained
  <2> QED
    BY <1>1, <2>1 DEF Outcomes, TunnelScripts, NeedRows
<1>2. CASE script = "api"
  <2>1. Result(lane).outcome = "trained"
    BY <1>2 DEF Result, ApiMain, ApiBouncer, ApiDetective, Trained
  <2> QED
    BY <1>2, <2>1 DEF Outcomes, TunnelScripts, NeedRows
<1>3. CASE script = "cic"
  <2>1. Result(lane).outcome \in {"skipped", "trained"}
    BY <1>3, ByRows DEF Result, CicMain, CicBouncer, CicDetective
  <2> QED
    BY <1>3, <2>1 DEF Outcomes, TunnelScripts, NeedRows
<1>4. CASE script = "unsw"
  <2>1. IF rows = <<>> THEN Result(lane).outcome = "gives_up"
        ELSE Result(lane).outcome \in {"skipped", "trained"}
    BY <1>4, ByRows DEF Result, UnswMain, UnswBouncer, UnswDetective, CicDetective, GivesUp
  <2> QED
    BY <1>4, <2>1 DEF Outcomes, TunnelScripts, NeedRows
<1>5. CASE script = "doh"
  <2>1. IF rows = <<>> THEN Result(lane).outcome = "gives_up"
        ELSE Result(lane).outcome \in {"skipped", "trained"}
    BY <1>5, ByRows DEF Result, DohMain, DohDetective, GivesUp, Skipped
  <2>2. lane = "bouncer" => Result(lane).outcome # "trained"
    BY <1>5 DEF Result, DohMain, GivesUp, Skipped
  <2> QED
    BY <1>5, <2>1, <2>2 DEF Outcomes, TunnelScripts, NeedRows
<1>6. CASE script = "dnsexf"
  <2>1. IF rows = <<>> THEN Result(lane).outcome = "gives_up"
        ELSE Result(lane).outcome \in {"skipped", "trained"}
    BY <1>6, ByRows DEF Result, DnsExfMain, DnsExfDetective, DohDetective, GivesUp, Skipped
  <2>2. lane = "bouncer" => Result(lane).outcome # "trained"
    BY <1>6 DEF Result, DnsExfMain, GivesUp, Skipped
  <2> QED
    BY <1>6, <2>1, <2>2 DEF Outcomes, TunnelScripts, NeedRows
<1>7. CASE script = "cicids2018"
  <2>1. CASE lane = "bouncer"
    <3>1. Result(lane) = Bouncer2018(rows, limit, shuffles)
      BY <1>7, <2>1 DEF Result, Cicids2018Main
    <3>2. Result(lane).outcome \in {"skipped", "raises", "trained"}
      BY <3>1 DEF Bouncer2018, Skipped, Raises, Trained
    <3> QED
      BY <1>7, <2>1, <3>2 DEF Outcomes, TunnelScripts, NeedRows
  <2>2. CASE lane = "detective"
    <3>1. Result(lane) \in {GivesUp, Detective2018(rows, limit, shuffles)}
      BY <1>7, <2>2 DEF Result, Cicids2018Main
    <3>2. Detective2018(rows, limit, shuffles).outcome \in {"skipped", "trained"}
      BY DEF Detective2018, Skipped, Trained
    <3>3. GivesUp.outcome = "gives_up"
      BY DEF GivesUp
    <3>4. Result(lane).outcome \in {"gives_up", "skipped", "trained"}
      BY <3>1, <3>2, <3>3
    <3> QED
      BY <1>7, <2>2, <3>4 DEF Outcomes, TunnelScripts, NeedRows
  <2> QED
    BY <2>1, <2>2 DEF Lanes
<1>8. CASE script = "cicddos2019"
  <2>1. CASE lane = "detective"
    <3>1. Result(lane).outcome = "skipped"
      BY <1>8, <2>1 DEF Result, Cicddos2019Main, Skipped
    <3> QED
      BY <1>8, <2>1, <3>1 DEF Outcomes, TunnelScripts, NeedRows
  <2>2. CASE lane = "bouncer"
    <3>1. Result(lane) \in {GivesUp, Bouncer2019(rows, limit, shuffles)}
      BY <1>8, <2>2 DEF Result, Cicddos2019Main
    <3>2. Bouncer2019(rows, limit, shuffles).outcome \in {"skipped", "raises", "trained"}
      BY DEF Bouncer2019, Skipped, Raises, Trained
    <3>3. GivesUp.outcome = "gives_up"
      BY DEF GivesUp
    <3>4. Result(lane).outcome \in Outcomes
      BY <3>1, <3>2, <3>3 DEF Outcomes
    <3> QED
      BY <1>8, <2>2, <3>4 DEF TunnelScripts, NeedRows
  <2> QED
    BY <2>1, <2>2 DEF Lanes
<1>9. CASE script = "ciciot2023"
  <2>1. CASE rows = <<>>
    BY <1>9, <2>1 DEF Result, Ciciot2023Main, GivesUp, Outcomes, TunnelScripts, NeedRows
  <2>2. CASE rows # <<>> /\ lane = "bouncer"
    <3>1. Result(lane) = CiciotBouncer(rows, shuffles)
      BY <1>9, <2>2 DEF Result, Ciciot2023Main
    <3>2. Result(lane).outcome \in {"skipped", "trained"}
      BY <3>1 DEF CiciotBouncer, Skipped, Trained
    <3> QED
      BY <1>9, <2>2, <3>2 DEF Outcomes, TunnelScripts, NeedRows
  <2>3. CASE rows # <<>> /\ lane = "detective"
    <3>1. \/ trained = {} /\ Result(lane) = GivesUp
          \/ Result(lane) = CiciotDetective(rows, limit, shuffles)
      BY <1>9, <2>3 DEF Result, Ciciot2023Main
    <3>2. CiciotDetective(rows, limit, shuffles).outcome \in {"skipped", "trained"}
      BY DEF CiciotDetective, Skipped, Trained
    <3>3. GivesUp.outcome = "gives_up"
      BY DEF GivesUp
    <3> QED
      BY <1>9, <2>3, <3>1, <3>2, <3>3 DEF Outcomes, TunnelScripts, NeedRows
  <2> QED
    BY <2>1, <2>2, <2>3 DEF Lanes
<1> QED
  BY <1>1, <1>2, <1>3, <1>4, <1>5, <1>6, <1>7, <1>8, <1>9 DEF Scripts

-----------------------------------------------------------------------------
(* Every step keeps the invariant *)

\* The disk and what is said about it change together or not at all.
LEMMA EndFacts ==
  ASSUME TypeInv, NEW how \in Endings, End(how), run' = run, stage # "idle"
  PROVE  /\ stage' = "idle" /\ trained' = {}
         /\ ended' \in Seq(Endings) /\ Len(ended') = run
         /\ ended'[run] = how
         /\ \A r \in 1..Len(ended) : ended'[r] = ended[r]
         /\ \A r \in 1..Len(ended') : r \in 1..Len(ended) \/ r = run
<1>1. ended \in Seq(Endings) /\ Len(ended) = run - 1 /\ run \in Nat
  BY DEF TypeInv
<1>2. ended' = Append(ended, how)
  BY DEF End
<1> QED
  BY <1>1, <1>2 DEF End

\* A run that ends without a report of it.
LEMMA EndStep ==
  ASSUME IInv, NEW how \in Endings \ {"complete"}, End(how), stage # "idle",
         UNCHANGED <<corpus, shuffles, run, weights>>,
         report' = report \/ (report'.status = "NOT_RUN" /\ report'.run = run /\ report'.lanes = {}),
         trained = {} \/ how = "crashed" \/ (how = "gave_up" /\ script = "cicids2018")
  PROVE  IInv'
<1> USE DEF IInv
<1>1. /\ stage' = "idle" /\ trained' = {}
      /\ ended' \in Seq(Endings) /\ Len(ended') = run
      /\ ended'[run] = how
      /\ \A r \in 1..Len(ended) : ended'[r] = ended[r]
      /\ \A r \in 1..Len(ended') : r \in 1..Len(ended) \/ r = run
  BY EndFacts
<1>2. /\ script' = script /\ weights' = weights /\ run' = run
      /\ run \in Nat /\ report.run \in 0..run /\ report.lanes \subseteq Lanes
      /\ Len(ended) = run - 1
  BY DEF script, TypeInv
<1>0. /\ report'.run \in 0..run /\ report'.lanes \subseteq Lanes /\ report'.run >= report.run
      /\ report' # report => report'.status # "COMPLETE"
  <2>1. CASE report' = report
    BY <1>2, <2>1
  <2>2. CASE report'.status = "NOT_RUN" /\ report'.run = run /\ report'.lanes = {}
    BY <1>2, <2>2
  <2> QED
    BY <2>1, <2>2
<1>3. TypeInv'
  BY <1>0, <1>1, <1>2 DEF TypeInv, Stages
<1>4. RunInv'
  BY <1>1, <1>2 DEF RunInv
<1>5. EndedInv'
  <2> SUFFICES ASSUME NEW r \in 1..Len(ended')
               PROVE  /\ ended'[r] = "complete" => r <= report'.run
                      /\ ~CutShort(r)' /\ r > report'.run => \A l \in Lanes : weights[l].run # r
    BY <1>2 DEF EndedInv
  <2>1. CASE r \in 1..Len(ended)
    <3>1. ended'[r] = ended[r] /\ r <= Len(ended) /\ r <= Len(ended')
      BY <1>1, <1>2, <2>1
    <3>2. CutShort(r)' <=> CutShort(r)
      BY <1>1, <1>2, <3>1 DEF CutShort
    <3>3. r \in Nat /\ report.run \in Nat /\ report'.run \in Nat
      BY <1>0, <1>2, <2>1
    <3>4. /\ ended[r] = "complete" => r <= report.run
          /\ ~CutShort(r) /\ r > report.run => \A l \in Lanes : weights[l].run # r
      BY <2>1 DEF EndedInv
    <3> QED
      BY <1>0, <3>1, <3>2, <3>3, <3>4
  <2>2. CASE r = run
    <3>1. how # "complete"
      OBVIOUS
    <3>2. how = "crashed" \/ (how = "gave_up" /\ script = "cicids2018") => CutShort(r)'
      BY <1>1, <1>2, <2>2 DEF CutShort
    <3>3. trained = {} => \A l \in Lanes : weights[l].run # r
      BY <2>2 DEF RunInv
    <3> QED
      BY <1>1, <2>2, <3>1, <3>2, <3>3
  <2> QED
    BY <1>1, <2>1, <2>2
<1>6. ReportInv'
  BY <1>0, <1>2 DEF ReportInv
<1> QED
  BY <1>3, <1>4, <1>5, <1>6

LEMMA BeginStep == IInv /\ Begin => IInv'
<1> SUFFICES ASSUME IInv, Begin PROVE IInv'
  OBVIOUS
<1> USE DEF IInv
<1>1. /\ stage = "idle" /\ stage' = "bouncer" /\ run' = run + 1 /\ trained' = trained
      /\ weights' = weights /\ report' = report /\ ended' = ended /\ corpus' = corpus
  BY DEF Begin
<1>2. script' = script /\ trained = {} /\ run \in Nat /\ Len(ended) = run
  BY <1>1 DEF script, RunInv, TypeInv
<1>3. \A l \in Lanes : weights[l].run \in 0..run
  BY DEF TypeInv
<1>4. TypeInv'
  BY <1>1, <1>2, <1>3 DEF TypeInv, Stages
<1>5. RunInv'
  BY <1>1, <1>2, <1>3 DEF RunInv, TypeInv
<1>6. \A r \in 1..Len(ended) : CutShort(r)' <=> CutShort(r)
  BY <1>1, <1>2 DEF CutShort
<1>7. EndedInv'
  BY <1>1, <1>6 DEF EndedInv
<1>8. ReportInv'
  BY <1>1, <1>2 DEF ReportInv
<1> QED
  BY <1>4, <1>5, <1>7, <1>8

\* A step within a run, with the disk left alone.
LEMMA QuietStep ==
  ASSUME IInv, UNCHANGED <<corpus, shuffles, data, run, trained, weights, report, ended>>,
         stage' \in Stages, stage # "idle" <=> stage' # "idle", RunInv'
  PROVE  IInv'
<1> USE DEF IInv
<1>1. TypeInv'
  BY DEF TypeInv, script
<1>2. \A r \in 1..Len(ended) : CutShort(r)' <=> CutShort(r)
  BY DEF CutShort, script
<1>3. EndedInv'
  BY <1>2 DEF EndedInv
<1>4. ReportInv'
  BY DEF ReportInv, script
<1> QED
  BY <1>1, <1>3, <1>4

LEMMA NoDataStep == IInv /\ NoData => IInv'
<1> SUFFICES ASSUME IInv, NoData PROVE IInv'
  OBVIOUS
<1>1. /\ stage = "bouncer" /\ trained = {} /\ End("no_data")
      /\ UNCHANGED <<corpus, shuffles, run, weights>>
  BY DEF NoData, IInv, RunInv
<1>2. \/ report' = report
      \/ report'.status = "NOT_RUN" /\ report'.run = run /\ report'.lanes = {}
  BY DEF NoData, NoReport
<1> QED
  BY <1>1, <1>2, EndStep DEF Endings

LEMMA TrainStep ==
  ASSUME IInv, NEW lane \in Lanes, Train(lane)
  PROVE  IInv'
<1>1. /\ stage = lane /\ stage \in {"bouncer", "detective"}
      /\ UNCHANGED <<corpus, shuffles, data, run, weights, report>>
  BY DEF Train, Lanes
<1>2. /\ Result(lane).outcome \in Outcomes
      /\ Result(lane).outcome = "raises" => lane = "bouncer"
      /\ script \in TunnelScripts /\ lane = "bouncer" => Result(lane).outcome # "trained"
      /\ script \in NeedRows /\ rows = <<>> => Result(lane).outcome = "gives_up"
      /\ lane = "detective" /\ trained # {} /\ Result(lane).outcome = "gives_up" =>
           script = "cicids2018" \/ (script \in NeedRows /\ rows = <<>>)
  BY Outcome DEF IInv, TypeInv
<1>3. CASE Result(lane).outcome = "gives_up"
  <2>1. End("gave_up")
    BY <1>3 DEF Train, Proceed
  <2>2. trained = {} \/ script = "cicids2018"
    BY <1>1, <1>2, <1>3 DEF IInv, RunInv
  <2> QED
    BY <1>1, <2>1, <2>2, EndStep DEF Endings
<1>4. CASE Result(lane).outcome = "raises"
  <2>1. End("raised")
    BY <1>4 DEF Train, Proceed
  <2>2. trained = {}
    BY <1>1, <1>2, <1>4 DEF IInv, RunInv
  <2> QED
    BY <1>1, <2>1, <2>2, EndStep DEF Endings
<1>5. CASE Result(lane).outcome \in {"skipped", "trained"}
  <2>1. /\ UNCHANGED <<trained, verified, ended>>
        /\ stage' = IF Result(lane).outcome = "trained" THEN Saving[lane] ELSE After[lane]
    BY <1>5 DEF Train, Proceed
  <2>2. /\ lane = "bouncer" => stage' \in {"save_bouncer", "detective"}
        /\ lane = "detective" => stage' \in {"save_detective", "verify"}
        /\ lane = "bouncer" /\ stage' = "save_bouncer" => Result(lane).outcome = "trained"
    BY <2>1 DEF Saving, After
  <2>3. script \in NeedRows => rows # <<>>
    BY <1>2, <1>5
  <2>4. script' = script /\ rows' = rows
    BY <1>1 DEF script, rows
  <2>5. RunInv'
    BY <1>1, <1>2, <2>1, <2>2, <2>3, <2>4 DEF IInv, RunInv, Lanes
  <2> QED
    BY <1>1, <2>1, <2>2, <2>5, QuietStep DEF Stages, Lanes
<1> QED
  BY <1>2, <1>3, <1>4, <1>5 DEF Outcomes

LEMMA SaveStep ==
  ASSUME IInv, NEW lane \in Lanes, Save(lane)
  PROVE  IInv'
<1> USE DEF IInv
<1>1. /\ stage = Saving[lane] /\ stage' = After[lane] /\ trained' = trained \cup {lane}
      /\ UNCHANGED <<corpus, shuffles, data, run, limit, verified, report, ended>>
  BY DEF Save
<1> DEFINE w == [run |-> run, data |-> data, limit |-> limit,
                 rows |-> RowsOf((CHOOSE s \in scores : s.kind # "across").train)]
<1>2. weights' = [weights EXCEPT ![lane] = w] /\ w.run = run
  BY DEF Save
<1> HIDE DEF w
<1>3. /\ weights' = [l \in Lanes |-> weights'[l]]
      /\ weights'[lane].run = run
      /\ \A l \in Lanes \ {lane} : weights'[l] = weights[l]
  BY <1>2 DEF TypeInv
<1>4. /\ lane = "bouncer" => stage = "save_bouncer" /\ stage' = "detective"
      /\ lane = "detective" => stage = "save_detective" /\ stage' = "verify"
      /\ stage # "idle" /\ stage' # "idle"
  BY <1>1 DEF Saving, After, Lanes
<1>5. script' = script /\ rows' = rows
  BY <1>1 DEF script, rows
<1>6. run \in Nat /\ run > report.run /\ report.run \in Nat /\ Len(ended) = run - 1
  BY <1>4 DEF RunInv, TypeInv
<1>7. TypeInv'
  <2>1. \A l \in Lanes : weights'[l].run \in 0..run
    BY <1>3, <1>6 DEF TypeInv
  <2>2. trained' \subseteq Lanes /\ stage' \in Stages
    BY <1>1, <1>4 DEF TypeInv, Stages, Lanes
  <2> QED
    BY <1>1, <1>3, <1>4, <1>5, <1>6, <2>1, <2>2 DEF TypeInv
<1>8. RunInv'
  <2>1. \A l \in Lanes : weights'[l].run = run <=> l \in trained'
    BY <1>1, <1>3, <1>4 DEF RunInv
  <2> QED
    BY <1>1, <1>4, <1>5, <1>6, <2>1 DEF RunInv, Lanes
<1>9. EndedInv'
  <2> SUFFICES ASSUME NEW r \in 1..Len(ended)
               PROVE  /\ ended[r] = "complete" => r <= report.run
                      /\ ~CutShort(r)' /\ r > report.run => \A l \in Lanes : weights'[l].run # r
    BY <1>1 DEF EndedInv
  <2>1. (CutShort(r)' <=> CutShort(r)) /\ r # run
    BY <1>1, <1>5, <1>6 DEF CutShort
  <2> QED
    BY <1>3, <2>1 DEF EndedInv
<1>10. ReportInv'
  BY <1>1, <1>3, <1>5, <1>6 DEF ReportInv
<1> QED
  BY <1>7, <1>8, <1>9, <1>10

LEMMA VerifyStep == IInv /\ Verify => IInv'
<1> SUFFICES ASSUME IInv, Verify PROVE IInv'
  OBVIOUS
<1>1. /\ stage = "verify" /\ stage' = "report" /\ verified' = {l \in Looked : weights[l].run > 0}
      /\ UNCHANGED <<corpus, shuffles, data, run, trained, weights, report, ended>>
  BY DEF Verify
<1>2. script' = script /\ rows' = rows /\ Looked' = Looked
  BY <1>1 DEF script, rows, Looked, RepoLooks, ApiLooks, CicLooks, UnswLooks, DohLooks, DnsExfLooks,
              Cicids2018Looks, Cicddos2019Looks, Ciciot2023Looks
<1>3. RunInv'
  BY <1>1, <1>2 DEF IInv, RunInv
<1> QED
  BY <1>1, <1>3, QuietStep DEF Stages

\* What verify_weights finds of what the run has trained.
LEMMA LooksAtTrained ==
  ASSUME TypeInv, RunInv, stage = "report"
  PROVE  /\ trained \subseteq verified \/ (script = "cic" /\ "bouncer" \notin trained)
         /\ script \in {"cicids2018", "cicddos2019", "ciciot2023"} => verified = trained
<1>1. /\ verified = {l \in Looked : weights[l].run > 0}
      /\ \A l \in trained : weights[l].run = run
      /\ run > 0 /\ trained \subseteq Lanes
  BY DEF TypeInv, RunInv
<1>2. \/ trained \subseteq Looked
      \/ script = "cic" /\ "bouncer" \notin trained
  BY DEF Looked, RepoLooks, ApiLooks, CicLooks, UnswLooks, DohLooks, DnsExfLooks,
         Cicids2018Looks, Cicddos2019Looks, Ciciot2023Looks, TypeInv, RunInv, Scripts,
         TunnelScripts, Lanes
<1>3. script \in {"cicids2018", "cicddos2019", "ciciot2023"} => Looked = trained
  BY DEF Looked, Cicids2018Looks, Cicddos2019Looks, Ciciot2023Looks
<1> QED
  BY <1>1, <1>2, <1>3

LEMMA WriteReportStep == IInv /\ WriteReport => IInv'
<1> SUFFICES ASSUME IInv, WriteReport PROVE IInv'
  OBVIOUS
<1> USE DEF IInv
<1>1. /\ stage = "report" /\ End("complete")
      /\ report' = [status |-> "COMPLETE", run |-> run, lanes |-> trained, verified |-> verified]
      /\ UNCHANGED <<corpus, shuffles, data, run, weights>>
  BY DEF WriteReport
<1>2. /\ stage' = "idle" /\ trained' = {}
      /\ ended' \in Seq(Endings) /\ Len(ended') = run
      /\ \A r \in 1..Len(ended') : r \in 1..Len(ended) \/ r = run
  BY <1>1, EndFacts DEF Endings
<1>3. /\ script' = script /\ report'.run = run /\ report'.lanes = trained
      /\ report'.verified = verified
  BY <1>1 DEF script
<1>4. /\ run \in Nat /\ trained \subseteq Lanes
      /\ \A l \in Lanes : weights[l].run = run <=> l \in trained
      /\ \A l \in Lanes : weights[l].run \in 0..run
  BY <1>1 DEF TypeInv, RunInv
<1>5. TypeInv'
  BY <1>1, <1>2, <1>3, <1>4 DEF TypeInv, Stages
<1>6. RunInv'
  BY <1>2, <1>3 DEF RunInv
<1>7. EndedInv'
  BY <1>2, <1>3, <1>4 DEF EndedInv
<1>8. ReportInv'
  BY <1>1, <1>3, <1>4, LooksAtTrained DEF ReportInv
<1> QED
  BY <1>5, <1>6, <1>7, <1>8

LEMMA StutterStep == IInv /\ (Substitute \/ UNCHANGED vars) => IInv'
<1> SUFFICES ASSUME IInv, Substitute \/ UNCHANGED vars PROVE IInv'
  OBVIOUS
<1>1. UNCHANGED <<corpus, shuffles, data, run, stage, trained, verified, weights, report, ended>>
  BY DEF Substitute, vars
<1>2. script' = script /\ rows' = rows /\ Looked' = Looked
  BY <1>1 DEF script, rows, Looked, RepoLooks, ApiLooks, CicLooks, UnswLooks, DohLooks, DnsExfLooks,
              Cicids2018Looks, Cicddos2019Looks, Ciciot2023Looks
<1>3. RunInv'
  BY <1>1, <1>2 DEF IInv, RunInv
<1> QED
  BY <1>1, <1>3, QuietStep DEF IInv, TypeInv

LEMMA ExperimentStart == ExperimentInit => IInv
<1> SUFFICES ASSUME ExperimentInit PROVE IInv
  OBVIOUS
<1> USE DEF ExperimentInit
<1>1. script \in Scripts
  BY ExperimentAssumption DEF script
<1>2. \A l \in Lanes : weights[l].run = 0
  BY DEF NoWeights
<1>3. weights = [l \in Lanes |-> weights[l]]
  OBVIOUS
<1>4. report.run = 0 /\ report.lanes = {} /\ report.status = "none"
  BY DEF NoReport
<1>5. TypeInv
  BY <1>1, <1>2, <1>3, <1>4 DEF TypeInv, Stages
<1>6. RunInv
  BY DEF RunInv
<1>7. EndedInv /\ ReportInv
  BY <1>4 DEF EndedInv, ReportInv
<1> QED
  BY <1>5, <1>6, <1>7 DEF IInv

LEMMA ExperimentStep == IInv /\ [ExperimentNext]_vars => IInv'
<1> SUFFICES ASSUME IInv, [ExperimentNext]_vars PROVE IInv'
  OBVIOUS
<1>1. CASE Crash
  <2>1. /\ stage # "idle" /\ End("crashed") /\ report' = report
        /\ UNCHANGED <<corpus, shuffles, run, weights>>
    BY <1>1 DEF Crash
  <2> QED
    BY <2>1, EndStep DEF Endings
<1>2. ASSUME NEW lane \in Lanes, Train(lane) \/ Save(lane)
      PROVE  IInv'
  BY <1>2, TrainStep, SaveStep
<1> QED
  BY <1>1, <1>2, BeginStep, NoDataStep, VerifyStep, WriteReportStep, StutterStep
     DEF ExperimentNext

THEOREM Invariance == ExperimentSpec => []IInv
BY ExperimentStart, ExperimentStep, PTL DEF ExperimentSpec

\* However runs die and downloads change in between, a complete metrics.json is about the
\* weights beside it (verify_weights and the end of main of every run_*_experiment.py).
THEOREM ReportIsOfTheseWeightsHolds == ExperimentSpec => []ReportIsOfTheseWeights
<1>1. IInv => ReportIsOfTheseWeights
  <2> SUFFICES ASSUME IInv, report.status = "COMPLETE", NEW l \in Lanes,
                      \A r \in report.run + 1..run : ~CutShort(r)
               PROVE  IF l \in report.lanes THEN weights[l].run = report.run
                      ELSE weights[l].run < report.run
    BY DEF IInv, ReportInv, ReportIsOfTheseWeights
  <2>1. /\ run \in Nat /\ report.run \in 0..run /\ weights[l].run \in 0..run
        /\ Len(ended) = IF stage = "idle" THEN run ELSE run - 1
    BY DEF IInv, TypeInv
  <2>2. CASE weights[l].run > report.run
    <3>1. weights[l].run \in report.run + 1..run
      BY <2>1, <2>2
    <3>2. ~CutShort(weights[l].run)
      BY <3>1
    <3>3. weights[l].run <= Len(ended)
      <4>1. ~(weights[l].run > Len(ended))
        BY <3>2 DEF CutShort
      <4> QED
        BY <2>1, <4>1
    <3>4. weights[l].run \in 1..Len(ended)
      BY <2>1, <3>1, <3>3
    <3> QED
      BY <2>2, <3>2, <3>4 DEF IInv, EndedInv
  <2>3. CASE weights[l].run <= report.run
    BY <2>1, <2>3 DEF IInv, ReportInv
  <2> QED
    BY <2>1, <2>2, <2>3
<1> QED
  BY <1>1, Invariance, PTL

-----------------------------------------------------------------------------
(* Streams *)

LEMMA KeptFacts ==
  ASSUME NEW T, NEW s \in Seq(T), NEW P \in SUBSET DOMAIN s
  PROVE  /\ Kept(s, P) \in Seq(T)
         /\ \A k \in DOMAIN Kept(s, P) : \E i \in P : Kept(s, P)[k] = s[i]
         /\ \A k, l \in DOMAIN Kept(s, P) :
              k # l => \E i, j \in P : i # j /\ Kept(s, P)[k] = s[i] /\ Kept(s, P)[l] = s[j]
<1> DEFINE order == InOrder(P)
<1>1. P \in SUBSET (Nat \ {0}) /\ IsFiniteSet(P)
  <2>1. Len(s) \in Nat /\ DOMAIN s = 1..Len(s)
    OBVIOUS
  <2>2. IsFiniteSet(1..Len(s))
    BY <2>1, FS_Interval
  <2> QED
    BY <2>1, <2>2, FS_Subset
<1>2. Enumerates(order, P)
  BY <1>1, InOrderFacts
<1>3. Kept(s, P) = [k \in DOMAIN order |-> s[order[k]]]
  BY DEF Kept
<1> HIDE DEF order
<1>4. order \in Seq(P) /\ Distinct(order)
  BY <1>2 DEF Enumerates
<1>5. \A k \in DOMAIN order : order[k] \in P /\ s[order[k]] \in T
  BY <1>4
<1>6. Kept(s, P) \in Seq(T)
  BY <1>3, <1>4, <1>5
<1>7. ASSUME NEW k \in DOMAIN order, NEW l \in DOMAIN order, k # l
      PROVE  \E i, j \in P : i # j /\ Kept(s, P)[k] = s[i] /\ Kept(s, P)[l] = s[j]
  <2>1. order[k] # order[l]
    BY <1>4, <1>7 DEF Distinct
  <2> QED
    BY <1>3, <1>5, <2>1
<1> QED
  BY <1>3, <1>5, <1>6, <1>7

\* t is a choice of entries of s, each at most once.
Picks(t, s) ==
  /\ \A k \in DOMAIN t : \E i \in DOMAIN s : t[k] = s[i]
  /\ \A k, l \in DOMAIN t :
       k # l => \E i, j \in DOMAIN s : i # j /\ t[k] = s[i] /\ t[l] = s[j]

\* Both sides are choices of entries of s, and no entry is on both.
Splits(split, s) ==
  /\ \A side \in Sides : Picks(split[side], s)
  /\ \A k \in DOMAIN split["train"], l \in DOMAIN split["test"] :
       \E i, j \in DOMAIN s : i # j /\ split["train"][k] = s[i] /\ split["test"][l] = s[j]

LEMMA PicksDistinct ==
  ASSUME NEW t, NEW s, Picks(t, s), Distinct(s)
  PROVE  Distinct(t)
<1> SUFFICES ASSUME NEW k \in DOMAIN t, NEW l \in DOMAIN t, t[k] = t[l], k # l PROVE FALSE
  BY DEF Distinct
<1> QED
  BY DEF Picks, Distinct

LEMMA PicksSubset ==
  ASSUME NEW t, NEW s, Picks(t, s)
  PROVE  ToSet(t) \subseteq ToSet(s)
BY DEF Picks, ToSet

\* What is picked with an injection of positions.
LEMMA PicksBy ==
  ASSUME NEW t, NEW s, NEW f, \A k \in DOMAIN t : f[k] \in DOMAIN s /\ t[k] = s[f[k]],
         \A k, l \in DOMAIN t : k # l => f[k] # f[l]
  PROVE  Picks(t, s)
BY DEF Picks

LEMMA KeptPicks ==
  ASSUME NEW T, NEW s \in Seq(T), NEW P \in SUBSET DOMAIN s
  PROVE  /\ Kept(s, P) \in Seq(T) /\ Picks(Kept(s, P), s)
         /\ \A k \in DOMAIN Kept(s, P) : \E i \in P : Kept(s, P)[k] = s[i]
<1>1. /\ Kept(s, P) \in Seq(T)
      /\ \A k \in DOMAIN Kept(s, P) : \E i \in P : Kept(s, P)[k] = s[i]
      /\ \A k, l \in DOMAIN Kept(s, P) :
           k # l => \E i, j \in P : i # j /\ Kept(s, P)[k] = s[i] /\ Kept(s, P)[l] = s[j]
  BY KeptFacts
<1>2. \A i \in P : i \in DOMAIN s
  OBVIOUS
<1> QED
  BY <1>1, <1>2 DEF Picks

LEMMA PrefixPicks ==
  ASSUME NEW T, NEW s \in Seq(T), NEW n \in Nat
  PROVE  Prefix(s, n) \in Seq(T) /\ Picks(Prefix(s, n), s)
<1>1. Len(s) \in Nat /\ DOMAIN s = 1..Len(s) /\ \A i \in 1..Len(s) : s[i] \in T
  OBVIOUS
<1>2. CASE n = 0 \/ Len(s) <= n
  BY <1>2 DEF Prefix, Picks
<1>3. CASE n # 0 /\ n < Len(s)
  <2>1. Prefix(s, n) = SubSeq(s, 1, n)
    BY <1>1, <1>3 DEF Prefix
  <2>2. Prefix(s, n) = [k \in 1..n |-> s[k]]
    BY <1>1, <1>3, <2>1
  <2>3. Prefix(s, n) \in [1..n -> T]
    BY <1>1, <1>3, <2>2
  <2>4. Prefix(s, n) \in Seq(T)
    BY <2>3
  <2>5. \A k \in 1..n : k \in DOMAIN s /\ Prefix(s, n)[k] = s[k]
    BY <1>1, <1>3, <2>2
  <2>6. DOMAIN Prefix(s, n) = 1..n
    BY <2>2
  <2> QED
    BY <2>4, <2>5, <2>6 DEF Picks
<1> QED
  BY <1>1, <1>2, <1>3

LEMMA StridedPicks ==
  ASSUME NEW T, NEW s \in Seq(T), NEW n \in Nat
  PROVE  Strided(s, n) \in Seq(T) /\ Picks(Strided(s, n), s)
<1> DEFINE L == Len(s)
           f == [k \in 1..n |-> 1 + ((k - 1) * L) \div n]
<1>1. L \in Nat /\ DOMAIN s = 1..L /\ \A i \in 1..L : s[i] \in T
  OBVIOUS
<1>2. CASE n = 0 \/ L <= n
  BY <1>2 DEF Strided, Picks
<1>3. CASE n # 0 /\ n < L
  <2>1. Strided(s, n) = [k \in 1..n |-> s[f[k]]]
    BY <1>1, <1>3 DEF Strided
  <2>2. ASSUME NEW k \in 1..n PROVE f[k] \in 1..L
    <3>1. k - 1 \in Nat /\ k - 1 < n
      OBVIOUS
    <3>2. ((k - 1) * L) \div n \in Nat /\ ((k - 1) * L) \div n < L
      BY <1>1, <1>3, <3>1, Spread
    <3> QED
      BY <1>1, <3>2
  <2>3. ASSUME NEW k \in 1..n, NEW l \in 1..n, k < l PROVE f[k] < f[l]
    <3>1. k - 1 \in Nat /\ l - 1 \in Nat /\ k - 1 < l - 1
      BY <2>3
    <3>2. /\ ((k - 1) * L) \div n \in Nat /\ ((l - 1) * L) \div n \in Nat
          /\ ((k - 1) * L) \div n < ((l - 1) * L) \div n
      BY <1>1, <1>3, <3>1, Spread
    <3> QED
      BY <3>2
  <2> HIDE DEF f, L
  <2>4. Strided(s, n) \in [1..n -> T] /\ DOMAIN Strided(s, n) = 1..n
    BY <1>1, <2>1, <2>2
  <2>5. Strided(s, n) \in Seq(T)
    BY <2>4
  <2>6. \A k, l \in 1..n : k # l => f[k] # f[l]
    <3>1. \A k, l \in 1..n : k # l => k < l \/ l < k
      OBVIOUS
    <3>2. \A k \in 1..n : f[k] \in Int
      BY <2>2
    <3> QED
      BY <2>3, <3>1, <3>2
  <2>7. Picks(Strided(s, n), s)
    <3>1. \A k \in DOMAIN Strided(s, n) : f[k] \in DOMAIN s /\ Strided(s, n)[k] = s[f[k]]
      BY <1>1, <2>1, <2>2, <2>4
    <3>2. \A k, l \in DOMAIN Strided(s, n) : k # l => f[k] # f[l]
      BY <2>4, <2>6
    <3> QED
      BY <3>1, <3>2, PicksBy
  <2> QED
    BY <2>5, <2>7
<1> QED
  BY <1>1, <1>2, <1>3

LEMMA EvenSubsamplePicks ==
  ASSUME NEW T, NEW s \in Seq(T), NEW n \in Nat
  PROVE  EvenSubsample(s, n) \in Seq(T) /\ Picks(EvenSubsample(s, n), s)
<1> DEFINE L == Len(s)
           f == [k \in 1..n |-> IF n = 1 THEN 1 ELSE 1 + ((k - 1) * (L - 1)) \div (n - 1)]
<1>1. L \in Nat /\ DOMAIN s = 1..L /\ \A i \in 1..L : s[i] \in T
  OBVIOUS
<1>2. CASE n = 0 \/ L <= n
  BY <1>2 DEF EvenSubsample, Picks
<1>3. CASE n # 0 /\ n < L
  <2>1. EvenSubsample(s, n) = [k \in 1..n |-> s[f[k]]]
    BY <1>1, <1>3 DEF EvenSubsample
  <2>2. ASSUME NEW k \in 1..n PROVE f[k] \in 1..L
    <3>1. CASE n = 1
      BY <1>1, <1>3, <3>1
    <3>2. CASE n # 1
      <4>1. /\ k - 1 \in Nat /\ k - 1 <= n - 1 /\ n - 1 \in Nat \ {0}
            /\ L - 1 \in Nat /\ n - 1 <= L - 1
        BY <1>1, <1>3, <3>2
      <4>2. ((k - 1) * (L - 1)) \div (n - 1) \in Nat /\ ((k - 1) * (L - 1)) \div (n - 1) <= L - 1
        BY <4>1, Spread
      <4> QED
        BY <1>1, <3>2, <4>2
    <3> QED
      BY <3>1, <3>2
  <2>3. ASSUME NEW k \in 1..n, NEW l \in 1..n, k < l PROVE f[k] < f[l]
    <3>1. /\ k - 1 \in Nat /\ l - 1 \in Nat /\ k - 1 < l - 1 /\ n - 1 \in Nat \ {0}
          /\ L - 1 \in Nat /\ n - 1 <= L - 1 /\ n # 1
      BY <1>1, <1>3, <2>3
    <3>2. /\ ((k - 1) * (L - 1)) \div (n - 1) \in Nat /\ ((l - 1) * (L - 1)) \div (n - 1) \in Nat
          /\ ((k - 1) * (L - 1)) \div (n - 1) < ((l - 1) * (L - 1)) \div (n - 1)
      BY <3>1, Spread
    <3> QED
      BY <3>1, <3>2
  <2> HIDE DEF f, L
  <2>4. EvenSubsample(s, n) \in [1..n -> T] /\ DOMAIN EvenSubsample(s, n) = 1..n
    BY <1>1, <2>1, <2>2
  <2>5. EvenSubsample(s, n) \in Seq(T)
    BY <2>4
  <2>6. \A k, l \in 1..n : k # l => f[k] # f[l]
    <3>1. \A k, l \in 1..n : k # l => k < l \/ l < k
      OBVIOUS
    <3>2. \A k \in 1..n : f[k] \in Int
      BY <2>2
    <3> QED
      BY <2>3, <3>1, <3>2
  <2>7. Picks(EvenSubsample(s, n), s)
    <3>1. \A k \in DOMAIN EvenSubsample(s, n) : f[k] \in DOMAIN s /\ EvenSubsample(s, n)[k] = s[f[k]]
      BY <1>1, <2>1, <2>2, <2>4
    <3>2. \A k, l \in DOMAIN EvenSubsample(s, n) : k # l => f[k] # f[l]
      BY <2>4, <2>6
    <3> QED
      BY <3>1, <3>2, PicksBy
  <2> QED
    BY <2>5, <2>7
<1> QED
  BY <1>1, <1>2, <1>3

\* _stratified_split and _split_by_day, whatever permutation the seed stands for
LEMMA SplitFacts ==
  ASSUME NEW T, NEW s \in Seq(T), NEW order, NEW m
  PROVE  /\ \A side \in Sides : SplitAt(s, order, m)[side] \in Seq(T)
         /\ Splits(SplitAt(s, order, m), s)
<1> DEFINE A == {i \in DOMAIN s : \E k \in 1..m : order[Len(s)][k] = i}
           B == DOMAIN s \ A
<1>1. SplitAt(s, order, m) = [train |-> Kept(s, A), test |-> Kept(s, B)]
  BY DEF SplitAt
<1>2. A \in SUBSET DOMAIN s /\ B \in SUBSET DOMAIN s /\ A \cap B = {}
  OBVIOUS
<1> HIDE DEF A, B
<1>3. /\ Kept(s, A) \in Seq(T) /\ Picks(Kept(s, A), s)
      /\ \A k \in DOMAIN Kept(s, A) : \E i \in A : Kept(s, A)[k] = s[i]
  BY <1>2, KeptPicks
<1>4. /\ Kept(s, B) \in Seq(T) /\ Picks(Kept(s, B), s)
      /\ \A k \in DOMAIN Kept(s, B) : \E i \in B : Kept(s, B)[k] = s[i]
  BY <1>2, KeptPicks
<1>5. \A k \in DOMAIN Kept(s, A), l \in DOMAIN Kept(s, B) :
        \E i, j \in DOMAIN s : i # j /\ Kept(s, A)[k] = s[i] /\ Kept(s, B)[l] = s[j]
  BY <1>2, <1>3, <1>4
<1> QED
  BY <1>1, <1>3, <1>4, <1>5 DEF Splits, Sides

\* A side has no entry of the other where the entries of s are distinct.
LEMMA SplitApart ==
  ASSUME NEW split, NEW s, Splits(split, s), Distinct(s)
  PROVE  /\ ToSet(split["train"]) \cap ToSet(split["test"]) = {}
         /\ \A side \in Sides : ToSet(split[side]) \subseteq ToSet(s)
<1>1. \A side \in Sides : ToSet(split[side]) \subseteq ToSet(s)
  BY PicksSubset DEF Splits
<1>2. ASSUME NEW k \in DOMAIN split["train"], NEW l \in DOMAIN split["test"],
             split["train"][k] = split["test"][l]
      PROVE  FALSE
  BY <1>2 DEF Splits, Distinct
<1> QED
  BY <1>1, <1>2 DEF ToSet

-----------------------------------------------------------------------------
(* The rows of a corpus *)

LEMMA RowFacts ==
  ASSUME NEW r \in Seq(Row)
  PROVE  /\ DOMAIN r \in SUBSET (Nat \ {0}) /\ IsFiniteSet(DOMAIN r)
         /\ \A i \in DOMAIN r : r[i].group \in Nat \ {0} /\ r[i].at \in Int /\ r[i].source \in Int
<1>1. Len(r) \in Nat /\ DOMAIN r = 1..Len(r) /\ \A i \in 1..Len(r) : r[i] \in Row
  OBVIOUS
<1>2. IsFiniteSet(1..Len(r))
  BY <1>1, FS_Interval
<1>3. \A x \in Row : x.group \in Nat \ {0} /\ x.at \in Int /\ x.source \in Int
  BY DEF Row
<1> QED
  BY <1>1, <1>2, <1>3

LEMMA EnumeratesSet ==
  ASSUME NEW s, NEW S, Enumerates(s, S)
  PROVE  ToSet(s) = S /\ Distinct(s) /\ s \in Seq(S)
<1>1. s \in Seq(S) /\ Distinct(s) /\ \A x \in S : \E k \in DOMAIN s : s[k] = x
  BY DEF Enumerates
<1>2. \A k \in DOMAIN s : s[k] \in S
  BY <1>1
<1> QED
  BY <1>1, <1>2 DEF ToSet

\* A set of positions of a corpus, in order
LEMMA OrderedRows ==
  ASSUME NEW r \in Seq(Row), NEW S \in SUBSET DOMAIN r
  PROVE  InOrder(S) \in Seq(DOMAIN r) /\ Distinct(InOrder(S)) /\ ToSet(InOrder(S)) = S
<1>1. S \in SUBSET (Nat \ {0}) /\ IsFiniteSet(S)
  BY RowFacts, FS_Subset
<1>2. Enumerates(InOrder(S), S)
  BY <1>1, InOrderFacts
<1> QED
  BY <1>2, EnumeratesSet, SeqSuperset

LEMMA OfClassFacts ==
  ASSUME NEW r \in Seq(Row), NEW classes
  PROVE  /\ OfClass(r, classes) \in Seq(DOMAIN r) /\ Distinct(OfClass(r, classes))
         /\ ToSet(OfClass(r, classes)) = {i \in DOMAIN r : r[i].class \in classes}
<1> DEFINE S == {i \in DOMAIN r : r[i].class \in classes}
<1>1. S \in SUBSET DOMAIN r /\ OfClass(r, classes) = InOrder(S)
  BY DEF OfClass
<1> HIDE DEF S
<1>2. /\ OfClass(r, classes) \in Seq(DOMAIN r) /\ Distinct(OfClass(r, classes))
      /\ ToSet(OfClass(r, classes)) = S
  BY <1>1, OrderedRows
<1> QED
  BY <1>2 DEF S

LEMMA PositionsFacts ==
  ASSUME NEW r \in Seq(Row)
  PROVE  Positions(r) \in Seq(DOMAIN r) /\ Distinct(Positions(r))
<1>1. Len(r) \in Nat /\ DOMAIN r = 1..Len(r)
  OBVIOUS
<1>2. Positions(r) = [i \in 1..Len(r) |-> i]
  BY <1>1 DEF Positions
<1>3. Positions(r) \in [1..Len(r) -> DOMAIN r]
  BY <1>1, <1>2
<1> QED
  BY <1>1, <1>2, <1>3 DEF Distinct

LEMMA InGroupFacts ==
  ASSUME NEW r \in Seq(Row), NEW s \in Seq(DOMAIN r), NEW g
  PROVE  /\ InGroup(r, s, g) \in Seq(DOMAIN r) /\ Picks(InGroup(r, s, g), s)
         /\ \A i \in ToSet(InGroup(r, s, g)) : r[i].group = g /\ i \in ToSet(s)
<1> DEFINE P == {k \in DOMAIN s : r[s[k]].group = g}
<1>1. P \in SUBSET DOMAIN s /\ InGroup(r, s, g) = Kept(s, P)
  BY DEF InGroup
<1>2. \A k \in P : r[s[k]].group = g
  OBVIOUS
<1> HIDE DEF P
<1>3. /\ Kept(s, P) \in Seq(DOMAIN r) /\ Picks(Kept(s, P), s)
      /\ \A k \in DOMAIN Kept(s, P) : \E i \in P : Kept(s, P)[k] = s[i]
  BY <1>1, KeptPicks
<1>4. \A x \in ToSet(Kept(s, P)) : \E i \in P : x = s[i]
  BY <1>3 DEF ToSet
<1>5. ToSet(Kept(s, P)) \subseteq ToSet(s)
  BY <1>3, PicksSubset
<1> QED
  BY <1>1, <1>2, <1>3, <1>4, <1>5

LEMMA ByTimeFacts ==
  ASSUME NEW r \in Seq(Row), NEW S \in SUBSET DOMAIN r
  PROVE  ByTime(r, S) \in Seq(DOMAIN r) /\ Distinct(ByTime(r, S)) /\ ToSet(ByTime(r, S)) = S
<1> DEFINE key == [i \in S |-> r[i].at]
<1>1. S \in SUBSET Nat /\ IsFiniteSet(S) /\ \A i \in S : key[i] \in Int
  BY RowFacts, FS_Subset
<1>2. ByTime(r, S) = SortBy(S, key)
  BY DEF ByTime
<1> HIDE DEF key
<1>3. Enumerates(ByTime(r, S), S)
  BY <1>1, <1>2, SortByFacts
<1> QED
  BY <1>3, EnumeratesSet, SeqSuperset

LEMMA BySourceFacts ==
  ASSUME NEW r \in Seq(Row), NEW s \in Seq(DOMAIN r)
  PROVE  /\ BySource(r, s) \in Seq(DOMAIN r) /\ Distinct(BySource(r, s))
         /\ ToSet(BySource(r, s)) = ToSet(s)
<1> DEFINE S == ToSet(s)
           key == [i \in S |-> r[i].source]
<1>1. S \in SUBSET DOMAIN r
  BY DEF ToSet
<1>2. BySource(r, s) = SortBy(S, key)
  BY DEF BySource
<1>3. \A i \in S : key[i] = r[i].source
  OBVIOUS
<1> HIDE DEF S, key
<1>4. S \in SUBSET Nat /\ IsFiniteSet(S) /\ \A i \in S : key[i] \in Int
  BY <1>1, <1>3, RowFacts, FS_Subset
<1>5. Enumerates(BySource(r, s), S)
  BY <1>2, <1>4, SortByFacts
<1>6. ToSet(BySource(r, s)) = S /\ Distinct(BySource(r, s)) /\ BySource(r, s) \in Seq(S)
  BY <1>5, EnumeratesSet
<1>7. BySource(r, s) \in Seq(DOMAIN r)
  BY <1>1, <1>6, SeqSuperset
<1> QED
  BY <1>6, <1>7 DEF S

-----------------------------------------------------------------------------
(* The rows of examples *)

Within(examples, S) == \A e \in examples : e.rows \subseteq S

LEMMA WithinDisjoint ==
  ASSUME NEW A, NEW B, NEW U, NEW V, Within(A, U), Within(B, V), U \cap V = {}
  PROVE  RowsOf(A) \cap RowsOf(B) = {}
<1>1. RowsOf(A) \subseteq U
  BY DEF RowsOf, Within
<1>2. RowsOf(B) \subseteq V
  BY DEF RowsOf, Within
<1> QED
  BY <1>1, <1>2

LEMMA HistoryWithin ==
  ASSUME NEW T, NEW s \in Seq(T), NEW r, NEW at, NEW k \in DOMAIN s
  PROVE  History(r, s, at, k) \subseteq ToSet(s)
<1>1. 1..k \subseteq DOMAIN s
  OBVIOUS
<1>2. History(r, s, at, k) \subseteq {s[j] : j \in 1..k}
  BY DEF History
<1> QED
  BY <1>1, <1>2 DEF ToSet

LEMMA VectorsWithin ==
  ASSUME NEW T, NEW s \in Seq(T), NEW r, NEW at, NEW label
  PROVE  Within(ToSet(Vectors(r, s, at, label)), ToSet(s))
<1> DEFINE v == Vectors(r, s, at, label)
<1>1. v = [k \in DOMAIN s |-> [label |-> label, rows |-> History(r, s, at, k)]]
  BY DEF Vectors
<1>2. \A k \in DOMAIN s : v[k].rows \subseteq ToSet(s)
  BY <1>1, HistoryWithin
<1>3. DOMAIN v = DOMAIN s
  BY <1>1
<1> HIDE DEF v
<1>4. \A e \in ToSet(v) : e.rows \subseteq ToSet(s)
  BY <1>2, <1>3 DEF ToSet
<1> QED
  BY <1>4 DEF Within, v

LEMMA FlushedWithin ==
  ASSUME NEW s, NEW at
  PROVE  \A n \in DOMAIN Flushed(s, at) : Flushed(s, at)[n].rows \subseteq ToSet(s)
<1>1. \A n \in DOMAIN Flushed(s, at) : \E J \in SUBSET DOMAIN s :
        Flushed(s, at)[n].rows = {s[k] : k \in J}
  BY DEF Flushed
<1> QED
  BY <1>1 DEF ToSet

LEMMA WindowsWithin ==
  ASSUME NEW s, NEW at, NEW label
  PROVE  Within(ToSet(Windows(s, at, label)), ToSet(s))
<1> DEFINE w == Windows(s, at, label)
<1>1. w = [k \in DOMAIN Flushed(s, at) |-> [label |-> label, rows |-> Flushed(s, at)[k].rows]]
  BY DEF Windows
<1>2. \A k \in DOMAIN w : w[k].rows \subseteq ToSet(s)
  BY <1>1, FlushedWithin
<1> HIDE DEF w
<1>3. \A e \in ToSet(w) : e.rows \subseteq ToSet(s)
  BY <1>2 DEF ToSet
<1> QED
  BY <1>3 DEF Within, w

\* What a model is scored on has no row that went into what it was fitted on.
Unseen(score) == RowsOf(score.train) \cap RowsOf(score.test) = {}

AllUnseen(result) == \A s \in result.scores : Unseen(s)

LEMMA ScoresUnseen ==
  ASSUME NEW kind, NEW sides, NEW U, NEW V, Within(sides["train"], U), Within(sides["test"], V),
         U \cap V = {}
  PROVE  Unseen(Scores(kind, sides))
<1>1. Scores(kind, sides).train = sides["train"] /\ Scores(kind, sides).test = sides["test"]
  BY DEF Scores
<1> QED
  BY <1>1, WithinDisjoint DEF Unseen

\* Two pools without a row in common, each cut in two
LEMMA FourParts ==
  ASSUME NEW kind, NEW sides, NEW N, NEW A, N \cap A = {},
         NEW nt \in SUBSET N, NEW nv \in SUBSET N, nt \cap nv = {},
         NEW at \in SUBSET A, NEW av \in SUBSET A, at \cap av = {},
         Within(sides["train"], nt \cup at), Within(sides["test"], nv \cup av)
  PROVE  Unseen(Scores(kind, sides))
<1> DEFINE U == nt \cup at
           V == nv \cup av
<1>1. U \cap V = {}
  OBVIOUS
<1>2. Within(sides["train"], U) /\ Within(sides["test"], V)
  OBVIOUS
<1> HIDE DEF U, V
<1> QED
  BY <1>1, <1>2, ScoresUnseen

LEMMA TogetherWithin ==
  ASSUME NEW benign, NEW attack, NEW b, NEW a, NEW side \in Sides,
         Within(ToSet(benign[side]), ToSet(b[side])), Within(ToSet(attack[side]), ToSet(a[side]))
  PROVE  Within(Together(benign, attack)[side], ToSet(b[side]) \cup ToSet(a[side]))
<1>1. Together(benign, attack)[side] = ToSet(benign[side]) \cup ToSet(attack[side])
  BY DEF Together
<1> QED
  BY <1>1 DEF Within

LEMMA SpacedVectorsWithin ==
  ASSUME NEW r \in Seq(Row), NEW split, NEW label, NEW side \in Sides,
         split[side] \in Seq(DOMAIN r)
  PROVE  Within(ToSet(SpacedVectors(r, split, label)[side]), ToSet(split[side]))
<1> DEFINE s == BySource(r, split[side])
<1>1. SpacedVectors(r, split, label)[side] = Vectors(r, s, Spaced(s), label)
  BY DEF SpacedVectors
<1>2. s \in Seq(DOMAIN r) /\ ToSet(s) = ToSet(split[side])
  BY BySourceFacts
<1> HIDE DEF s
<1> QED
  BY <1>1, <1>2, VectorsWithin

LEMMA SpacedWindowsWithin ==
  ASSUME NEW split, NEW label, NEW side \in Sides
  PROVE  Within(ToSet(SpacedWindows(split, label)[side]), ToSet(split[side]))
<1>1. SpacedWindows(split, label)[side] = Windows(split[side], Spaced(split[side]), label)
  BY DEF SpacedWindows
<1> QED
  BY <1>1, WindowsWithin

\* Rows of two classes, some of each, shuffled and cut
Pair(r, normal, attack) ==
  /\ normal \in Seq(DOMAIN r) /\ attack \in Seq(DOMAIN r)
  /\ Distinct(normal) /\ Distinct(attack)
  /\ ToSet(normal) \cap ToSet(attack) = {}

LEMMA PairUnseen ==
  ASSUME NEW r \in Seq(Row), NEW normal, NEW attack, Pair(r, normal, attack), NEW o, NEW p,
         NEW kind, NEW sides,
         \A side \in Sides :
           Within(sides[side], ToSet(SplitOf(normal, o)[side]) \cup ToSet(SplitOf(attack, p)[side]))
  PROVE  Unseen(Scores(kind, sides))
<1> DEFINE b == SplitOf(normal, o)
           a == SplitOf(attack, p)
<1>1. Splits(b, normal) /\ Splits(a, attack)
  BY SplitFacts DEF SplitOf, Pair
<1>2. /\ ToSet(b["train"]) \cap ToSet(b["test"]) = {}
      /\ \A side \in Sides : ToSet(b[side]) \subseteq ToSet(normal)
      /\ ToSet(a["train"]) \cap ToSet(a["test"]) = {}
      /\ \A side \in Sides : ToSet(a[side]) \subseteq ToSet(attack)
  BY <1>1, SplitApart DEF Pair
<1>3. ToSet(normal) \cap ToSet(attack) = {}
  BY DEF Pair
<1>4. \A side \in Sides : Within(sides[side], ToSet(b[side]) \cup ToSet(a[side]))
  OBVIOUS
<1> HIDE DEF a, b
<1> DEFINE N == ToSet(normal)
           A == ToSet(attack)
           nt == ToSet(b["train"])
           nv == ToSet(b["test"])
           at == ToSet(a["train"])
           av == ToSet(a["test"])
<1>5. /\ nt \in SUBSET N /\ nv \in SUBSET N /\ nt \cap nv = {}
      /\ at \in SUBSET A /\ av \in SUBSET A /\ at \cap av = {} /\ N \cap A = {}
  BY <1>2, <1>3 DEF Sides
<1>6. Within(sides["train"], nt \cup at) /\ Within(sides["test"], nv \cup av)
  BY <1>4 DEF Sides
<1> HIDE DEF N, A, nt, nv, at, av
<1> QED
  BY <1>5, <1>6, FourParts

\* The samples of two classes
LEMMA ClassPair ==
  ASSUME NEW r \in Seq(Row), NEW c, NEW d, c # d, NEW m \in Nat, NEW n \in Nat
  PROVE  /\ Pair(r, Prefix(OfClass(r, {c}), m), Prefix(OfClass(r, {d}), n))
         /\ Pair(r, Strided(OfClass(r, {c}), m), Strided(OfClass(r, {d}), n))
<1>1. /\ OfClass(r, {c}) \in Seq(DOMAIN r) /\ Distinct(OfClass(r, {c}))
      /\ ToSet(OfClass(r, {c})) = {i \in DOMAIN r : r[i].class = c}
  BY OfClassFacts
<1>2. /\ OfClass(r, {d}) \in Seq(DOMAIN r) /\ Distinct(OfClass(r, {d}))
      /\ ToSet(OfClass(r, {d})) = {i \in DOMAIN r : r[i].class = d}
  BY OfClassFacts
<1>3. ToSet(OfClass(r, {c})) \cap ToSet(OfClass(r, {d})) = {}
  BY <1>1, <1>2
<1>4. ASSUME NEW s, NEW t, s \in Seq(DOMAIN r), t \in Seq(DOMAIN r),
             Picks(s, OfClass(r, {c})), Picks(t, OfClass(r, {d}))
      PROVE  Pair(r, s, t)
  <2>1. Distinct(s) /\ Distinct(t)
    BY <1>1, <1>2, <1>4, PicksDistinct
  <2>2. ToSet(s) \subseteq ToSet(OfClass(r, {c})) /\ ToSet(t) \subseteq ToSet(OfClass(r, {d}))
    BY <1>4, PicksSubset
  <2> QED
    BY <1>3, <1>4, <2>1, <2>2 DEF Pair
<1>5. /\ Prefix(OfClass(r, {c}), m) \in Seq(DOMAIN r)
      /\ Picks(Prefix(OfClass(r, {c}), m), OfClass(r, {c}))
      /\ Prefix(OfClass(r, {d}), n) \in Seq(DOMAIN r)
      /\ Picks(Prefix(OfClass(r, {d}), n), OfClass(r, {d}))
  BY <1>1, <1>2, PrefixPicks
<1>6. /\ Strided(OfClass(r, {c}), m) \in Seq(DOMAIN r)
      /\ Picks(Strided(OfClass(r, {c}), m), OfClass(r, {c}))
      /\ Strided(OfClass(r, {d}), n) \in Seq(DOMAIN r)
      /\ Picks(Strided(OfClass(r, {d}), n), OfClass(r, {d}))
  BY <1>1, <1>2, StridedPicks
<1> QED
  BY <1>4, <1>5, <1>6

LEMMA BouncerByRowsUnseen ==
  ASSUME NEW r \in Seq(Row), NEW n \in Nat, NEW o
  PROVE  AllUnseen(BouncerByRows(r, n, o))
<1> DEFINE flood == Prefix(OfClass(r, {"flood"}), n)
           normal == Prefix(OfClass(r, {"normal"}), n)
           b == SplitOf(normal, o[2])
           a == SplitOf(flood, o[1])
           sides == Together(SpacedVectors(r, b, "benign"), SpacedVectors(r, a, "attack"))
<1>1. Pair(r, normal, flood)
  BY ClassPair
<1>2. BouncerByRows(r, n, o).scores \in {{}, {Scores("split", sides)}}
  BY DEF BouncerByRows, Skipped, Trained
<1> HIDE DEF flood, normal
<1>3. \A side \in Sides : b[side] \in Seq(DOMAIN r) /\ a[side] \in Seq(DOMAIN r)
  BY <1>1, SplitFacts DEF Pair, SplitOf
<1>4. \A side \in Sides : Within(sides[side], ToSet(b[side]) \cup ToSet(a[side]))
  <2> TAKE side \in Sides
  <2> HIDE DEF a, b
  <2>1. /\ Within(ToSet(SpacedVectors(r, b, "benign")[side]), ToSet(b[side]))
        /\ Within(ToSet(SpacedVectors(r, a, "attack")[side]), ToSet(a[side]))
    BY <1>3, SpacedVectorsWithin
  <2> QED
    BY <2>1, TogetherWithin
<1> HIDE DEF sides
<1>5. Unseen(Scores("split", sides))
  BY <1>1, <1>4, PairUnseen
<1> QED
  BY <1>2, <1>5 DEF AllUnseen

\* The windows of two classes, for a Detective or for the substitution
LEMMA SpacedWindowsTogether ==
  ASSUME NEW b, NEW a, NEW side \in Sides
  PROVE  Within(Together(SpacedWindows(b, "benign"), SpacedWindows(a, "attack"))[side],
                ToSet(b[side]) \cup ToSet(a[side]))
<1>1. /\ Within(ToSet(SpacedWindows(b, "benign")[side]), ToSet(b[side]))
      /\ Within(ToSet(SpacedWindows(a, "attack")[side]), ToSet(a[side]))
  BY SpacedWindowsWithin
<1> QED
  BY <1>1, TogetherWithin

LEMMA DetectiveByRowsUnseen ==
  ASSUME NEW r \in Seq(Row), NEW normal, NEW probe, Pair(r, normal, probe), NEW o
  PROVE  AllUnseen(DetectiveByRows(normal, probe, o))
<1> DEFINE b == SplitOf(normal, o[1])
           a == SplitOf(probe, o[2])
           sides == Together(SpacedWindows(b, "benign"), SpacedWindows(a, "attack"))
<1>1. DetectiveByRows(normal, probe, o).scores \in {{}, {Scores("split", sides)}}
  BY DEF DetectiveByRows, Skipped, Trained
<1>2. \A side \in Sides : Within(sides[side], ToSet(b[side]) \cup ToSet(a[side]))
  BY SpacedWindowsTogether
<1> HIDE DEF sides
<1>3. Unseen(Scores("split", sides))
  BY <1>2, PairUnseen
<1> QED
  BY <1>1, <1>3 DEF AllUnseen

-----------------------------------------------------------------------------
(* Files and days *)

GroupRows(r, days) == {i \in DOMAIN r : r[i].group \in days}

LEMMA InGroupRows ==
  ASSUME NEW r \in Seq(Row), NEW s \in Seq(DOMAIN r), NEW g
  PROVE  InGroup(r, s, g) \in Seq(DOMAIN r) /\ ToSet(InGroup(r, s, g)) \subseteq GroupRows(r, {g})
<1>1. /\ InGroup(r, s, g) \in Seq(DOMAIN r)
      /\ \A i \in ToSet(InGroup(r, s, g)) : r[i].group = g /\ i \in ToSet(s)
  BY InGroupFacts
<1>2. ToSet(s) \subseteq DOMAIN r
  BY DEF ToSet
<1> QED
  BY <1>1, <1>2 DEF GroupRows

\* run_repo and run_api: one file is fitted on, the other is scored.
LEMMA FilesUnseen ==
  ASSUME NEW r \in Seq(Row), NEW sides,
         \A side \in Sides : Within(sides[side], GroupRows(r, {File[side]}))
  PROVE  Unseen(Scores("files", sides))
<1>1. /\ Within(sides["train"], GroupRows(r, {1}))
      /\ Within(sides["test"], GroupRows(r, {2}))
  BY DEF Sides, File
<1>2. GroupRows(r, {1}) \cap GroupRows(r, {2}) = {}
  BY DEF GroupRows
<1> QED
  BY <1>1, <1>2, ScoresUnseen

LEMMA WithinMore ==
  ASSUME NEW A, NEW U, NEW V, Within(A, U), U \subseteq V
  PROVE  Within(A, V)
BY DEF Within

LEMMA WithinBoth ==
  ASSUME NEW A, NEW B, NEW U, NEW V, Within(A, U), Within(B, V)
  PROVE  Within(A \cup B, U \cup V)
BY DEF Within

LEMMA RepoUnseen ==
  ASSUME NEW r \in Seq(Row), NEW n \in Nat
  PROVE  AllUnseen(RepoBouncer(r)) /\ AllUnseen(RepoDetective(r, n))
<1>1. AllUnseen(RepoBouncer(r))
  <2> DEFINE Of(classes) == [side \in Sides |-> InGroup(r, OfClass(r, classes), File[side])]
             b == Of({"normal", "probe"})
             a == Of({"flood"})
             sides == Together(SpacedVectors(r, b, "benign"), SpacedVectors(r, a, "attack"))
  <2>1. RepoBouncer(r).scores = {Scores("files", sides)}
    BY DEF RepoBouncer, Trained
  <2>2. ASSUME NEW side \in Sides PROVE Within(sides[side], GroupRows(r, {File[side]}))
    <3>1. /\ b[side] \in Seq(DOMAIN r) /\ ToSet(b[side]) \subseteq GroupRows(r, {File[side]})
          /\ a[side] \in Seq(DOMAIN r) /\ ToSet(a[side]) \subseteq GroupRows(r, {File[side]})
      BY OfClassFacts, InGroupRows
    <3> HIDE DEF a, b
    <3>2. /\ Within(ToSet(SpacedVectors(r, b, "benign")[side]), ToSet(b[side]))
          /\ Within(ToSet(SpacedVectors(r, a, "attack")[side]), ToSet(a[side]))
      BY <3>1, SpacedVectorsWithin
    <3>3. Within(sides[side], ToSet(b[side]) \cup ToSet(a[side]))
      BY <3>2, TogetherWithin
    <3> QED
      BY <3>1, <3>3, WithinMore
  <2> HIDE DEF sides
  <2> QED
    BY <2>1, <2>2, FilesUnseen DEF AllUnseen
<1>2. AllUnseen(RepoDetective(r, n))
  <2> DEFINE Of(class) == [side \in Sides |->
                             Prefix(InGroup(r, OfClass(r, {class}), File[side]), n \div 2)]
             b == Of("normal")
             a == Of("probe")
             sides == Together(SpacedWindows(b, "benign"), SpacedWindows(a, "attack"))
  <2>1. RepoDetective(r, n).scores = {Scores("files", sides)}
    BY DEF RepoDetective, Trained
  <2>2. ASSUME NEW side \in Sides PROVE Within(sides[side], GroupRows(r, {File[side]}))
    <3>1. n \div 2 \in Nat
      OBVIOUS
    <3>2. ASSUME NEW class PROVE ToSet(Of(class)[side]) \subseteq GroupRows(r, {File[side]})
      <4> DEFINE g == InGroup(r, OfClass(r, {class}), File[side])
      <4>1. g \in Seq(DOMAIN r) /\ ToSet(g) \subseteq GroupRows(r, {File[side]})
        BY OfClassFacts, InGroupRows
      <4>2. Of(class)[side] = Prefix(g, n \div 2)
        OBVIOUS
      <4> HIDE DEF g
      <4>3. Picks(Prefix(g, n \div 2), g)
        BY <3>1, <4>1, PrefixPicks
      <4> QED
        BY <4>1, <4>2, <4>3, PicksSubset
    <3>3. Within(sides[side], ToSet(b[side]) \cup ToSet(a[side]))
      BY SpacedWindowsTogether
    <3>4. ToSet(b[side]) \cup ToSet(a[side]) \subseteq GroupRows(r, {File[side]})
      BY <3>2
    <3> QED
      BY <3>3, <3>4, WithinMore
  <2> HIDE DEF sides
  <2> QED
    BY <2>1, <2>2, FilesUnseen DEF AllUnseen
<1> QED
  BY <1>1, <1>2

LEMMA ApiUnseen ==
  ASSUME NEW r \in Seq(Row)
  PROVE  AllUnseen(ApiBouncer(r)) /\ AllUnseen(ApiDetective(r))
<1>1. \A side \in Sides : /\ Recorded(r, side) \in Seq(DOMAIN r)
                          /\ ToSet(Recorded(r, side)) \subseteq GroupRows(r, {File[side]})
  BY PositionsFacts, InGroupRows DEF Recorded
<1>2. AllUnseen(ApiBouncer(r))
  <2> DEFINE sides == [side \in Sides |->
               LET s == Recorded(r, side)
               IN {[label |-> IF r[s[k]].class = "flood" THEN "attack" ELSE "benign",
                    rows |-> History(r, s, AsRecorded(r, s), k)] : k \in DOMAIN s}]
  <2>1. ApiBouncer(r).scores = {Scores("files", sides)}
    BY DEF ApiBouncer, Trained
  <2>2. ASSUME NEW side \in Sides PROVE Within(sides[side], GroupRows(r, {File[side]}))
    <3> DEFINE s == Recorded(r, side)
    <3>1. s \in Seq(DOMAIN r) /\ ToSet(s) \subseteq GroupRows(r, {File[side]})
      BY <1>1
    <3>2. \A e \in sides[side] : \E k \in DOMAIN s : e.rows = History(r, s, AsRecorded(r, s), k)
      OBVIOUS
    <3> HIDE DEF s, sides
    <3>3. \A e \in sides[side] : e.rows \subseteq ToSet(s)
      BY <3>1, <3>2, HistoryWithin
    <3> QED
      BY <3>1, <3>3 DEF Within
  <2> HIDE DEF sides
  <2> QED
    BY <2>1, <2>2, FilesUnseen DEF AllUnseen
<1>3. AllUnseen(ApiDetective(r))
  <2> DEFINE sides == [side \in Sides |->
               LET s == Recorded(r, side)
                   cut == Flushed(s, AsRecorded(r, s))
               IN {[label |-> IF r[cut[k].last].class = "probe" THEN "attack" ELSE "benign",
                    rows |-> cut[k].rows] : k \in DOMAIN cut}]
  <2>1. ApiDetective(r).scores = {Scores("files", sides)}
    BY DEF ApiDetective, Trained
  <2>2. ASSUME NEW side \in Sides PROVE Within(sides[side], GroupRows(r, {File[side]}))
    <3> DEFINE s == Recorded(r, side)
               cut == Flushed(s, AsRecorded(r, s))
    <3>1. ToSet(s) \subseteq GroupRows(r, {File[side]})
      BY <1>1
    <3>2. \A e \in sides[side] : \E k \in DOMAIN cut : e.rows = cut[k].rows
      OBVIOUS
    <3>3. \A k \in DOMAIN cut : cut[k].rows \subseteq ToSet(s)
      BY FlushedWithin
    <3> HIDE DEF s, cut, sides
    <3> QED
      BY <3>1, <3>2, <3>3 DEF Within
  <2> HIDE DEF sides
  <2> QED
    BY <2>1, <2>2, FilesUnseen DEF AllUnseen
<1> QED
  BY <1>2, <1>3

\* What _collect_bouncer keeps of each day, all of it from that day and out of S.
DayPools(r, pools, S) ==
  \A d \in DOMAIN pools :
    /\ pools[d] \in Seq(DOMAIN r) /\ Distinct(pools[d])
    /\ ToSet(pools[d]) \subseteq S \cap GroupRows(r, {d})

RowsIn(pools) == UNION {ToSet(pools[d]) : d \in DOMAIN pools}

ClassRows(r, classes) == {i \in DOMAIN r : r[i].class \in classes}

LEMMA FloodPoolsFacts ==
  ASSUME NEW r \in Seq(Row), NEW n \in Nat
  PROVE  DayPools(r, FloodPools2018(r, n), ClassRows(r, {"flood"}))
<1> DEFINE pools == FloodPools2018(r, n)
           s == OfClass(r, {"flood"})
           of == [d \in Groups(r) |-> EvenSubsample(InGroup(r, s, d), n)]
<1>0. /\ pools = Pools(of)
      /\ \A d \in DOMAIN Pools(of) : d \in DOMAIN of /\ Pools(of)[d] = of[d]
  BY DEF Pools, FloodPools2018
<1>1. \A d \in DOMAIN pools : pools[d] = EvenSubsample(InGroup(r, s, d), n)
  BY <1>0
<1>2. s \in Seq(DOMAIN r) /\ Distinct(s) /\ ToSet(s) = ClassRows(r, {"flood"})
  BY OfClassFacts DEF ClassRows
<1> HIDE DEF pools, s
<1>3. ASSUME NEW d \in DOMAIN pools
      PROVE  /\ pools[d] \in Seq(DOMAIN r) /\ Distinct(pools[d])
             /\ ToSet(pools[d]) \subseteq ClassRows(r, {"flood"}) \cap GroupRows(r, {d})
  <2> DEFINE g == InGroup(r, s, d)
  <2>1. g \in Seq(DOMAIN r) /\ Picks(g, s) /\ ToSet(g) \subseteq GroupRows(r, {d})
    BY <1>2, InGroupFacts, InGroupRows
  <2>2. pools[d] = EvenSubsample(g, n)
    BY <1>1
  <2> HIDE DEF g
  <2>3. pools[d] \in Seq(DOMAIN r) /\ Picks(pools[d], g)
    BY <2>1, <2>2, EvenSubsamplePicks
  <2>4. Distinct(g) /\ ToSet(g) \subseteq ToSet(s)
    BY <1>2, <2>1, PicksDistinct, PicksSubset
  <2>5. Distinct(pools[d]) /\ ToSet(pools[d]) \subseteq ToSet(g)
    BY <2>3, <2>4, PicksDistinct, PicksSubset
  <2> QED
    BY <1>2, <2>1, <2>3, <2>4, <2>5
<1>4. \A d \in DOMAIN pools :
        /\ pools[d] \in Seq(DOMAIN r) /\ Distinct(pools[d])
        /\ ToSet(pools[d]) \subseteq ClassRows(r, {"flood"}) \cap GroupRows(r, {d})
  BY <1>3
<1> QED
  BY <1>4 DEF DayPools, pools

LEMMA BenignPoolsFacts ==
  ASSUME NEW r \in Seq(Row), NEW n \in Nat
  PROVE  DayPools(r, BenignPools2018(r, n), ClassRows(r, {"normal"}))
<1> DEFINE pools == BenignPools2018(r, n)
           s == OfClass(r, {"normal"})
           P(d) == {k \in DOMAIN InGroup(r, s, d) : ~InsideAttack(r, d, r[InGroup(r, s, d)[k]].at)}
           of == [d \in Groups(r) |-> EvenSubsample(Kept(InGroup(r, s, d), P(d)), n)]
<1>0. /\ pools = Pools(of)
      /\ \A d \in DOMAIN Pools(of) : d \in DOMAIN of /\ Pools(of)[d] = of[d]
  BY DEF Pools, BenignPools2018
<1>1. \A d \in DOMAIN pools : pools[d] = EvenSubsample(Kept(InGroup(r, s, d), P(d)), n)
  BY <1>0
<1>2. s \in Seq(DOMAIN r) /\ Distinct(s) /\ ToSet(s) = ClassRows(r, {"normal"})
  BY OfClassFacts DEF ClassRows
<1>3. \A d \in DOMAIN pools : P(d) \in SUBSET DOMAIN InGroup(r, s, d)
  OBVIOUS
<1> HIDE DEF pools, s, P
<1>4. ASSUME NEW d \in DOMAIN pools
      PROVE  /\ pools[d] \in Seq(DOMAIN r) /\ Distinct(pools[d])
             /\ ToSet(pools[d]) \subseteq ClassRows(r, {"normal"}) \cap GroupRows(r, {d})
  <2> DEFINE g == InGroup(r, s, d)
             h == Kept(g, P(d))
  <2>1. g \in Seq(DOMAIN r) /\ Picks(g, s) /\ ToSet(g) \subseteq GroupRows(r, {d})
    BY <1>2, InGroupFacts, InGroupRows
  <2>2. pools[d] = EvenSubsample(h, n) /\ P(d) \in SUBSET DOMAIN g
    BY <1>1, <1>3
  <2> HIDE DEF g
  <2>3. h \in Seq(DOMAIN r) /\ Picks(h, g)
    BY <2>1, <2>2, KeptPicks
  <2> HIDE DEF h
  <2>4. pools[d] \in Seq(DOMAIN r) /\ Picks(pools[d], h)
    BY <2>2, <2>3, EvenSubsamplePicks
  <2>5. Distinct(g) /\ ToSet(g) \subseteq ToSet(s)
    BY <1>2, <2>1, PicksDistinct, PicksSubset
  <2>6. Distinct(h) /\ ToSet(h) \subseteq ToSet(g)
    BY <2>3, <2>5, PicksDistinct, PicksSubset
  <2>7. Distinct(pools[d]) /\ ToSet(pools[d]) \subseteq ToSet(h)
    BY <2>4, <2>6, PicksDistinct, PicksSubset
  <2> QED
    BY <1>2, <2>1, <2>4, <2>5, <2>6, <2>7
<1>5. \A d \in DOMAIN pools :
        /\ pools[d] \in Seq(DOMAIN r) /\ Distinct(pools[d])
        /\ ToSet(pools[d]) \subseteq ClassRows(r, {"normal"}) \cap GroupRows(r, {d})
  BY <1>4
<1> QED
  BY <1>5 DEF DayPools, pools

LEMMA ReplayDaysWithin ==
  ASSUME NEW r \in Seq(Row), NEW pools, \A d \in DOMAIN pools : pools[d] \in Seq(DOMAIN r),
         NEW label
  PROVE  Within(ReplayDays(r, pools, label), RowsIn(pools))
<1> SUFFICES ASSUME NEW e \in ReplayDays(r, pools, label) PROVE e.rows \subseteq RowsIn(pools)
  BY DEF Within
<1>1. PICK d \in DOMAIN pools : e \in ToSet(Vectors(r, pools[d], AsRecorded(r, pools[d]), label))
  BY DEF ReplayDays
<1>2. Within(ToSet(Vectors(r, pools[d], AsRecorded(r, pools[d]), label)), ToSet(pools[d]))
  BY VectorsWithin
<1>3. e.rows \subseteq ToSet(pools[d])
  BY <1>1, <1>2 DEF Within
<1> QED
  BY <1>3 DEF RowsIn

\* _split_by_day keeps the training part of every day out of every test part.
LEMMA SplitByDayApart ==
  ASSUME NEW r \in Seq(Row), NEW S, NEW pools, DayPools(r, pools, S), NEW o, NEW n
  PROVE  /\ \A side \in Sides :
              /\ \A d \in DOMAIN SplitByDay(pools, o, n, side) :
                   SplitByDay(pools, o, n, side)[d] \in Seq(DOMAIN r)
              /\ RowsIn(SplitByDay(pools, o, n, side)) \subseteq S
         /\ RowsIn(SplitByDay(pools, o, n, "train")) \cap RowsIn(SplitByDay(pools, o, n, "test")) = {}
<1> DEFINE cut(d) == SplitOf(pools[d], o[n])
           part(side) == SplitByDay(pools, o, n, side)
<1>1. \A side : DOMAIN part(side) = DOMAIN pools /\ \A d \in DOMAIN pools : part(side)[d] = cut(d)[side]
  BY DEF SplitByDay
<1>2. ASSUME NEW d \in DOMAIN pools
      PROVE  /\ \A side \in Sides : /\ cut(d)[side] \in Seq(DOMAIN r)
                                    /\ ToSet(cut(d)[side]) \subseteq S \cap GroupRows(r, {d})
             /\ ToSet(cut(d)["train"]) \cap ToSet(cut(d)["test"]) = {}
  <2>1. /\ pools[d] \in Seq(DOMAIN r) /\ Distinct(pools[d])
        /\ ToSet(pools[d]) \subseteq S \cap GroupRows(r, {d})
    BY DEF DayPools
  <2>2. /\ \A side \in Sides : cut(d)[side] \in Seq(DOMAIN r)
        /\ Splits(cut(d), pools[d])
    BY <2>1, SplitFacts DEF SplitOf
  <2> HIDE DEF cut
  <2>3. /\ \A side \in Sides : ToSet(cut(d)[side]) \subseteq ToSet(pools[d])
        /\ ToSet(cut(d)["train"]) \cap ToSet(cut(d)["test"]) = {}
    BY <2>1, <2>2, SplitApart
  <2> QED
    BY <2>1, <2>2, <2>3
<1> HIDE DEF cut, part
<1>3. ASSUME NEW side \in Sides
      PROVE  /\ \A d \in DOMAIN part(side) : part(side)[d] \in Seq(DOMAIN r)
             /\ RowsIn(part(side)) \subseteq S
  <2>1. \A d \in DOMAIN part(side) : d \in DOMAIN pools /\ part(side)[d] = cut(d)[side]
    BY <1>1
  <2>2. \A d \in DOMAIN part(side) : part(side)[d] \in Seq(DOMAIN r) /\ ToSet(part(side)[d]) \subseteq S
    BY <1>2, <2>1
  <2> QED
    BY <2>2 DEF RowsIn
<1>4. ASSUME NEW x, x \in RowsIn(part("train")), x \in RowsIn(part("test")) PROVE FALSE
  <2>1. PICK d \in DOMAIN pools : x \in ToSet(cut(d)["train"])
    BY <1>1, <1>4 DEF RowsIn
  <2>2. PICK e \in DOMAIN pools : x \in ToSet(cut(e)["test"])
    BY <1>1, <1>4 DEF RowsIn
  <2>3. x \in GroupRows(r, {d}) /\ x \in GroupRows(r, {e})
    BY <1>2, <2>1, <2>2 DEF Sides
  <2>4. d = e
    BY <2>3 DEF GroupRows
  <2> QED
    BY <1>2, <2>1, <2>2, <2>4
<1>5. RowsIn(part("train")) \cap RowsIn(part("test")) = {}
  BY <1>4
<1>6. /\ \A side \in Sides : /\ \A d \in DOMAIN part(side) : part(side)[d] \in Seq(DOMAIN r)
                             /\ RowsIn(part(side)) \subseteq S
      /\ RowsIn(part("train")) \cap RowsIn(part("test")) = {}
  BY <1>3, <1>5
<1> QED
  BY <1>6 DEF part

LEMMA OnlyFacts ==
  ASSUME NEW r \in Seq(Row), NEW S, NEW pools, DayPools(r, pools, S), NEW days
  PROVE  /\ \A d \in DOMAIN Only(pools, days) : Only(pools, days)[d] \in Seq(DOMAIN r)
         /\ RowsIn(Only(pools, days)) \subseteq S \cap GroupRows(r, days)
<1> DEFINE o == Only(pools, days)
<1>1. \A d \in DOMAIN o : d \in days /\ d \in DOMAIN pools /\ o[d] = pools[d]
  BY DEF Only
<1> HIDE DEF o
<1>2. \A d \in DOMAIN o : o[d] \in Seq(DOMAIN r) /\ ToSet(o[d]) \subseteq S \cap GroupRows(r, {d})
  BY <1>1 DEF DayPools
<1>3. \A d \in days : GroupRows(r, {d}) \subseteq GroupRows(r, days)
  BY DEF GroupRows
<1>4. RowsIn(o) \subseteq S \cap GroupRows(r, days)
  BY <1>1, <1>2, <1>3 DEF RowsIn
<1>5. \A d \in DOMAIN o : o[d] \in Seq(DOMAIN r)
  BY <1>2
<1> QED
  BY <1>4, <1>5 DEF o

LEMMA Bouncer2018Unseen ==
  ASSUME NEW r \in Seq(Row), NEW n \in Nat, NEW o
  PROVE  AllUnseen(Bouncer2018(r, n, o))
<1> DEFINE flood == FloodPools2018(r, n)
           benign == BenignPools2018(r, n)
           sides == FitDays2018(r, flood, benign, o)
           F == ClassRows(r, {"flood"})
           N == ClassRows(r, {"normal"})
<1>1. Bouncer2018(r, n, o).scores \subseteq {Scores("split", sides)} \cup AcrossDays2018(r, flood, benign)
  BY DEF Bouncer2018, Skipped, Raises, Trained
<1>2. DayPools(r, flood, F) /\ DayPools(r, benign, N)
  BY FloodPoolsFacts, BenignPoolsFacts
<1>3. N \cap F = {}
  BY DEF ClassRows
<1> HIDE DEF flood, benign, F, N
<1>4. Unseen(Scores("split", sides))
  <2> DEFINE f(side) == SplitByDay(flood, o, 1, side)
             b(side) == SplitByDay(benign, o, 2, side)
             at == RowsIn(f("train"))
             av == RowsIn(f("test"))
             nt == RowsIn(b("train"))
             nv == RowsIn(b("test"))
  <2>1. \A side \in Sides : sides[side] = ReplayDays(r, f(side), "attack") \cup ReplayDays(r, b(side), "benign")
    BY DEF FitDays2018
  <2>2. /\ \A side \in Sides : /\ \A d \in DOMAIN f(side) : f(side)[d] \in Seq(DOMAIN r)
                               /\ RowsIn(f(side)) \subseteq F
        /\ at \cap av = {}
    BY <1>2, SplitByDayApart
  <2>3. /\ \A side \in Sides : /\ \A d \in DOMAIN b(side) : b(side)[d] \in Seq(DOMAIN r)
                               /\ RowsIn(b(side)) \subseteq N
        /\ nt \cap nv = {}
    BY <1>2, SplitByDayApart
  <2> HIDE DEF f, b, sides
  <2>4. ASSUME NEW side \in Sides
        PROVE  Within(sides[side], RowsIn(b(side)) \cup RowsIn(f(side)))
    <3>1. /\ Within(ReplayDays(r, f(side), "attack"), RowsIn(f(side)))
          /\ Within(ReplayDays(r, b(side), "benign"), RowsIn(b(side)))
      BY <2>2, <2>3, ReplayDaysWithin
    <3>2. Within(sides[side], RowsIn(f(side)) \cup RowsIn(b(side)))
      BY <2>1, <3>1, WithinBoth
    <3> QED
      BY <3>2 DEF Within
  <2>5. Within(sides["train"], nt \cup at) /\ Within(sides["test"], nv \cup av)
    BY <2>4 DEF Sides
  <2>6. at \in SUBSET F /\ av \in SUBSET F /\ nt \in SUBSET N /\ nv \in SUBSET N
    BY <2>2, <2>3 DEF Sides
  <2> HIDE DEF at, av, nt, nv
  <2> QED
    BY <1>3, <2>2, <2>3, <2>5, <2>6, FourParts
<1>5. ASSUME NEW s \in AcrossDays2018(r, flood, benign) PROVE Unseen(s)
  <2>1. PICK x \in FloodDays, y \in BenignDays : s = Scores("across", FitOn(r, flood, benign, x, y))
    BY DEF AcrossDays2018
  <2> DEFINE across == FitOn(r, flood, benign, x, y)
  <2> DEFINE at == RowsIn(Only(flood, {x}))
             av == RowsIn(Only(flood, FloodDays \ {x}))
             nt == RowsIn(Only(benign, {y}))
             nv == RowsIn(Only(benign, BenignDays \ {y}))
  <2>2. /\ Within(ReplayDays(r, Only(flood, {x}), "attack"), at)
        /\ Within(ReplayDays(r, Only(flood, FloodDays \ {x}), "attack"), av)
        /\ Within(ReplayDays(r, Only(benign, {y}), "benign"), nt)
        /\ Within(ReplayDays(r, Only(benign, BenignDays \ {y}), "benign"), nv)
    BY <1>2, OnlyFacts, ReplayDaysWithin
  <2>3. /\ at \subseteq F \cap GroupRows(r, {x}) /\ av \subseteq F \cap GroupRows(r, FloodDays \ {x})
        /\ nt \subseteq N \cap GroupRows(r, {y}) /\ nv \subseteq N \cap GroupRows(r, BenignDays \ {y})
    BY <1>2, OnlyFacts
  <2>4. at \cap av = {} /\ nt \cap nv = {}
    <3>1. \A z, D : GroupRows(r, {z}) \cap GroupRows(r, D \ {z}) = {}
      BY DEF GroupRows
    <3> HIDE DEF at, av, nt, nv
    <3>2. /\ GroupRows(r, {x}) \cap GroupRows(r, FloodDays \ {x}) = {}
          /\ GroupRows(r, {y}) \cap GroupRows(r, BenignDays \ {y}) = {}
      BY <3>1
    <3> QED
      BY <2>3, <3>2
  <2> HIDE DEF at, av, nt, nv
  <2>5. /\ across["train"] = ReplayDays(r, Only(flood, {x}), "attack")
                               \cup ReplayDays(r, Only(benign, {y}), "benign")
        /\ across["test"] = ReplayDays(r, Only(flood, FloodDays \ {x}), "attack")
                              \cup ReplayDays(r, Only(benign, BenignDays \ {y}), "benign")
    BY DEF FitOn
  <2>7. Within(across["train"], nt \cup at) /\ Within(across["test"], nv \cup av)
    BY <2>2, <2>5 DEF Within
  <2>8. at \in SUBSET F /\ av \in SUBSET F /\ nt \in SUBSET N /\ nv \in SUBSET N
    BY <2>3
  <2> HIDE DEF across
  <2>10. Unseen(Scores("across", across))
    BY <1>3, <2>4, <2>7, <2>8, FourParts
  <2> QED
    BY <2>1, <2>10 DEF across
<1> HIDE DEF sides
<1> QED
  BY <1>1, <1>4, <1>5 DEF AllUnseen

\* The windows of a day of CSE-CIC-IDS2018, and what collect_detective calls them
DayRows(r, d) == InGroup(r, Positions(r), d)
DayCut(r, d) == Flushed(DayRows(r, d), AsRecorded(r, DayRows(r, d)))
DayLabel(r, d, w) == IF InsideAttack(r, d, r[w.first].at) THEN "attack" ELSE "benign"

LEMMA DayRowsFacts ==
  ASSUME NEW r \in Seq(Row), NEW d
  PROVE  /\ DayRows(r, d) \in Seq(DOMAIN r) /\ Distinct(DayRows(r, d))
         /\ ToSet(DayRows(r, d)) \subseteq GroupRows(r, {d})
BY PositionsFacts, InGroupFacts, InGroupRows, PicksDistinct DEF DayRows

\* Windows have no event in common.
LEMMA FlushedApart ==
  ASSUME NEW T, NEW s \in Seq(T), Distinct(s), NEW at
  PROVE  /\ \E m \in Nat : DOMAIN Flushed(s, at) = 1..m
         /\ \A n \in DOMAIN Flushed(s, at) : Flushed(s, at)[n].first \in ToSet(s)
         /\ \A m, n \in DOMAIN Flushed(s, at) : m # n =>
              /\ Flushed(s, at)[m].rows \cap Flushed(s, at)[n].rows = {}
              /\ Flushed(s, at)[m].first # Flushed(s, at)[n].first
<1> DEFINE opener == Opener(at)
           S == {k \in DOMAIN s : opener[k] = k}
           opens == InOrder(S)
           w == Flushed(s, at)
<1>1. /\ DOMAIN w = DOMAIN opens
      /\ \A n \in DOMAIN opens :
           /\ w[n].rows = {s[k] : k \in {j \in DOMAIN s : opener[j] = opens[n]}}
           /\ w[n].first = s[opens[n]]
  BY DEF Flushed
<1>2. Len(s) \in Nat /\ DOMAIN s = 1..Len(s) /\ IsFiniteSet(1..Len(s))
  BY FS_Interval
<1>3. S \in SUBSET (Nat \ {0}) /\ S \in SUBSET DOMAIN s /\ IsFiniteSet(S)
  BY <1>2, FS_Subset
<1> HIDE DEF opener, S, w
<1>4. opens \in Seq(S) /\ Distinct(opens)
  BY <1>3, InOrderFacts, EnumeratesSet
<1> HIDE DEF opens
<1>5. \A n \in DOMAIN opens : opens[n] \in DOMAIN s
  <2>1. \A n \in DOMAIN opens : opens[n] \in S
    BY <1>4
  <2>2. S \subseteq DOMAIN s
    BY <1>3
  <2> QED
    BY <2>1, <2>2
<1>6. ASSUME NEW m \in DOMAIN opens, NEW n \in DOMAIN opens, m # n
      PROVE  w[m].rows \cap w[n].rows = {} /\ w[m].first # w[n].first
  <2>1. opens[m] # opens[n]
    BY <1>4, <1>6 DEF Distinct
  <2>2. w[m].first # w[n].first
    BY <1>1, <1>5, <2>1 DEF Distinct
  <2>3. ASSUME NEW k \in DOMAIN s, NEW l \in DOMAIN s, opener[k] = opens[m], opener[l] = opens[n],
               s[k] = s[l]
        PROVE  FALSE
    BY <2>1, <2>3 DEF Distinct
  <2> QED
    BY <1>1, <2>2, <2>3
<1>7. \E m \in Nat : DOMAIN w = 1..m
  <2>1. Len(opens) \in Nat /\ DOMAIN opens = 1..Len(opens)
    BY <1>4
  <2> QED
    BY <1>1, <2>1
<1>8. \A n \in DOMAIN w : w[n].first \in ToSet(s)
  BY <1>1, <1>5 DEF ToSet
<1>9. \A m, n \in DOMAIN w : m # n =>
        w[m].rows \cap w[n].rows = {} /\ w[m].first # w[n].first
  BY <1>1, <1>6
<1> QED
  BY <1>7, <1>8, <1>9 DEF w

LEMMA DayCutFacts ==
  ASSUME NEW r \in Seq(Row), NEW d
  PROVE  /\ \E m \in Nat : DOMAIN DayCut(r, d) = 1..m
         /\ \A n \in DOMAIN DayCut(r, d) :
              /\ DayCut(r, d)[n].rows \subseteq GroupRows(r, {d})
              /\ DayCut(r, d)[n].first \in GroupRows(r, {d})
         /\ \A m, n \in DOMAIN DayCut(r, d) : m # n =>
              /\ DayCut(r, d)[m].rows \cap DayCut(r, d)[n].rows = {}
              /\ DayCut(r, d)[m].first # DayCut(r, d)[n].first
<1> DEFINE s == DayRows(r, d)
           at == AsRecorded(r, s)
<1>1. s \in Seq(DOMAIN r) /\ Distinct(s) /\ ToSet(s) \subseteq GroupRows(r, {d})
  BY DayRowsFacts
<1>2. DayCut(r, d) = Flushed(s, at)
  BY DEF DayCut
<1> HIDE DEF s, at
<1>3. \A n \in DOMAIN Flushed(s, at) : Flushed(s, at)[n].rows \subseteq ToSet(s)
  BY FlushedWithin
<1>4. /\ \E m \in Nat : DOMAIN Flushed(s, at) = 1..m
      /\ \A n \in DOMAIN Flushed(s, at) : Flushed(s, at)[n].first \in ToSet(s)
      /\ \A m, n \in DOMAIN Flushed(s, at) : m # n =>
           /\ Flushed(s, at)[m].rows \cap Flushed(s, at)[n].rows = {}
           /\ Flushed(s, at)[m].first # Flushed(s, at)[n].first
  BY <1>1, FlushedApart
<1> QED
  BY <1>1, <1>2, <1>3, <1>4

LEMMA DayWindowsFacts ==
  ASSUME NEW r \in Seq(Row), NEW label, NEW d \in DetectiveDays, NEW n \in Nat
  PROVE  \A w \in ToSet(DayWindows2018(r, label, d, n)) :
           \E k \in DOMAIN DayCut(r, d) : w = DayCut(r, d)[k] /\ DayLabel(r, d, w) = label
<1> DEFINE cut == Closed(DayRows(r, d), AsRecorded(r, DayRows(r, d)))
           P == {k \in DOMAIN cut : DayLabel(r, d, cut[k]) = label}
           q == n \div Cardinality(DetectiveDays)
           bound == IF q = 0 THEN 1 ELSE q
<1>1. DayWindows2018(r, label, d, n) = Prefix(Kept(cut, P), bound)
  BY DEF DayWindows2018, DayRows, DayLabel
<1>2. bound \in Nat
  <2>1. IsFiniteSet(DetectiveDays)
    BY ExperimentAssumption
  <2>2. Cardinality(DetectiveDays) \in Nat /\ Cardinality(DetectiveDays) # 0
    BY <2>1, FS_CardinalityType, FS_EmptySet
  <2> QED
    BY <2>2
<1>3. \A k \in P : DayLabel(r, d, cut[k]) = label
  OBVIOUS
<1>4. P \in SUBSET DOMAIN cut
  OBVIOUS
<1>5. /\ cut \in Seq(ToSet(cut))
      /\ \A k \in DOMAIN cut : k \in DOMAIN DayCut(r, d) /\ cut[k] = DayCut(r, d)[k]
  <2> DEFINE all == DayCut(r, d)
  <2>1. PICK m \in Nat : DOMAIN all = 1..m
    BY DayCutFacts
  <2>2. cut = SubSeq(all, 1, Len(all) - 1)
    BY DEF Closed, DayCut
  <2>3. all = [k \in 1..m |-> all[k]]
    BY <2>1 DEF DayCut, Flushed
  <2> HIDE DEF all, cut
  <2>4. all \in Seq({all[k] : k \in 1..m}) /\ Len(all) = m
    BY <2>3
  <2>5. cut = [k \in 1..m - 1 |-> all[k]]
    BY <2>2, <2>4
  <2>6. DOMAIN cut = 1..m - 1 /\ \A k \in 1..m - 1 : cut[k] = all[k]
    BY <2>5
  <2>7. cut \in [1..m - 1 -> ToSet(cut)]
    BY <2>5, <2>6 DEF ToSet
  <2>8. m - 1 \in Nat \/ m = 0
    BY <2>1
  <2>9. cut \in Seq(ToSet(cut))
    <3>1. CASE m - 1 \in Nat
      BY <2>7, <3>1
    <3>2. CASE m = 0
      <4>1. 1..m - 1 = 1..0
        BY <3>2
      <4> QED
        BY <2>7, <4>1
    <3> QED
      BY <2>8, <3>1, <3>2
  <2> QED
    BY <2>1, <2>6, <2>9 DEF all
<1> HIDE DEF cut, P, bound
<1>6. /\ Kept(cut, P) \in Seq(ToSet(cut))
      /\ \A k \in DOMAIN Kept(cut, P) : \E i \in P : Kept(cut, P)[k] = cut[i]
  BY <1>4, <1>5, KeptPicks
<1>7. Picks(Prefix(Kept(cut, P), bound), Kept(cut, P))
  BY <1>2, <1>6, PrefixPicks
<1>8. ToSet(Prefix(Kept(cut, P), bound)) \subseteq ToSet(Kept(cut, P))
  BY <1>7, PicksSubset
<1>9. \A w \in ToSet(Kept(cut, P)) : \E i \in P : w = cut[i]
  BY <1>6 DEF ToSet
<1> QED
  BY <1>1, <1>3, <1>4, <1>5, <1>8, <1>9

\* An example of a Detective on CSE-CIC-IDS2018 is a window of one of its days.
IsWindow(r, e, label, d, k) ==
  /\ d \in DetectiveDays /\ k \in DOMAIN DayCut(r, d)
  /\ e.rows = DayCut(r, d)[k].rows /\ DayLabel(r, d, DayCut(r, d)[k]) = label

LEMMA WindowsApart ==
  ASSUME NEW r \in Seq(Row), NEW e, NEW f, NEW la, NEW lb, NEW d, NEW c, NEW k, NEW l,
         IsWindow(r, e, la, d, k), IsWindow(r, f, lb, c, l),
         la # lb \/ DayCut(r, d)[k].first # DayCut(r, c)[l].first
  PROVE  e.rows \cap f.rows = {}
<1>1. CASE d = c
  <2>1. k # l
    BY <1>1 DEF IsWindow
  <2> QED
    BY <1>1, <2>1, DayCutFacts DEF IsWindow
<1>2. CASE d # c
  <2>1. e.rows \subseteq GroupRows(r, {d}) /\ f.rows \subseteq GroupRows(r, {c})
    BY DayCutFacts DEF IsWindow
  <2>2. GroupRows(r, {d}) \cap GroupRows(r, {c}) = {}
    BY <1>2 DEF GroupRows
  <2> QED
    BY <2>1, <2>2
<1> QED
  BY <1>1, <1>2

\* The windows that one label has over the days
LEMMA Windows2018Facts ==
  ASSUME NEW r \in Seq(Row), NEW label, NEW n \in Nat
  PROVE  LET W == Windows2018(r, label, n) IN
         /\ W \in Seq(ToSet(W))
         /\ \A i \in DOMAIN W : \E d, k : IsWindow(r, W[i], label, d, k)
         /\ \A i, j \in DOMAIN W : i # j => W[i].rows \cap W[j].rows = {}
<1> DEFINE windows == UNION {ToSet(DayWindows2018(r, label, d, n)) : d \in DetectiveDays}
           openers == {w.first : w \in windows}
           key == [i \in openers |-> r[i].group]
           order == SortBy(openers, key)
           chosen(i) == CHOOSE w \in windows : w.first = order[i]
           W == Windows2018(r, label, n)
<1>1. W = [i \in DOMAIN order |-> [label |-> label, rows |-> chosen(i).rows]]
  BY DEF Windows2018
<1>2. ASSUME NEW w \in windows
      PROVE  \E d \in DetectiveDays : \E k \in DOMAIN DayCut(r, d) :
               w = DayCut(r, d)[k] /\ DayLabel(r, d, w) = label
  <2>1. PICK d \in DetectiveDays : w \in ToSet(DayWindows2018(r, label, d, n))
    OBVIOUS
  <2> QED
    BY <2>1, DayWindowsFacts
<1> HIDE DEF windows
<1>3. openers \subseteq DOMAIN r
  <2> SUFFICES ASSUME NEW w \in windows PROVE w.first \in DOMAIN r
    OBVIOUS
  <2>1. PICK d \in DetectiveDays : \E k \in DOMAIN DayCut(r, d) : w = DayCut(r, d)[k]
    BY <1>2
  <2>2. w.first \in GroupRows(r, {d})
    BY <2>1, DayCutFacts
  <2> QED
    BY <2>2 DEF GroupRows
<1>4. openers \in SUBSET Nat /\ IsFiniteSet(openers) /\ \A i \in openers : key[i] \in Int
  <2>1. DOMAIN r \in SUBSET Nat /\ IsFiniteSet(DOMAIN r) /\ \A i \in DOMAIN r : r[i].group \in Int
    BY RowFacts
  <2>2. \A i \in openers : key[i] = r[i].group
    OBVIOUS
  <2> HIDE DEF openers, key
  <2> QED
    BY <1>3, <2>1, <2>2, FS_Subset
<1>5. \A i \in openers : \E w \in windows : w.first = i
  OBVIOUS
<1> HIDE DEF openers, key
<1>6. Enumerates(order, openers)
  BY <1>4, SortByFacts
<1>7. order \in Seq(openers) /\ Distinct(order)
  BY <1>6, EnumeratesSet
<1> HIDE DEF order
<1>8. \A i \in DOMAIN order : chosen(i) \in windows /\ chosen(i).first = order[i]
  <2> TAKE i \in DOMAIN order
  <2>1. order[i] \in openers
    BY <1>7
  <2>2. \E w \in windows : w.first = order[i]
    BY <1>5, <2>1
  <2> QED
    BY <2>2
<1> HIDE DEF chosen, W
<1>9. DOMAIN W = DOMAIN order /\ \A i \in DOMAIN order : W[i].rows = chosen(i).rows
  BY <1>1
<1>10. W \in Seq(ToSet(W))
  <2>1. Len(order) \in Nat /\ DOMAIN order = 1..Len(order)
    BY <1>7
  <2>2. W \in [1..Len(order) -> ToSet(W)]
    BY <1>1, <1>9, <2>1 DEF ToSet
  <2> QED
    BY <2>1, <2>2
<1>11. ASSUME NEW i \in DOMAIN W
       PROVE  \E d, k : IsWindow(r, W[i], label, d, k) /\ DayCut(r, d)[k].first = order[i]
  <2>1. chosen(i) \in windows /\ chosen(i).first = order[i] /\ W[i].rows = chosen(i).rows
    BY <1>8, <1>9
  <2>2. PICK d \in DetectiveDays : \E k \in DOMAIN DayCut(r, d) :
          chosen(i) = DayCut(r, d)[k] /\ DayLabel(r, d, chosen(i)) = label
    BY <1>2, <2>1
  <2> QED
    BY <2>1, <2>2 DEF IsWindow
<1>12. ASSUME NEW i \in DOMAIN W, NEW j \in DOMAIN W, i # j PROVE W[i].rows \cap W[j].rows = {}
  <2>1. order[i] # order[j]
    BY <1>7, <1>9, <1>12 DEF Distinct
  <2>2. PICK d, k : IsWindow(r, W[i], label, d, k) /\ DayCut(r, d)[k].first = order[i]
    BY <1>11
  <2>3. PICK c, l : IsWindow(r, W[j], label, c, l) /\ DayCut(r, c)[l].first = order[j]
    BY <1>11
  <2> QED
    BY <2>1, <2>2, <2>3, WindowsApart
<1>13. \A i \in DOMAIN W : \E d, k : IsWindow(r, W[i], label, d, k)
  BY <1>11
<1> QED
  BY <1>10, <1>12, <1>13 DEF W

LEMMA Detective2018Unseen ==
  ASSUME NEW r \in Seq(Row), NEW n \in Nat, NEW o
  PROVE  AllUnseen(Detective2018(r, n, o))
<1> DEFINE wa == Windows2018(r, "attack", n)
           wb == Windows2018(r, "benign", n)
           sa == EvenSubsample(wa, n)
           sb == EvenSubsample(wb, n)
           a == SplitOf(sa, o[1])
           b == SplitOf(sb, o[2])
           sides == [side \in Sides |-> ToSet(a[side]) \cup ToSet(b[side])]
<1>1. Detective2018(r, n, o).scores \subseteq {Scores("split", sides)}
  BY DEF Detective2018, Skipped, Trained
<1>2. /\ wa \in Seq(ToSet(wa))
      /\ \A i \in DOMAIN wa : \E d, k : IsWindow(r, wa[i], "attack", d, k)
      /\ \A i, j \in DOMAIN wa : i # j => wa[i].rows \cap wa[j].rows = {}
  BY Windows2018Facts
<1>3. /\ wb \in Seq(ToSet(wb))
      /\ \A i \in DOMAIN wb : \E d, k : IsWindow(r, wb[i], "benign", d, k)
      /\ \A i, j \in DOMAIN wb : i # j => wb[i].rows \cap wb[j].rows = {}
  BY Windows2018Facts
<1> HIDE DEF wa, wb
<1>4. /\ sa \in Seq(ToSet(wa)) /\ Picks(sa, wa)
      /\ sb \in Seq(ToSet(wb)) /\ Picks(sb, wb)
  BY <1>2, <1>3, EvenSubsamplePicks
<1> HIDE DEF sa, sb
<1>5. Splits(a, sa) /\ Splits(b, sb)
  BY <1>4, SplitFacts DEF SplitOf
<1> HIDE DEF a, b
<1>6. ASSUME NEW s, NEW w, Picks(s, w), NEW t, Splits(t, s),
             \A i, j \in DOMAIN w : i # j => w[i].rows \cap w[j].rows = {}
      PROVE  /\ \A e \in ToSet(t["train"]), f \in ToSet(t["test"]) : e.rows \cap f.rows = {}
             /\ \A side \in Sides : ToSet(t[side]) \subseteq ToSet(w)
  <2>1. ASSUME NEW i \in DOMAIN s, NEW j \in DOMAIN s, i # j PROVE s[i].rows \cap s[j].rows = {}
    <3>1. PICK k \in DOMAIN w, l \in DOMAIN w : k # l /\ s[i] = w[k] /\ s[j] = w[l]
      BY <1>6, <2>1 DEF Picks
    <3> QED
      BY <1>6, <3>1
  <2>2. ASSUME NEW k \in DOMAIN t["train"], NEW l \in DOMAIN t["test"]
        PROVE  t["train"][k].rows \cap t["test"][l].rows = {}
    <3>1. PICK i \in DOMAIN s, j \in DOMAIN s : i # j /\ t["train"][k] = s[i] /\ t["test"][l] = s[j]
      BY <1>6 DEF Splits
    <3> QED
      BY <2>1, <3>1
  <2>3. \A side \in Sides : ToSet(t[side]) \subseteq ToSet(w)
    BY <1>6, PicksSubset DEF Splits
  <2>4. \A e \in ToSet(t["train"]), f \in ToSet(t["test"]) : e.rows \cap f.rows = {}
    BY <2>2 DEF ToSet
  <2> QED
    BY <2>3, <2>4
<1>7. /\ \A e \in ToSet(a["train"]), f \in ToSet(a["test"]) : e.rows \cap f.rows = {}
      /\ \A side \in Sides : ToSet(a[side]) \subseteq ToSet(wa)
  BY <1>2, <1>4, <1>5, <1>6
<1>8. /\ \A e \in ToSet(b["train"]), f \in ToSet(b["test"]) : e.rows \cap f.rows = {}
      /\ \A side \in Sides : ToSet(b[side]) \subseteq ToSet(wb)
  BY <1>3, <1>4, <1>5, <1>6
<1>9. ASSUME NEW e \in ToSet(wa), NEW f \in ToSet(wb) PROVE e.rows \cap f.rows = {}
  <2>1. PICK d, k : IsWindow(r, e, "attack", d, k)
    BY <1>2 DEF ToSet
  <2>2. PICK c, l : IsWindow(r, f, "benign", c, l)
    BY <1>3 DEF ToSet
  <2>3. "attack" # "benign"
    OBVIOUS
  <2> QED
    BY <2>1, <2>2, <2>3, WindowsApart
<1>10. ASSUME NEW e \in sides["train"], NEW f \in sides["test"] PROVE e.rows \cap f.rows = {}
  <2>1. /\ e \in ToSet(a["train"]) \/ e \in ToSet(b["train"])
        /\ f \in ToSet(a["test"]) \/ f \in ToSet(b["test"])
    BY DEF Sides
  <2>2. \A x \in ToSet(wa), y \in ToSet(wb) : x.rows \cap y.rows = {} /\ y.rows \cap x.rows = {}
    BY <1>9
  <2>3. /\ ToSet(a["train"]) \subseteq ToSet(wa) /\ ToSet(a["test"]) \subseteq ToSet(wa)
        /\ ToSet(b["train"]) \subseteq ToSet(wb) /\ ToSet(b["test"]) \subseteq ToSet(wb)
    BY <1>7, <1>8 DEF Sides
  <2> QED
    BY <1>7, <1>8, <2>1, <2>2, <2>3
<1> HIDE DEF sides
<1>11. Unseen(Scores("split", sides))
  BY <1>10 DEF Unseen, Scores, RowsOf
<1> QED
  BY <1>1, <1>11 DEF AllUnseen

\* run_cicddos2019 splits vectors whose histories overlap, but leaves whole days out.
LEMMA DayVectorsWithin ==
  ASSUME NEW r \in Seq(Row), NEW d, NEW class, NEW label, NEW n \in Nat
  PROVE  Within(ToSet(DayVectors(r, d, class, label, n)), GroupRows(r, {d}))
<1> DEFINE s == DayRows(r, d)
           v == Vectors(r, s, AsRecorded(r, s), label)
           P == {k \in DOMAIN s : /\ r[s[k]].class = class
                                  /\ class = "normal" => r[s[k]].source \notin FloodHosts(r, d)}
<1>1. DayVectors(r, d, class, label, n) = EvenSubsample(Kept(v, P), n)
  BY DEF DayVectors, DayRows
<1>2. s \in Seq(DOMAIN r) /\ ToSet(s) \subseteq GroupRows(r, {d})
  BY DayRowsFacts
<1>3. DOMAIN v = DOMAIN s /\ P \in SUBSET DOMAIN s
  BY DEF Vectors
<1>4. Within(ToSet(v), ToSet(s))
  BY <1>2, VectorsWithin
<1>5. v \in Seq(ToSet(v))
  <2>1. Len(s) \in Nat /\ DOMAIN s = 1..Len(s)
    BY <1>2
  <2>2. v = [k \in 1..Len(s) |-> v[k]]
    BY <2>1 DEF Vectors
  <2> HIDE DEF v
  <2>3. v \in [1..Len(s) -> ToSet(v)]
    BY <1>3, <2>1, <2>2 DEF ToSet
  <2> QED
    BY <2>1, <2>3
<1> HIDE DEF s, v, P
<1>6. Kept(v, P) \in Seq(ToSet(v)) /\ Picks(Kept(v, P), v)
  BY <1>3, <1>5, KeptPicks
<1>7. Picks(EvenSubsample(Kept(v, P), n), Kept(v, P))
  BY <1>6, EvenSubsamplePicks
<1>8. ToSet(EvenSubsample(Kept(v, P), n)) \subseteq ToSet(v)
  BY <1>6, <1>7, PicksSubset
<1> QED
  BY <1>1, <1>2, <1>4, <1>8 DEF Within

LEMMA VectorsOfWithin ==
  ASSUME NEW r \in Seq(Row), NEW pools,
         \A d \in DOMAIN pools : Within(ToSet(pools[d]), GroupRows(r, {d})), NEW days
  PROVE  Within(VectorsOf(Only(pools, days)), GroupRows(r, days))
<1> SUFFICES ASSUME NEW e \in VectorsOf(Only(pools, days)) PROVE e.rows \subseteq GroupRows(r, days)
  BY DEF Within
<1>1. PICK d \in DOMAIN Only(pools, days) : e \in ToSet(Only(pools, days)[d])
  BY DEF VectorsOf
<1>2. d \in days /\ d \in DOMAIN pools /\ Only(pools, days)[d] = pools[d]
  BY <1>1 DEF Only
<1>3. e.rows \subseteq GroupRows(r, {d})
  BY <1>1, <1>2 DEF Within
<1>4. GroupRows(r, {d}) \subseteq GroupRows(r, days)
  BY <1>2 DEF GroupRows
<1> QED
  BY <1>3, <1>4

LEMMA Bouncer2019Unseen ==
  ASSUME NEW r \in Seq(Row), NEW n \in Nat, NEW o
  PROVE  \A s \in Bouncer2019(r, n, o).scores : s.kind = "split" \/ Unseen(s)
<1> DEFINE usable == UsableDays(r, n)
           flood == [d \in usable |-> DayVectors(r, d, "flood", "attack", n)]
           benign == [d \in usable |-> DayVectors(r, d, "normal", "benign", n)]
           sides == [side \in Sides |-> VectorsOf(SplitByDay(flood, o, 1, side))
                                          \cup VectorsOf(SplitByDay(benign, o, 2, side))]
           archives == Groups(r)
<1>1. Bouncer2019(r, n, o).scores \subseteq
        {Scores("split", sides)} \cup AcrossDays2019(flood, benign, archives)
  BY DEF Bouncer2019, Skipped, Raises, Trained
<1>2. /\ \A d \in DOMAIN flood : Within(ToSet(flood[d]), GroupRows(r, {d}))
      /\ \A d \in DOMAIN benign : Within(ToSet(benign[d]), GroupRows(r, {d}))
  BY DayVectorsWithin
<1> HIDE DEF flood, benign, sides, archives
<1>3. Scores("split", sides).kind = "split"
  BY DEF Scores
<1>4. ASSUME NEW s \in AcrossDays2019(flood, benign, archives) PROVE Unseen(s)
  <2>1. PICK t : s = Scores("across", LeaveOut(flood, benign, archives, t))
    BY DEF AcrossDays2019
  <2> DEFINE across == LeaveOut(flood, benign, archives, t)
             U == GroupRows(r, archives \ {t})
             V == GroupRows(r, {t})
  <2>2. /\ across["train"] = VectorsOf(Only(flood, archives \ {t})) \cup VectorsOf(Only(benign, archives \ {t}))
        /\ across["test"] = VectorsOf(Only(flood, {t})) \cup VectorsOf(Only(benign, {t}))
    BY DEF LeaveOut
  <2>3. /\ Within(VectorsOf(Only(flood, archives \ {t})), U)
        /\ Within(VectorsOf(Only(benign, archives \ {t})), U)
        /\ Within(VectorsOf(Only(flood, {t})), V)
        /\ Within(VectorsOf(Only(benign, {t})), V)
    BY <1>2, VectorsOfWithin
  <2>4. U \cap V = {}
    BY DEF GroupRows
  <2> HIDE DEF U, V
  <2>5. Within(across["train"], U) /\ Within(across["test"], V)
    BY <2>2, <2>3 DEF Within
  <2> HIDE DEF across
  <2>6. Unseen(Scores("across", across))
    BY <2>4, <2>5, ScoresUnseen
  <2> QED
    BY <2>1, <2>6 DEF across
<1> QED
  BY <1>1, <1>3, <1>4

-----------------------------------------------------------------------------
(* Captures *)

LEMMA GroupsFacts ==
  ASSUME NEW r \in Seq(Row)
  PROVE  Groups(r) \in SUBSET (Nat \ {0}) /\ IsFiniteSet(Groups(r))
<1> DEFINE f == [i \in DOMAIN r |-> r[i].group]
<1>1. IsFiniteSet(DOMAIN r) /\ \A i \in DOMAIN r : r[i].group \in Nat \ {0}
  BY RowFacts
<1>2. f \in Surjection(DOMAIN r, Groups(r))
  BY DEF Surjection, Groups
<1> HIDE DEF f
<1>3. IsFiniteSet(Groups(r))
  BY <1>1, <1>2, FS_Surjection
<1> QED
  BY <1>1, <1>3 DEF Groups

\* _split_pool: no flow of a family is on both sides, be it by capture or every third.
LEMMA SplitPoolFacts ==
  ASSUME NEW r \in Seq(Row), NEW class, NEW o
  PROVE  /\ \A side \in Sides :
              /\ SplitPool(r, class, o)[side] \in Seq(DOMAIN r)
              /\ Distinct(SplitPool(r, class, o)[side])
              /\ ToSet(SplitPool(r, class, o)[side]) \subseteq GroupRows(r, CapturesOf(r, class))
         /\ ToSet(SplitPool(r, class, o)["train"]) \cap ToSet(SplitPool(r, class, o)["test"]) = {}
<1> DEFINE captures == CapturesOf(r, class)
           pool == SplitPool(r, class, o)
<1>1. captures \in SUBSET (Nat \ {0}) /\ IsFiniteSet(captures)
  <2>1. captures \subseteq Groups(r)
    BY DEF CapturesOf
  <2> HIDE DEF captures
  <2> QED
    BY <2>1, GroupsFacts, FS_Subset
<1>2. CASE Cardinality(captures) >= 2
  <2> DEFINE s == InOrder(captures)
             held == SplitAt(s, o, CaptureShare(Cardinality(captures)))
  <2>1. \A side \in Sides : pool[side] = FlowsOf(r, ToSet(held[side]))
    BY <1>2 DEF SplitPool
  <2> HIDE DEF captures, pool
  <2>2. ToSet(s) = captures /\ Distinct(s) /\ s \in Seq(captures)
    BY <1>1, InOrderFacts, EnumeratesSet
  <2> HIDE DEF s
  <2>3. Splits(held, s)
    BY <2>2, SplitFacts
  <2> HIDE DEF held
  <2>4. /\ ToSet(held["train"]) \cap ToSet(held["test"]) = {}
        /\ \A side \in Sides : ToSet(held[side]) \subseteq captures
    BY <2>2, <2>3, SplitApart
  <2>5. ASSUME NEW side \in Sides
        PROVE  /\ pool[side] \in Seq(DOMAIN r) /\ Distinct(pool[side])
               /\ ToSet(pool[side]) = GroupRows(r, ToSet(held[side]))
    <3>1. pool[side] = ByTime(r, GroupRows(r, ToSet(held[side])))
      BY <2>1 DEF FlowsOf, GroupRows
    <3>2. GroupRows(r, ToSet(held[side])) \in SUBSET DOMAIN r
      BY DEF GroupRows
    <3> QED
      BY <3>1, <3>2, ByTimeFacts
  <2>6. \A side \in Sides : GroupRows(r, ToSet(held[side])) \subseteq GroupRows(r, captures)
    BY <2>4 DEF GroupRows
  <2>7. GroupRows(r, ToSet(held["train"])) \cap GroupRows(r, ToSet(held["test"])) = {}
    BY <2>4 DEF GroupRows
  <2>8. ToSet(pool["train"]) \cap ToSet(pool["test"]) = {}
    BY <2>5, <2>7 DEF Sides
  <2>9. \A side \in Sides :
          /\ pool[side] \in Seq(DOMAIN r) /\ Distinct(pool[side])
          /\ ToSet(pool[side]) \subseteq GroupRows(r, captures)
    BY <2>5, <2>6
  <2> QED
    BY <2>8, <2>9 DEF pool, captures
<1>3. CASE ~(Cardinality(captures) >= 2)
  <2> DEFINE all == GroupRows(r, captures)
             flows == InOrder(all)
             third == {k \in DOMAIN flows : k % 3 = 0}
             rest == DOMAIN flows \ third
  <2>1. /\ pool["train"] = ByTime(r, ToSet(Kept(flows, rest)))
        /\ pool["test"] = ByTime(r, ToSet(Kept(flows, third)))
    BY <1>3 DEF SplitPool, GroupRows
  <2>2. all \in SUBSET DOMAIN r
    BY DEF GroupRows
  <2> HIDE DEF captures, pool, all
  <2>3. flows \in Seq(DOMAIN r) /\ Distinct(flows) /\ ToSet(flows) = all
    BY <2>2, OrderedRows
  <2>4. third \in SUBSET DOMAIN flows /\ rest \in SUBSET DOMAIN flows /\ third \cap rest = {}
    OBVIOUS
  <2> HIDE DEF flows, third, rest
  <2>5. /\ Picks(Kept(flows, rest), flows) /\ Picks(Kept(flows, third), flows)
        /\ \A k \in DOMAIN Kept(flows, rest) : \E i \in rest : Kept(flows, rest)[k] = flows[i]
        /\ \A k \in DOMAIN Kept(flows, third) : \E i \in third : Kept(flows, third)[k] = flows[i]
    BY <2>3, <2>4, KeptPicks
  <2>6. ToSet(Kept(flows, rest)) \subseteq all /\ ToSet(Kept(flows, third)) \subseteq all
    BY <2>3, <2>5, PicksSubset
  <2>7. ToSet(Kept(flows, rest)) \cap ToSet(Kept(flows, third)) = {}
    <3> SUFFICES ASSUME NEW x \in ToSet(Kept(flows, rest)), x \in ToSet(Kept(flows, third)) PROVE FALSE
      OBVIOUS
    <3>1. PICK i \in rest : x = flows[i]
      BY <2>5 DEF ToSet
    <3>2. PICK j \in third : x = flows[j]
      BY <2>5 DEF ToSet
    <3> QED
      BY <2>3, <2>4, <3>1, <3>2 DEF Distinct
  <2>8. /\ pool["train"] \in Seq(DOMAIN r) /\ Distinct(pool["train"])
        /\ ToSet(pool["train"]) = ToSet(Kept(flows, rest))
        /\ pool["test"] \in Seq(DOMAIN r) /\ Distinct(pool["test"])
        /\ ToSet(pool["test"]) = ToSet(Kept(flows, third))
    <3>1. ToSet(Kept(flows, rest)) \in SUBSET DOMAIN r /\ ToSet(Kept(flows, third)) \in SUBSET DOMAIN r
      BY <2>2, <2>6
    <3> QED
      BY <2>1, <3>1, ByTimeFacts
  <2>9. ToSet(pool["train"]) \cap ToSet(pool["test"]) = {}
    BY <2>7, <2>8
  <2>10. \A side \in Sides :
           pool[side] \in Seq(DOMAIN r) /\ Distinct(pool[side]) /\ ToSet(pool[side]) \subseteq all
    BY <2>6, <2>8 DEF Sides
  <2> QED
    BY <2>9, <2>10 DEF pool, captures, all
<1> QED
  BY <1>2, <1>3

LEMMA BalancedFewer ==
  ASSUME NEW b, NEW a, b \in Seq(ToSet(b)), a \in Seq(ToSet(a)), NEW n \in Nat
  PROVE  Balanced(b, a, n) \subseteq ToSet(b) \cup ToSet(a)
<1> DEFINE m == Smaller(Len(b), Len(a))
           target == IF n = 0 THEN m ELSE Smaller(m, n)
<1>1. target \in Nat
  BY DEF Smaller
<1>2. Balanced(b, a, n) \in {ToSet(b) \cup ToSet(a),
                             ToSet(Strided(b, target)) \cup ToSet(Strided(a, target))}
  BY DEF Balanced
<1> HIDE DEF target
<1>3. ToSet(Strided(b, target)) \subseteq ToSet(b) /\ ToSet(Strided(a, target)) \subseteq ToSet(a)
  BY <1>1, StridedPicks, PicksSubset
<1> QED
  BY <1>2, <1>3

LEMMA BalancedWithin ==
  ASSUME NEW b, NEW a, b \in Seq(ToSet(b)), a \in Seq(ToSet(a)), NEW n \in Nat,
         NEW U, NEW V, Within(ToSet(b), U), Within(ToSet(a), V)
  PROVE  Within(Balanced(b, a, n), U \cup V)
<1>1. Balanced(b, a, n) \subseteq ToSet(b) \cup ToSet(a)
  BY BalancedFewer
<1> QED
  BY <1>1 DEF Within

LEMMA VectorsSeq ==
  ASSUME NEW T, NEW s \in Seq(T), NEW r, NEW at, NEW label
  PROVE  Vectors(r, s, at, label) \in Seq(ToSet(Vectors(r, s, at, label)))
<1> DEFINE v == Vectors(r, s, at, label)
<1>1. Len(s) \in Nat /\ DOMAIN s = 1..Len(s)
  OBVIOUS
<1>2. v = [k \in 1..Len(s) |-> v[k]]
  BY <1>1 DEF Vectors
<1> HIDE DEF v
<1>3. v \in [1..Len(s) -> ToSet(v)]
  BY <1>2 DEF ToSet
<1>4. v \in Seq(ToSet(v))
  BY <1>1, <1>3
<1> QED
  BY <1>4 DEF v

LEMMA WindowsSeq ==
  ASSUME NEW T, NEW s \in Seq(T), Distinct(s), NEW at, NEW label
  PROVE  Windows(s, at, label) \in Seq(ToSet(Windows(s, at, label)))
<1> DEFINE w == Windows(s, at, label)
<1>1. PICK m \in Nat : DOMAIN Flushed(s, at) = 1..m
  BY FlushedApart
<1>2. w = [k \in 1..m |-> w[k]]
  BY <1>1 DEF Windows
<1> HIDE DEF w
<1>3. w \in [1..m -> ToSet(w)]
  BY <1>2 DEF ToSet
<1>4. w \in Seq(ToSet(w))
  BY <1>3
<1> QED
  BY <1>4 DEF w

LEMMA PoolsUnseen ==
  ASSUME NEW r \in Seq(Row), NEW class, class # "normal", NEW o, NEW p, NEW sides,
         \A side \in Sides : Within(sides[side], ToSet(SplitPool(r, "normal", o)[side])
                                                   \cup ToSet(SplitPool(r, class, p)[side]))
  PROVE  Unseen(Scores("split", sides))
<1> DEFINE N == GroupRows(r, CapturesOf(r, "normal"))
           A == GroupRows(r, CapturesOf(r, class))
           nt == ToSet(SplitPool(r, "normal", o)["train"])
           nv == ToSet(SplitPool(r, "normal", o)["test"])
           at == ToSet(SplitPool(r, class, p)["train"])
           av == ToSet(SplitPool(r, class, p)["test"])
<1>1. nt \in SUBSET N /\ nv \in SUBSET N /\ nt \cap nv = {}
  BY SplitPoolFacts DEF Sides
<1>2. at \in SUBSET A /\ av \in SUBSET A /\ at \cap av = {}
  BY SplitPoolFacts DEF Sides
<1>3. N \cap A = {}
  <2>1. CapturesOf(r, "normal") \cap CapturesOf(r, class) = {}
    BY DEF CapturesOf
  <2> QED
    BY <2>1 DEF GroupRows
<1>4. Within(sides["train"], nt \cup at) /\ Within(sides["test"], nv \cup av)
  BY DEF Sides
<1> HIDE DEF N, A, nt, nv, at, av
<1> QED
  BY <1>1, <1>2, <1>3, <1>4, FourParts

LEMMA CiciotUnseen ==
  ASSUME NEW r \in Seq(Row), NEW n \in Nat, NEW o
  PROVE  AllUnseen(CiciotBouncer(r, o)) /\ AllUnseen(CiciotDetective(r, n, o))
<1> DEFINE b == SplitPool(r, "normal", o[2])
           f == SplitPool(r, "flood", o[1])
           p == SplitPool(r, "probe", o[1])
           V(s, label) == Vectors(r, s, AsRecorded(r, s), label)
           W(s, label) == Windows(s, AsRecorded(r, s), label)
           vs == [side \in Sides |-> Balanced(V(b[side], "benign"), V(f[side], "attack"), 0)]
           ws == [side \in Sides |-> Balanced(W(b[side], "benign"), W(p[side], "attack"), n)]
<1>1. CiciotBouncer(r, o).scores \subseteq {Scores("split", vs)}
  BY DEF CiciotBouncer, Skipped, Trained
<1>2. CiciotDetective(r, n, o).scores \subseteq {Scores("split", ws)}
  BY DEF CiciotDetective, Skipped, Trained
<1>3. \A side \in Sides : /\ b[side] \in Seq(DOMAIN r) /\ Distinct(b[side])
                          /\ f[side] \in Seq(DOMAIN r) /\ Distinct(f[side])
                          /\ p[side] \in Seq(DOMAIN r) /\ Distinct(p[side])
  BY SplitPoolFacts
<1>4. \A side \in Sides : /\ vs[side] = Balanced(V(b[side], "benign"), V(f[side], "attack"), 0)
                          /\ ws[side] = Balanced(W(b[side], "benign"), W(p[side], "attack"), n)
  OBVIOUS
<1> HIDE DEF b, f, p, vs, ws
<1>5. \A label : \A s \in Seq(DOMAIN r) : /\ V(s, label) \in Seq(ToSet(V(s, label)))
                                           /\ Within(ToSet(V(s, label)), ToSet(s))
  BY VectorsSeq, VectorsWithin
<1>6. \A label : \A s \in Seq(DOMAIN r) :
        Distinct(s) => /\ W(s, label) \in Seq(ToSet(W(s, label)))
                       /\ Within(ToSet(W(s, label)), ToSet(s))
  BY WindowsSeq, WindowsWithin
<1> HIDE DEF V, W
<1>7. ASSUME NEW side \in Sides
      PROVE  /\ Within(vs[side], ToSet(b[side]) \cup ToSet(f[side]))
             /\ Within(ws[side], ToSet(b[side]) \cup ToSet(p[side]))
  <2>1. /\ V(b[side], "benign") \in Seq(ToSet(V(b[side], "benign")))
        /\ V(f[side], "attack") \in Seq(ToSet(V(f[side], "attack")))
        /\ Within(ToSet(V(b[side], "benign")), ToSet(b[side]))
        /\ Within(ToSet(V(f[side], "attack")), ToSet(f[side]))
    BY <1>3, <1>5
  <2>2. /\ W(b[side], "benign") \in Seq(ToSet(W(b[side], "benign")))
        /\ W(p[side], "attack") \in Seq(ToSet(W(p[side], "attack")))
        /\ Within(ToSet(W(b[side], "benign")), ToSet(b[side]))
        /\ Within(ToSet(W(p[side], "attack")), ToSet(p[side]))
    BY <1>3, <1>6
  <2>3. Within(vs[side], ToSet(b[side]) \cup ToSet(f[side]))
    BY <1>4, <2>1, BalancedWithin
  <2>4. Within(ws[side], ToSet(b[side]) \cup ToSet(p[side]))
    BY <1>4, <2>2, BalancedWithin
  <2> QED
    BY <2>3, <2>4
<1>8. Unseen(Scores("split", vs))
  <2>1. "flood" # "normal"
    OBVIOUS
  <2> QED
    BY <1>7, <2>1, PoolsUnseen DEF b, f
<1>9. Unseen(Scores("split", ws))
  <2>1. "probe" # "normal"
    OBVIOUS
  <2> QED
    BY <1>7, <2>1, PoolsUnseen DEF b, p
<1> QED
  BY <1>1, <1>2, <1>8, <1>9 DEF AllUnseen

-----------------------------------------------------------------------------
(* Tests are unseen in every script *)

LEMMA ResultUnseen ==
  ASSUME script \in Scripts, rows \in Seq(Row), limit \in Nat, NEW lane \in Lanes
  PROVE  \A s \in Result(lane).scores :
           (script = "cicddos2019" /\ s.kind = "split") \/ Unseen(s)
<1>1. AllUnseen(Skipped) /\ AllUnseen(GivesUp)
  BY DEF AllUnseen, Skipped, GivesUp
<1>2. CASE script = "repo"
  <2>1. AllUnseen(RepoMain(lane))
    BY RepoUnseen DEF RepoMain
  <2> QED
    BY <1>2, <2>1 DEF Result, AllUnseen
<1>3. CASE script = "api"
  <2>1. AllUnseen(ApiMain(lane))
    BY ApiUnseen DEF ApiMain
  <2> QED
    BY <1>3, <2>1 DEF Result, AllUnseen
<1>4. AllUnseen(CicBouncer(rows, shuffles)) /\ AllUnseen(UnswBouncer(rows, limit, shuffles))
  BY BouncerByRowsUnseen DEF CicBouncer, UnswBouncer
<1>5. AllUnseen(CicDetective(rows, limit, shuffles))
  <2>1. Pair(rows, Prefix(OfClass(rows, {"normal"}), limit), Prefix(OfClass(rows, {"probe"}), limit))
    <3>1. "normal" # "probe"
      OBVIOUS
    <3> QED
      BY <3>1, ClassPair
  <2> QED
    BY <2>1, DetectiveByRowsUnseen DEF CicDetective
<1>6. AllUnseen(DohDetective(rows, limit, shuffles))
  <2>1. Pair(rows, Strided(OfClass(rows, {"normal"}), limit), Strided(OfClass(rows, {"probe"}), limit))
    <3>1. "normal" # "probe"
      OBVIOUS
    <3> QED
      BY <3>1, ClassPair
  <2> QED
    BY <2>1, DetectiveByRowsUnseen DEF DohDetective
<1>7. CASE script = "cic"
  <2>1. AllUnseen(CicMain(lane))
    BY <1>4, <1>5 DEF CicMain
  <2> QED
    BY <1>7, <2>1 DEF Result, AllUnseen
<1>8. CASE script = "unsw"
  <2>1. AllUnseen(UnswMain(lane))
    BY <1>1, <1>4, <1>5 DEF UnswMain, UnswDetective
  <2> QED
    BY <1>8, <2>1 DEF Result, AllUnseen
<1>9. CASE script = "doh"
  <2>1. AllUnseen(DohMain(lane))
    BY <1>1, <1>6 DEF DohMain
  <2> QED
    BY <1>9, <2>1 DEF Result, AllUnseen
<1>10. CASE script = "dnsexf"
  <2>1. AllUnseen(DnsExfMain(lane))
    BY <1>1, <1>6 DEF DnsExfMain, DnsExfDetective
  <2> QED
    BY <1>10, <2>1 DEF Result, AllUnseen
<1>11. CASE script = "cicids2018"
  <2>1. AllUnseen(Cicids2018Main(lane))
    BY <1>1, Bouncer2018Unseen, Detective2018Unseen DEF Cicids2018Main
  <2> QED
    BY <1>11, <2>1 DEF Result, AllUnseen
<1>12. CASE script = "cicddos2019"
  <2>1. Cicddos2019Main(lane) \in {Skipped, GivesUp, Bouncer2019(rows, limit, shuffles)}
    BY DEF Cicddos2019Main
  <2>2. \A s \in Cicddos2019Main(lane).scores : s.kind = "split" \/ Unseen(s)
    BY <1>1, <2>1, Bouncer2019Unseen DEF AllUnseen
  <2> QED
    BY <1>12, <2>2 DEF Result
<1>13. CASE script = "ciciot2023"
  <2>1. AllUnseen(Ciciot2023Main(lane))
    BY <1>1, CiciotUnseen DEF Ciciot2023Main
  <2> QED
    BY <1>13, <2>1 DEF Result, AllUnseen
<1> QED
  BY <1>2, <1>3, <1>7, <1>8, <1>9, <1>10, <1>11, <1>12, <1>13 DEF Scripts

\* The rows that a Detective of run_cic or run_unsw is fitted on.
FittedRows(r, n) ==
  ToSet(SubstitutionRows(r, n, shuffles).benign["train"])
    \cup ToSet(SubstitutionRows(r, n, shuffles).attack["train"])

DataInv ==
  /\ script \in Scripts /\ limit \in Nat
  /\ corpus.downloads \in Seq(Seq(Row)) /\ data \in DOMAIN corpus.downloads

\* The Detective that run_lane_substitution finds was fitted on the split of some download.
FittedInv ==
  script \in {"cic", "unsw"} =>
    /\ LET w == weights["detective"] IN
         w.run # 0 => /\ w.data \in DOMAIN corpus.downloads /\ w.limit \in Nat
                      /\ w.rows \subseteq FittedRows(corpus.downloads[w.data], w.limit)
    /\ stage = "save_detective" =>
         /\ scores # {}
         /\ \A s \in scores : s.kind # "across" /\ RowsOf(s.train) \subseteq FittedRows(rows, limit)

UnseenInv == DataInv /\ FittedInv /\ TestsUnseen

LEMMA RowsAreRows == DataInv => rows \in Seq(Row)
BY DEF DataInv, rows

LEMMA RowsOfWithin ==
  ASSUME NEW A, NEW U, Within(A, U)
  PROVE  RowsOf(A) \subseteq U
BY DEF RowsOf, Within

\* What run_cic and run_unsw fit a Detective on
LEMMA CicDetectiveFits ==
  ASSUME NEW r \in Seq(Row), NEW n \in Nat, CicDetective(r, n, shuffles).outcome = "trained"
  PROVE  /\ CicDetective(r, n, shuffles).scores # {}
         /\ \A s \in CicDetective(r, n, shuffles).scores :
              s.kind # "across" /\ RowsOf(s.train) \subseteq FittedRows(r, n)
<1> DEFINE b == SubstitutionRows(r, n, shuffles).benign
           a == SubstitutionRows(r, n, shuffles).attack
           sides == Together(SpacedWindows(b, "benign"), SpacedWindows(a, "attack"))
<1>1. /\ b = SplitOf(Prefix(OfClass(r, {"normal"}), n), shuffles[1])
      /\ a = SplitOf(Prefix(OfClass(r, {"probe"}), n), shuffles[2])
  BY DEF SubstitutionRows
<1> DEFINE split == Scores("split", sides)
<1>2. CicDetective(r, n, shuffles).scores = {split}
  <2>1. CicDetective(r, n, shuffles) \in {Skipped, Trained({split})}
    BY <1>1 DEF CicDetective, DetectiveByRows
  <2>2. Skipped.outcome = "skipped" /\ Trained({split}).scores = {split}
    BY DEF Skipped, Trained
  <2> QED
    BY <2>1, <2>2
<1>3. split.kind = "split" /\ split.train = sides["train"]
  BY DEF Scores
<1>4. RowsOf(sides["train"]) \subseteq FittedRows(r, n)
  <2>1. Within(sides["train"], ToSet(b["train"]) \cup ToSet(a["train"]))
    BY SpacedWindowsTogether DEF Sides
  <2> QED
    BY <2>1, RowsOfWithin DEF FittedRows
<1> HIDE DEF split, sides
<1> QED
  BY <1>2, <1>3, <1>4

LEMMA UnseenStart == ExperimentInit => UnseenInv
<1> SUFFICES ASSUME ExperimentInit PROVE UnseenInv
  OBVIOUS
<1> USE DEF ExperimentInit
<1>1. corpus \in Corpora /\ limit = 0 /\ data = 1 /\ scores = {} /\ stage = "idle"
  OBVIOUS
<1>2. corpus.script \in Scripts /\ corpus.downloads \in Seq(Seq(Row)) /\ corpus.downloads # <<>>
  BY <1>1, ExperimentAssumption
<1>3. data \in DOMAIN corpus.downloads
  BY <1>1, <1>2
<1>4. weights["detective"].run = 0
  BY DEF NoWeights, Lanes
<1>5. DataInv
  BY <1>1, <1>2, <1>3 DEF DataInv, script
<1>6. FittedInv
  BY <1>1, <1>4 DEF FittedInv
<1>7. TestsUnseen
  BY <1>1 DEF TestsUnseen
<1> QED
  BY <1>5, <1>6, <1>7 DEF UnseenInv

\* A step that leaves the disk alone and scores nothing
LEMMA UnscoredStep ==
  ASSUME UnseenInv, UNCHANGED <<corpus, shuffles, weights>>, scores' = {},
         stage' # "save_detective", data' \in DOMAIN corpus.downloads, limit' \in Nat
  PROVE  UnseenInv'
<1>1. DataInv'
  BY DEF UnseenInv, DataInv, script
<1>2. FittedInv'
  BY DEF UnseenInv, FittedInv, FittedRows, script
<1>3. TestsUnseen'
  BY DEF TestsUnseen
<1> QED
  BY <1>1, <1>2, <1>3 DEF UnseenInv

LEMMA UnseenTrain ==
  ASSUME UnseenInv, NEW lane \in Lanes, Train(lane)
  PROVE  UnseenInv'
<1> DEFINE result == Result(lane)
<1>1. /\ stage = lane /\ UNCHANGED <<corpus, shuffles, data, run, limit, weights, report>>
      /\ DataInv
  BY DEF Train, Proceed, UnseenInv
<1>2. CASE result.outcome \in {"gives_up", "raises"}
  <2>1. End("gave_up") \/ End("raised")
    BY <1>2 DEF Train, Proceed
  <2>2. scores' = {} /\ stage' = "idle"
    BY <2>1 DEF End
  <2> QED
    BY <1>1, <2>2, UnscoredStep DEF DataInv
<1>3. CASE result.outcome \notin {"gives_up", "raises"}
  <2>1. /\ scores' = result.scores
        /\ stage' = IF result.outcome = "trained" THEN Saving[lane] ELSE After[lane]
    BY <1>3 DEF Train, Proceed
  <2>2. rows \in Seq(Row) /\ script \in Scripts /\ limit \in Nat
    BY <1>1, RowsAreRows DEF DataInv
  <2>3. \A s \in result.scores : (script = "cicddos2019" /\ s.kind = "split") \/ Unseen(s)
    BY <2>2, ResultUnseen
  <2>4. rows' = rows /\ script' = script /\ weights' = weights
    BY <1>1 DEF rows, script
  <2>5. TestsUnseen'
    BY <2>1, <2>3, <2>4 DEF TestsUnseen, Unseen
  <2>6. stage' = "save_detective" /\ script \in {"cic", "unsw"} =>
          /\ result.scores # {}
          /\ \A s \in result.scores : s.kind # "across" /\ RowsOf(s.train) \subseteq FittedRows(rows, limit)
    <3> SUFFICES ASSUME stage' = "save_detective", script \in {"cic", "unsw"}
                 PROVE  /\ result.scores # {}
                        /\ \A s \in result.scores :
                             s.kind # "across" /\ RowsOf(s.train) \subseteq FittedRows(rows, limit)
      OBVIOUS
    <3>1. lane = "detective" /\ result.outcome = "trained"
      BY <2>1 DEF Saving, After, Lanes
    <3>2. result = CicDetective(rows, limit, shuffles)
      <4>1. result \in {GivesUp, CicDetective(rows, limit, shuffles)}
        BY <3>1 DEF Result, CicMain, UnswMain, UnswDetective
      <4>2. GivesUp.outcome = "gives_up"
        BY DEF GivesUp
      <4> QED
        BY <3>1, <4>1, <4>2
    <3> HIDE DEF result
    <3> QED
      BY <2>2, <3>1, <3>2, CicDetectiveFits
  <2> HIDE DEF result
  <2>7. FittedRows(rows, limit)' = FittedRows(rows, limit)
    BY <1>1, <2>4 DEF FittedRows
  <2>8. FittedInv'
    <3>1. FittedInv
      BY DEF UnseenInv
    <3>2. LET w == weights["detective"] IN
            script \in {"cic", "unsw"} /\ w.run # 0 =>
              w.rows \subseteq FittedRows(corpus.downloads[w.data], w.limit)'
      BY <1>1, <3>1 DEF FittedInv, FittedRows
    <3> QED
      BY <1>1, <2>1, <2>4, <2>6, <2>7, <3>1, <3>2 DEF FittedInv
  <2>9. DataInv'
    BY <1>1, <2>4 DEF DataInv
  <2> QED
    BY <2>5, <2>8, <2>9 DEF UnseenInv
<1> QED
  BY <1>2, <1>3

LEMMA UnseenSave ==
  ASSUME UnseenInv, TypeInv, NEW lane \in Lanes, Save(lane)
  PROVE  UnseenInv'
<1>1. /\ stage = Saving[lane] /\ stage' = After[lane] /\ scores' = {}
      /\ UNCHANGED <<corpus, shuffles, data, run, limit, verified, report, ended>>
      /\ DataInv /\ FittedInv
  BY DEF Save, UnseenInv
<1>2. script' = script /\ rows' = rows /\ stage' # "save_detective"
  BY <1>1 DEF script, rows, After, Lanes
<1> DEFINE fitted == CHOOSE s \in scores : s.kind # "across"
           new == [run |-> run, data |-> data, limit |-> limit, rows |-> RowsOf(fitted.train)]
<1>3. weights' = [weights EXCEPT ![lane] = new]
  BY DEF Save
<1>4. new.data = data /\ new.limit = limit /\ new.rows = RowsOf(fitted.train)
  OBVIOUS
<1> HIDE DEF new
<1>5. DOMAIN weights = Lanes
  BY DEF TypeInv
<1>6. TestsUnseen' /\ DataInv'
  BY <1>1, <1>2 DEF TestsUnseen, DataInv
<1>7. \A r, n : FittedRows(r, n)' = FittedRows(r, n)
  BY <1>1 DEF FittedRows
<1>8. CASE lane = "bouncer"
  <2>1. weights'["detective"] = weights["detective"]
    BY <1>3, <1>8
  <2>2. FittedInv'
    BY <1>1, <1>2, <2>1 DEF FittedInv, FittedRows
  <2> QED
    BY <1>6, <2>2 DEF UnseenInv
<1>9. CASE lane = "detective"
  <2>1. weights'["detective"] = new
    BY <1>3, <1>5, <1>9
  <2>2. script \in {"cic", "unsw"} => new.rows \subseteq FittedRows(rows, limit)
    <3> SUFFICES ASSUME script \in {"cic", "unsw"} PROVE RowsOf(fitted.train) \subseteq FittedRows(rows, limit)
      BY <1>4
    <3>1. stage = "save_detective"
      BY <1>1, <1>9 DEF Saving
    <3>2. /\ scores # {}
          /\ \A s \in scores : s.kind # "across" /\ RowsOf(s.train) \subseteq FittedRows(rows, limit)
      BY <1>1, <3>1 DEF FittedInv
    <3>3. fitted \in scores
      BY <3>2
    <3> HIDE DEF fitted
    <3> QED
      BY <3>2, <3>3
  <2>3. FittedInv'
    <3>1. corpus' = corpus /\ data \in DOMAIN corpus.downloads /\ limit \in Nat
      BY <1>1 DEF DataInv
    <3>2. rows = corpus.downloads[data]
      BY DEF rows
    <3>3. script \in {"cic", "unsw"} => new.rows \subseteq FittedRows(corpus.downloads[data], limit)
      BY <2>2, <3>2
    <3>4. script \in {"cic", "unsw"} => new.rows \subseteq FittedRows(corpus.downloads[data], limit)'
      BY <1>1, <3>3 DEF FittedRows
    <3> QED
      BY <1>1, <1>2, <1>4, <2>1, <3>1, <3>4 DEF FittedInv
  <2> QED
    BY <1>6, <2>3 DEF UnseenInv
<1> QED
  BY <1>8, <1>9 DEF Lanes

LEMMA RowsOfOne ==
  ASSUME NEW S, NEW label
  PROVE  RowsOf({[label |-> label, rows |-> S]}) = S
BY DEF RowsOf

\* The windows that run_lane_substitution scores are apart from what it fits a Bouncer on,
\* and from what a Detective of the same rows was fitted on.
LEMMA SubstitutionUnseen ==
  ASSUME NEW r \in Seq(Row), NEW n \in Nat
  PROVE  /\ Unseen(Retrained(r, SubstitutionRows(r, n, shuffles)))
         /\ FittedRows(r, n) \cap RowsOf(SubstitutionWindows(SubstitutionRows(r, n, shuffles))) = {}
<1> DEFINE normal == Prefix(OfClass(r, {"normal"}), n)
           probe == Prefix(OfClass(r, {"probe"}), n)
           b == SplitOf(normal, shuffles[1])
           a == SplitOf(probe, shuffles[2])
           split == SubstitutionRows(r, n, shuffles)
<1>1. Pair(r, normal, probe)
  BY ClassPair
<1>2. split.benign = b /\ split.attack = a
  BY DEF SubstitutionRows
<1> HIDE DEF normal, probe, split
<1>3. \A side \in Sides : b[side] \in Seq(DOMAIN r) /\ a[side] \in Seq(DOMAIN r)
  BY <1>1, SplitFacts DEF Pair, SplitOf
<1>4. Unseen(Retrained(r, split))
  <2> DEFINE V(s, label) == Vectors(r, s, Spaced(s), label)
             vb == [side \in Sides |-> V(split.benign[side], "benign")]
             va == [side \in Sides |-> V(split.attack[side], "attack")]
             sides == Together(vb, va)
  <2>1. Retrained(r, split) = Scores("retrained", sides)
    BY DEF Retrained
  <2>2. \A side \in Sides : vb[side] = V(b[side], "benign") /\ va[side] = V(a[side], "attack")
    BY <1>2
  <2> HIDE DEF vb, va
  <2>3. \A side \in Sides : Within(sides[side], ToSet(b[side]) \cup ToSet(a[side]))
    <3> TAKE side \in Sides
    <3> HIDE DEF a, b
    <3>1. Within(ToSet(vb[side]), ToSet(b[side])) /\ Within(ToSet(va[side]), ToSet(a[side]))
      BY <1>3, <2>2, VectorsWithin
    <3> QED
      BY <3>1, TogetherWithin
  <2> HIDE DEF sides
  <2>4. Unseen(Scores("retrained", sides))
    BY <1>1, <2>3, PairUnseen
  <2> QED
    BY <2>1, <2>4
<1>5. FittedRows(r, n) \cap RowsOf(SubstitutionWindows(split)) = {}
  <2> DEFINE F == FittedRows(r, n)
             windows == SubstitutionWindows(split)
             frozen == {[label |-> "benign", rows |-> F]}
             sides == [side \in Sides |-> IF side = "train" THEN frozen ELSE windows]
  <2>1. sides["train"] = frozen /\ sides["test"] = windows
    BY DEF Sides
  <2>2. Within(frozen, ToSet(b["train"]) \cup ToSet(a["train"]))
    <3>1. F = ToSet(b["train"]) \cup ToSet(a["train"])
      BY <1>2 DEF FittedRows, split
    <3> HIDE DEF F, b, a
    <3> QED
      BY <3>1 DEF Within
  <2>3. Within(windows, ToSet(b["test"]) \cup ToSet(a["test"]))
    BY <1>2, SpacedWindowsTogether DEF SubstitutionWindows, Sides
  <2>4. RowsOf(frozen) = F
    BY RowsOfOne
  <2> HIDE DEF sides, frozen, windows, F
  <2>5. \A side \in Sides : Within(sides[side], ToSet(b[side]) \cup ToSet(a[side]))
    BY <2>1, <2>2, <2>3 DEF Sides
  <2>6. Unseen(Scores("split", sides))
    BY <1>1, <2>5, PairUnseen
  <2>7. RowsOf(frozen) \cap RowsOf(windows) = {}
    BY <2>1, <2>6 DEF Unseen, Scores
  <2> QED
    BY <2>4, <2>7 DEF F, windows
<1> QED
  BY <1>4, <1>5 DEF split

LEMMA UnseenSubstitute ==
  ASSUME UnseenInv, Substitute
  PROVE  UnseenInv'
<1> DEFINE split == SubstitutionRows(rows, DefaultLimit, shuffles)
           windows == SubstitutionWindows(split)
           Frozen(l) == [kind |-> l, test |-> windows,
                         train |-> {[label |-> "benign", rows |-> weights[l].rows]}]
           w == weights["detective"]
<1>1. /\ stage = "idle" /\ script \in {"cic", "unsw"} /\ w.run # 0
      /\ UNCHANGED <<corpus, shuffles, data, run, limit, stage, trained, verified, weights, report, ended>>
      /\ DataInv /\ FittedInv
  <2>1. weights["detective"].run > 0
    BY DEF Substitute, Lanes
  <2> QED
    BY <2>1 DEF Substitute, UnseenInv
<1>2. scores' = {Frozen(l) : l \in Lanes} \cup {Retrained(rows, split)}
  BY DEF Substitute
<1>3. rows \in Seq(Row) /\ DefaultLimit \in Nat /\ data \in DOMAIN corpus.downloads
  BY <1>1, RowsAreRows, ExperimentAssumption DEF DataInv
<1>4. /\ Unseen(Retrained(rows, split))
      /\ FittedRows(rows, DefaultLimit) \cap RowsOf(windows) = {}
  BY <1>3, SubstitutionUnseen
<1>5. w.limit = DefaultLimit /\ w.data = data => w.rows \subseteq FittedRows(rows, DefaultLimit)
  <2>1. w.rows \subseteq FittedRows(corpus.downloads[w.data], w.limit)
    BY <1>1 DEF FittedInv
  <2> QED
    BY <2>1 DEF rows
<1>6. w.limit = DefaultLimit /\ w.data = data => Unseen(Frozen("detective"))
  <2>1. RowsOf(Frozen("detective").train) = w.rows
    BY RowsOfOne
  <2>2. Frozen("detective").test = windows
    OBVIOUS
  <2> HIDE DEF windows, Frozen, w
  <2> QED
    BY <1>4, <1>5, <2>1, <2>2 DEF Unseen
<1>7. Frozen("bouncer").kind = "bouncer" /\ Frozen("detective").kind = "detective"
  OBVIOUS
<1> HIDE DEF split, Frozen, w
<1>8. \A s \in scores' :
        \/ s.kind = "bouncer"
        \/ s.kind = "detective" /\ (w.limit # DefaultLimit \/ w.data # data)
        \/ Unseen(s)
  BY <1>2, <1>4, <1>6, <1>7 DEF Lanes
<1>9. TestsUnseen'
  BY <1>1, <1>8 DEF TestsUnseen, Unseen, w
<1>10. DataInv'
  BY <1>1 DEF DataInv, script
<1>11. FittedInv'
  BY <1>1 DEF FittedInv, FittedRows, script
<1> QED
  BY <1>9, <1>10, <1>11 DEF UnseenInv

LEMMA UnseenStep == TypeInv /\ UnseenInv /\ [ExperimentNext]_vars => UnseenInv'
<1> SUFFICES ASSUME TypeInv, UnseenInv, [ExperimentNext]_vars PROVE UnseenInv'
  OBVIOUS
<1>1. DataInv
  BY DEF UnseenInv
<1>2. CASE Begin
  <2>1. /\ UNCHANGED <<corpus, shuffles, weights>> /\ scores' = {} /\ stage' = "bouncer"
        /\ data' \in DOMAIN corpus.downloads /\ limit' \in Nat
    BY <1>2, ExperimentAssumption DEF Begin
  <2> QED
    BY <2>1, UnscoredStep
<1>3. CASE NoData \/ WriteReport \/ Crash
  <2>1. \E how : End(how)
    BY <1>3 DEF NoData, WriteReport, Crash
  <2>2. UNCHANGED <<corpus, shuffles, data, limit, weights>>
    BY <1>3 DEF NoData, WriteReport, Crash
  <2>3. scores' = {} /\ stage' = "idle"
    BY <2>1 DEF End
  <2> QED
    BY <1>1, <2>2, <2>3, UnscoredStep DEF DataInv
<1>4. CASE Verify \/ UNCHANGED vars
  <2>1. /\ UNCHANGED <<corpus, shuffles, data, limit, scores, weights>>
        /\ stage' = stage \/ stage' = "report"
    BY <1>4 DEF Verify, vars
  <2>2. script' = script /\ rows' = rows
    BY <2>1 DEF script, rows
  <2>3. DataInv' /\ TestsUnseen'
    BY <2>1, <2>2 DEF UnseenInv, DataInv, TestsUnseen
  <2>4. FittedInv'
    BY <2>1, <2>2 DEF UnseenInv, FittedInv, FittedRows
  <2> QED
    BY <2>3, <2>4 DEF UnseenInv
<1>5. ASSUME NEW lane \in Lanes, Train(lane) \/ Save(lane)
      PROVE  UnseenInv'
  BY <1>5, UnseenTrain, UnseenSave
<1> QED
  BY <1>2, <1>3, <1>4, <1>5, UnseenSubstitute DEF ExperimentNext

\* No script scores a model on a row that went into what the model was fitted on, be it
\* through a split, through the history of a feature, through the events of a window or
\* across days, save the two exceptions that TestsUnseen names
\* (train_bouncer, train_detective and cross-day code of every run_*_experiment.py).
THEOREM TestsUnseenHolds == ExperimentSpec => []TestsUnseen
<1>1. IInv => TypeInv
  BY DEF IInv
<1>2. UnseenInv => TestsUnseen
  BY DEF UnseenInv
<1> QED
  BY <1>1, <1>2, Invariance, UnseenStart, UnseenStep, PTL DEF ExperimentSpec

-----------------------------------------------------------------------------
(* What is called benign holds no attack *)

\* Every example of these that is called benign is free of the attack of the lane.
Clean(r, examples, lane) ==
  \A e \in examples : e.label = "attack" \/ \A i \in e.rows : r[i].class # AttackOf[lane]

AllClean(r, result, lane) == \A s \in result.scores : Clean(r, s.train \cup s.test, lane)

\* Rows that the lane does not take for an attack
Calm(r, lane) == {i \in DOMAIN r : r[i].class # AttackOf[lane]}

LEMMA CleanBoth ==
  ASSUME NEW r, NEW lane, NEW A, NEW B, Clean(r, A, lane), Clean(r, B, lane)
  PROVE  Clean(r, A \cup B, lane)
BY DEF Clean

LEMMA CleanFewer ==
  ASSUME NEW r, NEW lane, NEW A, NEW B, Clean(r, A, lane), B \subseteq A
  PROVE  Clean(r, B, lane)
BY DEF Clean

LEMMA CleanWithin ==
  ASSUME NEW r, NEW lane, NEW A, Within(A, Calm(r, lane))
  PROVE  Clean(r, A, lane)
BY DEF Clean, Within, Calm

LEMMA ScoresClean ==
  ASSUME NEW r, NEW lane, NEW kind, NEW sides, \A side \in Sides : Clean(r, sides[side], lane)
  PROVE  Clean(r, Scores(kind, sides).train \cup Scores(kind, sides).test, lane)
<1>1. Scores(kind, sides).train = sides["train"] /\ Scores(kind, sides).test = sides["test"]
  BY DEF Scores
<1>2. Clean(r, sides["train"], lane) /\ Clean(r, sides["test"], lane)
  BY DEF Sides
<1> QED
  BY <1>1, <1>2, CleanBoth

\* A stream is replayed under one label.
LEMMA VectorsClean ==
  ASSUME NEW r, NEW T, NEW s \in Seq(T), NEW at, NEW lane, NEW label,
         label = "attack" \/ ToSet(s) \subseteq Calm(r, lane)
  PROVE  Clean(r, ToSet(Vectors(r, s, at, label)), lane)
<1> DEFINE v == Vectors(r, s, at, label)
<1>1. CASE label = "attack"
  <2>1. v = [k \in DOMAIN s |-> [label |-> label, rows |-> History(r, s, at, k)]]
    BY DEF Vectors
  <2>2. DOMAIN v = DOMAIN s /\ \A k \in DOMAIN s : v[k].label = "attack"
    BY <1>1, <2>1
  <2> HIDE DEF v
  <2>3. \A e \in ToSet(v) : e.label = "attack"
    BY <2>2 DEF ToSet
  <2>4. Clean(r, ToSet(v), lane)
    BY <2>3 DEF Clean
  <2> QED
    BY <2>4 DEF v
<1>2. CASE ToSet(s) \subseteq Calm(r, lane)
  <2>1. Within(ToSet(v), ToSet(s))
    BY VectorsWithin
  <2> HIDE DEF v
  <2>2. Within(ToSet(v), Calm(r, lane))
    BY <1>2, <2>1, WithinMore
  <2>3. Clean(r, ToSet(v), lane)
    BY <2>2, CleanWithin
  <2> QED
    BY <2>3 DEF v
<1> QED
  BY <1>1, <1>2

LEMMA WindowsClean ==
  ASSUME NEW r, NEW s, NEW at, NEW lane, NEW label,
         label = "attack" \/ ToSet(s) \subseteq Calm(r, lane)
  PROVE  Clean(r, ToSet(Windows(s, at, label)), lane)
<1> DEFINE w == Windows(s, at, label)
<1>1. CASE label = "attack"
  <2>1. w = [k \in DOMAIN Flushed(s, at) |-> [label |-> label, rows |-> Flushed(s, at)[k].rows]]
    BY DEF Windows
  <2>2. \A k \in DOMAIN w : w[k].label = "attack"
    BY <1>1, <2>1
  <2> HIDE DEF w
  <2>3. \A e \in ToSet(w) : e.label = "attack"
    BY <2>2 DEF ToSet
  <2>4. Clean(r, ToSet(w), lane)
    BY <2>3 DEF Clean
  <2> QED
    BY <2>4 DEF w
<1>2. CASE ToSet(s) \subseteq Calm(r, lane)
  <2>1. Within(ToSet(w), ToSet(s))
    BY WindowsWithin
  <2> HIDE DEF w
  <2>2. Within(ToSet(w), Calm(r, lane))
    BY <1>2, <2>1, WithinMore
  <2>3. Clean(r, ToSet(w), lane)
    BY <2>2, CleanWithin
  <2> QED
    BY <2>3 DEF w
<1> QED
  BY <1>1, <1>2

LEMMA TogetherClean ==
  ASSUME NEW r, NEW lane, NEW benign, NEW attack, NEW side \in Sides,
         Clean(r, ToSet(benign[side]), lane), Clean(r, ToSet(attack[side]), lane)
  PROVE  Clean(r, Together(benign, attack)[side], lane)
<1>1. Together(benign, attack)[side] = ToSet(benign[side]) \cup ToSet(attack[side])
  BY DEF Together
<1> QED
  BY <1>1, CleanBoth

LEMMA SpacedVectorsClean ==
  ASSUME NEW r \in Seq(Row), NEW lane, NEW b, NEW a, NEW side \in Sides,
         b[side] \in Seq(DOMAIN r), a[side] \in Seq(DOMAIN r), ToSet(b[side]) \subseteq Calm(r, lane)
  PROVE  Clean(r, Together(SpacedVectors(r, b, "benign"), SpacedVectors(r, a, "attack"))[side], lane)
<1> DEFINE sb == BySource(r, b[side])
           sa == BySource(r, a[side])
<1>1. /\ SpacedVectors(r, b, "benign")[side] = Vectors(r, sb, Spaced(sb), "benign")
      /\ SpacedVectors(r, a, "attack")[side] = Vectors(r, sa, Spaced(sa), "attack")
  BY DEF SpacedVectors
<1>2. sb \in Seq(DOMAIN r) /\ sa \in Seq(DOMAIN r) /\ ToSet(sb) = ToSet(b[side])
  BY BySourceFacts
<1> HIDE DEF sb, sa
<1>3. /\ Clean(r, ToSet(Vectors(r, sb, Spaced(sb), "benign")), lane)
      /\ Clean(r, ToSet(Vectors(r, sa, Spaced(sa), "attack")), lane)
  BY <1>2, VectorsClean
<1> QED
  BY <1>1, <1>3, TogetherClean

LEMMA SpacedWindowsClean ==
  ASSUME NEW r, NEW lane, NEW b, NEW a, NEW side \in Sides, ToSet(b[side]) \subseteq Calm(r, lane)
  PROVE  Clean(r, Together(SpacedWindows(b, "benign"), SpacedWindows(a, "attack"))[side], lane)
<1>1. /\ SpacedWindows(b, "benign")[side] = Windows(b[side], Spaced(b[side]), "benign")
      /\ SpacedWindows(a, "attack")[side] = Windows(a[side], Spaced(a[side]), "attack")
  BY DEF SpacedWindows
<1>2. /\ Clean(r, ToSet(Windows(b[side], Spaced(b[side]), "benign")), lane)
      /\ Clean(r, ToSet(Windows(a[side], Spaced(a[side]), "attack")), lane)
  BY WindowsClean
<1> QED
  BY <1>1, <1>2, TogetherClean

LEMMA SplitWithin ==
  ASSUME NEW T, NEW s \in Seq(T), NEW o, NEW side \in Sides
  PROVE  SplitOf(s, o)[side] \in Seq(T) /\ ToSet(SplitOf(s, o)[side]) \subseteq ToSet(s)
<1>1. SplitOf(s, o)[side] \in Seq(T) /\ Picks(SplitOf(s, o)[side], s)
  BY SplitFacts DEF SplitOf, Splits
<1> QED
  BY <1>1, PicksSubset

\* The rows of classes that are no attack of the lane
LEMMA ClassCalm ==
  ASSUME NEW r \in Seq(Row), NEW lane, NEW classes, AttackOf[lane] \notin classes
  PROVE  ToSet(OfClass(r, classes)) \subseteq Calm(r, lane)
<1>1. ToSet(OfClass(r, classes)) = {i \in DOMAIN r : r[i].class \in classes}
  BY OfClassFacts
<1> QED
  BY <1>1 DEF Calm

LEMMA NormalCalm == \A lane \in Lanes : AttackOf[lane] # "normal"
BY DEF Lanes, AttackOf

LEMMA BouncerByRowsClean ==
  ASSUME NEW r \in Seq(Row), NEW n \in Nat, NEW o
  PROVE  AllClean(r, BouncerByRows(r, n, o), "bouncer")
<1> DEFINE flood == Prefix(OfClass(r, {"flood"}), n)
           normal == Prefix(OfClass(r, {"normal"}), n)
           b == SplitOf(normal, o[2])
           a == SplitOf(flood, o[1])
           sides == Together(SpacedVectors(r, b, "benign"), SpacedVectors(r, a, "attack"))
<1>1. BouncerByRows(r, n, o).scores \in {{}, {Scores("split", sides)}}
  BY DEF BouncerByRows, Skipped, Trained
<1>2. /\ flood \in Seq(DOMAIN r)
      /\ normal \in Seq(DOMAIN r) /\ ToSet(normal) \subseteq Calm(r, "bouncer")
  <2>1. OfClass(r, {"flood"}) \in Seq(DOMAIN r) /\ OfClass(r, {"normal"}) \in Seq(DOMAIN r)
    BY OfClassFacts
  <2>2. ToSet(OfClass(r, {"normal"})) \subseteq Calm(r, "bouncer")
    BY ClassCalm, NormalCalm DEF Lanes
  <2> QED
    BY <2>1, <2>2, PrefixPicks, PicksSubset
<1> HIDE DEF flood, normal
<1>3. ASSUME NEW side \in Sides PROVE Clean(r, sides[side], "bouncer")
  <2>1. /\ b[side] \in Seq(DOMAIN r) /\ ToSet(b[side]) \subseteq Calm(r, "bouncer")
        /\ a[side] \in Seq(DOMAIN r)
    BY <1>2, SplitWithin
  <2> HIDE DEF a, b
  <2> QED
    BY <2>1, SpacedVectorsClean
<1> HIDE DEF sides
<1>4. \A kind : Clean(r, Scores(kind, sides).train \cup Scores(kind, sides).test, "bouncer")
  BY <1>3, ScoresClean
<1> QED
  BY <1>1, <1>4 DEF AllClean

LEMMA DetectiveByRowsClean ==
  ASSUME NEW r, NEW T, NEW normal \in Seq(T), NEW probe, NEW o,
         ToSet(normal) \subseteq Calm(r, "detective")
  PROVE  AllClean(r, DetectiveByRows(normal, probe, o), "detective")
<1> DEFINE b == SplitOf(normal, o[1])
           a == SplitOf(probe, o[2])
           sides == Together(SpacedWindows(b, "benign"), SpacedWindows(a, "attack"))
<1>1. DetectiveByRows(normal, probe, o).scores \in {{}, {Scores("split", sides)}}
  BY DEF DetectiveByRows, Skipped, Trained
<1>2. ASSUME NEW side \in Sides PROVE Clean(r, sides[side], "detective")
  <2>1. ToSet(b[side]) \subseteq Calm(r, "detective")
    BY SplitWithin
  <2> HIDE DEF a, b
  <2> QED
    BY <2>1, SpacedWindowsClean
<1> HIDE DEF sides
<1>3. \A kind : Clean(r, Scores(kind, sides).train \cup Scores(kind, sides).test, "detective")
  BY <1>2, ScoresClean
<1> QED
  BY <1>1, <1>3 DEF AllClean

-----------------------------------------------------------------------------
(* What begins a window *)

\* How the window of event k begins, from the windows of the events before it
OpensAt(at, f, k) ==
  IF k = 1 THEN 1 ELSE IF at[k] - at[f[k - 1]] >= WindowSeconds THEN k ELSE f[k - 1]

Begins(at, f, m) == f = [k \in 1..m |-> OpensAt(at, f, k)]

LEMMA BeginsNext ==
  ASSUME NEW at, NEW m \in Nat, NEW f, Begins(at, f, m)
  PROVE  \E g : Begins(at, g, m + 1)
<1> DEFINE g == [k \in 1..(m + 1) |-> IF k <= m THEN f[k] ELSE OpensAt(at, f, k)]
<1>1. \A k \in 1..m : g[k] = f[k] /\ f[k] = OpensAt(at, f, k)
  BY DEF Begins
<1>2. ASSUME NEW k \in 1..(m + 1) PROVE g[k] = OpensAt(at, g, k)
  <2>1. g[k] = OpensAt(at, f, k)
    <3>1. k <= m => k \in 1..m
      OBVIOUS
    <3>2. ~(k <= m) => g[k] = OpensAt(at, f, k)
      OBVIOUS
    <3> HIDE DEF g
    <3> QED
      BY <1>1, <3>1, <3>2
  <2>2. k # 1 => k - 1 \in 1..m
    OBVIOUS
  <2>3. k # 1 => g[k - 1] = f[k - 1]
    BY <1>1, <2>2
  <2> HIDE DEF g
  <2> QED
    BY <2>1, <2>3 DEF OpensAt
<1>3. g = [k \in 1..(m + 1) |-> g[k]]
  OBVIOUS
<1> HIDE DEF g
<1> QED
  BY <1>2, <1>3 DEF Begins

LEMMA BeginsExists ==
  ASSUME NEW at, NEW n \in Nat
  PROVE  \E f : Begins(at, f, n)
<1> DEFINE S == {m \in Nat : \E f : Begins(at, f, m)}
<1>1. 0 \in S
  <2> DEFINE e == [k \in 1..0 |-> 1]
  <2>1. e = [k \in 1..0 |-> OpensAt(at, e, k)]
    OBVIOUS
  <2> HIDE DEF e
  <2> QED
    BY <2>1 DEF Begins
<1>2. \A m \in 0..(n - 1) : m \in S => m + 1 \in S
  BY BeginsNext
<1> HIDE DEF S
<1>3. n \in S
  BY <1>1, <1>2, Ascent
<1> QED
  BY <1>3 DEF S

LEMMA OpenerIs ==
  ASSUME NEW at, NEW n \in Nat, DOMAIN at = 1..n
  PROVE  Begins(at, Opener(at), n)
<1>1. Opener(at) = CHOOSE f : f = [k \in 1..n |-> OpensAt(at, f, k)]
  BY DEF Opener, OpensAt
<1>2. PICK f : f = [k \in 1..n |-> OpensAt(at, f, k)]
  BY BeginsExists DEF Begins
<1> QED
  BY <1>1, <1>2 DEF Begins

\* The event that begins a window is not after, and less than a window before, any
\* event in it.
LEMMA OpenerFacts ==
  ASSUME NEW at, NEW n \in Nat, DOMAIN at = 1..n, \A k \in 1..n : at[k] \in Int
  PROVE  \A k \in 1..n : LET o == Opener(at)[k] IN
           o \in 1..k /\ (o = k \/ at[k] - at[o] < WindowSeconds)
<1> DEFINE f == Opener(at)
           Good(k) == f[k] \in 1..k /\ (f[k] = k \/ at[k] - at[f[k]] < WindowSeconds)
           S == {m \in Nat : \A k \in 1..m : Good(k)}
<1>1. \A k \in 1..n : f[k] = OpensAt(at, f, k)
  BY OpenerIs DEF Begins
<1>2. 0 \in S
  OBVIOUS
<1>3. ASSUME NEW m \in 0..(n - 1), m \in S PROVE m + 1 \in S
  <2>1. Good(m + 1)
    <3> DEFINE k == m + 1
    <3>1. k \in 1..n /\ k - 1 = m
      OBVIOUS
    <3>2. f[k] = OpensAt(at, f, k)
      BY <1>1, <3>1
    <3>3. CASE m = 0
      <4>1. f[k] = 1 /\ k = 1
        BY <3>2, <3>3 DEF OpensAt
      <4> HIDE DEF f
      <4> QED
        BY <4>1
    <3>4. CASE m # 0
      <4>1. Good(m)
        BY <1>3, <3>4
      <4> DEFINE o == f[m]
      <4>2. o \in 1..m /\ o \in 1..n
        BY <4>1
      <4>3. f[k] = IF at[k] - at[o] >= WindowSeconds THEN k ELSE o
        BY <3>1, <3>2, <3>4 DEF OpensAt
      <4> HIDE DEF f, o
      <4>4. at[k] \in Int /\ at[o] \in Int
        BY <3>1, <4>2
      <4> QED
        BY <3>1, <4>2, <4>3, <4>4, WindowAssumption
    <3> QED
      BY <3>3, <3>4
  <2> HIDE DEF Good
  <2>2. \A k \in 1..(m + 1) : k \in 1..m \/ k = m + 1
    OBVIOUS
  <2> QED
    BY <1>3, <2>1, <2>2
<1> HIDE DEF S
<1>4. \A m \in 0..(n - 1) : m \in S => m + 1 \in S
  BY <1>3
<1>5. \A m \in 0..n : m \in S
  BY <1>2, <1>4, Ascent
<1>6. n \in S
  BY <1>5
<1> QED
  BY <1>6 DEF S

LEMMA RepoClean ==
  ASSUME NEW r \in Seq(Row), NEW n \in Nat
  PROVE  AllClean(r, RepoBouncer(r), "bouncer") /\ AllClean(r, RepoDetective(r, n), "detective")
<1>1. AllClean(r, RepoBouncer(r), "bouncer")
  <2> DEFINE Of(classes) == [side \in Sides |-> InGroup(r, OfClass(r, classes), File[side])]
             b == Of({"normal", "probe"})
             a == Of({"flood"})
             sides == Together(SpacedVectors(r, b, "benign"), SpacedVectors(r, a, "attack"))
  <2>1. RepoBouncer(r).scores = {Scores("files", sides)}
    BY DEF RepoBouncer, Trained
  <2>2. ASSUME NEW side \in Sides PROVE Clean(r, sides[side], "bouncer")
    <3> DEFINE benign == OfClass(r, {"normal", "probe"})
               flood == OfClass(r, {"flood"})
    <3>1. benign \in Seq(DOMAIN r) /\ flood \in Seq(DOMAIN r)
      BY OfClassFacts
    <3>2. ToSet(benign) \subseteq Calm(r, "bouncer")
      <4>1. AttackOf["bouncer"] \notin {"normal", "probe"}
        BY DEF AttackOf, Lanes
      <4> QED
        BY <4>1, ClassCalm
    <3>3. b[side] = InGroup(r, benign, File[side]) /\ a[side] = InGroup(r, flood, File[side])
      OBVIOUS
    <3> HIDE DEF a, b, benign, flood
    <3>4. b[side] \in Seq(DOMAIN r) /\ a[side] \in Seq(DOMAIN r) /\ Picks(b[side], benign)
      BY <3>1, <3>3, InGroupFacts
    <3>5. ToSet(b[side]) \subseteq Calm(r, "bouncer")
      BY <3>2, <3>4, PicksSubset
    <3> QED
      BY <3>4, <3>5, SpacedVectorsClean
  <2> HIDE DEF sides
  <2>3. Clean(r, Scores("files", sides).train \cup Scores("files", sides).test, "bouncer")
    BY <2>2, ScoresClean
  <2> QED
    BY <2>1, <2>3 DEF AllClean
<1>2. AllClean(r, RepoDetective(r, n), "detective")
  <2> DEFINE Of(class) == [side \in Sides |->
                             Prefix(InGroup(r, OfClass(r, {class}), File[side]), n \div 2)]
             b == Of("normal")
             a == Of("probe")
             sides == Together(SpacedWindows(b, "benign"), SpacedWindows(a, "attack"))
  <2>1. RepoDetective(r, n).scores = {Scores("files", sides)}
    BY DEF RepoDetective, Trained
  <2>2. ASSUME NEW side \in Sides PROVE Clean(r, sides[side], "detective")
    <3> DEFINE normal == OfClass(r, {"normal"})
               inFile == InGroup(r, normal, File[side])
    <3>1. n \div 2 \in Nat
      OBVIOUS
    <3>2. normal \in Seq(DOMAIN r) /\ ToSet(normal) \subseteq Calm(r, "detective")
      BY OfClassFacts, ClassCalm, NormalCalm DEF Lanes
    <3>3. b[side] = Prefix(inFile, n \div 2)
      OBVIOUS
    <3> HIDE DEF a, b, normal
    <3>4. inFile \in Seq(DOMAIN r) /\ Picks(inFile, normal)
      BY <3>2, InGroupFacts
    <3> HIDE DEF inFile
    <3>5. Picks(b[side], inFile)
      BY <3>1, <3>3, <3>4, PrefixPicks
    <3>6. ToSet(b[side]) \subseteq Calm(r, "detective")
      BY <3>2, <3>4, <3>5, PicksSubset
    <3> QED
      BY <3>6, SpacedWindowsClean
  <2> HIDE DEF sides
  <2>3. Clean(r, Scores("files", sides).train \cup Scores("files", sides).test, "detective")
    BY <2>2, ScoresClean
  <2> QED
    BY <2>1, <2>3 DEF AllClean
<1> QED
  BY <1>1, <1>2

\* The history of an event is of one host.
LEMMA HistoryHost ==
  ASSUME NEW T, NEW s \in Seq(T), NEW r, NEW at, NEW k \in DOMAIN s
  PROVE  \A i \in History(r, s, at, k) : i \in ToSet(s) /\ r[i].source = r[s[k]].source
<1>1. 1..k \subseteq DOMAIN s
  OBVIOUS
<1> QED
  BY <1>1 DEF History, ToSet

\* run_api: the hosts that flood send nothing else.
LEMMA ApiClean ==
  ASSUME NEW r \in Seq(Row), Loaded("api", r)
  PROVE  AllClean(r, ApiBouncer(r), "bouncer")
<1> DEFINE sides == [side \in Sides |->
             LET s == Recorded(r, side)
             IN {[label |-> IF r[s[k]].class = "flood" THEN "attack" ELSE "benign",
                  rows |-> History(r, s, AsRecorded(r, s), k)] : k \in DOMAIN s}]
<1>1. ApiBouncer(r).scores = {Scores("files", sides)}
  BY DEF ApiBouncer, Trained
<1>2. ASSUME NEW side \in Sides PROVE Clean(r, sides[side], "bouncer")
  <2> DEFINE s == Recorded(r, side)
  <2>1. s \in Seq(DOMAIN r)
    BY PositionsFacts, InGroupRows DEF Recorded
  <2>2. \A e \in sides[side] : \E k \in DOMAIN s :
          /\ e.label = IF r[s[k]].class = "flood" THEN "attack" ELSE "benign"
          /\ e.rows = History(r, s, AsRecorded(r, s), k)
    OBVIOUS
  <2> HIDE DEF s, sides
  <2>3. ASSUME NEW e \in sides[side], e.label # "attack", NEW i \in e.rows
        PROVE  r[i].class # AttackOf["bouncer"]
    <3>1. PICK k \in DOMAIN s :
            /\ e.label = IF r[s[k]].class = "flood" THEN "attack" ELSE "benign"
            /\ e.rows = History(r, s, AsRecorded(r, s), k)
      BY <2>2
    <3>2. r[s[k]].class # "flood" /\ s[k] \in DOMAIN r
      BY <2>1, <2>3, <3>1
    <3>3. i \in ToSet(s) /\ r[i].source = r[s[k]].source
      BY <2>1, <3>1, HistoryHost
    <3>4. i \in DOMAIN r
      BY <2>1, <3>3 DEF ToSet
    <3>5. r[i].class = r[s[k]].class
      BY <3>2, <3>3, <3>4 DEF Loaded
    <3> QED
      BY <3>2, <3>5 DEF AttackOf, Lanes
  <2> QED
    BY <2>3 DEF Clean
<1> HIDE DEF sides
<1>3. Clean(r, Scores("files", sides).train \cup Scores("files", sides).test, "bouncer")
  BY <1>2, ScoresClean
<1> QED
  BY <1>1, <1>3 DEF AllClean

LEMMA ReplayDaysClean ==
  ASSUME NEW r \in Seq(Row), NEW pools, \A d \in DOMAIN pools : pools[d] \in Seq(DOMAIN r),
         NEW lane, NEW label, label = "attack" \/ RowsIn(pools) \subseteq Calm(r, lane)
  PROVE  Clean(r, ReplayDays(r, pools, label), lane)
<1>1. ASSUME NEW d \in DOMAIN pools
      PROVE  Clean(r, ToSet(Vectors(r, pools[d], AsRecorded(r, pools[d]), label)), lane)
  <2>1. pools[d] \in Seq(DOMAIN r) /\ (label = "attack" \/ ToSet(pools[d]) \subseteq Calm(r, lane))
    BY DEF RowsIn
  <2> QED
    BY <2>1, VectorsClean
<1> QED
  BY <1>1 DEF Clean, ReplayDays

LEMMA Bouncer2018Clean ==
  ASSUME NEW r \in Seq(Row), NEW n \in Nat, NEW o
  PROVE  AllClean(r, Bouncer2018(r, n, o), "bouncer")
<1> DEFINE flood == FloodPools2018(r, n)
           benign == BenignPools2018(r, n)
           sides == FitDays2018(r, flood, benign, o)
           F == ClassRows(r, {"flood"})
           N == ClassRows(r, {"normal"})
<1>1. Bouncer2018(r, n, o).scores \subseteq {Scores("split", sides)} \cup AcrossDays2018(r, flood, benign)
  BY DEF Bouncer2018, Skipped, Raises, Trained
<1>2. DayPools(r, flood, F) /\ DayPools(r, benign, N)
  BY FloodPoolsFacts, BenignPoolsFacts
<1>3. N \subseteq Calm(r, "bouncer")
  BY NormalCalm DEF ClassRows, Calm, Lanes
<1> HIDE DEF flood, benign, F, N
<1>4. ASSUME NEW f, NEW b, \A d \in DOMAIN f : f[d] \in Seq(DOMAIN r),
             \A d \in DOMAIN b : b[d] \in Seq(DOMAIN r), RowsIn(b) \subseteq N
      PROVE  Clean(r, ReplayDays(r, f, "attack") \cup ReplayDays(r, b, "benign"), "bouncer")
  <2>1. RowsIn(b) \subseteq Calm(r, "bouncer")
    BY <1>3, <1>4
  <2>2. Clean(r, ReplayDays(r, f, "attack"), "bouncer")
    BY <1>4, ReplayDaysClean
  <2>3. Clean(r, ReplayDays(r, b, "benign"), "bouncer")
    BY <1>4, <2>1, ReplayDaysClean
  <2> QED
    BY <2>2, <2>3, CleanBoth
<1>5. ASSUME NEW side \in Sides PROVE Clean(r, sides[side], "bouncer")
  <2> DEFINE f == SplitByDay(flood, o, 1, side)
             b == SplitByDay(benign, o, 2, side)
  <2>1. sides[side] = ReplayDays(r, f, "attack") \cup ReplayDays(r, b, "benign")
    BY DEF FitDays2018
  <2>2. /\ \A d \in DOMAIN f : f[d] \in Seq(DOMAIN r)
        /\ \A d \in DOMAIN b : b[d] \in Seq(DOMAIN r)
        /\ RowsIn(b) \subseteq N
    BY <1>2, SplitByDayApart
  <2> HIDE DEF f, b, sides
  <2> QED
    BY <1>4, <2>1, <2>2
<1>6. Clean(r, Scores("split", sides).train \cup Scores("split", sides).test, "bouncer")
  <2> HIDE DEF sides
  <2> QED
    BY <1>5, ScoresClean
<1>7. ASSUME NEW s \in AcrossDays2018(r, flood, benign)
      PROVE  Clean(r, s.train \cup s.test, "bouncer")
  <2>1. PICK x \in FloodDays, y \in BenignDays : s = Scores("across", FitOn(r, flood, benign, x, y))
    BY DEF AcrossDays2018
  <2> DEFINE across == FitOn(r, flood, benign, x, y)
  <2>2. \A days : /\ \A d \in DOMAIN Only(flood, days) : Only(flood, days)[d] \in Seq(DOMAIN r)
                  /\ \A d \in DOMAIN Only(benign, days) : Only(benign, days)[d] \in Seq(DOMAIN r)
                  /\ RowsIn(Only(benign, days)) \subseteq N
    BY <1>2, OnlyFacts
  <2>3. \A D, E : Clean(r, ReplayDays(r, Only(flood, D), "attack")
                             \cup ReplayDays(r, Only(benign, E), "benign"), "bouncer")
    BY <1>4, <2>2
  <2>4. Clean(r, across["train"], "bouncer") /\ Clean(r, across["test"], "bouncer")
    BY <2>3 DEF FitOn
  <2> HIDE DEF across
  <2>5. Clean(r, Scores("across", across).train \cup Scores("across", across).test, "bouncer")
    BY <2>4, ScoresClean DEF Sides
  <2> QED
    BY <2>1, <2>5 DEF across
<1> HIDE DEF sides
<1> QED
  BY <1>1, <1>6, <1>7 DEF AllClean

\* run_cicddos2019: a host that floods on a day has no benign rows that day.
LEMMA DayVectorsClean ==
  ASSUME NEW r \in Seq(Row), NEW d, NEW class, NEW label, label = "attack" \/ class = "normal",
         NEW n \in Nat
  PROVE  /\ \E T : DayVectors(r, d, class, label, n) \in Seq(T)
         /\ Clean(r, ToSet(DayVectors(r, d, class, label, n)), "bouncer")
<1> DEFINE s == DayRows(r, d)
           at == AsRecorded(r, s)
           v == Vectors(r, s, at, label)
           P == {k \in DOMAIN s : /\ r[s[k]].class = class
                                  /\ class = "normal" => r[s[k]].source \notin FloodHosts(r, d)}
           keeping == Kept(v, P)
           sample == EvenSubsample(keeping, n)
<1>1. DayVectors(r, d, class, label, n) = sample
  BY DEF DayVectors, DayRows
<1>2. s \in Seq(DOMAIN r) /\ ToSet(s) \subseteq GroupRows(r, {d})
  BY DayRowsFacts
<1>3. /\ DOMAIN v = DOMAIN s
      /\ \A k \in DOMAIN s : v[k].label = label /\ v[k].rows = History(r, s, at, k)
  BY DEF Vectors
<1>4. /\ P \in SUBSET DOMAIN s
      /\ class = "normal" => \A k \in P : r[s[k]].source \notin FloodHosts(r, d)
  OBVIOUS
<1>5. v \in Seq(ToSet(v))
  BY <1>2, VectorsSeq
<1> HIDE DEF s, at, v, P
<1>6. /\ keeping \in Seq(ToSet(v))
      /\ \A k \in DOMAIN keeping : \E i \in P : keeping[k] = v[i]
  BY <1>3, <1>4, <1>5, KeptPicks
<1> HIDE DEF keeping
<1>7. sample \in Seq(ToSet(v)) /\ Picks(sample, keeping)
  BY <1>6, EvenSubsamplePicks
<1>8. \A e \in ToSet(sample) : \E k \in P : e = v[k]
  <2>1. ToSet(sample) \subseteq ToSet(keeping)
    BY <1>7, PicksSubset
  <2> QED
    BY <1>6, <2>1 DEF ToSet
<1> HIDE DEF sample
<1>9. ASSUME NEW e \in ToSet(sample), e.label # "attack", NEW i \in e.rows
      PROVE  r[i].class # "flood"
  <2>1. PICK k \in P : e = v[k]
    BY <1>8
  <2>2. k \in DOMAIN s /\ class = "normal"
    BY <1>3, <1>4, <1>9, <2>1
  <2>3. i \in ToSet(s) /\ r[i].source = r[s[k]].source
    BY <1>2, <1>3, <1>9, <2>1, <2>2, HistoryHost
  <2>4. i \in DOMAIN r /\ r[i].group = d
    BY <1>2, <2>3 DEF GroupRows
  <2>5. r[i].source \notin FloodHosts(r, d)
    BY <1>4, <2>1, <2>2, <2>3
  <2> QED
    BY <2>4, <2>5 DEF FloodHosts
<1>10. AttackOf["bouncer"] = "flood"
  BY DEF AttackOf, Lanes
<1>11. Clean(r, ToSet(sample), "bouncer")
  BY <1>9, <1>10 DEF Clean
<1> QED
  BY <1>1, <1>7, <1>11

CleanPools(r, pools) ==
  \A d \in DOMAIN pools : /\ \E T : pools[d] \in Seq(T)
                          /\ Clean(r, ToSet(pools[d]), "bouncer")

LEMMA PoolsClean ==
  ASSUME NEW r, NEW pools, CleanPools(r, pools)
  PROVE  /\ \A days : Clean(r, VectorsOf(Only(pools, days)), "bouncer")
         /\ \A o, n : \A side \in Sides : Clean(r, VectorsOf(SplitByDay(pools, o, n, side)), "bouncer")
<1>1. ASSUME NEW days PROVE Clean(r, VectorsOf(Only(pools, days)), "bouncer")
  <2>1. \A d \in DOMAIN Only(pools, days) : d \in DOMAIN pools /\ Only(pools, days)[d] = pools[d]
    BY DEF Only
  <2>2. \A d \in DOMAIN Only(pools, days) : Clean(r, ToSet(Only(pools, days)[d]), "bouncer")
    BY <2>1 DEF CleanPools
  <2> QED
    BY <2>2 DEF VectorsOf, Clean
<1>2. ASSUME NEW o, NEW n, NEW side \in Sides
      PROVE  Clean(r, VectorsOf(SplitByDay(pools, o, n, side)), "bouncer")
  <2> DEFINE part == SplitByDay(pools, o, n, side)
  <2>1. DOMAIN part = DOMAIN pools /\ \A d \in DOMAIN pools : part[d] = SplitOf(pools[d], o[n])[side]
    BY DEF SplitByDay
  <2> HIDE DEF part
  <2>2. ASSUME NEW d \in DOMAIN pools PROVE Clean(r, ToSet(part[d]), "bouncer")
    <3>1. PICK T : pools[d] \in Seq(T)
      BY DEF CleanPools
    <3>2. ToSet(part[d]) \subseteq ToSet(pools[d])
      BY <2>1, <3>1, SplitWithin
    <3>3. Clean(r, ToSet(pools[d]), "bouncer")
      BY DEF CleanPools
    <3> QED
      BY <3>2, <3>3, CleanFewer
  <2>3. Clean(r, VectorsOf(part), "bouncer")
    BY <2>1, <2>2 DEF VectorsOf, Clean
  <2> QED
    BY <2>3 DEF part
<1> QED
  BY <1>1, <1>2

LEMMA Bouncer2019Clean ==
  ASSUME NEW r \in Seq(Row), NEW n \in Nat, NEW o
  PROVE  AllClean(r, Bouncer2019(r, n, o), "bouncer")
<1> DEFINE usable == UsableDays(r, n)
           flood == [d \in usable |-> DayVectors(r, d, "flood", "attack", n)]
           benign == [d \in usable |-> DayVectors(r, d, "normal", "benign", n)]
           sides == [side \in Sides |-> VectorsOf(SplitByDay(flood, o, 1, side))
                                          \cup VectorsOf(SplitByDay(benign, o, 2, side))]
           archives == Groups(r)
<1>1. Bouncer2019(r, n, o).scores \subseteq
        {Scores("split", sides)} \cup AcrossDays2019(flood, benign, archives)
  BY DEF Bouncer2019, Skipped, Raises, Trained
<1>2. CleanPools(r, flood)
  BY DayVectorsClean DEF CleanPools
<1>3. CleanPools(r, benign)
  BY DayVectorsClean DEF CleanPools
<1> HIDE DEF flood, benign, archives
<1>4. ASSUME NEW side \in Sides PROVE Clean(r, sides[side], "bouncer")
  <2>1. sides[side] = VectorsOf(SplitByDay(flood, o, 1, side)) \cup VectorsOf(SplitByDay(benign, o, 2, side))
    OBVIOUS
  <2>2. /\ Clean(r, VectorsOf(SplitByDay(flood, o, 1, side)), "bouncer")
        /\ Clean(r, VectorsOf(SplitByDay(benign, o, 2, side)), "bouncer")
    BY <1>2, <1>3, PoolsClean
  <2> QED
    BY <2>1, <2>2, CleanBoth
<1> HIDE DEF sides
<1>5. Clean(r, Scores("split", sides).train \cup Scores("split", sides).test, "bouncer")
  BY <1>4, ScoresClean
<1>6. ASSUME NEW s \in AcrossDays2019(flood, benign, archives)
      PROVE  Clean(r, s.train \cup s.test, "bouncer")
  <2>1. PICK t : s = Scores("across", LeaveOut(flood, benign, archives, t))
    BY DEF AcrossDays2019
  <2> DEFINE across == LeaveOut(flood, benign, archives, t)
  <2>2. /\ across["train"] = VectorsOf(Only(flood, archives \ {t})) \cup VectorsOf(Only(benign, archives \ {t}))
        /\ across["test"] = VectorsOf(Only(flood, {t})) \cup VectorsOf(Only(benign, {t}))
    BY DEF LeaveOut
  <2>3. \A D, E : Clean(r, VectorsOf(Only(flood, D)) \cup VectorsOf(Only(benign, E)), "bouncer")
    <3>1. \A D, E : /\ Clean(r, VectorsOf(Only(flood, D)), "bouncer")
                    /\ Clean(r, VectorsOf(Only(benign, E)), "bouncer")
      BY <1>2, <1>3, PoolsClean
    <3> QED
      BY <3>1, CleanBoth
  <2>4. Clean(r, across["train"], "bouncer") /\ Clean(r, across["test"], "bouncer")
    BY <2>2, <2>3
  <2> HIDE DEF across
  <2>5. Clean(r, Scores("across", across).train \cup Scores("across", across).test, "bouncer")
    BY <2>4, ScoresClean DEF Sides
  <2> QED
    BY <2>1, <2>5 DEF across
<1> QED
  BY <1>1, <1>5, <1>6 DEF AllClean

\* A capture that begins with a benign flow has no other flows.
LEMMA CapturesCalm ==
  ASSUME NEW r \in Seq(Row), Loaded("ciciot2023", r), NEW lane \in Lanes
  PROVE  GroupRows(r, CapturesOf(r, "normal")) \subseteq Calm(r, lane)
<1> SUFFICES ASSUME NEW i \in GroupRows(r, CapturesOf(r, "normal")) PROVE i \in Calm(r, lane)
  OBVIOUS
<1> DEFINE g == r[i].group
           p == Positions(r)
           P == {k \in DOMAIN p : r[p[k]].group = g}
           s == InGroup(r, p, g)
<1>1. i \in DOMAIN r /\ r[s[1]].class = "normal"
  BY DEF GroupRows, CapturesOf
<1>2. p \in Seq(DOMAIN r) /\ DOMAIN p = DOMAIN r /\ p[i] = i
  BY <1>1, PositionsFacts DEF Positions
<1>3. i \in P /\ P \in SUBSET (Nat \ {0}) /\ IsFiniteSet(P)
  <2>1. P \subseteq DOMAIN r
    BY <1>2
  <2> HIDE DEF p
  <2> QED
    BY <1>1, <1>2, <2>1, RowFacts, FS_Subset
<1>4. s = Kept(p, P)
  BY DEF InGroup
<1> HIDE DEF P
<1>5. 1 \in DOMAIN s
  <2> DEFINE order == InOrder(P)
  <2>1. Enumerates(order, P)
    BY <1>3, InOrderFacts
  <2>2. DOMAIN s = DOMAIN order
    BY <1>4 DEF Kept
  <2> HIDE DEF order, s
  <2>3. order \in Seq(P) /\ \E k \in DOMAIN order : order[k] = i
    BY <1>3, <2>1 DEF Enumerates
  <2> QED
    BY <2>2, <2>3
<1>6. s \in Seq(DOMAIN r) /\ \A j \in ToSet(s) : r[j].group = g
  BY <1>2, InGroupFacts
<1> HIDE DEF s
<1>7. s[1] \in DOMAIN r /\ r[s[1]].group = g
  BY <1>5, <1>6 DEF ToSet
<1>8. r[i].class = "normal"
  BY <1>1, <1>7 DEF Loaded
<1> QED
  BY <1>1, <1>8, NormalCalm DEF Calm

LEMMA BalancedClean ==
  ASSUME NEW r, NEW lane, NEW b, NEW a, b \in Seq(ToSet(b)), a \in Seq(ToSet(a)), NEW n \in Nat,
         Clean(r, ToSet(b), lane), Clean(r, ToSet(a), lane)
  PROVE  Clean(r, Balanced(b, a, n), lane)
BY BalancedFewer, CleanBoth, CleanFewer

LEMMA CiciotClean ==
  ASSUME NEW r \in Seq(Row), Loaded("ciciot2023", r), NEW n \in Nat, NEW o
  PROVE  /\ AllClean(r, CiciotBouncer(r, o), "bouncer")
         /\ AllClean(r, CiciotDetective(r, n, o), "detective")
<1> DEFINE b == SplitPool(r, "normal", o[2])
           f == SplitPool(r, "flood", o[1])
           p == SplitPool(r, "probe", o[1])
           V(s, label) == Vectors(r, s, AsRecorded(r, s), label)
           W(s, label) == Windows(s, AsRecorded(r, s), label)
           vs == [side \in Sides |-> Balanced(V(b[side], "benign"), V(f[side], "attack"), 0)]
           ws == [side \in Sides |-> Balanced(W(b[side], "benign"), W(p[side], "attack"), n)]
<1>1. CiciotBouncer(r, o).scores \subseteq {Scores("split", vs)}
  BY DEF CiciotBouncer, Skipped, Trained
<1>2. CiciotDetective(r, n, o).scores \subseteq {Scores("split", ws)}
  BY DEF CiciotDetective, Skipped, Trained
<1>3. ASSUME NEW side \in Sides
      PROVE  /\ b[side] \in Seq(DOMAIN r) /\ Distinct(b[side])
             /\ f[side] \in Seq(DOMAIN r) /\ Distinct(f[side])
             /\ p[side] \in Seq(DOMAIN r) /\ Distinct(p[side])
             /\ \A lane \in Lanes : ToSet(b[side]) \subseteq Calm(r, lane)
  <2>1. ToSet(b[side]) \subseteq GroupRows(r, CapturesOf(r, "normal"))
    BY SplitPoolFacts
  <2>2. \A lane \in Lanes : ToSet(b[side]) \subseteq Calm(r, lane)
    BY <2>1, CapturesCalm
  <2> QED
    BY <2>2, SplitPoolFacts
<1>4. \A side \in Sides : /\ vs[side] = Balanced(V(b[side], "benign"), V(f[side], "attack"), 0)
                          /\ ws[side] = Balanced(W(b[side], "benign"), W(p[side], "attack"), n)
  OBVIOUS
<1> HIDE DEF b, f, p, vs, ws
<1>5. \A label : \A s \in Seq(DOMAIN r) : \A lane :
        /\ V(s, label) \in Seq(ToSet(V(s, label)))
        /\ label = "attack" \/ ToSet(s) \subseteq Calm(r, lane) => Clean(r, ToSet(V(s, label)), lane)
  BY VectorsSeq, VectorsClean
<1>6. \A label : \A s \in Seq(DOMAIN r) : \A lane : Distinct(s) =>
        /\ W(s, label) \in Seq(ToSet(W(s, label)))
        /\ label = "attack" \/ ToSet(s) \subseteq Calm(r, lane) => Clean(r, ToSet(W(s, label)), lane)
  BY WindowsSeq, WindowsClean
<1> HIDE DEF V, W
<1>7. ASSUME NEW side \in Sides
      PROVE  Clean(r, vs[side], "bouncer") /\ Clean(r, ws[side], "detective")
  <2>1. ToSet(b[side]) \subseteq Calm(r, "bouncer") /\ ToSet(b[side]) \subseteq Calm(r, "detective")
    BY <1>3 DEF Lanes
  <2>2. /\ V(b[side], "benign") \in Seq(ToSet(V(b[side], "benign")))
        /\ V(f[side], "attack") \in Seq(ToSet(V(f[side], "attack")))
        /\ Clean(r, ToSet(V(b[side], "benign")), "bouncer")
        /\ Clean(r, ToSet(V(f[side], "attack")), "bouncer")
    BY <1>3, <1>5, <2>1
  <2>3. /\ W(b[side], "benign") \in Seq(ToSet(W(b[side], "benign")))
        /\ W(p[side], "attack") \in Seq(ToSet(W(p[side], "attack")))
        /\ Clean(r, ToSet(W(b[side], "benign")), "detective")
        /\ Clean(r, ToSet(W(p[side], "attack")), "detective")
    BY <1>3, <1>6, <2>1
  <2>4. Clean(r, vs[side], "bouncer")
    BY <1>4, <2>2, BalancedClean
  <2>5. Clean(r, ws[side], "detective")
    BY <1>4, <2>3, BalancedClean
  <2> QED
    BY <2>4, <2>5
<1>8. /\ Clean(r, Scores("split", vs).train \cup Scores("split", vs).test, "bouncer")
      /\ Clean(r, Scores("split", ws).train \cup Scores("split", ws).test, "detective")
  BY <1>7, ScoresClean
<1> QED
  BY <1>1, <1>2, <1>8 DEF AllClean

\* An event of a window comes less than a window after the one that begins it, on the
\* days of CSE-CIC-IDS2018, which are sorted by time.
LEMMA DayRowsOrder ==
  ASSUME NEW r \in Seq(Row), NEW d
  PROVE  \A k, l \in DOMAIN DayRows(r, d) : k < l => DayRows(r, d)[k] < DayRows(r, d)[l]
<1> DEFINE p == Positions(r)
           P == {k \in DOMAIN p : r[p[k]].group = d}
           order == InOrder(P)
           s == DayRows(r, d)
<1>1. DOMAIN p = DOMAIN r /\ \A k \in DOMAIN r : p[k] = k
  BY DEF Positions
<1>2. P \in SUBSET (Nat \ {0}) /\ IsFiniteSet(P)
  <2>1. P \subseteq DOMAIN r
    BY <1>1
  <2> HIDE DEF p
  <2> QED
    BY <2>1, RowFacts, FS_Subset
<1>3. s = Kept(p, P)
  BY DEF DayRows, InGroup
<1>4. P \subseteq DOMAIN r
  BY <1>1
<1> HIDE DEF p, P
<1>5. Enumerates(order, P) /\ \A k, l \in DOMAIN order : k < l => order[k] < order[l]
  BY <1>2, InOrderFacts
<1>6. DOMAIN s = DOMAIN order /\ \A k \in DOMAIN order : s[k] = p[order[k]]
  BY <1>3 DEF Kept
<1> HIDE DEF order, s
<1>7. \A k \in DOMAIN order : order[k] \in P
  BY <1>5 DEF Enumerates
<1>8. \A k \in DOMAIN s : s[k] = order[k]
  BY <1>1, <1>4, <1>6, <1>7
<1>9. \A k, l \in DOMAIN s : k < l => s[k] < s[l]
  BY <1>5, <1>6, <1>8
<1> QED
  BY <1>9 DEF s

LEMMA DayCutSpan ==
  ASSUME NEW r \in Seq(Row), Loaded("cicids2018", r), NEW d, NEW n \in DOMAIN DayCut(r, d),
         NEW i \in DayCut(r, d)[n].rows
  PROVE  LET f == DayCut(r, d)[n].first IN
         /\ i \in DOMAIN r /\ r[i].group = d /\ f \in DOMAIN r
         /\ r[f].at <= r[i].at /\ r[i].at <= r[f].at + WindowSeconds
<1> DEFINE s == DayRows(r, d)
           at == AsRecorded(r, s)
           opener == Opener(at)
           opens == InOrder({k \in DOMAIN s : opener[k] = k})
           w == DayCut(r, d)[n]
<1>1. /\ w.rows = {s[k] : k \in {j \in DOMAIN s : opener[j] = opens[n]}}
      /\ w.first = s[opens[n]]
  BY DEF DayCut, Flushed
<1>2. PICK j \in DOMAIN s : i = s[j] /\ opener[j] = opens[n]
  BY <1>1
<1>3. s \in Seq(DOMAIN r) /\ ToSet(s) \subseteq GroupRows(r, {d})
  BY DayRowsFacts
<1>4. \A k, l \in DOMAIN s : k < l => s[k] < s[l]
  BY DayRowsOrder
<1>5. DOMAIN at = DOMAIN s /\ \A k \in DOMAIN s : at[k] = r[s[k]].at
  BY DEF AsRecorded
<1> DEFINE o == opens[n]
<1> HIDE DEF s, at, opener, opens
<1>6. \A k \in DOMAIN s : s[k] \in DOMAIN r /\ r[s[k]].group = d /\ r[s[k]].at \in Int
  BY <1>3, RowFacts DEF ToSet, GroupRows
<1>7. Len(s) \in Nat /\ DOMAIN s = 1..Len(s)
  BY <1>3
<1>8. o \in 1..j /\ (o = j \/ at[j] - at[o] < WindowSeconds)
  <2>1. DOMAIN at = 1..Len(s) /\ \A k \in 1..Len(s) : at[k] \in Int
    BY <1>5, <1>6, <1>7
  <2>2. \A k \in 1..Len(s) : LET x == Opener(at)[k] IN
          x \in 1..k /\ (x = k \/ at[k] - at[x] < WindowSeconds)
    BY <1>7, <2>1, OpenerFacts
  <2> QED
    BY <1>2, <1>7, <2>2 DEF opener
<1>9. o \in DOMAIN s /\ (o = j \/ o < j)
  BY <1>7, <1>8
<1>10. /\ i \in DOMAIN r /\ r[i].group = d /\ r[i].at \in Int /\ i = s[j]
       /\ s[o] \in DOMAIN r /\ r[s[o]].group = d /\ r[s[o]].at \in Int
  BY <1>2, <1>6, <1>9
<1>11. s[o] <= i
  BY <1>2, <1>4, <1>9, <1>10, RowFacts
<1>12. r[s[o]].at <= r[i].at
  BY <1>10, <1>11 DEF Loaded
<1>13. r[i].at <= r[s[o]].at + WindowSeconds
  <2>1. at[j] = r[i].at /\ at[o] = r[s[o]].at
    BY <1>5, <1>9, <1>10
  <2> DEFINE x == r[i].at
             y == r[s[o]].at
  <2>2. x \in Int /\ y \in Int /\ (x = y \/ x - y < WindowSeconds)
    BY <1>8, <1>10, <2>1
  <2> HIDE DEF x, y
  <2>3. x <= y + WindowSeconds
    BY <2>2, WindowAssumption
  <2> QED
    BY <2>3 DEF x, y
<1> QED
  BY <1>1, <1>10, <1>12, <1>13

\* A window that begins outside every attack interval has no attack in it.
LEMMA BenignWindow ==
  ASSUME NEW r \in Seq(Row), Loaded("cicids2018", r), NEW e, NEW d, NEW k,
         IsWindow(r, e, "benign", d, k), NEW i \in e.rows
  PROVE  r[i].class = "normal"
<1> DEFINE f == DayCut(r, d)[k].first
           t == r[f].at
           x == r[i].at
<1>1. /\ i \in DOMAIN r /\ r[i].group = d /\ f \in DOMAIN r
      /\ t <= x /\ x <= t + WindowSeconds
  BY DayCutSpan DEF IsWindow
<1>2. ~InsideAttack(r, d, t)
  <2>1. DayLabel(r, d, DayCut(r, d)[k]) = "benign"
    BY DEF IsWindow
  <2> QED
    BY <2>1 DEF DayLabel
<1>3. t \in Int /\ x \in Int
  BY <1>1, RowFacts
<1> HIDE DEF f, t
<1>4. x - GuardSeconds <= t /\ t <= x + GuardSeconds
  <2> HIDE DEF x
  <2> QED
    BY <1>1, <1>3, WindowAssumption
<1> QED
  BY <1>1, <1>2, <1>4 DEF InsideAttack

LEMMA Detective2018Clean ==
  ASSUME NEW r \in Seq(Row), Loaded("cicids2018", r), NEW n \in Nat, NEW o
  PROVE  AllClean(r, Detective2018(r, n, o), "detective")
<1> DEFINE wa == Windows2018(r, "attack", n)
           wb == Windows2018(r, "benign", n)
           sa == EvenSubsample(wa, n)
           sb == EvenSubsample(wb, n)
           a == SplitOf(sa, o[1])
           b == SplitOf(sb, o[2])
           sides == [side \in Sides |-> ToSet(a[side]) \cup ToSet(b[side])]
<1>1. Detective2018(r, n, o).scores \subseteq {Scores("split", sides)}
  BY DEF Detective2018, Skipped, Trained
<1>2. /\ wa \in Seq(ToSet(wa)) /\ wb \in Seq(ToSet(wb))
      /\ \A j \in DOMAIN wb : \E d, k : IsWindow(r, wb[j], "benign", d, k)
  BY Windows2018Facts
<1>3. \A j \in DOMAIN wa : wa[j].label = "attack"
  BY DEF Windows2018
<1> HIDE DEF wa, wb
<1>4. Clean(r, ToSet(wa), "detective")
  BY <1>3 DEF Clean, ToSet
<1>5. Clean(r, ToSet(wb), "detective")
  <2>1. ASSUME NEW e \in ToSet(wb), NEW i \in e.rows PROVE r[i].class # AttackOf["detective"]
    <3>1. PICK d, k : IsWindow(r, e, "benign", d, k)
      BY <1>2 DEF ToSet
    <3>2. r[i].class = "normal"
      BY <3>1, BenignWindow
    <3> QED
      BY <3>2, NormalCalm DEF Lanes
  <2> QED
    BY <2>1 DEF Clean
<1>6. /\ sa \in Seq(ToSet(wa)) /\ Picks(sa, wa)
      /\ sb \in Seq(ToSet(wb)) /\ Picks(sb, wb)
  BY <1>2, EvenSubsamplePicks
<1> HIDE DEF sa, sb
<1>7. ASSUME NEW side \in Sides PROVE Clean(r, sides[side], "detective")
  <2>1. ToSet(a[side]) \subseteq ToSet(wa) /\ ToSet(b[side]) \subseteq ToSet(wb)
    BY <1>6, SplitWithin, PicksSubset
  <2>2. Clean(r, ToSet(a[side]), "detective") /\ Clean(r, ToSet(b[side]), "detective")
    BY <1>4, <1>5, <2>1, CleanFewer
  <2> QED
    BY <2>2, CleanBoth
<1> HIDE DEF sides
<1>8. Clean(r, Scores("split", sides).train \cup Scores("split", sides).test, "detective")
  BY <1>7, ScoresClean
<1> QED
  BY <1>1, <1>8 DEF AllClean

-----------------------------------------------------------------------------
(* What is called benign is benign in every script *)

\* The Bouncer that run_lane_substitution fits
LEMMA RetrainedClean ==
  ASSUME NEW r \in Seq(Row), NEW n \in Nat, NEW o
  PROVE  LET s == Retrained(r, SubstitutionRows(r, n, o)) IN
         Clean(r, s.train \cup s.test, "detective")
<1> DEFINE normal == Prefix(OfClass(r, {"normal"}), n)
           probe == Prefix(OfClass(r, {"probe"}), n)
           b == SplitOf(normal, o[1])
           a == SplitOf(probe, o[2])
           V(s, label) == Vectors(r, s, Spaced(s), label)
           vb == [side \in Sides |-> V(b[side], "benign")]
           va == [side \in Sides |-> V(a[side], "attack")]
           sides == Together(vb, va)
           split == SubstitutionRows(r, n, o)
<1>1. Retrained(r, split) = Scores("retrained", sides)
  <2>1. split.benign = b /\ split.attack = a
    BY DEF SubstitutionRows
  <2> HIDE DEF split, a, b
  <2> QED
    BY <2>1 DEF Retrained
<1>2. /\ OfClass(r, {"normal"}) \in Seq(DOMAIN r) /\ OfClass(r, {"probe"}) \in Seq(DOMAIN r)
      /\ ToSet(OfClass(r, {"normal"})) \subseteq Calm(r, "detective")
  BY OfClassFacts, ClassCalm, NormalCalm DEF Lanes
<1>3. /\ normal \in Seq(DOMAIN r) /\ probe \in Seq(DOMAIN r)
      /\ ToSet(normal) \subseteq Calm(r, "detective")
  BY <1>2, PrefixPicks, PicksSubset
<1> HIDE DEF normal, probe
<1>4. ASSUME NEW side \in Sides PROVE Clean(r, sides[side], "detective")
  <2>1. /\ b[side] \in Seq(DOMAIN r) /\ ToSet(b[side]) \subseteq Calm(r, "detective")
        /\ a[side] \in Seq(DOMAIN r)
    BY <1>3, SplitWithin
  <2>2. vb[side] = V(b[side], "benign") /\ va[side] = V(a[side], "attack")
    OBVIOUS
  <2> HIDE DEF a, b, va, vb
  <2>3. Clean(r, ToSet(vb[side]), "detective") /\ Clean(r, ToSet(va[side]), "detective")
    BY <2>1, <2>2, VectorsClean
  <2> QED
    BY <2>3, TogetherClean
<1> HIDE DEF sides, split
<1>5. Clean(r, Scores("retrained", sides).train \cup Scores("retrained", sides).test, "detective")
  BY <1>4, ScoresClean
<1> QED
  BY <1>1, <1>5 DEF split

LEMMA DetectivesClean ==
  ASSUME NEW r \in Seq(Row), NEW n \in Nat, NEW o
  PROVE  /\ AllClean(r, CicDetective(r, n, o), "detective")
         /\ AllClean(r, DohDetective(r, n, o), "detective")
<1>1. /\ OfClass(r, {"normal"}) \in Seq(DOMAIN r)
      /\ ToSet(OfClass(r, {"normal"})) \subseteq Calm(r, "detective")
  BY OfClassFacts, ClassCalm, NormalCalm DEF Lanes
<1>2. /\ Prefix(OfClass(r, {"normal"}), n) \in Seq(DOMAIN r)
      /\ ToSet(Prefix(OfClass(r, {"normal"}), n)) \subseteq Calm(r, "detective")
  BY <1>1, PrefixPicks, PicksSubset
<1>3. /\ Strided(OfClass(r, {"normal"}), n) \in Seq(DOMAIN r)
      /\ ToSet(Strided(OfClass(r, {"normal"}), n)) \subseteq Calm(r, "detective")
  BY <1>1, StridedPicks, PicksSubset
<1>4. AllClean(r, CicDetective(r, n, o), "detective")
  BY <1>2, DetectiveByRowsClean DEF CicDetective
<1>5. AllClean(r, DohDetective(r, n, o), "detective")
  BY <1>3, DetectiveByRowsClean DEF DohDetective
<1> QED
  BY <1>4, <1>5

LEMMA ResultClean ==
  ASSUME script \in Scripts, rows \in Seq(Row), Loaded(script, rows), limit \in Nat,
         NEW lane \in Lanes, script # "api" \/ lane # "detective"
  PROVE  AllClean(rows, Result(lane), lane)
<1>1. AllClean(rows, Skipped, lane) /\ AllClean(rows, GivesUp, lane)
  BY DEF AllClean, Skipped, GivesUp
<1>2. lane = "bouncer" \/ lane = "detective"
  BY DEF Lanes
<1>3. CASE script = "repo"
  <2>1. AllClean(rows, RepoMain(lane), lane)
    BY <1>2, RepoClean DEF RepoMain
  <2> QED
    BY <1>3, <2>1 DEF Result
<1>4. CASE script = "api"
  <2>1. AllClean(rows, ApiMain(lane), lane)
    BY <1>2, <1>4, ApiClean DEF ApiMain
  <2> QED
    BY <1>4, <2>1 DEF Result
<1>5. /\ AllClean(rows, CicBouncer(rows, shuffles), "bouncer")
      /\ AllClean(rows, UnswBouncer(rows, limit, shuffles), "bouncer")
  BY BouncerByRowsClean DEF CicBouncer, UnswBouncer
<1>6. /\ AllClean(rows, CicDetective(rows, limit, shuffles), "detective")
      /\ AllClean(rows, DohDetective(rows, limit, shuffles), "detective")
  BY DetectivesClean
<1>7. CASE script = "cic"
  <2>1. AllClean(rows, CicMain(lane), lane)
    BY <1>2, <1>5, <1>6 DEF CicMain
  <2> QED
    BY <1>7, <2>1 DEF Result
<1>8. CASE script = "unsw"
  <2>1. AllClean(rows, UnswMain(lane), lane)
    BY <1>1, <1>2, <1>5, <1>6 DEF UnswMain, UnswDetective
  <2> QED
    BY <1>8, <2>1 DEF Result
<1>9. CASE script = "doh"
  <2>1. AllClean(rows, DohMain(lane), lane)
    BY <1>1, <1>2, <1>6 DEF DohMain
  <2> QED
    BY <1>9, <2>1 DEF Result
<1>10. CASE script = "dnsexf"
  <2>1. AllClean(rows, DnsExfMain(lane), lane)
    BY <1>1, <1>2, <1>6 DEF DnsExfMain, DnsExfDetective
  <2> QED
    BY <1>10, <2>1 DEF Result
<1>11. CASE script = "cicids2018"
  <2>1. AllClean(rows, Bouncer2018(rows, limit, shuffles), "bouncer")
    BY Bouncer2018Clean
  <2>2. AllClean(rows, Detective2018(rows, limit, shuffles), "detective")
    BY <1>11, Detective2018Clean
  <2>3. AllClean(rows, Cicids2018Main(lane), lane)
    BY <1>1, <1>2, <2>1, <2>2 DEF Cicids2018Main
  <2> QED
    BY <1>11, <2>3 DEF Result
<1>12. CASE script = "cicddos2019"
  <2>1. AllClean(rows, Bouncer2019(rows, limit, shuffles), "bouncer")
    BY Bouncer2019Clean
  <2>2. AllClean(rows, Cicddos2019Main(lane), lane)
    BY <1>1, <1>2, <2>1 DEF Cicddos2019Main
  <2> QED
    BY <1>12, <2>2 DEF Result
<1>13. CASE script = "ciciot2023"
  <2>1. /\ AllClean(rows, CiciotBouncer(rows, shuffles), "bouncer")
        /\ AllClean(rows, CiciotDetective(rows, limit, shuffles), "detective")
    BY <1>13, CiciotClean
  <2>2. AllClean(rows, Ciciot2023Main(lane), lane)
    BY <1>1, <1>2, <2>1 DEF Ciciot2023Main
  <2> QED
    BY <1>13, <2>2 DEF Result
<1> QED
  BY <1>3, <1>4, <1>7, <1>8, <1>9, <1>10, <1>11, <1>12, <1>13 DEF Scripts

\* A Bouncer that is not trained is not scored.
Scored(result) == result.outcome = "trained" \/ result.scores = {}

LEMMA BouncerScored ==
  ASSUME script \in Scripts
  PROVE  Scored(Result("bouncer"))
<1>1. Scored(Skipped) /\ Scored(Raises) /\ Scored(GivesUp)
  BY DEF Scored, Skipped, Raises, GivesUp
<1>2. \A s : Scored(Trained(s))
  BY DEF Scored, Trained
<1>3. \A r, n, o : Scored(BouncerByRows(r, n, o))
  BY <1>1, <1>2 DEF BouncerByRows
<1>4. CASE script \in {"repo", "api"}
  BY <1>2, <1>4 DEF Result, RepoMain, ApiMain, RepoBouncer, ApiBouncer
<1>5. CASE script \in {"cic", "unsw"}
  BY <1>1, <1>3, <1>5 DEF Result, CicMain, UnswMain, CicBouncer, UnswBouncer
<1>6. CASE script \in {"doh", "dnsexf"}
  BY <1>1, <1>6 DEF Result, DohMain, DnsExfMain
<1>7. CASE script = "cicids2018"
  <2>1. Scored(Bouncer2018(rows, limit, shuffles))
    BY <1>1, <1>2 DEF Bouncer2018
  <2> QED
    BY <1>7, <2>1 DEF Result, Cicids2018Main
<1>8. CASE script = "cicddos2019"
  <2>1. Scored(Bouncer2019(rows, limit, shuffles))
    BY <1>1, <1>2 DEF Bouncer2019
  <2>2. Scored(Cicddos2019Main("bouncer"))
    BY <1>1, <2>1 DEF Cicddos2019Main
  <2> QED
    BY <1>8, <2>2 DEF Result
<1>9. CASE script = "ciciot2023"
  <2>1. Scored(CiciotBouncer(rows, shuffles))
    BY <1>1, <1>2 DEF CiciotBouncer
  <2>2. Scored(Ciciot2023Main("bouncer"))
    BY <1>1, <2>1 DEF Ciciot2023Main
  <2> QED
    BY <1>9, <2>2 DEF Result
<1> QED
  BY <1>4, <1>5, <1>6, <1>7, <1>8, <1>9 DEF Scripts

BenignInv ==
  /\ corpus \in Corpora /\ data \in DOMAIN corpus.downloads /\ limit \in Nat
  /\ BenignIsBenign

LEMMA CorpusFacts ==
  ASSUME BenignInv
  PROVE  script \in Scripts /\ rows \in Seq(Row) /\ Loaded(script, rows)
<1>1. corpus \in Corpora /\ data \in DOMAIN corpus.downloads
  BY DEF BenignInv
<1>2. /\ corpus.script \in Scripts /\ corpus.downloads \in Seq(Seq(Row))
      /\ \A d \in DOMAIN corpus.downloads : Loaded(corpus.script, corpus.downloads[d])
  BY <1>1, ExperimentAssumption
<1> QED
  BY <1>1, <1>2 DEF script, rows

LEMMA BenignStart == ExperimentInit => BenignInv
<1> SUFFICES ASSUME ExperimentInit PROVE BenignInv
  OBVIOUS
<1>1. corpus \in Corpora /\ limit = 0 /\ data = 1 /\ scores = {}
  BY DEF ExperimentInit
<1>2. corpus.downloads \in Seq(Seq(Row)) /\ corpus.downloads # <<>>
  BY <1>1, ExperimentAssumption
<1>3. data \in DOMAIN corpus.downloads
  BY <1>1, <1>2
<1> QED
  BY <1>1, <1>3 DEF BenignInv, BenignIsBenign

LEMMA SilentStep ==
  ASSUME BenignInv, corpus' = corpus, scores' = {},
         data' \in DOMAIN corpus.downloads, limit' \in Nat
  PROVE  BenignInv'
BY DEF BenignInv, BenignIsBenign

LEMMA BenignTrain ==
  ASSUME BenignInv, NEW lane \in Lanes, Train(lane)
  PROVE  BenignInv'
<1> DEFINE result == Result(lane)
<1>1. /\ UNCHANGED <<corpus, shuffles, data, limit>>
      /\ corpus \in Corpora /\ data \in DOMAIN corpus.downloads /\ limit \in Nat
  BY DEF Train, BenignInv
<1>2. script \in Scripts /\ rows \in Seq(Row) /\ Loaded(script, rows)
  BY CorpusFacts
<1>3. CASE result.outcome \in {"gives_up", "raises"}
  <2>1. scores' = {}
    BY <1>3 DEF Train, Proceed, End
  <2> QED
    BY <1>1, <2>1, SilentStep
<1>4. CASE result.outcome \notin {"gives_up", "raises"}
  <2>1. /\ scores' = result.scores
        /\ stage' = IF result.outcome = "trained" THEN Saving[lane] ELSE After[lane]
    BY <1>4 DEF Train, Proceed
  <2>2. script # "api" \/ lane # "detective" => AllClean(rows, result, lane)
    BY <1>1, <1>2, ResultClean
  <2>3. lane = "bouncer" => Scored(result)
    BY <1>2, BouncerScored
  <2> HIDE DEF result
  <2>4. LaneScored' = lane \/ scores' = {}
    <3>1. CASE lane = "detective"
      <4>1. stage' # "save_bouncer"
        BY <2>1, <3>1 DEF Saving, After, Lanes
      <4> QED
        BY <3>1, <4>1 DEF LaneScored
    <3>2. CASE lane = "bouncer"
      <4>1. result.outcome = "trained" => stage' = "save_bouncer"
        BY <2>1, <3>2 DEF Saving, Lanes
      <4> QED
        BY <2>1, <2>3, <3>2, <4>1 DEF LaneScored, Scored
    <3> QED
      BY <3>1, <3>2 DEF Lanes
  <2>5. rows' = rows /\ script' = script
    BY <1>1 DEF rows, script
  <2>6. CASE scores' = {}
    BY <1>1, <2>6, SilentStep
  <2>7. CASE LaneScored' = lane /\ (script = "api" /\ lane = "detective")
    BY <1>1, <2>5, <2>7 DEF BenignInv, BenignIsBenign
  <2>8. CASE LaneScored' = lane /\ AllClean(rows, result, lane)
    <3>1. \A s \in scores' : \A e \in s.train \cup s.test :
            e.label = "attack" \/ \A i \in e.rows : rows[i].class # AttackOf[lane]
      BY <2>1, <2>8 DEF AllClean, Clean
    <3>2. BenignIsBenign'
      BY <2>5, <2>8, <3>1 DEF BenignIsBenign
    <3> QED
      BY <1>1, <3>2 DEF BenignInv
  <2> QED
    BY <2>2, <2>4, <2>6, <2>7, <2>8
<1> QED
  BY <1>3, <1>4

LEMMA BenignSubstitute ==
  ASSUME BenignInv, Substitute
  PROVE  BenignInv'
<1> DEFINE split == SubstitutionRows(rows, DefaultLimit, shuffles)
           windows == SubstitutionWindows(split)
           Frozen(l) == [kind |-> l, test |-> windows,
                         train |-> {[label |-> "benign", rows |-> weights[l].rows]}]
           fresh == Retrained(rows, split)
<1>1. /\ stage = "idle" /\ UNCHANGED <<corpus, shuffles, data, limit, stage>>
      /\ corpus \in Corpora /\ data \in DOMAIN corpus.downloads /\ limit \in Nat
  BY DEF Substitute, BenignInv
<1>2. scores' = {Frozen(l) : l \in Lanes} \cup {fresh}
  BY DEF Substitute
<1>3. \A l : Frozen(l).kind = l
  OBVIOUS
<1>4. Clean(rows, fresh.train \cup fresh.test, "detective")
  BY CorpusFacts, ExperimentAssumption, RetrainedClean
<1> HIDE DEF split, Frozen, fresh
<1>5. LaneScored' = "detective" /\ rows' = rows
  BY <1>1 DEF LaneScored, rows
<1>6. \A s \in scores' : s.kind \in Lanes \/ s = fresh
  BY <1>2, <1>3
<1>7. BenignIsBenign'
  BY <1>4, <1>5, <1>6 DEF BenignIsBenign, Clean
<1> QED
  BY <1>1, <1>7 DEF BenignInv

LEMMA BenignStep == BenignInv /\ [ExperimentNext]_vars => BenignInv'
<1> SUFFICES ASSUME BenignInv, [ExperimentNext]_vars PROVE BenignInv'
  OBVIOUS
<1>1. corpus \in Corpora /\ data \in DOMAIN corpus.downloads /\ limit \in Nat
  BY DEF BenignInv
<1>2. CASE Begin
  <2>1. corpus' = corpus /\ scores' = {} /\ data' \in DOMAIN corpus.downloads /\ limit' \in Nat
    BY <1>2, ExperimentAssumption DEF Begin
  <2> QED
    BY <2>1, SilentStep
<1>3. CASE NoData \/ WriteReport \/ Crash
  <2>1. UNCHANGED <<corpus, data, limit>> /\ scores' = {}
    BY <1>3 DEF NoData, WriteReport, Crash, End
  <2> QED
    BY <1>1, <2>1, SilentStep
<1>4. CASE Verify \/ UNCHANGED vars
  <2>1. /\ UNCHANGED <<corpus, data, limit, scores>>
        /\ stage' = stage \/ (stage = "verify" /\ stage' = "report")
    BY <1>4 DEF Verify, vars
  <2>2. script' = script /\ rows' = rows /\ LaneScored' = LaneScored
    BY <2>1 DEF script, rows, LaneScored
  <2> QED
    BY <2>1, <2>2 DEF BenignInv, BenignIsBenign
<1>5. ASSUME NEW lane \in Lanes, Save(lane) PROVE BenignInv'
  <2>1. UNCHANGED <<corpus, data, limit>> /\ scores' = {}
    BY <1>5 DEF Save
  <2> QED
    BY <1>1, <2>1, SilentStep
<1> QED
  BY <1>2, <1>3, <1>4, <1>5, BenignTrain, BenignSubstitute DEF ExperimentNext

\* No script trains or tests a lane on an example that it calls benign and that has a
\* row of the lane's attack in its history or its window, save the Detective of
\* run_api_experiment (train_bouncer, train_detective of every run_*_experiment.py, the
\* guard of twin/cicids2018.py and the flood hosts of run_cicddos2019_experiment.py).
THEOREM BenignIsBenignHolds == ExperimentSpec => []BenignIsBenign
<1>1. BenignInv => BenignIsBenign
  BY DEF BenignInv
<1> QED
  BY <1>1, BenignStart, BenignStep, PTL DEF ExperimentSpec

=============================================================================
