---------------------------- MODULE ModelRegistry ----------------------------
(***************************************************************************)
(* The retraining cycle of one component: services/bouncer/train.py saves  *)
(* a model in the component's working directory, file by file;             *)
(* ModelRegistry.register copies that directory into a version of its own  *)
(* and writes its version.json; should_promote compares with the current   *)
(* version; promote points current.json at the new one.                    *)
(*                                                                         *)
(* Every cycle is a process that cron starts (docs/instructions.md:102) or *)
(* an operator: cycles may overlap, and one may die between two writes.    *)
(* The content of a file is the training it comes from, Missing if it is   *)
(* not there.                                                              *)
(***************************************************************************)
EXTENDS Naturals, Sequences

CONSTANTS
  Retrainers,    \* slots for the cycles that may run at the same time
  Scores,        \* the values of the metric compared (f1)
  SaveOrder,     \* the files of a model, in the order they are written
  MaxTrainings   \* bound on the trainings, for TLC

ASSUME RegistryAssumption ==
  /\ Scores \subseteq Nat
  /\ SaveOrder \in Seq(STRING) \ {<<>>}
  /\ MaxTrainings \in Nat

VARIABLES
  pc,        \* what each cycle does next
  ctx,       \* its locals
  scores,    \* the metric of every training; a training is its place here
  workdir,   \* MODEL_DIR: its files
  registry,  \* the versions; a version_id is its place here
  pointer,   \* current.json
  installs,    \* history: the versions current.json was pointed at
  overlapped,  \* history: the cycles that ran at the same time as another one
  contested    \* history: the places in installs of those that had overlapped

history == <<installs, overlapped, contested>>
vars == <<pc, ctx, scores, workdir, registry, pointer, history>>

Missing == 0          \* a file that is not there

\* current.json: naming a version, not there yet, or truncated and not yet written.
Naming(version) == [text |-> "whole", version |-> version]
NoPointer == Naming(0)
Torn == [text |-> "truncated", version |-> 0]

Files == {SaveOrder[i] : i \in 1..Len(SaveOrder)}
VersionIds == 1..Len(registry)

Idle == [training |-> 0, next |-> 1, version |-> 0]
Goto(r, place) == pc' = [pc EXCEPT ![r] = place]
Finish(r) == Goto(r, "idle") /\ ctx' = [ctx EXCEPT ![r] = Idle]

-----------------------------------------------------------------------------
(* services/bouncer/train.py *)

Running == {q \in Retrainers : pc[q] # "idle"}

Train(r, score) ==
  /\ pc[r] = "idle"
  /\ Len(scores) < MaxTrainings
  /\ scores' = Append(scores, score)
  /\ ctx' = [ctx EXCEPT ![r] = [training |-> Len(scores) + 1, next |-> 1, version |-> 0]]
  /\ Goto(r, "save")
  /\ overlapped' = IF Running = {} THEN {} ELSE overlapped \cup Running \cup {r}
  /\ UNCHANGED <<workdir, registry, pointer, installs, contested>>

\* Mutant: a file that is already there is left alone.
SaveOnce(r) ==
  LET f == SaveOrder[ctx[r].next] IN
  /\ pc[r] = "save"
  /\ workdir' = [workdir EXCEPT ![f] = IF @ = Missing THEN ctx[r].training ELSE @]
  /\ ctx' = [ctx EXCEPT ![r].next = @ + 1]
  /\ Goto(r, IF ctx[r].next < Len(SaveOrder) THEN "save" ELSE "register")
  /\ UNCHANGED <<scores, registry, pointer, history>>

\* model.save and the metrics: one file after the other, over the old ones.
Save(r) ==
  LET f == SaveOrder[ctx[r].next] IN
  /\ pc[r] = "save"
  /\ workdir' = [workdir EXCEPT ![f] = ctx[r].training]
  /\ ctx' = [ctx EXCEPT ![r].next = @ + 1]
  /\ Goto(r, IF ctx[r].next < Len(SaveOrder) THEN "save" ELSE "register")
  /\ UNCHANGED <<scores, registry, pointer, history>>

-----------------------------------------------------------------------------
(* ModelRegistry *)

NewVersion == [files |-> [f \in Files |-> Missing], meta |-> Missing]

\* register: a directory of its own for the version ...
Register(r) ==
  /\ pc[r] = "register"
  /\ registry' = Append(registry, NewVersion)
  /\ ctx' = [ctx EXCEPT ![r].version = Len(registry) + 1]
  /\ Goto(r, "copy")
  /\ UNCHANGED <<scores, workdir, pointer, history>>

\* ... the files, in the order the directory lists them ...
Copy(r, f) ==
  /\ pc[r] = "copy"
  /\ registry[ctx[r].version].files[f] = Missing
  /\ workdir[f] # Missing
  /\ registry' = [registry EXCEPT ![ctx[r].version].files[f] = workdir[f]]
  /\ UNCHANGED <<pc, ctx, scores, workdir, pointer, history>>

Copied(r) == \A f \in Files : registry[ctx[r].version].files[f] # Missing

\* Mutant: the version is handed out without its version.json.
WriteVersionLater(r) ==
  /\ pc[r] = "copy"
  /\ Copied(r)
  /\ Goto(r, "compare")
  /\ UNCHANGED <<ctx, scores, workdir, registry, pointer, history>>

\* ... and its version.json, with the metrics of the training at hand.
WriteVersion(r) ==
  /\ pc[r] = "copy"
  /\ Copied(r)
  /\ registry' = [registry EXCEPT ![ctx[r].version].meta = ctx[r].training]
  /\ Goto(r, "compare")
  /\ UNCHANGED <<ctx, scores, workdir, pointer, history>>

\* The metrics get_current reads.
Score(v) == scores[registry[v].meta]

\* Mutant: a tie is promoted.
ShouldPromoteTies(score) == pointer = NoPointer \/ score >= Score(pointer.version)

\* get_current and should_promote: strictly better, or nothing to compare with.
ShouldPromote(score) == pointer = NoPointer \/ score > Score(pointer.version)

\* The comparison.  A current.json that is being written, or was when its writer
\* died, cannot be parsed: the cycle raises.
Compare(r) ==
  /\ pc[r] = "compare"
  /\ IF pointer # Torn /\ ShouldPromote(scores[ctx[r].training])
     THEN Goto(r, "open") /\ UNCHANGED ctx
     ELSE Finish(r)
  /\ UNCHANGED <<scores, workdir, registry, pointer, history>>

\* promote: write_text truncates the file ...
PromoteOpen(r) ==
  /\ pc[r] = "open"
  /\ pointer' = Torn
  /\ Goto(r, "write")
  /\ UNCHANGED <<ctx, scores, workdir, registry, history>>

\* ... and writes it.
PromoteWrite(r) ==
  /\ pc[r] = "write"
  /\ pointer' = Naming(ctx[r].version)
  /\ installs' = Append(installs, ctx[r].version)
  /\ contested' = IF r \in overlapped THEN contested \cup {Len(installs) + 1} ELSE contested
  /\ Finish(r)
  /\ UNCHANGED <<scores, workdir, registry, overlapped>>

\* The process of a cycle dies; the files stay as they are.
Crash(r) ==
  /\ pc[r] # "idle"
  /\ Finish(r)
  /\ UNCHANGED <<scores, workdir, registry, pointer, history>>

Init ==
  /\ pc = [r \in Retrainers |-> "idle"]
  /\ ctx = [r \in Retrainers |-> Idle]
  /\ scores = <<>>
  /\ workdir = [f \in Files |-> Missing]
  /\ registry = <<>>
  /\ pointer = NoPointer
  /\ installs = <<>>
  /\ overlapped = {}
  /\ contested = {}

Next ==
  \/ \E r \in Retrainers, s \in Scores : Train(r, s)
  \/ \E r \in Retrainers : Save(r)
  \/ \E r \in Retrainers : Register(r)
  \/ \E r \in Retrainers, f \in Files : Copy(r, f)
  \/ \E r \in Retrainers : WriteVersion(r)
  \/ \E r \in Retrainers : Compare(r)
  \/ \E r \in Retrainers : PromoteOpen(r)
  \/ \E r \in Retrainers : PromoteWrite(r)
  \/ \E r \in Retrainers : Crash(r)

Spec == Init /\ [][Next]_vars

-----------------------------------------------------------------------------
(* Properties *)

Trainings == 1..Len(scores)

\* Every file, version and pointer refers to a training or a version there is.
TypeOK ==
  /\ pc \in [Retrainers -> {"idle", "save", "register", "copy", "compare", "open", "write"}]
  /\ ctx \in [Retrainers -> [training : {0} \cup Trainings, next : 1..(Len(SaveOrder) + 1),
                             version : {0} \cup VersionIds]]
  /\ scores \in Seq(Scores)
  /\ workdir \in [Files -> {Missing} \cup Trainings]
  /\ registry \in Seq([files : [Files -> {Missing} \cup Trainings],
                       meta : {Missing} \cup Trainings])
  /\ pointer \in [text : {"whole", "truncated"}, version : {0} \cup VersionIds]
  /\ installs \in Seq(VersionIds)
  /\ overlapped \subseteq Retrainers /\ contested \subseteq 1..Len(installs)

\* However cycles overlap and die, a current.json that can be read names a version
\* whose version.json and whose files are all there: current_artifact_dir can be
\* loaded (model_registry.py:36-48, 58-63).
CurrentWhole ==
  pointer.version # 0 =>
    /\ registry[pointer.version].meta # Missing
    /\ \A f \in Files : registry[pointer.version].files[f] # Missing

\* A cycle that had the working directory to itself made a model of its own
\* training the current one, not a booster of one training with the calibration
\* of another, whatever earlier cycles left behind (bouncer/model.py:79-84).
CurrentUnmixed ==
  \A i \in (1..Len(installs)) \ contested : \A f \in Files :
    registry[installs[i]].files[f] = registry[installs[i]].meta

\* "A worse candidate is never promoted" (docs/instructions.md:137), if no other
\* cycle ran at the time: then the new version beats the one that was current
\* last, also when cycles in between died.
NeverWorse ==
  \A i \in (2..Len(installs)) \ contested : Score(installs[i]) > Score(installs[i - 1])

=============================================================================
