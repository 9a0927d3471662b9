------------------------- MODULE ModelRegistryProofs -------------------------
(***************************************************************************)
(* The model registry, for any number of retraining cycles, scores and     *)
(* files.                                                                  *)
(*                                                                         *)
(* A version that is complete stays as it is, since copies only go to files *)
(* that are missing; a version is complete when its cycle comes to compare  *)
(* it, and everything installed has come that way (WholeInv).  A cycle that *)
(* has overlapped with no other is alone (AloneInv), so that what it finds  *)
(* in the working directory and in its version is its own (MineInv), and    *)
(* the version it beat is still the last one when it installs (BetterInv).  *)
(***************************************************************************)
EXTENDS ModelRegistry, TLAPS

Whole(v) ==
  /\ v \in VersionIds
  /\ registry[v].meta \in Trainings
  /\ \A f \in Files : registry[v].files[f] # Missing

\* Every version handed out or installed is complete.
WholeInv ==
  /\ \A r \in Retrainers : pc[r] \in {"compare", "open", "write"} =>
       Whole(ctx[r].version) /\ registry[ctx[r].version].meta = ctx[r].training
  /\ \A i \in 1..Len(installs) : Whole(installs[i])

Alone(r) == pc[r] # "idle" /\ r \notin overlapped

\* A cycle that has not overlapped with another is the only one.
AloneInv ==
  \A r, q \in Retrainers : Alone(r) /\ q # r => pc[q] = "idle"

\* A cycle has the training and the version its place needs.
PlaceInv ==
  \A r \in Retrainers :
    /\ pc[r] # "idle" => ctx[r].training \in Trainings
    /\ pc[r] = "save" => ctx[r].next \in 1..Len(SaveOrder)
    /\ pc[r] \in {"copy", "compare", "open", "write"} => ctx[r].version \in VersionIds

\* A version that is being copied belongs to one cycle and has no version.json yet.
OwnInv ==
  \A r \in Retrainers : pc[r] = "copy" =>
    /\ registry[ctx[r].version].meta = Missing
    /\ \A q \in Retrainers : q # r /\ pc[q] = "copy" => ctx[q].version # ctx[r].version

\* What a lone cycle finds is its own: the files it has saved so far, and all of
\* its version.
MineInv ==
  \A r \in Retrainers : Alone(r) =>
    /\ pc[r] = "save" =>
         \A i \in 1..(ctx[r].next - 1) : workdir[SaveOrder[i]] = ctx[r].training
    /\ pc[r] # "save" => \A f \in Files : workdir[f] = ctx[r].training
    /\ pc[r] \in {"copy", "compare", "open", "write"} =>
         \A f \in Files : registry[ctx[r].version].files[f] \in {Missing, ctx[r].training}

\* A current.json that can be read names the version installed last.
LastInv ==
  /\ pointer = Torn \/ pointer = Naming(pointer.version)
  /\ pointer # Torn /\ Len(installs) = 0 => pointer.version = 0
  /\ pointer # Torn /\ Len(installs) # 0 => pointer.version = installs[Len(installs)]

\* What a lone cycle is about to install beats the version installed last.
BetterInv ==
  \A r \in Retrainers :
    Alone(r) /\ pc[r] \in {"open", "write"} /\ Len(installs) # 0 =>
      scores[ctx[r].training] > Score(installs[Len(installs)])

IInv ==
  /\ TypeOK /\ WholeInv /\ AloneInv /\ PlaceInv /\ OwnInv /\ MineInv /\ LastInv
  /\ BetterInv
  /\ CurrentUnmixed /\ NeverWorse

-----------------------------------------------------------------------------

\* Facts about the sequences that only grow.
LEMMA Grows ==
  ASSUME NEW S, NEW s \in Seq(S), NEW e \in S
  PROVE  /\ Append(s, e) \in Seq(S)
         /\ Len(Append(s, e)) = Len(s) + 1
         /\ \A i \in 1..Len(s) : Append(s, e)[i] = s[i]
         /\ Append(s, e)[Len(s) + 1] = e
OBVIOUS

\* The score of a complete version is in the record and does not change.
LEMMA ScoreFacts ==
  ASSUME TypeOK, NEW v, Whole(v)
  PROVE  Score(v) \in Nat /\ registry[v].meta \in 1..Len(scores)
<1>1. registry[v].meta \in 1..Len(scores)
  BY DEF Whole, Trainings
<1>2. scores[registry[v].meta] \in Scores
  BY <1>1 DEF TypeOK
<1> QED
  BY <1>1, <1>2, RegistryAssumption DEF Score

LEMMA SeqWider ==
  ASSUME NEW S, NEW T, S \subseteq T, NEW s \in Seq(S)
  PROVE  s \in Seq(T)
OBVIOUS

LEMMA InitIInv == Init => IInv
BY RegistryAssumption
DEF Init, IInv, TypeOK, WholeInv, AloneInv, Alone, PlaceInv, OwnInv, MineInv, LastInv,
    BetterInv, CurrentUnmixed, NeverWorse, NoPointer, Naming, Torn, Idle, Missing, VersionIds, Trainings

LEMMA TrainStep ==
  ASSUME IInv, NEW r \in Retrainers, NEW score \in Scores, Train(r, score)
  PROVE  IInv'
<1> USE DEF IInv
<1> DEFINE n == Len(scores)
           Record(t) == [training : {0} \cup t, next : 1..(Len(SaveOrder) + 1),
                         version : {0} \cup VersionIds]
<1>1. /\ n \in Nat /\ scores' \in Seq(Scores) /\ Len(scores') = n + 1
      /\ \A i \in 1..n : scores'[i] = scores[i]
  BY Grows DEF TypeOK, Train
<1>2. /\ pc[r] = "idle" /\ pc'[r] = "save"
      /\ \A q \in Retrainers : q # r => pc'[q] = pc[q]
      /\ pc' \in [Retrainers -> {"idle", "save", "register", "copy", "compare", "open", "write"}]
  BY DEF Train, Goto, TypeOK
<1>3. /\ ctx'[r] = [training |-> n + 1, next |-> 1, version |-> 0]
      /\ \A q \in Retrainers : q # r => ctx'[q] = ctx[q]
      /\ ctx' = [ctx EXCEPT ![r] = [training |-> n + 1, next |-> 1, version |-> 0]]
  BY DEF Train, TypeOK
<1>4. UNCHANGED <<workdir, registry, pointer, installs, contested>>
  BY DEF Train
<1>5. Trainings' = 1..(n + 1) /\ Trainings \subseteq Trainings' /\ VersionIds' = VersionIds
  BY <1>1, <1>4 DEF Trainings, VersionIds
<1>6. ASSUME NEW q \in Retrainers, Alone(q)'
      PROVE  q = r /\ \A p \in Retrainers : p # r => pc[p] = "idle"
  <2>1. pc'[q] # "idle" /\ q \notin overlapped'
    BY <1>6 DEF Alone
  <2>2. Running = {}
    <3>1. SUFFICES ASSUME Running # {} PROVE FALSE
      OBVIOUS
    <3>2. overlapped' = overlapped \cup Running \cup {r}
      BY <3>1 DEF Train
    <3>3. q \in Running
      BY <1>2, <2>1, <3>2 DEF Running
    <3> QED
      BY <2>1, <3>2, <3>3
  <2> QED
    BY <1>2, <2>1, <2>2 DEF Running
<1>7. TypeOK'
  <2>1. ctx'[r] \in Record(Trainings')
    BY <1>1, <1>3, <1>5, RegistryAssumption
  <2>2. ctx \in [Retrainers -> Record(Trainings')]
    BY <1>5 DEF TypeOK
  <2>3. ctx' \in [Retrainers -> Record(Trainings')]
    BY <1>3, <2>1, <2>2
  <2>4. /\ workdir \in [Files -> {Missing} \cup Trainings']
        /\ registry \in Seq([files : [Files -> {Missing} \cup Trainings'],
                             meta : {Missing} \cup Trainings'])
    <3>1. [files : [Files -> {Missing} \cup Trainings], meta : {Missing} \cup Trainings]
            \subseteq [files : [Files -> {Missing} \cup Trainings'],
                       meta : {Missing} \cup Trainings']
      BY <1>5
    <3>2. workdir \in [Files -> {Missing} \cup Trainings']
      BY <1>5 DEF TypeOK
    <3> QED
      BY <3>1, <3>2, SeqWider DEF TypeOK
  <2>5. overlapped' \subseteq Retrainers
    BY DEF Train, Running, TypeOK
  <2> QED
    BY <1>1, <1>2, <1>4, <1>5, <2>3, <2>4, <2>5 DEF TypeOK
<1>8. \A v : Whole(v) => Whole(v)' /\ Score(v)' = Score(v)
  BY <1>1, <1>4, <1>5 DEF Whole, Score, Trainings
<1>9. WholeInv'
  BY <1>2, <1>3, <1>4, <1>8 DEF WholeInv
<1>10. AloneInv'
  BY <1>2, <1>6 DEF AloneInv
<1>11. PlaceInv'
  <2>1. n + 1 \in 1..(n + 1) /\ 1 \in 1..Len(SaveOrder)
    BY <1>1, RegistryAssumption
  <2>2. ctx'[r].training \in Trainings' /\ ctx'[r].next \in 1..Len(SaveOrder)
    BY <1>3, <1>5, <2>1
  <2>3. ASSUME NEW q \in Retrainers, q # r
        PROVE  /\ pc'[q] # "idle" => ctx'[q].training \in Trainings'
               /\ pc'[q] = "save" => ctx'[q].next \in 1..Len(SaveOrder)
               /\ pc'[q] \in {"copy", "compare", "open", "write"} => ctx'[q].version \in VersionIds'
    <3>1. ctx'[q] = ctx[q] /\ pc'[q] = pc[q]
      BY <1>2, <1>3, <2>3
    <3> QED
      BY <1>5, <3>1 DEF PlaceInv
  <2> QED
    BY <1>2, <2>2, <2>3 DEF PlaceInv
<1>12. MineInv'
  BY <1>2, <1>3, <1>6 DEF MineInv
<1>13. LastInv'
  BY <1>4 DEF LastInv, Naming, Torn
<1>14. BetterInv'
  BY <1>2, <1>6 DEF BetterInv
<1>15. CurrentUnmixed'
  BY <1>4 DEF CurrentUnmixed
<1>16. NeverWorse'
  <2>1. ASSUME NEW i \in 2..Len(installs) PROVE Whole(installs[i]) /\ Whole(installs[i - 1])
    BY DEF WholeInv, TypeOK
  <2> QED
    BY <1>4, <1>8, <2>1 DEF NeverWorse
<1>17. OwnInv'
  BY <1>2, <1>3, <1>4 DEF OwnInv
<1> QED
  BY <1>7, <1>9, <1>10, <1>11, <1>12, <1>13, <1>14, <1>15, <1>16, <1>17

\* Steps that leave the versions alone: what they say of the installed ones stays.
LEMMA SameVersions ==
  ASSUME IInv, UNCHANGED <<scores, registry>>
  PROVE  /\ Trainings' = Trainings /\ VersionIds' = VersionIds
         /\ \A v : (Whole(v)' <=> Whole(v)) /\ Score(v)' = Score(v)
BY DEF Trainings, VersionIds, Whole, Score

LEMMA SaveStep ==
  ASSUME IInv, NEW r \in Retrainers, Save(r)
  PROVE  IInv'
<1> USE DEF IInv
<1> DEFINE i == ctx[r].next
           f == SaveOrder[i]
           Record == [training : {0} \cup Trainings, next : 1..(Len(SaveOrder) + 1),
                      version : {0} \cup VersionIds]
<1>1. /\ UNCHANGED <<scores, registry, pointer, installs, overlapped, contested>>
      /\ pc[r] = "save"
      /\ workdir' = [workdir EXCEPT ![f] = ctx[r].training]
      /\ ctx' = [ctx EXCEPT ![r].next = i + 1]
  BY DEF Save, history
<1>2. i \in 1..Len(SaveOrder) /\ f \in Files /\ ctx[r].training \in Trainings
  BY <1>1 DEF PlaceInv, Files
<1>3. /\ pc' \in [Retrainers -> {"idle", "save", "register", "copy", "compare", "open", "write"}]
      /\ \A q \in Retrainers : q # r => pc'[q] = pc[q]
      /\ pc'[r] \in {"save", "register"}
      /\ pc'[r] = "save" => i + 1 \in 1..Len(SaveOrder)
      /\ pc'[r] = "register" => i = Len(SaveOrder)
  BY <1>2, RegistryAssumption DEF Save, Goto, TypeOK
<1>4. /\ ctx' \in [Retrainers -> Record]
      /\ \A q \in Retrainers : q # r => ctx'[q] = ctx[q]
      /\ ctx'[r].training = ctx[r].training /\ ctx'[r].version = ctx[r].version
      /\ ctx'[r].next = i + 1
  <2>1. ctx \in [Retrainers -> Record] /\ ctx[r] \in Record
    BY DEF TypeOK
  <2>2. i + 1 \in 1..(Len(SaveOrder) + 1)
    BY <1>2, RegistryAssumption
  <2>3. ctx' = [ctx EXCEPT ![r] = [ctx[r] EXCEPT !.next = i + 1]]
    BY <1>1, <2>1
  <2>4. /\ [ctx[r] EXCEPT !.next = i + 1] \in Record
        /\ [ctx[r] EXCEPT !.next = i + 1].training = ctx[r].training
        /\ [ctx[r] EXCEPT !.next = i + 1].version = ctx[r].version
        /\ [ctx[r] EXCEPT !.next = i + 1].next = i + 1
    BY <2>1, <2>2
  <2> QED
    BY <2>1, <2>3, <2>4
<1>5. workdir' \in [Files -> {Missing} \cup Trainings]
  BY <1>1, <1>2 DEF TypeOK
<1>6. TypeOK'
  BY <1>1, <1>3, <1>4, <1>5, SameVersions DEF TypeOK
<1>7. WholeInv'
  BY <1>1, <1>3, <1>4, SameVersions DEF WholeInv
<1>8. \A q \in Retrainers : Alone(q)' => Alone(q) /\ q = r
  BY <1>1, <1>3 DEF Alone, AloneInv
<1>9. AloneInv'
  BY <1>3, <1>8 DEF AloneInv
<1>10. PlaceInv'
  BY <1>1, <1>2, <1>3, <1>4, SameVersions DEF PlaceInv
<1>11. MineInv'
  <2>1. SUFFICES ASSUME Alone(r)'
        PROVE  /\ pc'[r] = "save" =>
                    \A k \in 1..(ctx'[r].next - 1) : workdir'[SaveOrder[k]] = ctx'[r].training
               /\ pc'[r] # "save" => \A g \in Files : workdir'[g] = ctx'[r].training
    BY <1>3, <1>8 DEF MineInv
  <2>2. \A k \in 1..(i - 1) : workdir[SaveOrder[k]] = ctx[r].training
    BY <1>1, <1>8, <2>1 DEF MineInv
  <2>3. \A k \in 1..i : workdir'[SaveOrder[k]] = ctx[r].training
    <3>1. SUFFICES ASSUME NEW k \in 1..i PROVE workdir'[SaveOrder[k]] = ctx[r].training
      OBVIOUS
    <3>2. SaveOrder[k] \in Files
      BY <1>2, RegistryAssumption DEF Files
    <3>3. CASE k = i
      BY <1>1, <1>2, <3>3 DEF TypeOK
    <3>4. CASE k \in 1..(i - 1)
      BY <1>1, <1>2, <2>2, <3>2, <3>4 DEF TypeOK
    <3> QED
      BY <1>2, <3>3, <3>4
  <2>4. pc'[r] = "register" => \A g \in Files : workdir'[g] = ctx[r].training
    BY <1>3, <2>3 DEF Files
  <2> QED
    BY <1>2, <1>3, <1>4, <2>3, <2>4
<1>12. LastInv'
  BY <1>1 DEF LastInv, Naming, Torn
<1>13. BetterInv'
  BY <1>3, <1>8 DEF BetterInv
<1>14. CurrentUnmixed'
  BY <1>1 DEF CurrentUnmixed
<1>15. NeverWorse'
  BY <1>1, SameVersions DEF NeverWorse
<1>16. OwnInv'
  BY <1>1, <1>3, <1>4 DEF OwnInv
<1> QED
  BY <1>6, <1>7, <1>9, <1>10, <1>11, <1>12, <1>13, <1>14, <1>15, <1>16

\* Any step of a cycle but its first: a lone cycle was and is alone.
LEMMA OnlyMine ==
  ASSUME IInv, NEW r \in Retrainers, pc[r] # "idle", UNCHANGED overlapped,
         \A q \in Retrainers : q # r => pc'[q] = pc[q]
  PROVE  (\A q \in Retrainers : Alone(q)' => Alone(q) /\ q = r) /\ AloneInv'
BY DEF IInv, Alone, AloneInv

LEMMA RegisterStep ==
  ASSUME IInv, NEW r \in Retrainers, Register(r)
  PROVE  IInv'
<1> USE DEF IInv
<1> DEFINE n == Len(registry)
           Record(t) == [training : {0} \cup Trainings, next : 1..(Len(SaveOrder) + 1),
                         version : {0} \cup t]
           Version == [files : [Files -> {Missing} \cup Trainings],
                       meta : {Missing} \cup Trainings]
<1>1. /\ UNCHANGED <<scores, workdir, pointer, installs, overlapped, contested>>
      /\ pc[r] = "register" /\ pc'[r] = "copy"
      /\ \A q \in Retrainers : q # r => pc'[q] = pc[q]
      /\ pc' \in [Retrainers -> {"idle", "save", "register", "copy", "compare", "open", "write"}]
  BY DEF Register, Goto, TypeOK, history
<1>2. NewVersion \in Version /\ registry \in Seq(Version)
  BY DEF NewVersion, TypeOK
<1>3. /\ n \in Nat /\ registry' \in Seq(Version) /\ Len(registry') = n + 1
      /\ \A v \in 1..n : registry'[v] = registry[v]
      /\ registry'[n + 1] = NewVersion
  BY <1>2, Grows DEF Register
<1>4. Trainings' = Trainings /\ VersionIds' = 1..(n + 1) /\ VersionIds \subseteq VersionIds'
  BY <1>1, <1>3 DEF Trainings, VersionIds
<1>5. /\ ctx' \in [Retrainers -> Record(VersionIds')]
      /\ \A q \in Retrainers : q # r => ctx'[q] = ctx[q]
      /\ ctx'[r].training = ctx[r].training /\ ctx'[r].version = n + 1
  <2>1. ctx \in [Retrainers -> Record(VersionIds')] /\ ctx[r] \in Record(VersionIds')
    BY <1>4 DEF TypeOK
  <2>2. n + 1 \in VersionIds'
    BY <1>3, <1>4
  <2>3. ctx' = [ctx EXCEPT ![r] = [ctx[r] EXCEPT !.version = n + 1]]
    BY <2>1 DEF Register
  <2>4. /\ [ctx[r] EXCEPT !.version = n + 1] \in Record(VersionIds')
        /\ [ctx[r] EXCEPT !.version = n + 1].training = ctx[r].training
        /\ [ctx[r] EXCEPT !.version = n + 1].version = n + 1
    BY <2>1, <2>2
  <2> QED
    BY <2>1, <2>3, <2>4
<1>6. TypeOK'
  <2>1. installs' \in Seq(VersionIds')
    BY <1>1, <1>4, SeqWider DEF TypeOK
  <2>2. pointer' \in [text : {"whole", "truncated"}, version : {0} \cup VersionIds']
    BY <1>1, <1>4 DEF TypeOK
  <2> QED
    BY <1>1, <1>3, <1>4, <1>5, <2>1, <2>2 DEF TypeOK
<1>7. \A v : Whole(v) => Whole(v)' /\ Score(v)' = Score(v) /\ registry'[v] = registry[v]
  BY <1>1, <1>3, <1>4 DEF Whole, Score, VersionIds
<1>8. WholeInv'
  BY <1>1, <1>5, <1>7 DEF WholeInv
<1>9. (\A q \in Retrainers : Alone(q)' => Alone(q) /\ q = r) /\ AloneInv'
  BY <1>1, OnlyMine
<1>10. PlaceInv'
  <2>1. n + 1 \in VersionIds'
    BY <1>3, <1>4
  <2> QED
    BY <1>1, <1>4, <1>5, <2>1 DEF PlaceInv
<1>11. OwnInv'
  <2>1. \A q \in Retrainers : q # r /\ pc[q] = "copy" =>
          ctx[q].version \in 1..n /\ ctx[q].version # n + 1
    BY <1>3 DEF PlaceInv, VersionIds
  <2>2. registry'[n + 1].meta = Missing
    BY <1>3 DEF NewVersion
  <2>3. \A q \in Retrainers : q # r /\ pc[q] = "copy" => registry'[ctx[q].version].meta = Missing
    BY <1>3, <2>1 DEF OwnInv
  <2>4. \A q, p \in Retrainers : q # p /\ q # r /\ pc[q] = "copy" /\ pc'[p] = "copy" =>
          ctx'[p].version # ctx[q].version
    BY <1>1, <1>5, <2>1 DEF OwnInv
  <2>5. \A q \in Retrainers : q # r /\ pc[q] = "copy" => ctx[q].version # ctx'[r].version
    BY <1>5, <2>1
  <2> QED
    BY <1>1, <1>5, <2>2, <2>3, <2>4, <2>5, SMTT(40) DEF OwnInv
<1>12. MineInv'
  <2>1. \A g \in Files : registry'[n + 1].files[g] = Missing
    BY <1>3 DEF NewVersion
  <2> QED
    BY <1>1, <1>5, <1>9, <2>1 DEF MineInv
<1>13. LastInv'
  BY <1>1 DEF LastInv, Naming, Torn
<1>14. BetterInv'
  BY <1>1, <1>9 DEF BetterInv
<1>15. \A i \in 1..Len(installs) : Whole(installs[i])
  BY DEF WholeInv
<1>16. CurrentUnmixed'
  BY <1>1, <1>7, <1>15 DEF CurrentUnmixed
<1>17. NeverWorse'
  <2>1. ASSUME NEW i \in 2..Len(installs) PROVE Whole(installs[i]) /\ Whole(installs[i - 1])
    BY <1>15 DEF TypeOK
  <2> QED
    BY <1>1, <1>7, <2>1 DEF NeverWorse
<1> QED
  BY <1>6, <1>8, <1>9, <1>10, <1>11, <1>12, <1>13, <1>14, <1>16, <1>17

LEMMA CopyStep ==
  ASSUME IInv, NEW r \in Retrainers, NEW f \in Files, Copy(r, f)
  PROVE  IInv'
<1> USE DEF IInv
<1> DEFINE v == ctx[r].version
           Version == [files : [Files -> {Missing} \cup Trainings],
                       meta : {Missing} \cup Trainings]
<1>1. /\ UNCHANGED <<pc, ctx, scores, workdir, pointer, installs, overlapped, contested>>
      /\ pc[r] = "copy" /\ v \in VersionIds
      /\ registry[v].files[f] = Missing
      /\ workdir[f] \in Trainings
  BY DEF Copy, history, PlaceInv, TypeOK
<1>2. /\ registry' \in Seq(Version) /\ VersionIds' = VersionIds /\ Trainings' = Trainings
      /\ \A w \in VersionIds : w # v => registry'[w] = registry[w]
      /\ registry'[v].meta = registry[v].meta
      /\ \A g \in Files : g # f => registry'[v].files[g] = registry[v].files[g]
      /\ registry'[v].files[f] = workdir[f]
  <2>1. registry \in Seq(Version) /\ registry[v] \in Version
    <3>1. registry \in Seq(Version)
      BY DEF TypeOK
    <3>2. v \in 1..Len(registry)
      BY <1>1 DEF VersionIds
    <3> HIDE DEF Version
    <3> QED
      BY <3>1, <3>2
  <2>2. registry' = [registry EXCEPT ![v] = [registry[v] EXCEPT !.files = [registry[v].files EXCEPT ![f] = workdir[f]]]]
    BY <2>1 DEF Copy
  <2>3. [registry[v].files EXCEPT ![f] = workdir[f]] \in [Files -> {Missing} \cup Trainings]
    BY <1>1, <2>1
  <2> DEFINE new == [registry[v] EXCEPT !.files = [registry[v].files EXCEPT ![f] = workdir[f]]]
  <2>4. /\ new \in Version /\ new.meta = registry[v].meta
        /\ \A g \in Files : g # f => new.files[g] = registry[v].files[g]
        /\ new.files[f] = workdir[f]
    BY <2>1, <2>3
  <2> HIDE DEF new
  <2>5. registry' = [registry EXCEPT ![v] = new]
    BY <2>2 DEF new
  <2>6. /\ registry' \in Seq(Version) /\ Len(registry') = Len(registry)
        /\ \A w \in VersionIds : w # v => registry'[w] = registry[w]
        /\ registry'[v] = new
    BY <1>1, <2>1, <2>4, <2>5 DEF VersionIds
  <2> QED
    BY <1>1, <2>4, <2>6 DEF VersionIds, Trainings
<1>3. TypeOK'
  BY <1>1, <1>2 DEF TypeOK
<1>4. \A w : Whole(w) => Whole(w)' /\ Score(w)' = Score(w) /\ registry'[w] = registry[w]
  BY <1>1, <1>2 DEF Whole, Score
<1>5. WholeInv'
  BY <1>1, <1>4 DEF WholeInv
<1>6. (\A q \in Retrainers : Alone(q)' => Alone(q) /\ q = r) /\ AloneInv'
  BY <1>1, OnlyMine
<1>7. PlaceInv'
  BY <1>1, <1>2 DEF PlaceInv
<1>8. OwnInv'
  BY <1>1, <1>2 DEF OwnInv, PlaceInv
<1>9. MineInv'
  <2>1. SUFFICES ASSUME Alone(r)'
        PROVE  \A g \in Files : registry'[v].files[g] \in {Missing, ctx[r].training}
    BY <1>1, <1>6 DEF MineInv
  <2>2. /\ \A g \in Files : registry[v].files[g] \in {Missing, ctx[r].training}
        /\ workdir[f] = ctx[r].training
    BY <1>1, <1>6, <2>1 DEF MineInv
  <2> QED
    BY <1>2, <2>2
<1>10. LastInv'
  BY <1>1 DEF LastInv, Naming, Torn
<1>11. \A i \in 1..Len(installs) : Whole(installs[i])
  BY DEF WholeInv
<1>12. BetterInv'
  BY <1>1, <1>6 DEF BetterInv
<1>13. CurrentUnmixed'
  BY <1>1, <1>4, <1>11 DEF CurrentUnmixed
<1>14. NeverWorse'
  <2>1. ASSUME NEW i \in 2..Len(installs) PROVE Whole(installs[i]) /\ Whole(installs[i - 1])
    BY <1>11 DEF TypeOK
  <2> QED
    BY <1>1, <1>4, <2>1 DEF NeverWorse
<1> QED
  BY <1>3, <1>5, <1>6, <1>7, <1>8, <1>9, <1>10, <1>12, <1>13, <1>14

LEMMA WriteVersionStep ==
  ASSUME IInv, NEW r \in Retrainers, WriteVersion(r)
  PROVE  IInv'
<1> USE DEF IInv
<1> DEFINE v == ctx[r].version
           Version == [files : [Files -> {Missing} \cup Trainings],
                       meta : {Missing} \cup Trainings]
<1>1. /\ UNCHANGED <<ctx, scores, workdir, pointer, installs, overlapped, contested>>
      /\ pc[r] = "copy" /\ pc'[r] = "compare" /\ v \in VersionIds
      /\ \A q \in Retrainers : q # r => pc'[q] = pc[q]
      /\ pc' \in [Retrainers -> {"idle", "save", "register", "copy", "compare", "open", "write"}]
      /\ ctx[r].training \in Trainings
      /\ \A g \in Files : registry[v].files[g] # Missing
  BY DEF WriteVersion, Copied, Goto, history, PlaceInv, TypeOK
<1>2. /\ registry' \in Seq(Version) /\ VersionIds' = VersionIds /\ Trainings' = Trainings
      /\ \A w \in VersionIds : w # v => registry'[w] = registry[w]
      /\ registry'[v].meta = ctx[r].training
      /\ registry'[v].files = registry[v].files
  <2>1. registry \in Seq(Version) /\ registry[v] \in Version
    <3>1. registry \in Seq(Version)
      BY DEF TypeOK
    <3>2. v \in 1..Len(registry)
      BY <1>1 DEF VersionIds
    <3> HIDE DEF Version
    <3> QED
      BY <3>1, <3>2
  <2> DEFINE new == [registry[v] EXCEPT !.meta = ctx[r].training]
  <2>2. new \in Version /\ new.meta = ctx[r].training /\ new.files = registry[v].files
    BY <1>1, <2>1
  <2>3. registry' = [registry EXCEPT ![v] = new]
    BY <2>1 DEF WriteVersion
  <2> HIDE DEF new
  <2>4. /\ registry' \in Seq(Version) /\ Len(registry') = Len(registry)
        /\ \A w \in VersionIds : w # v => registry'[w] = registry[w]
        /\ registry'[v] = new
    BY <1>1, <2>1, <2>2, <2>3 DEF VersionIds
  <2> QED
    BY <1>1, <2>2, <2>4 DEF VersionIds, Trainings
<1>3. TypeOK'
  BY <1>1, <1>2 DEF TypeOK
<1>4. \A w : Whole(w) => w # v
  BY <1>1 DEF Whole, OwnInv, Missing, Trainings
<1>5. \A w : Whole(w) => Whole(w)' /\ Score(w)' = Score(w) /\ registry'[w] = registry[w]
  BY <1>1, <1>2, <1>4 DEF Whole, Score
<1>6. Whole(v)'
  BY <1>1, <1>2 DEF Whole
<1>7. WholeInv'
  BY <1>1, <1>2, <1>5, <1>6 DEF WholeInv
<1>8. (\A q \in Retrainers : Alone(q)' => Alone(q) /\ q = r) /\ AloneInv'
  BY <1>1, OnlyMine
<1>9. PlaceInv'
  BY <1>1, <1>2 DEF PlaceInv
<1>10. OwnInv'
  BY <1>1, <1>2 DEF OwnInv, PlaceInv
<1>11. MineInv'
  BY <1>1, <1>2, <1>8 DEF MineInv
<1>12. LastInv'
  BY <1>1 DEF LastInv, Naming, Torn
<1>13. \A i \in 1..Len(installs) : Whole(installs[i])
  BY DEF WholeInv
<1>14. BetterInv'
  BY <1>1, <1>8 DEF BetterInv
<1>15. CurrentUnmixed'
  BY <1>1, <1>5, <1>13 DEF CurrentUnmixed
<1>16. NeverWorse'
  <2>1. ASSUME NEW i \in 2..Len(installs) PROVE Whole(installs[i]) /\ Whole(installs[i - 1])
    BY <1>13 DEF TypeOK
  <2> QED
    BY <1>1, <1>5, <2>1 DEF NeverWorse
<1> QED
  BY <1>3, <1>7, <1>8, <1>9, <1>10, <1>11, <1>12, <1>14, <1>15, <1>16

\* The end of a cycle, and its start over.
LEMMA FinishFacts ==
  ASSUME IInv, NEW r \in Retrainers, Finish(r)
  PROVE  /\ pc'[r] = "idle" /\ \A q \in Retrainers : q # r => pc'[q] = pc[q] /\ ctx'[q] = ctx[q]
         /\ pc' \in [Retrainers -> {"idle", "save", "register", "copy", "compare", "open", "write"}]
         /\ ctx' \in [Retrainers -> [training : {0} \cup Trainings, next : 1..(Len(SaveOrder) + 1),
                                    version : {0} \cup VersionIds]]
<1>1. Idle \in [training : {0} \cup Trainings, next : 1..(Len(SaveOrder) + 1),
                version : {0} \cup VersionIds]
  BY RegistryAssumption DEF Idle
<1> QED
  BY <1>1 DEF Finish, Goto, IInv, TypeOK

\* The invariant but for what a step does to the pointer and the installed versions.
LEMMA QuietStep ==
  ASSUME IInv, NEW r \in Retrainers, pc[r] # "idle", pc'[r] \in {"idle", "open", "write"},
         pc[r] \in {"compare", "open", "write"} \/ pc'[r] = "idle",
         UNCHANGED <<scores, workdir, registry, overlapped>>,
         \A q \in Retrainers : q # r => pc'[q] = pc[q] /\ ctx'[q] = ctx[q],
         pc'[r] # "idle" => ctx'[r] = ctx[r]
  PROVE  /\ AloneInv' /\ PlaceInv' /\ OwnInv' /\ MineInv'
         /\ \A q \in Retrainers : Alone(q)' => Alone(q) /\ q = r
         /\ \A q \in Retrainers : pc'[q] \in {"compare", "open", "write"} =>
              Whole(ctx'[q].version) /\ registry[ctx'[q].version].meta = ctx'[q].training
<1> USE DEF IInv
<1>1. (\A q \in Retrainers : Alone(q)' => Alone(q) /\ q = r) /\ AloneInv'
  BY OnlyMine
<1>2. PlaceInv'
  BY SameVersions DEF PlaceInv
<1>3. OwnInv'
  BY DEF OwnInv
<1>4. MineInv'
  <2>1. \A q \in Retrainers : Alone(q)' => Alone(q) /\ q = r /\ pc'[r] \in {"open", "write"}
    BY <1>1 DEF Alone
  <2> QED
    BY <2>1 DEF MineInv
<1>5. \A q \in Retrainers : pc'[q] \in {"compare", "open", "write"} =>
        Whole(ctx'[q].version) /\ registry[ctx'[q].version].meta = ctx'[q].training
  BY SameVersions DEF WholeInv
<1> QED
  BY <1>1, <1>2, <1>3, <1>4, <1>5

LEMMA CompareStep ==
  ASSUME IInv, NEW r \in Retrainers, Compare(r)
  PROVE  IInv'
<1> USE DEF IInv
<1>1. UNCHANGED <<scores, workdir, registry, pointer, installs, overlapped, contested>> /\ pc[r] = "compare"
  BY DEF Compare, history
<1>2. /\ pc'[r] \in {"idle", "open"}
      /\ \A q \in Retrainers : q # r => pc'[q] = pc[q] /\ ctx'[q] = ctx[q]
      /\ pc'[r] # "idle" => /\ ctx'[r] = ctx[r]
                           /\ pointer # Torn /\ ShouldPromote(scores[ctx[r].training])
      /\ pc' \in [Retrainers -> {"idle", "save", "register", "copy", "compare", "open", "write"}]
      /\ ctx' \in [Retrainers -> [training : {0} \cup Trainings, next : 1..(Len(SaveOrder) + 1),
                                 version : {0} \cup VersionIds]]
  <2>1. CASE pointer # Torn /\ ShouldPromote(scores[ctx[r].training])
    BY <2>1 DEF Compare, Goto, TypeOK
  <2>2. CASE ~(pointer # Torn /\ ShouldPromote(scores[ctx[r].training]))
    <3>1. Finish(r)
      BY <2>2 DEF Compare
    <3> QED
      BY <3>1, FinishFacts
  <2> QED
    BY <2>1, <2>2
<1>3. TypeOK'
  BY <1>1, <1>2, SameVersions DEF TypeOK
<1>4. /\ AloneInv' /\ PlaceInv' /\ OwnInv' /\ MineInv'
      /\ \A q \in Retrainers : Alone(q)' => Alone(q) /\ q = r
      /\ \A q \in Retrainers : pc'[q] \in {"compare", "open", "write"} =>
           Whole(ctx'[q].version) /\ registry[ctx'[q].version].meta = ctx'[q].training
  BY <1>1, <1>2, QuietStep
<1>5. WholeInv'
  BY <1>1, <1>4, SameVersions DEF WholeInv
<1>6. LastInv'
  BY <1>1 DEF LastInv, Naming, Torn
<1>7. BetterInv'
  <2>1. SUFFICES ASSUME Alone(r)', pc'[r] = "open", Len(installs) # 0
        PROVE  scores[ctx[r].training] > Score(installs[Len(installs)])
    BY <1>1, <1>2, <1>4, SameVersions DEF BetterInv
  <2>2. /\ pointer.version = installs[Len(installs)]
        /\ ShouldPromote(scores[ctx[r].training])
    BY <1>2, <2>1 DEF LastInv
  <2>3. pointer.version # 0
    BY <2>1, <2>2 DEF TypeOK, VersionIds
  <2> QED
    BY <2>2, <2>3 DEF ShouldPromote, NoPointer, Naming
<1>8. CurrentUnmixed'
  BY <1>1 DEF CurrentUnmixed
<1>9. NeverWorse'
  BY <1>1, SameVersions DEF NeverWorse
<1> QED
  BY <1>3, <1>4, <1>5, <1>6, <1>7, <1>8, <1>9

LEMMA PromoteOpenStep ==
  ASSUME IInv, NEW r \in Retrainers, PromoteOpen(r)
  PROVE  IInv'
<1> USE DEF IInv
<1>1. /\ UNCHANGED <<ctx, scores, workdir, registry, installs, overlapped, contested>>
      /\ pc[r] = "open" /\ pc'[r] = "write" /\ pointer' = Torn
      /\ \A q \in Retrainers : q # r => pc'[q] = pc[q]
      /\ pc' \in [Retrainers -> {"idle", "save", "register", "copy", "compare", "open", "write"}]
  BY DEF PromoteOpen, Goto, history, TypeOK
<1>2. TypeOK'
  BY <1>1, SameVersions DEF TypeOK, Torn
<1>3. /\ AloneInv' /\ PlaceInv' /\ OwnInv' /\ MineInv'
      /\ \A q \in Retrainers : Alone(q)' => Alone(q) /\ q = r
      /\ \A q \in Retrainers : pc'[q] \in {"compare", "open", "write"} =>
           Whole(ctx'[q].version) /\ registry[ctx'[q].version].meta = ctx'[q].training
  BY <1>1, QuietStep
<1>4. WholeInv'
  BY <1>1, <1>3, SameVersions DEF WholeInv
<1>5. LastInv'
  BY <1>1 DEF LastInv, Torn
<1>6. BetterInv'
  BY <1>1, <1>3, SameVersions DEF BetterInv
<1>7. CurrentUnmixed'
  BY <1>1 DEF CurrentUnmixed
<1>8. NeverWorse'
  BY <1>1, SameVersions DEF NeverWorse
<1> QED
  BY <1>2, <1>3, <1>4, <1>5, <1>6, <1>7, <1>8

LEMMA PromoteWriteStep ==
  ASSUME IInv, NEW r \in Retrainers, PromoteWrite(r)
  PROVE  IInv'
<1> USE DEF IInv
<1> DEFINE v == ctx[r].version
           n == Len(installs)
<1>1. /\ UNCHANGED <<scores, workdir, registry, overlapped>>
      /\ pc[r] = "write" /\ pointer' = Naming(v) /\ v \in VersionIds
      /\ Finish(r)
  BY DEF PromoteWrite, PlaceInv
<1>2. /\ pc'[r] = "idle" /\ \A q \in Retrainers : q # r => pc'[q] = pc[q] /\ ctx'[q] = ctx[q]
      /\ pc' \in [Retrainers -> {"idle", "save", "register", "copy", "compare", "open", "write"}]
      /\ ctx' \in [Retrainers -> [training : {0} \cup Trainings, next : 1..(Len(SaveOrder) + 1),
                                 version : {0} \cup VersionIds]]
  BY <1>1, FinishFacts
<1>3. /\ n \in Nat /\ installs' \in Seq(VersionIds) /\ Len(installs') = n + 1
      /\ \A i \in 1..n : installs'[i] = installs[i]
      /\ installs'[n + 1] = v
  BY <1>1, Grows DEF PromoteWrite, TypeOK
<1>4. /\ contested' \subseteq 1..(n + 1) /\ contested \subseteq contested'
      /\ n + 1 \notin contested' => r \notin overlapped
  <2>1. contested' = IF r \in overlapped THEN contested \cup {n + 1} ELSE contested
    BY DEF PromoteWrite
  <2>2. contested \subseteq 1..n
    BY DEF TypeOK
  <2> HIDE DEF n
  <2> QED
    BY <1>3, <2>1, <2>2
<1>5. TypeOK'
  <2>1. pointer' \in [text : {"whole", "truncated"}, version : {0} \cup VersionIds]
    BY <1>1 DEF Naming
  <2> QED
    BY <1>1, <1>2, <1>3, <1>4, <2>1, SameVersions DEF TypeOK
<1>6. /\ AloneInv' /\ PlaceInv' /\ OwnInv' /\ MineInv'
      /\ \A q \in Retrainers : Alone(q)' => Alone(q) /\ q = r
      /\ \A q \in Retrainers : pc'[q] \in {"compare", "open", "write"} =>
           Whole(ctx'[q].version) /\ registry[ctx'[q].version].meta = ctx'[q].training
  BY <1>1, <1>2, QuietStep
<1>7. Whole(v) /\ registry[v].meta = ctx[r].training
  BY <1>1 DEF WholeInv
<1>8. \A i \in 1..n : Whole(installs[i])
  BY DEF WholeInv
<1>9. WholeInv'
  <2>1. ASSUME NEW i \in 1..(n + 1) PROVE Whole(installs'[i])
    <3>1. CASE i = n + 1
      BY <1>3, <1>7, <3>1
    <3>2. CASE i \in 1..n
      BY <1>3, <1>8, <3>2
    <3> QED
      BY <1>3, <3>1, <3>2
  <2>2. (\A i \in 1..Len(installs) : Whole(installs[i]))'
    BY <1>1, <1>3, <2>1, SameVersions
  <2> QED
    BY <1>1, <1>6, <2>2, SameVersions DEF WholeInv
<1>10. LastInv'
  BY <1>1, <1>3 DEF LastInv, Naming, Torn
<1>11. BetterInv'
  BY <1>2, <1>6 DEF BetterInv
<1>12. n + 1 \notin contested' => Alone(r)
  BY <1>1, <1>4 DEF Alone
<1>13. CurrentUnmixed'
  <2>1. SUFFICES ASSUME NEW i \in 1..(n + 1), i \notin contested', NEW f \in Files
        PROVE  registry[installs'[i]].files[f] = registry[installs'[i]].meta
    BY <1>1, <1>3 DEF CurrentUnmixed
  <2>2. CASE i = n + 1
    <3>1. registry[v].files[f] \in {Missing, ctx[r].training}
      BY <1>1, <1>12, <2>1, <2>2 DEF MineInv
    <3>2. registry[v].files[f] # Missing
      BY <1>7 DEF Whole
    <3> QED
      BY <1>3, <1>7, <2>2, <3>1, <3>2
  <2>3. CASE i \in 1..n
    BY <1>3, <1>4, <2>1, <2>3 DEF CurrentUnmixed
  <2> QED
    BY <1>3, <2>2, <2>3
<1>14. NeverWorse'
  <2>1. SUFFICES ASSUME NEW i \in 2..(n + 1), i \notin contested'
        PROVE  Score(installs'[i]) > Score(installs'[i - 1])
    <3>1. \A w : Score(w)' = Score(w)
      BY <1>1, SameVersions
    <3>2. Len(installs') = n + 1
      BY <1>3
    <3> HIDE DEF n
    <3> QED
      BY <2>1, <3>1, <3>2 DEF NeverWorse
  <2>2. CASE i = n + 1
    <3>1. n # 0 /\ n \in 1..n /\ i - 1 = n
      BY <1>3, <2>2
    <3>2. scores[ctx[r].training] > Score(installs[n])
      BY <1>1, <1>12, <2>1, <2>2, <3>1 DEF BetterInv
    <3>3. Score(v) = scores[ctx[r].training]
      BY <1>7 DEF Score
    <3> QED
      BY <1>3, <2>2, <3>1, <3>2, <3>3
  <2>3. CASE i \in 2..n
    <3>1. i \in 1..n /\ i - 1 \in 1..n
      BY <1>3, <2>3
    <3>2. i \in (2..n) \ contested
      BY <1>4, <2>1, <2>3
    <3> QED
      BY <1>3, <3>1, <3>2 DEF NeverWorse
  <2> QED
    BY <1>3, <2>2, <2>3
<1> QED
  BY <1>5, <1>6, <1>9, <1>10, <1>11, <1>13, <1>14

LEMMA CrashStep ==
  ASSUME IInv, NEW r \in Retrainers, Crash(r)
  PROVE  IInv'
<1> USE DEF IInv
<1>1. /\ UNCHANGED <<scores, workdir, registry, pointer, installs, overlapped, contested>>
      /\ pc[r] # "idle" /\ Finish(r)
  BY DEF Crash, history
<1>2. /\ pc'[r] = "idle" /\ \A q \in Retrainers : q # r => pc'[q] = pc[q] /\ ctx'[q] = ctx[q]
      /\ pc' \in [Retrainers -> {"idle", "save", "register", "copy", "compare", "open", "write"}]
      /\ ctx' \in [Retrainers -> [training : {0} \cup Trainings, next : 1..(Len(SaveOrder) + 1),
                                 version : {0} \cup VersionIds]]
  BY <1>1, FinishFacts
<1>3. TypeOK'
  BY <1>1, <1>2, SameVersions DEF TypeOK
<1>4. /\ AloneInv' /\ PlaceInv' /\ OwnInv' /\ MineInv'
      /\ \A q \in Retrainers : Alone(q)' => Alone(q) /\ q = r
      /\ \A q \in Retrainers : pc'[q] \in {"compare", "open", "write"} =>
           Whole(ctx'[q].version) /\ registry[ctx'[q].version].meta = ctx'[q].training
  BY <1>1, <1>2, QuietStep
<1>5. WholeInv'
  BY <1>1, <1>4, SameVersions DEF WholeInv
<1>6. LastInv'
  BY <1>1 DEF LastInv, Naming, Torn
<1>7. BetterInv'
  BY <1>2, <1>4 DEF BetterInv
<1>8. CurrentUnmixed'
  BY <1>1 DEF CurrentUnmixed
<1>9. NeverWorse'
  BY <1>1, SameVersions DEF NeverWorse
<1> QED
  BY <1>3, <1>4, <1>5, <1>6, <1>7, <1>8, <1>9

LEMMA Stuttering == IInv /\ UNCHANGED vars => IInv'
BY DEF vars, history, IInv, TypeOK, WholeInv, Whole, AloneInv, Alone, PlaceInv, OwnInv, MineInv,
       LastInv, BetterInv, CurrentUnmixed, NeverWorse, Score, Trainings, VersionIds

-----------------------------------------------------------------------------

LEMMA Inductive == Spec => []IInv
<1>1. IInv /\ [Next]_vars => IInv'
  <2>1. SUFFICES ASSUME IInv, Next PROVE IInv'
    BY Stuttering
  <2> QED
    BY <2>1, TrainStep, SaveStep, RegisterStep, CopyStep, WriteVersionStep, CompareStep,
       PromoteOpenStep, PromoteWriteStep, CrashStep DEF Next
<1> QED
  BY InitIInv, <1>1, PTL DEF Spec

\* Every file, version and pointer refers to a training or a version there is.
THEOREM TypeCorrect == Spec => []TypeOK
BY Inductive, PTL DEF IInv

\* Whatever overlaps and dies, a current.json that can be read names a version that
\* is complete (model_registry.py:36-65).
THEOREM CurrentIsWhole == Spec => []CurrentWhole
<1>1. IInv => CurrentWhole
  <2>1. SUFFICES ASSUME IInv, pointer.version # 0 PROVE Whole(pointer.version)
    BY DEF CurrentWhole, Whole, Trainings, Missing
  <2>2. pointer # Torn
    BY <2>1 DEF Torn
  <2>3. Len(installs) \in Nat /\ Len(installs) # 0 /\ pointer.version = installs[Len(installs)]
    BY <2>1, <2>2 DEF IInv, LastInv, TypeOK
  <2> QED
    BY <2>1, <2>3 DEF IInv, WholeInv
<1> QED
  BY Inductive, <1>1, PTL

\* A cycle that had the working directory to itself made a model of its own training
\* the current one (bouncer/model.py:79-84, model_registry.py:40-43).
THEOREM CurrentIsUnmixed == Spec => []CurrentUnmixed
BY Inductive, PTL DEF IInv

\* A cycle that overlapped with no other promoted a model better than the one that
\* was current last (retrainer.py:28-35, docs/instructions.md:137).
THEOREM PromotesBetter == Spec => []NeverWorse
BY Inductive, PTL DEF IInv

=============================================================================
