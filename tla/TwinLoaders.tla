---------------------------- MODULE TwinLoaders -----------------------------
(***************************************************************************)
(* The loaders of the digital twin (twin/): how a load goes through the    *)
(* files of a data set, chunk by chunk where a file is large, which rows   *)
(* it keeps, what it says of the others, and the order it returns them in. *)
(*                                                                         *)
(* The loaders are one loop with different tests in it; a loader is a      *)
(* record of those tests.  A row is its label: of an attack, benign,       *)
(* unmapped (no counterpart in KRONUS), or header (the first line once     *)
(* more).  There are one or two files.  The second is one that the loader  *)
(* knows by its name and that has the columns it tests; the first may have *)
(* either.  The clock and the feature vector of a row are those of the     *)
(* Layout.  Every row has a time, and every line of a file ends.           *)
(***************************************************************************)
EXTENDS Orders, SequencesExt, FiniteSetsExt

CONSTANTS
  MaxRows,    \* MaxRows[f]: the rows file f may have, for TLC
  Sizes,      \* bounds that a caller may put on a sample, besides none
  LoadLimits, \* limits that a caller may give, besides none
  Chunk,      \* _CHUNK_ROWS
  Layouts,    \* [clock, vector]: the time and the features of row p of file f
  Guard,      \* ATTACK_INTERVAL_GUARD_SECONDS
  None        \* an option that is not given

ASSUME LoaderAssumption ==
  /\ MaxRows \in [1..2 -> Nat]
  /\ Sizes \subseteq Nat \ {0} /\ LoadLimits \subseteq Nat
  /\ Chunk \in Nat \ {0} /\ Guard \in Nat
  /\ None \notin Nat
  /\ \A l \in Layouts : \A f \in 1..2 : l.clock[f] \in Seq(Nat) /\ Len(l.clock[f]) >= MaxRows[f]

Files == 1..2

-----------------------------------------------------------------------------
(* The loaders.
     labels:  what the label column may hold;
     keeps:   the labels that a row is kept under;
     counts:  the labels that are counted when a row is passed over;
     class:   by its own label ("row"), that of the file ("file"), the file's or
              else that of the first row ("first"), the file's or else its own;
     paths:   the files that are read, and in which order (ToRead);
     schema:  a file without the columns of the data set is an error;
     sample:  how a sample is bounded;
     cut:     how a limit is: after every row, chunk and file; before a file and
              after every row; after every row; after a file; spread over the
              load; or not at all;
     orders:  the order of the clock is that of the load, of the file, or nobody's;
     unique:  one row per feature vector, and none for a vector of two classes. *)

Values == {"attack", "benign", "unmapped"}

\* resolve_class: None for a label with no counterpart.
Cicids2018Keeps == {"attack", "benign"}

Cicids2018 ==
  [labels |-> Values \cup {"header"}, keeps |-> Cicids2018Keeps, counts |-> {"unmapped", "header"},
   class |-> "row", schema |-> TRUE, paths |-> "all", sample |-> "stride",
   cut |-> "always", orders |-> "load", unique |-> FALSE]

Cicddos2019Keeps == {"attack", "benign"}

\* A row without an address is counted with the unmapped ones; a repeated header is not.
Cicddos2019 ==
  [labels |-> Values \cup {"header"}, keeps |-> Cicddos2019Keeps, counts |-> {"unmapped"},
   class |-> "row", schema |-> TRUE, paths |-> "all", sample |-> "stride",
   cut |-> "before", orders |-> "load", unique |-> FALSE]

\* Repeated headers are one more label that the table does not have.
Cicids2017Keeps == {"attack", "benign"}

Cicids2017 ==
  [labels |-> Values, keeps |-> Cicids2017Keeps, counts |-> {},
   class |-> "row", schema |-> TRUE, paths |-> "known first", sample |-> "head",
   cut |-> "row", orders |-> "nobody", unique |-> FALSE]

UnswNb15Keeps == {"attack", "benign"}

UnswNb15 ==
  [labels |-> Values, keeps |-> UnswNb15Keeps, counts |-> {},
   class |-> "row", schema |-> TRUE, paths |-> "known or else", sample |-> "head",
   cut |-> "row", orders |-> "nobody", unique |-> FALSE]

\* An unseen label counts as an attack of the r2l tier.
NslKddKeeps == Values

NslKdd ==
  [labels |-> Values, keeps |-> NslKddKeeps, counts |-> {},
   class |-> "row", schema |-> FALSE, paths |-> "one", sample |-> "none",
   cut |-> "none", orders |-> "nobody", unique |-> FALSE]

DohBrw2020Keeps == {"attack", "benign"}

DohBrw2020 ==
  [labels |-> Values, keeps |-> DohBrw2020Keeps, counts |-> {},
   class |-> "first", schema |-> FALSE, paths |-> "known first", sample |-> "head",
   cut |-> "end", orders |-> "file", unique |-> FALSE]

DnsExf2021Keeps == {"attack", "benign"}

DnsExf2021 ==
  [labels |-> Values, keeps |-> DnsExf2021Keeps, counts |-> {},
   class |-> "else own", schema |-> FALSE, paths |-> "known or else", sample |-> "head",
   cut |-> "row", orders |-> "file", unique |-> TRUE]

\* resolve_family
Ciciot2023Keeps == {"attack", "benign"}

\* The rows of a capture are its flows, in the order of their first packets.
Ciciot2023 ==
  [labels |-> {"flow"}, keeps |-> Ciciot2023Keeps, counts |-> {},
   class |-> "file", schema |-> FALSE, paths |-> "known", sample |-> "even",
   cut |-> "spread", orders |-> "load", unique |-> FALSE]

Loaders ==
  [cicids2018 |-> Cicids2018, cicddos2019 |-> Cicddos2019, cicids2017 |-> Cicids2017,
   unsw_nb15 |-> UnswNb15, nsl_kdd |-> NslKdd, dohbrw2020 |-> DohBrw2020,
   dnsexf2021 |-> DnsExf2021, ciciot2023 |-> Ciciot2023]

VARIABLES
  load,      \* the call: [name, files, known, columns, size, stride, limit, timed, layout]
  pc,        \* next, chunk, sort, done; raised
  file,      \* the place of the file at hand in ToRead
  seen,      \* rows of it that have been read
  kept,      \* rows of it that the sample has kept
  loaded,    \* the rows loaded, [file, pos, class]
  times,     \* their times
  dropped,   \* [unmapped, header]: how many rows passed over were counted
  perFile    \* rows_per_file

reading == <<pc, file, seen, kept>>
gathered == <<loaded, times, dropped, perFile>>
loaderVars == <<load, reading, gathered>>

Loader == Loaders[load.name]
Length(f) == Len(load.files[f])
Label(f, p) == load.files[f][p + 1]
Clock(f, p) == load.layout.clock[f][p + 1]
Vector(f, p) == load.layout.vector[f][p + 1]
Timed == Loader.orders = "load" /\ (load.timed \/ Loader.sample = "even")
ClassOfFile == <<"attack", "benign">>

-----------------------------------------------------------------------------
(* What the row at p of file f becomes. *)

AllFiles == [f \in 1..Len(load.files) |-> f]
KnownFiles == InOrder({f \in DOMAIN load.files : f = 2 \/ load.known})

\* The known files in their order, and the others after them.
KnownFirst == KnownFiles \o InOrder({f \in DOMAIN load.files : f # 2 /\ ~load.known})

\* The others only when there is no known file.
KnownOrElse == IF KnownFiles # <<>> THEN KnownFiles ELSE AllFiles

\* The files to read, in order.
ToRead ==
  CASE Loader.paths = "all"           -> AllFiles
    [] Loader.paths = "known first"   -> KnownFirst
    [] Loader.paths = "known or else" -> KnownOrElse
    [] Loader.paths = "known"         -> KnownFiles
    [] Loader.paths = "one"           -> <<1>>

Named(f) == f = 2 \/ load.known
HasColumns(f) == f = 2 \/ load.columns

\* The class that the name of a file gives, and for lack of one its first row.
FirstClass(f) == IF Named(f) THEN ClassOfFile[f] ELSE Label(f, 0)

\* _row_class: a file of no class has one for every row.
OwnClass(f, p) == IF Named(f) THEN ClassOfFile[f] ELSE Label(f, p)

\* The class of a row, or the label that has none.
Class(f, p) ==
  CASE Loader.class = "row"      -> Label(f, p)
    [] Loader.class = "first"    -> FirstClass(f)
    [] Loader.class = "else own" -> OwnClass(f, p)
    [] Loader.class = "file"     -> IF Named(f) THEN ClassOfFile[f] ELSE "unmapped"

Known(f, p) == Class(f, p) \in Loader.keeps

\* The first of these rows of a file that the sample of a file reads.
ReadOf(f) == IF Loader.sample = "head" /\ load.size # None THEN Min({load.size, Length(f)})
           ELSE Length(f)

\* find_ambiguous_vectors, over the rows that will be read.
Ambiguous ==
  LET read == UNION {{<<f, p>> : p \in {q \in 0..(ReadOf(f) - 1) : Known(f, q)}} : f \in Range(ToRead)}
  IN {Vector(r[1], r[2]) : r \in
        {q \in read : \E r \in read : /\ Vector(r[1], r[2]) = Vector(q[1], q[2])
                                      /\ Class(r[1], r[2]) # Class(q[1], q[2])}}

LoadedRow(f, p) == [file |-> f, pos |-> p, class |-> Class(f, p)]

-----------------------------------------------------------------------------
(* Samples *)

\* effective_stride
Stride(f) ==
  IF load.stride # None THEN load.stride
  ELSE IF load.size # None /\ Length(f) > 0 THEN Max({1, Length(f) \div load.size})
  ELSE 1

\* _evenly_spaced(total, target): indices 0.. in order, without the rounding of floats.
EvenlySpaced(total, target) ==
  IF target = None \/ target >= total \/ total = 0 THEN [i \in 1..total |-> i - 1]
  ELSE [i \in 1..target |-> Min({total - 1, ((i - 1) * total) \div target})]

\* Mutant: positions count from the beginning of the chunk.
PickedPerChunk(f, until) ==
  LET picked == InOrder({p \in seen..(until - 1) : (p - seen) % Stride(f) = 0})
  IN IF load.size = None \/ load.stride # None THEN picked
     ELSE SubSeq(picked, 1, Min({Len(picked), load.size - kept}))

\* _iter_chunks: the positions kept of the chunk seen .. until - 1.
Picked(f, until) ==
  LET picked == InOrder({p \in seen..(until - 1) : p % Stride(f) = 0})
  IN IF load.size = None \/ load.stride # None THEN picked
     ELSE SubSeq(picked, 1, Min({Len(picked), load.size - kept}))

\* The rows of a file that is read whole, in the order of its clock where the loader sorts it.
Sample(f) ==
  CASE Loader.sample = "even" -> EvenlySpaced(Length(f), load.size)
    [] Loader.orders = "file" -> LET read == 0..(ReadOf(f) - 1)
                                 IN SortBy(read, [p \in read |-> Clock(f, p)])
    [] OTHER                  -> [i \in 1..ReadOf(f) |-> i - 1]

-----------------------------------------------------------------------------
(* Reading *)

\* Two loaders ignore a limit of 0; one that is tested when a row has been appended
\* lets one row in.
Cap ==
  CASE load.limit # 0 -> load.limit
    [] load.limit = 0 /\ load.name \in {"dohbrw2020", "dnsexf2021"} -> None
    [] OTHER -> IF Loader.cut \in {"always", "row"} THEN 1 ELSE 0

\* The tests of the limit outside the loop over rows.
Reached ==
  /\ load.limit # None
  /\ CASE Loader.cut = "always" -> file > 0 /\ (pc = "chunk" => seen > 0) /\ Len(loaded) >= load.limit
       [] Loader.cut = "before" -> Len(loaded) >= load.limit
       [] OTHER                 -> Loader.cut \in {"row", "end"} /\ Cap # None /\ Len(loaded) >= Cap

\* Mutant: a vector is remembered only from the files before.
WantedTwice(f, picked, i) ==
  /\ Known(f, picked[i])
  /\ Loader.unique =>
       /\ Vector(f, picked[i]) \notin Ambiguous
       /\ \A r \in Range(loaded) : Vector(r.file, r.pos) # Vector(f, picked[i])

\* Is the i-th of the picked rows kept, when those before it have been looked at?
Wanted(f, picked, i) ==
  /\ Known(f, picked[i])
  /\ Loader.unique =>
       /\ Vector(f, picked[i]) \notin Ambiguous
       /\ \A j \in 1..(i - 1) : Known(f, picked[j]) => Vector(f, picked[j]) # Vector(f, picked[i])
       /\ \A r \in Range(loaded) : Vector(r.file, r.pos) # Vector(f, picked[i])

\* Mutant: the times are those of all rows of the chunk.
TakeAllTimes(f, picked) ==
  LET room == IF Cap = None \/ Loader.cut \in {"end", "spread"} THEN Len(picked)
              ELSE Cap - Len(loaded)
      wanted == InOrder({i \in DOMAIN picked : Wanted(f, picked, i)})
      taken == SubSeq(wanted, 1, Min({room, Len(wanted)}))
      done == IF Len(wanted) < room \/ room = 0 THEN Len(picked) ELSE taken[room]
      passed == {i \in 1..done : ~Known(f, picked[i]) /\ Label(f, picked[i]) \in Loader.counts}
      headers == {i \in passed : Label(f, picked[i]) = "header"}
  IN /\ loaded' = loaded \o [k \in 1..Len(taken) |-> LoadedRow(f, picked[taken[k]])]
     /\ times' = IF Timed THEN times \o [k \in 1..Len(taken) |-> Clock(f, picked[k])] ELSE times
     /\ perFile' = [perFile EXCEPT ![f] = @ + Len(taken)]
     /\ dropped' = [unmapped |-> dropped.unmapped + Cardinality(passed \ headers),
                    header |-> dropped.header + Cardinality(headers)]

\* _read_rows over these rows of f, up to the one that reaches the limit.
Take(f, picked) ==
  LET room == IF Cap = None \/ Loader.cut \in {"end", "spread"} THEN Len(picked)
              ELSE Cap - Len(loaded)
      wanted == InOrder({i \in DOMAIN picked : Wanted(f, picked, i)})
      taken == SubSeq(wanted, 1, Min({room, Len(wanted)}))
      done == IF Len(wanted) < room \/ room = 0 THEN Len(picked) ELSE taken[room]
      passed == {i \in 1..done : ~Known(f, picked[i]) /\ Label(f, picked[i]) \in Loader.counts}
      headers == {i \in passed : Label(f, picked[i]) = "header"}
  IN /\ loaded' = loaded \o [k \in 1..Len(taken) |-> LoadedRow(f, picked[taken[k]])]
     /\ times' = IF Timed THEN times \o [k \in 1..Len(taken) |-> Clock(f, picked[taken[k]])] ELSE times
     /\ perFile' = [perFile EXCEPT ![f] = @ + Len(taken)]
     /\ dropped' = [unmapped |-> dropped.unmapped + Cardinality(passed \ headers),
                    header |-> dropped.header + Cardinality(headers)]

\* The next file, after the test of its columns.
Open ==
  /\ pc = "next"
  /\ IF file >= Len(ToRead) \/ Reached
     THEN pc' = "sort" /\ UNCHANGED <<file, seen, kept>>
     ELSE /\ file' = file + 1
          /\ seen' = 0 /\ kept' = 0
          /\ pc' = IF Loader.schema /\ ~HasColumns(ToRead[file + 1]) THEN "raised" ELSE "chunk"
  /\ UNCHANGED <<load, gathered>>

At == ToRead[file]

\* The file ends, or its sample is complete, or a row reached the limit.
EndOfFile ==
  /\ pc = "chunk"
  /\ Loader.sample = "stride"
  /\ \/ seen = Length(At)
     \/ load.stride = None /\ load.size # None /\ kept >= load.size
     \/ Reached
  /\ pc' = "next"
  /\ UNCHANGED <<load, file, seen, kept, gathered>>

ReadChunk ==
  LET until == Min({seen + Chunk, Length(At)})
      picked == Picked(At, until)
  IN /\ pc = "chunk"
     /\ Loader.sample = "stride"
     /\ seen < Length(At)
     /\ ~(load.stride = None /\ load.size # None /\ kept >= load.size)
     /\ ~Reached
     /\ seen' = until
     /\ kept' = kept + Len(picked)
     /\ Take(At, picked)
     /\ UNCHANGED <<load, pc, file>>

ReadFile ==
  /\ pc = "chunk"
  /\ Loader.sample # "stride"
  /\ seen' = Length(At)
  /\ kept' = Len(Sample(At))
  /\ Take(At, Sample(At))
  /\ pc' = "next"
  /\ UNCHANGED <<load, file>>

\* The sort by (time, place), the limit where it applies to the whole, the return.
\* A spread over none divides by zero.
Return ==
  LET order == IF Timed THEN SortBy(DOMAIN loaded, times) ELSE [i \in DOMAIN loaded |-> i]
      keep == CASE Loader.cut = "spread" /\ Cap # 0 ->
                     [i \in DOMAIN EvenlySpaced(Len(loaded), Cap) |-> EvenlySpaced(Len(loaded), Cap)[i] + 1]
                [] Loader.cut = "end" /\ Cap # None -> [i \in 1..Min({Cap, Len(loaded)}) |-> i]
                [] OTHER -> [i \in DOMAIN loaded |-> i]
  IN /\ pc = "sort"
     /\ IF Loader.cut = "spread" /\ Cap = 0 /\ loaded # <<>>
        THEN pc' = "raised" /\ UNCHANGED <<loaded, times>>
        ELSE /\ pc' = "done"
             /\ loaded' = [i \in DOMAIN keep |-> loaded[order[keep[i]]]]
             /\ times' = IF Timed THEN [i \in DOMAIN keep |-> times[order[keep[i]]]] ELSE times
     /\ UNCHANGED <<load, file, seen, kept, dropped, perFile>>

-----------------------------------------------------------------------------
(* What the scripts ask of a load: when there was an attack, and what the   *)
(* features can tell at best.                                              *)

\* Mutant: spans that lie apart are joined, and what is between them is lost.
MergeAll(merged, span) ==
  IF merged # <<>>
  THEN [merged EXCEPT ![Len(merged)][2] = Max({@, span[2]})]
  ELSE <<span>>

\* A span that touches the last one extends it.
Merge(merged, span) ==
  IF merged # <<>> /\ span[1] <= merged[Len(merged)][2]
  THEN [merged EXCEPT ![Len(merged)][2] = Max({@, span[2]})]
  ELSE Append(merged, span)

\* attack_intervals
AttackIntervals ==
  LET attacks == InOrder({times[i] : i \in {j \in DOMAIN loaded : loaded[j].class # "benign"}})
      Merged[k \in 0..Len(attacks)] ==
        IF k = 0 THEN <<>> ELSE Merge(Merged[k - 1], <<attacks[k] - Guard, attacks[k] + Guard>>)
  IN Merged[Len(attacks)]

\* in_any_interval looks no further than the first interval that begins later.
InAnyInterval(t, intervals) ==
  \E k \in DOMAIN intervals :
    /\ intervals[k][1] <= t /\ t <= intervals[k][2]
    /\ \A j \in 1..k : t >= intervals[j][1]

Returned == {<<r.file, r.pos>> : r \in Range(loaded)}

\* The rows that are looked at: those of the load, and where the loader leaves
\* ambiguous vectors out, all that it could have loaded.
Judged ==
  IF ~Loader.unique THEN Returned
  ELSE UNION {{<<f, p>> : p \in {q \in 0..(ReadOf(f) - 1) : Known(f, q)}} : f \in Range(ToRead)}

VectorsIn(judged) == {Vector(r[1], r[2]) : r \in judged}
CountOf(judged, v, class) ==
  Cardinality({r \in judged : Vector(r[1], r[2]) = v /\ Class(r[1], r[2]) = class})
Majority(judged, v) == Max({CountOf(judged, v, c) : c \in Values})
AmbiguousIn(judged) ==
  {v \in VectorsIn(judged) : Cardinality({c \in Values : CountOf(judged, v, c) > 0}) > 1}

\* label_quality_report (2018): the majority class within every vector, summed.
Achievable(judged) == MapThenSumSet(LAMBDA v : Majority(judged, v), VectorsIn(judged))

\* label_quality_report (2019): the unambiguous rows, and the majority of the others.
Achievable2019(judged) ==
  LET twice == AmbiguousIn(judged) IN
    Cardinality(judged) - Cardinality({r \in judged : Vector(r[1], r[2]) \in twice})
      + MapThenSumSet(LAMBDA v : Majority(judged, v), twice)

-----------------------------------------------------------------------------

Options(name) ==
  LET l == Loaders[name] IN
  [size   : IF l.sample = "none" THEN {None} ELSE Sizes \cup {None},
   stride : IF l.sample = "stride" THEN Sizes \cup {None} ELSE {None},
   limit  : IF l.cut = "none" THEN {None} ELSE LoadLimits \cup {None},
   timed  : IF l.sample = "stride" THEN BOOLEAN ELSE {FALSE}]

Contents(name, n) == UNION {[1..k -> Loaders[name].labels] : k \in 0..n}

\* A call of the loader of this name, on these files.
Called(name, one, two, known, columns, opt, layout) ==
  /\ opt.size # None => opt.stride = None
  /\ Loaders[name].sample = "even" =>
       \A f \in Files : \A p \in 2..Len(layout.clock[f]) : layout.clock[f][p - 1] <= layout.clock[f][p]
  /\ Loaders[name].paths = "one" => two = <<>>
  /\ Loaders[name].paths \in {"all", "one"} => known
  /\ ~Loaders[name].schema => columns
  /\ Len(one) > 2 /\ Loaders[name].class = "row" => known /\ columns
  /\ opt.timed \/ Loaders[name].orders # "load" \/ Loaders[name].sample = "even"
       \/ layout = CHOOSE l \in Layouts : TRUE
  /\ load = [name |-> name, known |-> known, columns |-> columns, layout |-> layout,
             files |-> IF two = <<>> THEN <<one>> ELSE <<one, two>>,
             size |-> opt.size, stride |-> opt.stride, limit |-> opt.limit,
             timed |-> opt.timed]

LoadersInit ==
  /\ \E name \in DOMAIN Loaders :
     \E one \in Contents(name, MaxRows[1]), two \in Contents(name, MaxRows[2]) :
     \E known, columns \in BOOLEAN, opt \in Options(name), layout \in Layouts :
       Called(name, one, two, known, columns, opt, layout)
  /\ pc = "next" /\ file = 0 /\ seen = 0 /\ kept = 0
  /\ loaded = <<>> /\ times = <<>>
  /\ dropped = [unmapped |-> 0, header |-> 0]
  /\ perFile = [f \in Files |-> 0]

LoadersNext == Open \/ EndOfFile \/ ReadChunk \/ ReadFile \/ Return

LoadersSpec == LoadersInit /\ [][LoadersNext]_loaderVars

-----------------------------------------------------------------------------
(* Properties.  What a load should be is said here of whole files, without   *)
(* chunks, budgets that are used up, or an order of reading rows.            *)

FilePlace(f) == CHOOSE k \in DOMAIN ToRead : ToRead[k] = f

\* The greatest step by which a bounded sample of file f fits into it.
Step(f) ==
  IF load.stride # None THEN load.stride
  ELSE IF load.size = None THEN 1
  ELSE Max({1} \cup {k \in 1..Length(f) : k * load.size <= Length(f)})

InSample(f, p) ==
  CASE Loader.sample = "stride" -> /\ p % Step(f) = 0
                                   /\ (load.stride = None /\ load.size # None) => p < Step(f) * load.size
    [] Loader.sample = "even" /\ load.size # None /\ load.size < Length(f) ->
         \E i \in 0..(load.size - 1) : p = (i * Length(f)) \div load.size
    [] Loader.sample = "head" /\ load.size # None -> p < load.size
    [] OTHER -> TRUE

Sampled == UNION {{<<f, p>> : p \in {q \in 0..(Length(f) - 1) : InSample(f, q)}} : f \in Range(ToRead)}
SampledAs(class) == {r \in Sampled : Class(r[1], r[2]) = class}

\* The rows that a load without a limit tells of: it returns them or counts them.
TellsOf(f, p) == Known(f, p) \/ Label(f, p) \in Loader.counts
Told(rows) == {r \in rows : TellsOf(r[1], r[2])}

\* Vectors that the sample has under two classes, and the first row of each other.
TwoClasses(v) == \A class \in Loader.keeps : \E r \in SampledAs(class) : Vector(r[1], r[2]) = v
Earlier(r, q) ==
  LET before == Clock(r[1], r[2]) < Clock(q[1], q[2])
      together == Clock(r[1], r[2]) = Clock(q[1], q[2]) IN
  \/ FilePlace(r[1]) < FilePlace(q[1])
  \/ /\ r[1] = q[1]
     /\ IF Loader.orders = "file" THEN before \/ (together /\ r[2] < q[2]) ELSE r[2] < q[2]
Due ==
  LET mapped == UNION {SampledAs(class) : class \in Loader.keeps} IN
  IF ~Loader.unique THEN mapped
  ELSE {r \in mapped : /\ ~TwoClasses(Vector(r[1], r[2]))
                       /\ \A q \in mapped : Vector(q[1], q[2]) = Vector(r[1], r[2]) => ~Earlier(q, r)}

\* In time, and in the order of reading where times are equal
Sooner(r, q) == \/ Clock(r[1], r[2]) < Clock(q[1], q[2])
                \/ Clock(r[1], r[2]) = Clock(q[1], q[2]) /\ Earlier(r, q)

\* A load returns the rows of its sample that have a class, each once, whatever the
\* chunks are; under a limit, the first of them, and of captures some that lie evenly
\* in time, from the first on.  Without one, what it returned and what it counted are
\* together the rows that it tells of: for cicids2018 all of its sample, for cicddos2019
\* all but the repeated headers; of what the others pass over nothing is counted.  A
\* sample with a budget reaches over more than half of every file (the docstring of
\* _iter_chunks, cicids2018.py:337-340, says end to end).  A limit of 0 is good for a
\* row at most, or for no limit at all.
LoadIsSample ==
  pc = "done" =>
    /\ Returned \subseteq Due /\ Cardinality(Returned) = Len(loaded)
    /\ load.limit = 0 /\ Cap # None => Len(loaded) <= 1
    /\ load.limit # 0 \/ Cap = None =>
         /\ Len(loaded) = IF Cap = None THEN Cardinality(Due) ELSE Min({Cap, Cardinality(Due)})
         /\ Loader.cut # "spread" => \A r \in Due \ Returned, q \in Returned : ~Earlier(r, q)
         /\ Loader.cut = "spread" => \A i \in DOMAIN loaded :
              Cardinality({q \in Due : Sooner(q, <<loaded[i].file, loaded[i].pos>>)})
                = ((i - 1) * Cardinality(Due)) \div Len(loaded)
    /\ ~Loader.unique /\ Cap = None =>
         Len(loaded) + dropped.unmapped + dropped.header = Cardinality(Told(Sampled))
    /\ load.size # None /\ Loader.sample = "stride" =>
         \A f \in Range(ToRead) : Length(f) > 0 =>
           2 * (Max({r[2] : r \in {q \in Sampled : q[1] = f}}) + Step(f)) > Length(f)

\* The times that come with the rows are theirs, row by row, and ascend; rows of one
\* time stay in the order in which they were read (the replays depend on it).
TimesFollow ==
  pc = "done" /\ Timed =>
    /\ Len(times) = Len(loaded)
    /\ \A i \in DOMAIN loaded : times[i] = Clock(loaded[i].file, loaded[i].pos)
    /\ \A i, j \in DOMAIN loaded : i < j =>
         \/ times[i] < times[j]
         \/ times[i] = times[j] /\ Earlier(<<loaded[i].file, loaded[i].pos>>, <<loaded[j].file, loaded[j].pos>>)

\* An instant is in one of the merged intervals, as far as the search looks, exactly
\* when an attack row is within the guard of it (cicids2018.py:643-688).
IntervalsTell ==
  pc = "done" /\ Timed =>
    \A t \in 0..10 :
      InAnyInterval(t, AttackIntervals)
        <=> \E i \in DOMAIN loaded : loaded[i].class # "benign" /\ times[i] - Guard <= t /\ t <= times[i] + Guard

\* The ceiling that the reports give, in either way of counting, is reached by some
\* function of the features and exceeded by none; a loader that leaves ambiguous
\* vectors out returns one row of every other vector, and all of them can be right.
AmbiguityIsKnown ==
  pc = "done" =>
    /\ Achievable(Judged) = Max({Cardinality({r \in Judged : g[Vector(r[1], r[2])] = Class(r[1], r[2])}) :
                                 g \in [VectorsIn(Judged) -> Loader.keeps]})
    /\ Achievable2019(Judged) = Achievable(Judged)
    /\ Loader.unique =>
         /\ Cardinality(VectorsIn(Returned)) = Len(loaded)
         /\ Cap = None => VectorsIn(Returned) = VectorsIn(Judged) \ AmbiguousIn(Judged)

=============================================================================
