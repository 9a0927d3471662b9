-------------------------- MODULE DatasetFetchProofs ---------------------------
(***************************************************************************)
(* What the download scripts promise, for a data set of any number of      *)
(* files and any number of runs.                                           *)
(*                                                                         *)
(* A script is its tests; of each the arguments need only the few facts    *)
(* that the first lemmas state.                                            *)
(***************************************************************************)
EXTENDS DatasetFetch, NaturalsInduction, WellFoundedInduction, TLAPS

-----------------------------------------------------------------------------
(* What holds while a script runs *)

\* The scripts that repair what an honest run finds broken.
Healing == {"unsw_nb15", "dohbrw2020", "dnsexf2021", "cicids2018"}

\* Those that start over only when nothing at all is there.
StartsOver == {"unsw_nb15", "dohbrw2020"}

TypeInv ==
  /\ name \in DOMAIN Scripts
  /\ disk \in [Files -> Contents]
  /\ next \in 1..(NFiles + 1)
  /\ pc \in {"idle", "files", "check", "write"}
  /\ pc \in {"check", "write"} => next \in Files
  /\ pc # "idle" => mode \in DOMAIN Script.checks /\ exit = "running"

\* A file is whole once its check has passed.
CheckedInv ==
  pc # "idle" /\ Script.checks[mode] = "each" =>
    /\ pc # "write"
    /\ \A f \in Files : f < next => disk[f] = "whole"

\* As long as every answer is the whole file, the loop leaves whole files behind it.
HonestInv ==
  pc # "idle" /\ name \in Healing /\ mode \in Downloads /\ honest =>
    /\ pc # "write"
    /\ \A f \in Files : f < next => disk[f] = "whole"
    /\ pc = "check" => disk[next] = "whole"

\* What is ahead of a start over is not there.
AheadInv ==
  pc # "idle" /\ name \in StartsOver /\ mode \in Downloads =>
    /\ \A f \in Files : f > next => disk[f] = "absent"
    /\ pc = "files" /\ next \in Files => disk[next] = "absent"

\* A direct download writes to files that were not there.
WriteInv ==
  pc = "write" /\ mode \in Downloads => disk[next] # "whole" /\ Script.direct = TRUE

IInv ==
  TypeInv /\ CheckedInv /\ HonestInv /\ AheadInv /\ WriteInv
    /\ CheckedRunIsWhole /\ HonestRunHeals

-----------------------------------------------------------------------------
(* The tests of the scripts *)

LEMMA Names ==
  ASSUME NEW n \in DOMAIN Scripts
  PROVE  \/ n = "nsl_kdd" /\ Scripts[n] = NslKdd
         \/ n = "cicids2017" /\ Scripts[n] = Cicids2017
         \/ n = "unsw_nb15" /\ Scripts[n] = UnswNb15
         \/ n = "dohbrw2020" /\ Scripts[n] = DohBrw2020
         \/ n = "dnsexf2021" /\ Scripts[n] = DnsExf2021
         \/ n = "cicids2018" /\ Scripts[n] = Cicids2018
         \/ n = "cicddos2019" /\ Scripts[n] = Cicddos2019
         \/ n = "ciciot2023" /\ Scripts[n] = Ciciot2023
BY DEF Scripts

\* A script that repairs keeps every answer, and downloads again all but whole files.
HealingTests(n, s) ==
  n \in Healing => s.direct = FALSE /\ s.keep = Bodies /\ \A c \in s.have : c = "whole"

\* One that starts over does so when nothing is there, and then skips nothing.
StartsOverTests(n, s) ==
  n \in StartsOver => s.direct = FALSE /\ s.have = {} /\ s.enough = "one"

\* Files are checked one by one in downloads that skip nothing.
EachTests(n, s) ==
  \A m \in DOMAIN s.checks : s.checks[m] = "each" =>
    s.direct = FALSE /\ s.have = {} /\ m = "mirror"

\* There are two kinds of checks.
CheckTests(n, s) == \A m \in DOMAIN s.checks : s.checks[m] \in {"none", "each", "end"}

\* A direct download skips whatever is there.
DirectTests(n, s) == s.direct # FALSE => s.have = Present /\ s.direct = TRUE

\* A whole file is skipped, unless the script starts over; but for DNS-EXF-2021.
HaveTests(n, s) ==
  \A m \in DOMAIN s.checks : m \in Downloads /\ n # "dnsexf2021" =>
    "whole" \in s.have \/ n \in StartsOver

\* When a run has nothing to do.
EnoughTests(n, s) ==
  /\ n = "cicids2018" => s.enough = "sizes"
  /\ s.enough \in {"never", "one", "all", "sizes"}

LEMMA Tests ==
  ASSUME name \in DOMAIN Scripts, NEW n, n = name, NEW s, s = Script
  PROVE  /\ HealingTests(n, s) /\ StartsOverTests(n, s) /\ EachTests(n, s)
         /\ CheckTests(n, s) /\ DirectTests(n, s) /\ HaveTests(n, s) /\ EnoughTests(n, s)
<1>1. CASE n = "nsl_kdd" /\ s = NslKdd
  <2>1. HealingTests(n, s)
    BY <1>1 DEF HealingTests, NslKdd, Healing
  <2>2. StartsOverTests(n, s)
    BY <1>1 DEF StartsOverTests, NslKdd, StartsOver
  <2>3. EachTests(n, s)
    BY <1>1 DEF EachTests, NslKdd
  <2>4. CheckTests(n, s)
    BY <1>1 DEF CheckTests, NslKdd
  <2>5. DirectTests(n, s)
    BY <1>1 DEF DirectTests, NslKdd
  <2>6. HaveTests(n, s)
    BY <1>1 DEF HaveTests, NslKdd, StartsOver, Downloads, Present, Bodies, Magic
  <2>7. EnoughTests(n, s)
    BY <1>1 DEF EnoughTests, NslKdd
  <2> QED
    BY <2>1, <2>2, <2>3, <2>4, <2>5, <2>6, <2>7
<1>2. CASE n = "cicids2017" /\ s = Cicids2017
  <2>1. HealingTests(n, s)
    BY <1>2 DEF HealingTests, Cicids2017, Healing
  <2>2. StartsOverTests(n, s)
    BY <1>2 DEF StartsOverTests, Cicids2017, StartsOver
  <2>3. EachTests(n, s)
    BY <1>2 DEF EachTests, Cicids2017
  <2>4. CheckTests(n, s)
    BY <1>2 DEF CheckTests, Cicids2017
  <2>5. DirectTests(n, s)
    BY <1>2 DEF DirectTests, Cicids2017
  <2>6. HaveTests(n, s)
    BY <1>2 DEF HaveTests, Cicids2017, StartsOver, Downloads, Present, Bodies, Magic
  <2>7. EnoughTests(n, s)
    BY <1>2 DEF EnoughTests, Cicids2017
  <2> QED
    BY <2>1, <2>2, <2>3, <2>4, <2>5, <2>6, <2>7
<1>3. CASE n = "unsw_nb15" /\ s = UnswNb15
  <2>1. HealingTests(n, s)
    BY <1>3 DEF HealingTests, UnswNb15, Healing
  <2>2. StartsOverTests(n, s)
    BY <1>3 DEF StartsOverTests, UnswNb15, StartsOver
  <2>3. EachTests(n, s)
    BY <1>3 DEF EachTests, UnswNb15
  <2>4. CheckTests(n, s)
    BY <1>3 DEF CheckTests, UnswNb15
  <2>5. DirectTests(n, s)
    BY <1>3 DEF DirectTests, UnswNb15
  <2>6. HaveTests(n, s)
    BY <1>3 DEF HaveTests, UnswNb15, StartsOver, Downloads, Present, Bodies, Magic
  <2>7. EnoughTests(n, s)
    BY <1>3 DEF EnoughTests, UnswNb15
  <2> QED
    BY <2>1, <2>2, <2>3, <2>4, <2>5, <2>6, <2>7
<1>4. CASE n = "dohbrw2020" /\ s = DohBrw2020
  <2>1. HealingTests(n, s)
    BY <1>4 DEF HealingTests, DohBrw2020, Healing
  <2>2. StartsOverTests(n, s)
    BY <1>4 DEF StartsOverTests, DohBrw2020, StartsOver
  <2>3. EachTests(n, s)
    BY <1>4 DEF EachTests, DohBrw2020
  <2>4. CheckTests(n, s)
    BY <1>4 DEF CheckTests, DohBrw2020
  <2>5. DirectTests(n, s)
    BY <1>4 DEF DirectTests, DohBrw2020
  <2>6. HaveTests(n, s)
    BY <1>4 DEF HaveTests, DohBrw2020, StartsOver, Downloads, Present, Bodies, Magic
  <2>7. EnoughTests(n, s)
    BY <1>4 DEF EnoughTests, DohBrw2020
  <2> QED
    BY <2>1, <2>2, <2>3, <2>4, <2>5, <2>6, <2>7
<1>5. CASE n = "dnsexf2021" /\ s = DnsExf2021
  <2>1. HealingTests(n, s)
    BY <1>5 DEF HealingTests, DnsExf2021, Healing
  <2>2. StartsOverTests(n, s)
    BY <1>5 DEF StartsOverTests, DnsExf2021, StartsOver
  <2>3. EachTests(n, s)
    BY <1>5 DEF EachTests, DnsExf2021
  <2>4. CheckTests(n, s)
    BY <1>5 DEF CheckTests, DnsExf2021
  <2>5. DirectTests(n, s)
    BY <1>5 DEF DirectTests, DnsExf2021
  <2>6. HaveTests(n, s)
    BY <1>5 DEF HaveTests, DnsExf2021, StartsOver, Downloads, Present, Bodies, Magic
  <2>7. EnoughTests(n, s)
    BY <1>5 DEF EnoughTests, DnsExf2021
  <2> QED
    BY <2>1, <2>2, <2>3, <2>4, <2>5, <2>6, <2>7
<1>6. CASE n = "cicids2018" /\ s = Cicids2018
  <2>1. HealingTests(n, s)
    BY <1>6 DEF HealingTests, Cicids2018, Healing
  <2>2. StartsOverTests(n, s)
    BY <1>6 DEF StartsOverTests, Cicids2018, StartsOver
  <2>3. EachTests(n, s)
    BY <1>6 DEF EachTests, Cicids2018
  <2>4. CheckTests(n, s)
    BY <1>6 DEF CheckTests, Cicids2018
  <2>5. DirectTests(n, s)
    BY <1>6 DEF DirectTests, Cicids2018
  <2>6. HaveTests(n, s)
    BY <1>6 DEF HaveTests, Cicids2018, StartsOver, Downloads, Present, Bodies, Magic
  <2>7. EnoughTests(n, s)
    BY <1>6 DEF EnoughTests, Cicids2018
  <2> QED
    BY <2>1, <2>2, <2>3, <2>4, <2>5, <2>6, <2>7
<1>7. CASE n = "cicddos2019" /\ s = Cicddos2019
  <2>1. HealingTests(n, s)
    BY <1>7 DEF HealingTests, Cicddos2019, Healing
  <2>2. StartsOverTests(n, s)
    BY <1>7 DEF StartsOverTests, Cicddos2019, StartsOver
  <2>3. EachTests(n, s)
    BY <1>7 DEF EachTests, Cicddos2019
  <2>4. CheckTests(n, s)
    BY <1>7 DEF CheckTests, Cicddos2019
  <2>5. DirectTests(n, s)
    BY <1>7 DEF DirectTests, Cicddos2019
  <2>6. HaveTests(n, s)
    BY <1>7 DEF HaveTests, Cicddos2019, StartsOver, Downloads, Present, Bodies, Magic
  <2>7. EnoughTests(n, s)
    BY <1>7 DEF EnoughTests, Cicddos2019
  <2> QED
    BY <2>1, <2>2, <2>3, <2>4, <2>5, <2>6, <2>7
<1>8. CASE n = "ciciot2023" /\ s = Ciciot2023
  <2>1. HealingTests(n, s)
    BY <1>8 DEF HealingTests, Ciciot2023, Healing
  <2>2. StartsOverTests(n, s)
    BY <1>8 DEF StartsOverTests, Ciciot2023, StartsOver
  <2>3. EachTests(n, s)
    BY <1>8 DEF EachTests, Ciciot2023
  <2>4. CheckTests(n, s)
    BY <1>8 DEF CheckTests, Ciciot2023
  <2>5. DirectTests(n, s)
    BY <1>8 DEF DirectTests, Ciciot2023
  <2>6. HaveTests(n, s)
    BY <1>8 DEF HaveTests, Ciciot2023, StartsOver, Downloads, Present, Bodies, Magic
  <2>7. EnoughTests(n, s)
    BY <1>8 DEF EnoughTests, Ciciot2023
  <2> QED
    BY <2>1, <2>2, <2>3, <2>4, <2>5, <2>6, <2>7
<1> QED
  BY <1>1, <1>2, <1>3, <1>4, <1>5, <1>6, <1>7, <1>8, Names DEF Script

-----------------------------------------------------------------------------
(* The steps of a run *)

\* In the middle of a run nothing is promised.
LEMMA Running ==
  ASSUME pc' # "idle", exit' = "running"
  PROVE  CheckedRunIsWhole' /\ HonestRunHeals'
BY DEF CheckedRunIsWhole, HonestRunHeals

LEMMA FileNumbers ==
  /\ 1 \in Files /\ 1 \in 1..(NFiles + 1)
  /\ \A f \in Files : f \in Nat /\ f >= 1
  /\ \A n \in Files : n \in 1..(NFiles + 1) /\ n + 1 \in 1..(NFiles + 1)
  /\ \A n \in 1..(NFiles + 1) : n \in Nat /\ (n \in Files \/ n = NFiles + 1)
  /\ \A f \in Files : f < NFiles + 1
  /\ \A f, n \in Files : f < n + 1 <=> f < n \/ f = n
BY FetchAssumption DEF Files

\* The check at the end objects to a file that is not whole.
LEMMA FirstBadIsBad == Whole # Files => FirstBad \in Files \ Whole
<1> SUFFICES ASSUME Whole # Files PROVE FirstBad \in Files \ Whole
  OBVIOUS
<1> DEFINE T == Files \ Whole
           R == OpToRel(<, Nat)
<1>1. T \subseteq Nat /\ T # {}
  BY FileNumbers DEF Whole
<1>2. PICK f \in T : \A g \in T : ~(<<g, f>> \in R)
  <2>1. IsWellFoundedOn(R, Nat)
    BY NatLessThanWellFounded
  <2> HIDE DEF T, R
  <2> QED
    BY <1>1, <2>1, WFMin
<1>3. \A g \in T : f <= g
  <2> SUFFICES ASSUME NEW g \in T PROVE f <= g
    OBVIOUS
  <2>1. ~(g < f) /\ f \in Nat /\ g \in Nat
    BY <1>1, <1>2 DEF OpToRel
  <2> QED
    BY <2>1
<1> QED
  BY <1>2, <1>3 DEF FirstBad

LEMMA StartStep ==
  ASSUME IInv, NEW m \in DOMAIN Script.checks, Start(m)
  PROVE  IInv'
<1>1. /\ pc = "idle" /\ mode' = m /\ next' = 1 /\ looped' = ~Enough
      /\ name' = name /\ disk' = disk
  BY DEF Start
<1>2. /\ name \in DOMAIN Scripts /\ disk \in [Files -> Contents]
  BY DEF IInv, TypeInv
<1>3. Script' = Script /\ Whole' = Whole
  BY <1>1 DEF Script, Whole
<1>4. \A f \in Files : ~(f < next')
  BY <1>1, FileNumbers
<1>5. CASE Enough
  <2>1. pc' = "idle" /\ exit' = "0"
    BY <1>5 DEF Start, Exit
  <2>2. ~looped'
    BY <1>1, <1>5
  <2>3. CheckedRunIsWhole'
    <3> SUFFICES ASSUME name = "cicids2018" PROVE Whole' = Files
      BY <1>1, <2>2 DEF CheckedRunIsWhole
    <3>1. Script.enough = "sizes"
      BY <1>2, Tests DEF EnoughTests
    <3>2. Whole = Files
      BY <1>5, <3>1 DEF Enough
    <3> QED
      BY <1>3, <3>2
  <2>4. HonestRunHeals'
    BY <2>2 DEF HonestRunHeals
  <2>5. TypeInv'
    BY <1>1, <1>2, <2>1, FileNumbers DEF TypeInv
  <2> QED
    BY <2>1, <2>3, <2>4, <2>5 DEF IInv, CheckedInv, HonestInv, AheadInv, WriteInv
<1>6. CASE ~Enough
  <2>1. pc' = "files" /\ exit' = "running"
    BY <1>6 DEF Start
  <2>2. CheckedRunIsWhole' /\ HonestRunHeals'
    BY <2>1, Running
  <2>3. TypeInv'
    BY <1>1, <1>2, <1>3, <2>1, FileNumbers DEF TypeInv
  <2>4. CheckedInv' /\ HonestInv' /\ WriteInv'
    BY <1>4, <2>1 DEF CheckedInv, HonestInv, WriteInv
  <2>5. AheadInv'
    <3> SUFFICES ASSUME name \in StartsOver PROVE \A f \in Files : disk[f] = "absent"
      BY <1>1, FileNumbers DEF AheadInv
    <3>1. Script.enough = "one"
      BY <1>2, Tests DEF StartsOverTests
    <3> QED
      BY <1>6, <3>1 DEF Enough
  <2> QED
    BY <2>2, <2>3, <2>4, <2>5 DEF IInv
<1> QED
  BY <1>5, <1>6

\* The loop goes on behind a file it did not touch.
LEMMA SkipStep ==
  ASSUME IInv, Skip
  PROVE  IInv'
<1>1. /\ pc = "files" /\ next \in Files /\ mode \in Downloads /\ disk[next] \in Script.have
      /\ pc' = "files" /\ next' = next + 1 /\ exit' = exit
      /\ name' = name /\ disk' = disk /\ mode' = mode /\ honest' = honest
  BY DEF Skip, Downloading, AtFile, GoOn
<1>2. /\ name \in DOMAIN Scripts /\ disk \in [Files -> Contents]
      /\ mode \in DOMAIN Script.checks /\ exit = "running"
  BY <1>1 DEF IInv, TypeInv
<1>3. Script' = Script
  BY <1>1 DEF Script
<1>4. TypeInv'
  BY <1>1, <1>2, <1>3, FileNumbers DEF TypeInv
<1>5. CheckedInv' /\ AheadInv' /\ WriteInv'
  <2>1. Script.checks[mode] # "each" /\ name \notin StartsOver
    BY <1>1, <1>2, Tests DEF EachTests, StartsOverTests
  <2> QED
    BY <1>1, <1>3, <2>1 DEF CheckedInv, AheadInv, WriteInv
<1>6. HonestInv'
  <2> SUFFICES ASSUME name \in Healing, honest,  NEW f \in Files, f < next + 1
               PROVE  disk[f] = "whole"
    BY <1>1 DEF HonestInv
  <2>1. disk[next] = "whole"
    BY <1>1, <1>2, Tests DEF HealingTests
  <2>2. f < next => disk[f] = "whole"
    BY <1>1 DEF IInv, HonestInv
  <2> QED
    BY <1>1, <2>1, <2>2, FileNumbers
<1> QED
  BY <1>1, <1>2, <1>4, <1>5, <1>6, Running DEF IInv

LEMMA FetchStep ==
  ASSUME IInv, NEW body \in Bodies, Fetch(body)
  PROVE  IInv'
<1>1. /\ pc = "files" /\ next \in Files /\ mode \in Downloads /\ disk[next] \notin Script.have
      /\ disk' = IF body \in Script.keep THEN [disk EXCEPT ![next] = body] ELSE disk
      /\ honest' = (honest /\ body = "whole")
      /\ name' = name /\ mode' = mode
  BY DEF Fetch, Downloading, AtFile
<1>2. /\ name \in DOMAIN Scripts /\ disk \in [Files -> Contents]
      /\ mode \in DOMAIN Script.checks /\ exit = "running" /\ next \in Nat
  BY <1>1, FileNumbers DEF IInv, TypeInv
<1>3. Script' = Script
  BY <1>1 DEF Script
<1>same. name' = name /\ mode' = mode /\ next \in Files
  BY <1>1
<1>4. disk' \in [Files -> Contents] /\ \A f \in Files : f # next => disk'[f] = disk[f]
  BY <1>1, <1>2 DEF Contents, Present
<1>5. CASE body \notin Script.keep
  <2>1. pc' = "idle" /\ exit' = "1" /\ next' = next
    BY <1>5 DEF Fetch, Exit
  <2>2. TypeInv'
    BY <1>same, <1>2, <1>4, <2>1, FileNumbers DEF TypeInv
  <2>3. HonestRunHeals' /\ CheckedRunIsWhole'
    <3>1. name \notin Healing
      BY <1>2, <1>5, Tests DEF HealingTests
    <3> QED
      BY <1>1, <2>1, <3>1 DEF HonestRunHeals, CheckedRunIsWhole, Healing
  <2> QED
    BY <2>1, <2>2, <2>3 DEF IInv, CheckedInv, HonestInv, AheadInv, WriteInv
<1>6. CASE body \in Script.keep
  <2>1. disk' = [disk EXCEPT ![next] = body] /\ disk'[next] = body
    BY <1>1, <1>2, <1>6
  <2>2. CASE Script.checks[mode] = "each"
    <3>1. pc' = "check" /\ next' = next /\ exit' = exit
      BY <1>6, <2>2 DEF Fetch
    <3>2. TypeInv'
      BY <1>same, <1>2, <1>3, <1>4, <3>1, FileNumbers DEF TypeInv
    <3>3. CheckedInv' /\ HonestInv' /\ AheadInv' /\ WriteInv'
      <4>1. CheckedInv'
        BY <1>1, <1>2, <1>3, <1>4, <3>1, FileNumbers DEF IInv, CheckedInv
      <4>2. HonestInv'
        BY <1>1, <1>2, <1>4, <2>1, <3>1, FileNumbers DEF IInv, HonestInv
      <4>3. AheadInv'
        BY <1>1, <1>2, <1>4, <3>1, FileNumbers DEF IInv, AheadInv
      <4> QED
        BY <3>1, <4>1, <4>2, <4>3 DEF WriteInv
    <3> QED
      BY <1>2, <3>1, <3>2, <3>3, Running DEF IInv
  <2>3. CASE Script.checks[mode] # "each"
    <3>1. pc' = "files" /\ next' = next + 1 /\ exit' = exit
      BY <1>6, <2>3 DEF Fetch, GoOn
    <3>2. TypeInv'
      BY <1>same, <1>2, <1>3, <1>4, <3>1, FileNumbers DEF TypeInv
    <3>3. CheckedInv' /\ WriteInv'
      BY <1>1, <1>3, <2>3, <3>1 DEF CheckedInv, WriteInv
    <3>4. HonestInv'
      <4> SUFFICES ASSUME name \in Healing, honest, body = "whole", NEW f \in Files, f < next + 1
                   PROVE  disk'[f] = "whole"
        BY <1>1, <3>1 DEF HonestInv
      <4>1. f < next => disk[f] = "whole"
        BY <1>1 DEF IInv, HonestInv
      <4>2. f < next => f # next
        BY <1>2
      <4> QED
        BY <1>1, <1>4, <2>1, <4>1, <4>2, FileNumbers
    <3>5. AheadInv'
      <4> SUFFICES ASSUME name \in StartsOver, NEW f \in Files, f >= next + 1
                   PROVE  disk'[f] = "absent"
        BY <1>1, <1>2, <3>1, FileNumbers DEF AheadInv
      <4>1. f > next /\ f # next
        BY <1>2, FileNumbers
      <4>2. disk[f] = "absent"
        BY <1>1, <4>1 DEF IInv, AheadInv
      <4> QED
        BY <1>4, <4>1, <4>2
    <3> QED
      BY <1>2, <3>1, <3>2, <3>3, <3>4, <3>5, Running DEF IInv
  <2> QED
    BY <2>2, <2>3
<1> QED
  BY <1>5, <1>6

LEMMA FetchFailsStep ==
  ASSUME IInv, FetchFails
  PROVE  IInv'
<1>1. /\ pc' = "idle" /\ exit' = "1" /\ ~honest'
      /\ name' = name /\ disk' = disk /\ next' = next
  BY DEF FetchFails, Exit
<1>2. TypeInv'
  BY <1>1 DEF IInv, TypeInv
<1> QED
  BY <1>1, <1>2 DEF IInv, CheckedInv, HonestInv, AheadInv, WriteInv, CheckedRunIsWhole,
                    HonestRunHeals

LEMMA CheckFileStep ==
  ASSUME IInv, CheckFile
  PROVE  IInv'
<1>1. /\ pc = "check" /\ name' = name /\ mode' = mode /\ honest' = honest
  BY DEF CheckFile
<1>2. /\ name \in DOMAIN Scripts /\ disk \in [Files -> Contents] /\ next \in Files
      /\ mode \in DOMAIN Script.checks /\ exit = "running"
  BY <1>1 DEF IInv, TypeInv
<1>3. Script' = Script
  BY <1>1 DEF Script
<1>4. CASE disk[next] = "whole"
  <2>1. pc' = "files" /\ next' = next + 1 /\ exit' = exit /\ disk' = disk
    BY <1>4 DEF CheckFile, GoOn
  <2>2. TypeInv'
    BY <1>1, <1>2, <1>3, <2>1, FileNumbers DEF TypeInv
  <2>3. CheckedInv'
    BY <1>1, <1>2, <1>3, <1>4, <2>1, FileNumbers DEF IInv, CheckedInv
  <2>4. HonestInv'
    BY <1>1, <1>2, <1>4, <2>1, FileNumbers DEF IInv, HonestInv
  <2>5. AheadInv' /\ WriteInv'
    <3>1. \A f \in Files : f > next + 1 \/ f = next + 1 => f > next
      BY <1>2, FileNumbers
    <3> QED
      BY <1>1, <1>2, <2>1, <3>1, FileNumbers DEF IInv, AheadInv, WriteInv
  <2> QED
    BY <1>2, <2>1, <2>2, <2>3, <2>4, <2>5, Running DEF IInv
<1>5. CASE disk[next] # "whole"
  <2>1. /\ pc' = "idle" /\ exit' = "1" /\ next' = next
        /\ disk' = [disk EXCEPT ![next] = "absent"]
    BY <1>5 DEF CheckFile, Exit
  <2>2. disk' \in [Files -> Contents]
    BY <1>2, <2>1 DEF Contents
  <2>3. TypeInv'
    BY <1>1, <1>2, <2>1, <2>2, FileNumbers DEF TypeInv
  <2>4. HonestRunHeals'
    BY <1>1, <1>5, <2>1 DEF IInv, HonestInv, HonestRunHeals, Healing
  <2> QED
    BY <2>1, <2>3, <2>4 DEF IInv, CheckedInv, HonestInv, AheadInv, WriteInv, CheckedRunIsWhole
<1> QED
  BY <1>4, <1>5

\* Copies, extractions and direct downloads are none of the runs something is promised of.
LEMMA Unpromised ==
  ASSUME IInv, pc # "idle", mode \in Downloads => Script.direct = TRUE
  PROVE  /\ Script.checks[mode] # "each"
         /\ ~(name \in Healing /\ mode \in Downloads)
         /\ ~(name \in StartsOver /\ mode \in Downloads)
<1>1. name \in DOMAIN Scripts /\ mode \in DOMAIN Script.checks
  BY DEF IInv, TypeInv
<1>2. HealingTests(name, Script) /\ StartsOverTests(name, Script) /\ EachTests(name, Script)
  BY <1>1, Tests
<1> QED
  BY <1>1, <1>2 DEF HealingTests, StartsOverTests, EachTests, Downloads

LEMMA OpenStep ==
  ASSUME IInv, NEW begun \in {"empty", "short"}, Open(begun)
  PROVE  IInv'
<1>1. /\ pc = "files" /\ next \in Files /\ pc' = "write"
      /\ mode \in Downloads => Script.direct
      /\ disk' = [disk EXCEPT ![next] = begun]
      /\ name' = name /\ mode' = mode /\ next' = next /\ exit' = exit
  BY DEF Open, AtFile, runVars
<1>2. /\ name \in DOMAIN Scripts /\ disk \in [Files -> Contents]
      /\ mode \in DOMAIN Script.checks /\ exit = "running"
  BY <1>1 DEF IInv, TypeInv
<1>3. Script' = Script
  BY <1>1 DEF Script
<1>4. mode \in Downloads => Script.direct = TRUE
  <2>1. DirectTests(name, Script)
    BY <1>2, Tests
  <2> QED
    BY <1>1, <2>1 DEF DirectTests
<1>5. disk' \in [Files -> Contents] /\ disk'[next] # "whole"
  <2>1. begun \in Contents /\ begun # "whole"
    BY DEF Contents, Present, Bodies
  <2>2. disk' = [disk EXCEPT ![next] = begun] /\ next \in Files
    BY <1>1
  <2> QED
    BY <1>2, <2>1, <2>2
<1>6. /\ Script.checks[mode] # "each"
      /\ ~(name \in Healing /\ mode \in Downloads)
      /\ ~(name \in StartsOver /\ mode \in Downloads)
  BY <1>1, <1>4, Unpromised
<1>same. name' = name /\ mode' = mode /\ next' = next /\ next \in Files /\ exit' = exit /\ pc' = "write"
  BY <1>1
<1>7. TypeInv'
  BY <1>same, <1>2, <1>3, <1>5, FileNumbers DEF TypeInv
<1>8. CheckedInv' /\ HonestInv' /\ AheadInv' /\ WriteInv'
  BY <1>same, <1>3, <1>4, <1>5, <1>6 DEF CheckedInv, HonestInv, AheadInv, WriteInv
<1> QED
  BY <1>same, <1>2, <1>7, <1>8, Running DEF IInv

LEMMA WriteStep ==
  ASSUME IInv, NEW body \in Bodies, Write(body)
  PROVE  IInv'
<1>1. /\ pc = "write" /\ disk' = [disk EXCEPT ![next] = body]
      /\ name' = name /\ mode' = mode
      /\ \/ pc' = "idle" /\ exit' = "1" /\ next' = next
         \/ pc' = "files" /\ exit' = exit /\ next' = next + 1
  BY DEF Write, Exit, GoOn
<1>2. /\ name \in DOMAIN Scripts /\ disk \in [Files -> Contents]
      /\ mode \in DOMAIN Script.checks /\ exit = "running" /\ next \in Files
  BY <1>1 DEF IInv, TypeInv
<1>3. Script' = Script
  BY <1>1 DEF Script
<1>4. disk' \in [Files -> Contents]
  BY <1>1, <1>2 DEF Contents, Present
<1>5. /\ Script.checks[mode] # "each"
      /\ ~(name \in Healing /\ mode \in Downloads)
      /\ ~(name \in StartsOver /\ mode \in Downloads)
  BY <1>1, Unpromised DEF IInv, WriteInv
<1>same. /\ name' = name /\ mode' = mode
         /\ \/ pc' = "idle" /\ exit' = "1" /\ next' = next
            \/ pc' = "files" /\ exit' = "running" /\ next' = next + 1
  BY <1>1, <1>2
<1>6. TypeInv'
  BY <1>same, <1>2, <1>3, <1>4, FileNumbers DEF TypeInv
<1>7. CheckedInv' /\ HonestInv' /\ AheadInv' /\ WriteInv'
  BY <1>same, <1>3, <1>5 DEF CheckedInv, HonestInv, AheadInv, WriteInv
<1>8. CheckedRunIsWhole' /\ HonestRunHeals'
  BY <1>same, <1>5 DEF CheckedRunIsWhole, HonestRunHeals, Healing
<1> QED
  BY <1>6, <1>7, <1>8 DEF IInv

LEMMA LacksStep ==
  ASSUME IInv, Lacks
  PROVE  IInv'
<1>1. /\ pc = "files" /\ next \in Files /\ disk' = disk /\ ~honest'
      /\ mode \in Downloads => Script.direct
      /\ name' = name /\ mode' = mode
      /\ \/ pc' = "idle" /\ exit' = "1" /\ next' = next
         \/ pc' = "files" /\ exit' = exit /\ next' = next + 1
  BY DEF Lacks, AtFile, Exit, GoOn
<1>2. /\ name \in DOMAIN Scripts /\ disk \in [Files -> Contents]
      /\ mode \in DOMAIN Script.checks /\ exit = "running"
  BY <1>1 DEF IInv, TypeInv
<1>3. Script' = Script
  BY <1>1 DEF Script
<1>4. mode \in Downloads => Script.direct = TRUE
  <2>1. DirectTests(name, Script)
    BY <1>2, Tests
  <2> QED
    BY <1>1, <2>1 DEF DirectTests
<1>5. /\ Script.checks[mode] # "each"
      /\ ~(name \in Healing /\ mode \in Downloads)
      /\ ~(name \in StartsOver /\ mode \in Downloads)
  BY <1>1, <1>4, Unpromised
<1>6. TypeInv'
  BY <1>1, <1>2, <1>3, FileNumbers DEF TypeInv
<1>7. CheckedInv' /\ HonestInv' /\ AheadInv' /\ WriteInv'
  BY <1>1, <1>3, <1>5 DEF CheckedInv, HonestInv, AheadInv, WriteInv
<1>8. CheckedRunIsWhole' /\ HonestRunHeals'
  BY <1>1, <1>2 DEF CheckedRunIsWhole, HonestRunHeals
<1> QED
  BY <1>6, <1>7, <1>8 DEF IInv

LEMMA FinishStep ==
  ASSUME IInv, Finish
  PROVE  IInv'
<1>1. /\ pc = "files" /\ next = NFiles + 1 /\ pc' = "idle"
      /\ name' = name /\ mode' = mode /\ next' = next /\ honest' = honest
  BY DEF Finish, Exit, runVars
<1>2. /\ name \in DOMAIN Scripts /\ disk \in [Files -> Contents]
      /\ mode \in DOMAIN Script.checks
  BY <1>1 DEF IInv, TypeInv
<1>3. Script' = Script
  BY <1>1 DEF Script
<1>4. \A f \in Files : f < next
  BY <1>1, FileNumbers
\* What the loop has left behind it is all there is.
<1>5. name \in Healing /\ mode \in Downloads /\ honest => Whole = Files
  BY <1>1, <1>4 DEF IInv, HonestInv, Whole
<1>6. Script.checks[mode] = "each" => Whole = Files
  BY <1>1, <1>4 DEF IInv, CheckedInv, Whole
<1>7. CASE Script.checks[mode] = "end" /\ Whole # Files
  <2>1. exit' = "1" /\ disk' = IF Script.drops THEN [disk EXCEPT ![FirstBad] = "absent"] ELSE disk
    BY <1>7 DEF Finish, Exit
  <2>2. disk' \in [Files -> Contents]
    BY <1>2, <2>1 DEF Contents
  <2>3. TypeInv'
    BY <1>1, <1>2, <2>2 DEF TypeInv, IInv
  <2>4. HonestRunHeals' /\ CheckedRunIsWhole'
    BY <1>1, <1>5, <1>7, <2>1 DEF HonestRunHeals, CheckedRunIsWhole, Healing
  <2> QED
    BY <1>1, <2>3, <2>4 DEF IInv, CheckedInv, HonestInv, AheadInv, WriteInv
<1>8. CASE ~(Script.checks[mode] = "end" /\ Whole # Files)
  <2>1. disk' = disk /\ (mode \in Downloads => exit' = "0")
    BY <1>8 DEF Finish, Exit
  <2>2. Whole' = Whole
    BY <2>1 DEF Whole
  <2>3. TypeInv'
    BY <1>1, <1>2, <2>1 DEF TypeInv, IInv
  <2>4. HonestRunHeals'
    BY <1>1, <1>5, <2>1, <2>2 DEF HonestRunHeals, Healing
  <2>5. CheckedRunIsWhole'
    <3>1. Script.checks[mode] \in {"none", "each", "end"}
      BY <1>2, Tests DEF CheckTests
    <3> QED
      BY <1>1, <1>3, <1>6, <1>8, <2>2, <3>1 DEF CheckedRunIsWhole
  <2> QED
    BY <1>1, <2>3, <2>4, <2>5 DEF IInv, CheckedInv, HonestInv, AheadInv, WriteInv
<1> QED
  BY <1>7, <1>8

LEMMA KillStep ==
  ASSUME IInv, Kill
  PROVE  IInv'
<1>1. /\ pc' = "idle" /\ exit' = "killed" /\ name' = name /\ disk' = disk /\ next' = next
  BY DEF Kill, Exit, runVars
<1>2. TypeInv'
  BY <1>1 DEF IInv, TypeInv
<1> QED
  BY <1>1, <1>2 DEF IInv, CheckedInv, HonestInv, AheadInv, WriteInv, CheckedRunIsWhole,
                    HonestRunHeals

LEMMA StutterStep ==
  ASSUME IInv, UNCHANGED vars
  PROVE  IInv'
<1>1. /\ name' = name /\ disk' = disk /\ pc' = pc /\ mode' = mode /\ next' = next
      /\ exit' = exit /\ honest' = honest /\ looped' = looped
  BY DEF vars, runVars
<1>2. Script' = Script /\ Whole' = Whole
  BY <1>1 DEF Script, Whole
<1> QED
  BY <1>1, <1>2 DEF IInv, TypeInv, CheckedInv, HonestInv, AheadInv, WriteInv,
                    CheckedRunIsWhole, HonestRunHeals

-----------------------------------------------------------------------------
(* The theorems *)

\* What holds of every run, over whatever earlier runs left.
THEOREM Invariance == Spec => []IInv
<1>1. Init => IInv
  <2> SUFFICES ASSUME Init PROVE IInv
    OBVIOUS
  <2>1. disk \in [Files -> Contents]
    BY DEF Init, Contents
  <2>2. /\ name \in DOMAIN Scripts /\ pc = "idle" /\ next = 1 /\ exit = "1" /\ ~looped
    BY DEF Init
  <2>3. TypeInv
    BY <2>1, <2>2, FileNumbers DEF TypeInv
  <2> QED
    BY <2>2, <2>3 DEF IInv, CheckedInv, HonestInv, AheadInv, WriteInv, CheckedRunIsWhole,
                      HonestRunHeals
<1>2. IInv /\ [Next]_vars => IInv'
  BY StartStep, SkipStep, FetchStep, FetchFailsStep, CheckFileStep, OpenStep, WriteStep,
     LacksStep, FinishStep, KillStep, StutterStep DEF Next
<1> QED
  BY <1>1, <1>2, PTL DEF Spec

\* Exit code 0 of a mode that checks its files means that every file of the set is
\* there and whole, for any number of files and runs.
THEOREM CheckedRunIsWholeHolds == Spec => []CheckedRunIsWhole
<1>1. IInv => CheckedRunIsWhole
  BY DEF IInv
<1> QED
  BY <1>1, Invariance, PTL

\* A run that found something to do, was given whole files and was not killed ends
\* with exit code 0 and the whole set, whatever earlier runs left.
THEOREM HonestRunHealsHolds == Spec => []HonestRunHeals
<1>1. IInv => HonestRunHeals
  BY DEF IInv
<1> QED
  BY <1>1, Invariance, PTL

\* No step of a download spoils a file that is whole.
THEOREM GoodFilesStayHolds == Spec => GoodFilesStay
<1>1. ASSUME IInv, Next, pc # "idle", mode \in Downloads, name # "dnsexf2021",
             NEW f \in Whole
      PROVE  disk'[f] = "whole"
  <2>1. /\ name \in DOMAIN Scripts /\ mode \in DOMAIN Script.checks
        /\ disk \in [Files -> Contents] /\ f \in Files /\ disk[f] = "whole"
    BY <1>1 DEF IInv, TypeInv, Whole
  <2>2. CASE disk' = disk
    BY <2>1, <2>2
  \* A step that writes another file.
  <2>3. ASSUME NEW g, NEW c, disk' = [disk EXCEPT ![g] = c], f # g
        PROVE  disk'[f] = "whole"
    BY <2>1, <2>3
  <2>4. ASSUME NEW body \in Bodies, Fetch(body) PROVE disk'[f] = "whole"
    <3>1. /\ pc = "files" /\ next \in Files /\ disk[next] \notin Script.have
          /\ disk' = disk \/ disk' = [disk EXCEPT ![next] = body]
      BY <2>4 DEF Fetch, Downloading, AtFile
    <3>2. "whole" \in Script.have \/ name \in StartsOver
      BY <1>1, <2>1, Tests DEF HaveTests
    <3>3. f # next
      BY <1>1, <2>1, <3>1, <3>2 DEF IInv, AheadInv
    <3> QED
      BY <2>2, <2>3, <3>1, <3>3
  <2>5. ASSUME NEW begun \in {"empty", "short"}, Open(begun) PROVE disk'[f] = "whole"
    <3>1. /\ pc = "files" /\ next \in Files /\ disk[next] \notin Script.have /\ Script.direct
          /\ disk' = [disk EXCEPT ![next] = begun]
      BY <1>1, <2>5 DEF Open, AtFile
    <3>2. "whole" \in Script.have \/ name \in StartsOver
      BY <1>1, <2>1, Tests DEF HaveTests
    <3>3. f # next
      BY <1>1, <2>1, <3>1, <3>2 DEF IInv, AheadInv
    <3> QED
      BY <2>3, <3>1, <3>3
  <2>6. ASSUME NEW body \in Bodies, Write(body) PROVE disk'[f] = "whole"
    <3>1. pc = "write" /\ disk' = [disk EXCEPT ![next] = body]
      BY <2>6 DEF Write
    <3>2. f # next
      BY <1>1, <2>1, <3>1 DEF IInv, WriteInv
    <3> QED
      BY <2>3, <3>1, <3>2
  <2>7. CASE CheckFile
    <3>1. disk' = disk \/ (disk[next] # "whole" /\ disk' = [disk EXCEPT ![next] = "absent"])
      BY <2>7 DEF CheckFile
    <3> QED
      BY <2>1, <2>2, <2>3, <3>1
  <2>8. CASE Finish
    <3>1. disk' = disk \/ (Whole # Files /\ disk' = [disk EXCEPT ![FirstBad] = "absent"])
      BY <2>8 DEF Finish
    <3>2. Whole # Files => f # FirstBad
      BY <1>1, FirstBadIsBad
    <3> QED
      BY <2>2, <2>3, <3>1, <3>2
  <2>9. CASE Skip \/ FetchFails \/ Lacks \/ Kill
    BY <2>2, <2>9 DEF Skip, FetchFails, Lacks, Kill
  <2>10. ~\E m \in DOMAIN Script.checks : Start(m)
    BY <1>1 DEF Start
  <2> QED
    BY <1>1, <2>4, <2>5, <2>6, <2>7, <2>8, <2>9, <2>10 DEF Next
<1>2. ASSUME IInv, UNCHANGED vars, NEW f \in Whole PROVE disk'[f] = "whole"
  BY <1>2 DEF vars, Whole
<1>3. IInv /\ [Next]_vars =>
        [pc # "idle" /\ mode \in Downloads /\ name # "dnsexf2021" =>
           \A f \in Whole : disk'[f] = "whole"]_vars
  BY <1>1, <1>2
<1> QED
  BY <1>3, Invariance, PTL DEF Spec, GoodFilesStay

=============================================================================
