---------------------------- MODULE DatasetFetch -----------------------------
(***************************************************************************)
(* The scripts that fetch a data set (scripts/download_*.py), run again and *)
(* again over what earlier runs left, with bodies that are cut short, error *)
(* pages answered with status 200, and kills between any two writes.       *)
(*                                                                         *)
(* The scripts are one loop over the files of the set with different tests *)
(* around it; a script is a record of those tests.  A file is its content: *)
(* the whole file, the beginning of it, an HTML page, nothing, or not there.*)
(* Files of other names, and the mode without arguments, which prints and   *)
(* exits 0, are left out.                                                  *)
(***************************************************************************)
EXTENDS Naturals, FiniteSets

CONSTANTS
  NFiles,   \* files of the set, fetched in the order 1, 2, ...
  MaxRuns   \* bound on the runs, for TLC

ASSUME FetchAssumption == NFiles \in Nat \ {0} /\ MaxRuns \in Nat

Files == 1..NFiles
Bodies == {"short", "page", "whole"}       \* what an answer or a source may hold
Present == Bodies \cup {"empty"}
Magic == {"short", "whole"}                \* begins like the file it should be
Contents == Present \cup {"absent"}

-----------------------------------------------------------------------------
(* The scripts.
     enough: what must be there for a run to have nothing to do;
     have:   contents of a file that is not downloaded again;
     keep:   contents of a download that is renamed to the final name, which
             a direct download has been written to all along;
     checks: for each mode, whether every file is checked as it comes ("each"),
             the set at the end ("end"), or nothing;
     drops:  a file that fails the check at the end is removed;
     strict: a local source must hold every file.                           *)

NslKdd ==
  [enough |-> "never", have |-> Present, keep |-> Bodies, direct |-> TRUE,
   checks |-> [mirror |-> "none"], drops |-> FALSE, strict |-> FALSE]

Cicids2017 ==
  [enough |-> "one", have |-> {}, keep |-> Bodies, direct |-> FALSE,
   checks |-> [zip |-> "none", local |-> "none"], drops |-> FALSE, strict |-> FALSE]

UnswNb15 ==
  [enough |-> "one", have |-> {}, keep |-> Bodies, direct |-> FALSE,
   checks |-> [mirror |-> "each", url |-> "none", zip |-> "none", local |-> "none"],
   drops |-> FALSE, strict |-> FALSE]

\* Mutant: the start over is left to the operator, whatever is there.
DohBrw2020Always ==
  [enough |-> "never", have |-> {}, keep |-> Bodies, direct |-> FALSE,
   checks |-> [mirror |-> "end", url |-> "end", zip |-> "none", local |-> "none"],
   drops |-> TRUE, strict |-> FALSE]

DohBrw2020 ==
  [enough |-> "one", have |-> {}, keep |-> Bodies, direct |-> FALSE,
   checks |-> [mirror |-> "end", url |-> "end", zip |-> "none", local |-> "none"],
   drops |-> TRUE, strict |-> FALSE]

DnsExf2021 ==
  [enough |-> "all", have |-> {}, keep |-> Bodies, direct |-> FALSE,
   checks |-> [mirror |-> "each", url |-> "none", zip |-> "none", local |-> "none"],
   drops |-> FALSE, strict |-> FALSE]

\* Mutant: a file that is there is not downloaded again, whatever its size.
Cicids2018Present ==
  [enough |-> "sizes", have |-> Present, keep |-> Bodies, direct |-> FALSE,
   checks |-> [mirror |-> "end", url |-> "end", local |-> "end"],
   drops |-> FALSE, strict |-> TRUE]

Cicids2018 ==
  [enough |-> "sizes", have |-> {"whole"}, keep |-> Bodies, direct |-> FALSE,
   checks |-> [mirror |-> "end", url |-> "end", local |-> "end"],
   drops |-> TRUE, strict |-> TRUE]

Cicddos2019 ==
  [enough |-> "never", have |-> Magic, keep |-> Magic, direct |-> FALSE,
   checks |-> [register |-> "end", url |-> "end", local |-> "end"],
   drops |-> FALSE, strict |-> TRUE]

Ciciot2023 ==
  [enough |-> "never", have |-> Bodies, keep |-> Magic, direct |-> FALSE,
   checks |-> [register |-> "none", local |-> "none"], drops |-> FALSE, strict |-> FALSE]

Scripts ==
  [nsl_kdd |-> NslKdd, cicids2017 |-> Cicids2017, unsw_nb15 |-> UnswNb15,
   dohbrw2020 |-> DohBrw2020, dnsexf2021 |-> DnsExf2021, cicids2018 |-> Cicids2018,
   cicddos2019 |-> Cicddos2019, ciciot2023 |-> Ciciot2023]

Downloads == {"mirror", "url", "register"}   \* the modes that fetch file by file

VARIABLES
  name,     \* the script
  disk,     \* the data set's directory, without .part files, which nobody reads
  pc,       \* idle, files, check, write
  mode,     \* of the run
  next,     \* the file at hand
  found,    \* some file was copied or extracted
  exit,     \* of the last run: 0, 1 or killed; running during one
  honest,   \* history: every answer of this run was the whole file
  looped,   \* history: this run found something to do
  runs      \* number of runs, for the bound

runVars == <<mode, next, found, honest, looped>>
vars == <<name, disk, pc, runVars, exit, runs>>

Script == Scripts[name]
Whole == {f \in Files : disk[f] = "whole"}

-----------------------------------------------------------------------------

Enough ==
  CASE Script.enough = "one"     -> \E f \in Files : disk[f] # "absent"
    [] Script.enough = "all"     -> \A f \in Files : disk[f] # "absent"
    [] Script.enough = "sizes"   -> Whole = Files
    [] Script.enough = "never"   -> FALSE

Exit(code) == pc' = "idle" /\ exit' = code

GoOn == pc' = "files" /\ next' = next + 1 /\ UNCHANGED exit

Start(m) ==
  /\ pc = "idle"
  /\ runs < MaxRuns
  /\ mode' = m
  /\ next' = 1
  /\ found' = FALSE
  /\ honest' = TRUE
  /\ looped' = ~Enough
  /\ runs' = runs + 1
  /\ IF Enough THEN Exit("0") ELSE pc' = "files" /\ exit' = "running"
  /\ UNCHANGED <<name, disk>>

AtFile == pc = "files" /\ next \in Files
Downloading == AtFile /\ mode \in Downloads

\* "already present, skipping"
Skip ==
  /\ Downloading
  /\ disk[next] \in Script.have
  /\ GoOn
  /\ UNCHANGED <<name, disk, mode, found, honest, looped, runs>>

\* _fetch: the answer goes to a .part file and, if it may be kept, from there to
\* the final name.  A body that is cut short ends the loop like a whole one.
Fetch(body) ==
  /\ Downloading
  /\ disk[next] \notin Script.have
  /\ ~Script.direct
  /\ disk' = IF body \in Script.keep THEN [disk EXCEPT ![next] = body] ELSE disk
  /\ honest' = (honest /\ body = "whole")
  /\ IF body \notin Script.keep THEN Exit("1") /\ UNCHANGED next
     ELSE IF Script.checks[mode] = "each"
     THEN pc' = "check" /\ UNCHANGED <<next, exit>>
     ELSE GoOn
  /\ UNCHANGED <<name, mode, found, looped, runs>>

\* The server does not answer, or the connection breaks with an error.
FetchFails ==
  /\ Downloading
  /\ disk[next] \notin Script.have
  /\ ~Script.direct
  /\ Exit("1")
  /\ honest' = FALSE
  /\ UNCHANGED <<name, disk, mode, next, found, looped, runs>>

\* The size of the file that has just been renamed.
CheckFile ==
  /\ pc = "check"
  /\ IF disk[next] = "whole"
     THEN GoOn /\ UNCHANGED disk
     ELSE /\ disk' = [disk EXCEPT ![next] = "absent"]
          /\ Exit("1")
          /\ UNCHANGED next
  /\ UNCHANGED <<name, mode, found, honest, looped, runs>>

\* A copy, an extraction or urlretrieve opens the final name ...
Open(begun) ==
  /\ AtFile
  /\ mode \in Downloads => Script.direct /\ disk[next] \notin Script.have
  /\ disk' = [disk EXCEPT ![next] = begun]
  /\ pc' = "write"
  /\ UNCHANGED <<name, runVars, exit, runs>>

\* ... and ends with all that the source holds; urlretrieve raises if that is less
\* than was announced.
Write(body) ==
  /\ pc = "write"
  /\ disk' = [disk EXCEPT ![next] = body]
  /\ found' = TRUE
  /\ honest' = (honest /\ body = "whole")
  /\ IF mode \in Downloads /\ body = "short" THEN Exit("1") /\ UNCHANGED next ELSE GoOn
  /\ UNCHANGED <<name, mode, looped, runs>>

\* A local source, an archive or a server that does not have the file, or fails.
Lacks ==
  /\ AtFile
  /\ mode \in Downloads => Script.direct /\ disk[next] \notin Script.have
  /\ IF mode \in Downloads \/ Script.strict THEN Exit("1") /\ UNCHANGED next ELSE GoOn
  /\ honest' = FALSE
  /\ UNCHANGED <<name, disk, mode, found, looped, runs>>

\* The first file that a check at the end objects to.
FirstBad == CHOOSE f \in Files \ Whole : \A g \in Files \ Whole : f <= g

\* Mutant: files that are there pass.
FinishExisting ==
  /\ pc = "files"
  /\ next = NFiles + 1
  /\ IF Script.checks[mode] = "end" /\ \E f \in Files : disk[f] = "absent"
     THEN Exit("1")
     ELSE Exit(IF mode \in Downloads \/ found THEN "0" ELSE "1")
  /\ UNCHANGED <<name, disk, runVars, runs>>

\* The check at the end, of all files and not only of those fetched; a local source
\* that had no file is an error, but for the CIC-IDS2017 archive.
Finish ==
  /\ pc = "files"
  /\ next = NFiles + 1
  /\ IF Script.checks[mode] = "end" /\ Whole # Files
     THEN /\ Exit("1")
          /\ disk' = IF Script.drops THEN [disk EXCEPT ![FirstBad] = "absent"] ELSE disk
     ELSE /\ Exit(IF mode \in Downloads \/ found \/ (name = "cicids2017" /\ mode = "zip")
                  THEN "0" ELSE "1")
          /\ UNCHANGED disk
  /\ UNCHANGED <<name, runVars, runs>>

\* The process is killed, or an exception ends it that nobody catches: a full disk,
\* a broken archive.
Kill ==
  /\ pc # "idle"
  /\ Exit("killed")
  /\ UNCHANGED <<name, disk, runVars, runs>>

Init ==
  /\ name \in DOMAIN Scripts
  /\ disk = [f \in Files |-> "absent"]
  /\ pc = "idle"
  /\ mode = "local"
  /\ next = 1
  /\ found = FALSE
  /\ exit = "1"
  /\ honest = FALSE
  /\ looped = FALSE
  /\ runs = 0

Next ==
  \/ \E m \in DOMAIN Script.checks : Start(m)
  \/ Skip
  \/ \E body \in Bodies : Fetch(body)
  \/ FetchFails
  \/ CheckFile
  \/ \E begun \in {"empty", "short"} : Open(begun)
  \/ \E body \in Bodies : Write(body)
  \/ Lacks
  \/ Finish
  \/ Kill

Spec == Init /\ [][Next]_vars

-----------------------------------------------------------------------------
(* Properties *)

\* Exit code 0 of a mode that checks means that the whole data set is there,
\* whatever earlier runs left; for CIC-IDS2018 also if there was nothing to do
\* (download_cicids2018.py:89-91, 223-226; download_unsw_nb15.py:141-144).
CheckedRunIsWhole ==
  exit = "0" /\ mode \in DOMAIN Script.checks /\ Script.checks[mode] # "none"
    /\ (looped \/ name = "cicids2018")
  => Whole = Files

\* "a re-run after a partial download" repairs what is broken: if every answer is
\* the whole file, a download that is not cut off ends with the whole data set
\* (download_cicids2018.py:58-59 and the scripts that download everything again).
HonestRunHeals ==
  name \in {"unsw_nb15", "dohbrw2020", "dnsexf2021", "cicids2018"}
    /\ mode \in Downloads /\ looped /\ honest /\ pc = "idle" /\ exit # "killed"
  => exit = "0" /\ Whole = Files

\* A download does not spoil a file that was whole, however it ends; the scripts
\* that write over files only do so when there is none (the exception is
\* DNS-EXF-2021, which starts over as long as a file is missing).
GoodFilesStay ==
  [][pc # "idle" /\ mode \in Downloads /\ name # "dnsexf2021" =>
       \A f \in Whole : disk'[f] = "whole"]_vars

=============================================================================
