------------------------------ MODULE Logbook ------------------------------
(***************************************************************************)
(* The hash-chained audit log: services/logbook.                           *)
(*                                                                         *)
(* LogbookStore.append awaits three things in turn: the hash of the newest *)
(* row, the construction of the next entry on top of it, the insert.  With *)
(* SQLiteLogbookStore none of them ever suspends, so on one event loop an  *)
(* append is atomic.  PostgresLogbookStore runs each query in a worker     *)
(* thread (asyncio.to_thread): other coroutines run between them, and so   *)
(* do their appends.  Which store runs is chosen when the process starts.  *)
(*                                                                         *)
(* SHA-256 is taken to be injective: a hash is the tuple it is computed    *)
(* from.                                                                   *)
(***************************************************************************)
EXTENDS Integers, Sequences, FiniteSets

CONSTANTS
  Appenders,     \* coroutines that may call append at the same time
  Payloads,      \* payloads of entries
  Stores,        \* the stores the process may be configured with
  MaxEntries,    \* bound on the rows, for TLC
  MaxTampers     \* bound on the edits behind the store's back, for TLC

ASSUME LogbookAssumption ==
  /\ Stores \subseteq {"sqlite", "postgres"}
  /\ MaxEntries \in Nat /\ MaxTampers \in Nat

VARIABLES
  store,     \* the store in use
  rows,      \* the logbook table, in seq order
  nextId,    \* entry_ids are fresh: the next one
  tip,       \* tip[p]: what p's append read from _get_latest_hash
  busy,      \* the appenders between _get_latest_hash and _persist
  written,   \* history: the rows as they were inserted
  tampers    \* history: the number of edits so far

logVars == <<store, rows, nextId, tip, busy, written, tampers>>

-----------------------------------------------------------------------------
(* libs/schemas.py, AuditLogEntry *)

Hash(id, prev, payload) == <<id, prev, payload>>
Genesis == <<>>

Entry(id, prev, payload) ==
  [id |-> id, prev |-> prev, payload |-> payload, hash |-> Hash(id, prev, payload)]

-----------------------------------------------------------------------------
(* base.py, verify_chain_integrity *)

\* Mutant: only the links are walked, no hash is recomputed.
BrokenLinks(entries, i) ==
  entries[i].prev # IF i = 1 THEN Genesis ELSE entries[i - 1].hash

\* Entry i fails the walk: it does not link to the stored hash before it, or its
\* own stored hash is not the hash of its stored fields.
Broken(entries, i) ==
  \/ entries[i].prev # IF i = 1 THEN Genesis ELSE entries[i - 1].hash
  \/ Hash(entries[i].id, entries[i].prev, entries[i].payload) # entries[i].hash

\* The least index of a set, Intact if there is none.
Intact == 0
\* Mutant: the last break is reported.
FirstLast(S) == IF S = {} THEN Intact ELSE CHOOSE i \in S : \A j \in S : i >= j

First(S) == IF S = {} THEN Intact ELSE CHOOSE i \in S : \A j \in S : i <= j

VerifyChain(entries) == First({i \in 1..Len(entries) : Broken(entries, i)})

-----------------------------------------------------------------------------
(* The stores *)

LatestHash == IF rows = <<>> THEN Genesis ELSE rows[Len(rows)].hash

Insert(prev, payload) ==
  /\ rows' = Append(rows, Entry(nextId, prev, payload))
  /\ written' = Append(written, Entry(nextId, prev, payload))
  /\ nextId' = nextId + 1

\* append on the SQLite store: tip and insert without a suspension between them.
AppendAtomically(p, payload) ==
  /\ store = "sqlite"
  /\ Len(rows) < MaxEntries
  /\ Insert(LatestHash, payload)
  /\ UNCHANGED <<store, tip, busy, tampers>>

\* append on the Postgres store, first await: the newest hash is read.
ReadTip(p) ==
  /\ store = "postgres"
  /\ p \notin busy
  /\ tip' = [tip EXCEPT ![p] = LatestHash]
  /\ busy' = busy \cup {p}
  /\ UNCHANGED <<store, rows, nextId, written, tampers>>

\* append on the Postgres store, last await: the entry built on that hash is
\* inserted, whatever has been inserted meanwhile.
Persist(p, payload) ==
  /\ p \in busy
  /\ Len(rows) < MaxEntries
  /\ Insert(tip[p], payload)
  /\ busy' = busy \ {p}
  /\ UNCHANGED <<store, tip, tampers>>

\* The insert fails or the coroutine is cancelled before it: no row, no retry.
Abandon(p) ==
  /\ p \in busy
  /\ busy' = busy \ {p}
  /\ UNCHANGED <<store, rows, nextId, tip, written, tampers>>

\* An edit behind the store's back (_tamper_for_testing): the payload of a row
\* changes, its hash does not.
Tamper(i, payload) ==
  /\ tampers < MaxTampers
  /\ rows' = [rows EXCEPT ![i].payload = payload]
  /\ tampers' = tampers + 1
  /\ UNCHANGED <<store, nextId, tip, busy, written>>

LogInit ==
  /\ store \in Stores
  /\ rows = <<>>
  /\ nextId = 1
  /\ tip = [p \in Appenders |-> Genesis]
  /\ busy = {}
  /\ written = <<>>
  /\ tampers = 0

LogNext ==
  \/ \E p \in Appenders, d \in Payloads : AppendAtomically(p, d)
  \/ \E p \in Appenders : ReadTip(p)
  \/ \E p \in Appenders, d \in Payloads : Persist(p, d)
  \/ \E p \in Appenders : Abandon(p)
  \/ \E i \in 1..Len(rows), d \in Payloads : Tamper(i, d)

LogSpec == LogInit /\ [][LogNext]_logVars

-----------------------------------------------------------------------------
(* Properties *)

\* The table holds entries built by AuditLogEntry, and only Postgres appends
\* can be half done.
LogTypeOK ==
  /\ store \in Stores
  /\ nextId \in Nat \ {0}
  /\ Len(rows) = Len(written)
  /\ \A i \in 1..Len(rows) : rows[i].id \in 1..(nextId - 1) /\ rows[i].payload \in Payloads
  /\ busy \subseteq Appenders
  /\ store = "postgres" \/ busy = {}
  /\ tampers \in 0..MaxTampers

Altered == {i \in 1..Len(rows) : rows[i] # written[i]}

\* On SQLite verify_chain names exactly the first altered row, and reports an intact
\* chain when no row differs from what was inserted (test_logbook.py; NFR-13).  An edit
\* that restores the old payload is no alteration.
TamperLocated == store = "sqlite" => VerifyChain(rows) = First(Altered)

\* Every row that was not altered recomputes to its own hash and hangs on an
\* earlier row: appends may race, but none hangs on an entry that was never
\* inserted (base.py:60-62).
LinksBack ==
  \A i \in 1..Len(written) :
    /\ written[i].hash = Hash(written[i].id, written[i].prev, written[i].payload)
    /\ \/ written[i].prev = Genesis
       \/ \E j \in 1..(i - 1) : written[j].hash = written[i].prev

\* Appends neither repair nor mask a break: once verify_chain has named a row, it
\* names that row for good, until somebody edits the table again or rows are lost.
AppendsNeverMask ==
  [][tampers' = tampers /\ Len(rows') >= Len(rows) /\ VerifyChain(rows) # Intact
       => VerifyChain(rows') = VerifyChain(rows)]_logVars

\* README.md:56, "Audit completeness | 100%, 0 broken hash links": appends alone
\* never break a link.
AppendsKeepChain == tampers = 0 => VerifyChain(rows) = Intact

=============================================================================
