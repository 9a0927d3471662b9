----------------------------- MODULE LiveFeed -------------------------------
(***************************************************************************)
(* The readers of the audit log (api/main.py): clients of /live, each a    *)
(* coroutine that polls the whole table and sends what it has not sent     *)
(* yet, entry by entry, while appends go on; and what a power failure      *)
(* leaves of the table.  SQLite runs with a write-ahead log and            *)
(* synchronous=NORMAL: the last commits may be gone.                       *)
(***************************************************************************)
EXTENDS Logbook

CONSTANTS
  Clients,    \* websockets
  MaxPolls,   \* bound on the polls of a client, for TLC
  MaxLives    \* bound on the lives of the process, for TLC

ASSUME FeedAssumption == MaxPolls \in Nat /\ MaxLives \in Nat

VARIABLES
  feed,   \* feed[c]: [on, lastSeen, toSend, read, polls] of a client
  sent,   \* history: the entries a client was sent on this connection
  lives   \* history: how often the process was started

feedVars == <<feed, sent, lives>>
allVars == <<logVars, feedVars>>

Off == [on |-> FALSE, lastSeen |-> 0, toSend |-> <<>>, read |-> 0, polls |-> 0]

\* accept
Connect(c) ==
  /\ ~feed[c].on
  /\ feed' = [feed EXCEPT ![c] = [Off EXCEPT !.on = TRUE]]
  /\ sent' = [sent EXCEPT ![c] = <<>>]
  /\ UNCHANGED <<logVars, lives>>

\* read_all, after a sleep.
Poll(c) ==
  /\ feed[c].on
  /\ feed[c].toSend = <<>>
  /\ feed[c].polls < MaxPolls
  /\ feed' = [feed EXCEPT ![c].toSend = SubSeq(rows, feed[c].lastSeen + 1, Len(rows)),
                          ![c].read = Len(rows),
                          ![c].polls = @ + 1]
  /\ UNCHANGED <<logVars, sent, lives>>

\* Mutant: what is there when all has been sent counts as seen.
SendThenCount(c) ==
  /\ feed[c].on
  /\ feed[c].toSend # <<>>
  /\ sent' = [sent EXCEPT ![c] = Append(@, Head(feed[c].toSend))]
  /\ feed' = [feed EXCEPT ![c].toSend = Tail(@),
                          ![c].lastSeen = IF Len(feed[c].toSend) = 1 THEN Len(rows) ELSE @]
  /\ UNCHANGED <<logVars, lives>>

\* send_json of one entry; after the last one, last_seen is what was read.
Send(c) ==
  /\ feed[c].on
  /\ feed[c].toSend # <<>>
  /\ sent' = [sent EXCEPT ![c] = Append(@, Head(feed[c].toSend))]
  /\ feed' = [feed EXCEPT ![c].toSend = Tail(@),
                          ![c].lastSeen = IF Len(feed[c].toSend) = 1 THEN feed[c].read ELSE @]
  /\ UNCHANGED <<logVars, lives>>

\* WebSocketDisconnect, found out by a send.
Disconnect(c) ==
  /\ feed[c].on
  /\ feed' = [feed EXCEPT ![c] = Off]
  /\ UNCHANGED <<logVars, sent, lives>>

\* The power fails, and the process is started again on what the disk has.
PowerFailure ==
  /\ store = "sqlite"
  /\ lives < MaxLives
  /\ \E n \in 0..Len(rows) :
       rows' = SubSeq(rows, 1, n) /\ written' = SubSeq(written, 1, n)
  /\ lives' = lives + 1
  /\ feed' = [c \in Clients |-> Off]
  /\ UNCHANGED <<store, nextId, tip, busy, tampers, sent>>

FeedInit ==
  /\ LogInit
  /\ feed = [c \in Clients |-> Off]
  /\ sent = [c \in Clients |-> <<>>]
  /\ lives = 1

FeedNext ==
  \/ LogNext /\ UNCHANGED feedVars
  \/ \E c \in Clients : Connect(c)
  \/ \E c \in Clients : Poll(c)
  \/ \E c \in Clients : Send(c)
  \/ \E c \in Clients : Disconnect(c)
  \/ PowerFailure

FeedSpec == FeedInit /\ [][FeedNext]_allVars

-----------------------------------------------------------------------------
(* Properties *)

\* Since it connected, a client has been sent the entries of the log from the first
\* on, each once and in order, whatever is appended while it polls and sends; and
\* last_seen counts what it has been sent when there is nothing left to send.
FeedOnce ==
  \A c \in Clients : feed[c].on =>
    /\ Len(sent[c]) <= Len(written)
    /\ \A i \in 1..Len(sent[c]) : sent[c][i].id = written[i].id
    /\ feed[c].toSend = <<>> => feed[c].lastSeen = Len(sent[c])

=============================================================================
