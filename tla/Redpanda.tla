------------------------------ MODULE Redpanda ------------------------------
(***************************************************************************)
(* RedpandaEventBus of libs/event_bus.py over one topic of one partition:  *)
(* the adapter, and as much of the broker and of aiokafka as its calls     *)
(* depend on (auto_offset_reset="latest", enable_auto_commit=True).        *)
(*                                                                         *)
(* A group has one reader at a time; each time the partition is given to   *)
(* one, a session begins, at the offset committed for the group or else at *)
(* the end of the topic.  Offsets are committed now and then, before and   *)
(* after what they stand for has been dealt with, when the partition is    *)
(* taken away and when a consumer stops.  All readers are in one process.  *)
(***************************************************************************)
EXTENDS EventTopic

CONSTANTS
  Consumers,  \* the readers that subscribe here
  Sessions,   \* identities of sessions, in order
  NoReader    \* no reader

ASSUME RedpandaAssumption ==
  /\ Sessions \subseteq Nat
  /\ Consumers \subseteq Readers
  /\ NoReader \notin Readers

VARIABLES
  producer,   \* _producer: "none", "starting", "started"; "dead" if its start raised
  unacked,    \* the messages it has sent without an answer
  topic,      \* the broker: the messages of the partition
  committed,  \* the broker: the offset of a group
  joined,     \* the readers whose consumers have started
  holder,     \* the reader of a group that has the partition
  session,    \* history: the session of a group that is on, or was last
  start,      \* history: the offset a session began at
  ended,      \* history: how long the topic was when a session ended
  handed,     \* history: what a session yielded
  how         \* history: how a session began and how it ended

redpandaVars == <<producer, unacked, topic, committed, joined, holder, session, start, ended, handed, how>>

NoOffset == -1
NoSession == -1

RS == INSTANCE EventStream WITH
        Messages <- Messages, Subscriptions <- Sessions, Remembers <- TRUE,
        published <- topic, from <- start, upto <- ended, delivered <- handed

\* The offset after the last record of session s that was yielded.
Position(s) == start[s] + Len(handed[s])

Active(g) == holder[g] # NoReader

-----------------------------------------------------------------------------
(* Publishing *)

\* _get_producer makes the producer and awaits its start; a publish that finds one
\* does not ask whether it has started, and raises if it has not.
StartProducer ==
  /\ producer = "none"
  /\ producer' = "starting"
  /\ UNCHANGED <<unacked, topic, committed, joined, holder, session, start, ended, handed, how>>

\* The start succeeds, or raises and leaves a producer behind that never works.
ProducerStarts ==
  /\ producer = "starting"
  /\ producer' \in {"started", "dead"}
  /\ UNCHANGED <<unacked, topic, committed, joined, holder, session, start, ended, handed, how>>

\* send_and_wait; the acknowledgement may be lost.
PublishRecord(m) ==
  /\ producer = "started"
  /\ Len(topic) < MaxPublished
  /\ topic' = Append(topic, m)
  /\ unacked' \in {unacked, unacked \cup {m}}
  /\ UNCHANGED <<producer, committed, joined, holder, session, start, ended, handed, how>>

\* The producer sends a message without an acknowledgement again, by itself.
Resend(m) ==
  /\ producer = "started"
  /\ m \in unacked
  /\ Len(topic) < MaxPublished
  /\ topic' = Append(topic, m)
  /\ unacked' = unacked \ {m}
  /\ UNCHANGED <<producer, committed, joined, holder, session, start, ended, handed, how>>

-----------------------------------------------------------------------------
(* Reading *)

\* The partition is taken from these groups, whose consumers commit unless they
\* cannot, and where a process dies do not try.
Release(groups, committing) ==
  LET active == {g \in groups : Active(g)} IN
  /\ committed' = [g \in Groups |-> IF g \in active \cap committing THEN Position(session[g])
                                    ELSE committed[g]]
  /\ holder' = [g \in Groups |-> IF g \in active THEN NoReader ELSE holder[g]]
  /\ ended' = [s \in Sessions |-> IF s \in {session[g] : g \in active} THEN Len(topic) ELSE ended[s]]
  /\ how' = [s \in Sessions |->
               IF s \in {session[g] : g \in active}
               THEN [how[s] EXCEPT !.committed = s \in {session[g] : g \in committing}]
               ELSE how[s]]

\* consumer.start: the group is balanced anew.
JoinGroup(r) ==
  /\ r \notin joined
  /\ joined' = joined \cup {r}
  /\ \E committing \in SUBSET {GroupOf[r]} : Release({GroupOf[r]}, committing)
  /\ UNCHANGED <<producer, unacked, topic, session, start, handed>>

\* Mutant: a session of a group that has committed begins at the end of the topic.
AssignLatest(r) ==
  LET g == GroupOf[r] IN
  /\ r \in joined
  /\ ~Active(g)
  /\ \E s \in Sessions :
       /\ start[s] = RS!Unopened
       /\ \A t \in Sessions : t < s => start[t] # RS!Unopened
       /\ holder' = [holder EXCEPT ![g] = r]
       /\ how' = [how EXCEPT ![s] = [after |-> session[g], resumes |-> committed[g] # NoOffset,
                                     committed |-> FALSE]]
       /\ session' = [session EXCEPT ![g] = s]
       /\ start' = [start EXCEPT ![s] = Len(topic)]
  /\ UNCHANGED <<producer, unacked, topic, committed, joined, ended, handed>>

\* A reader is given the partition, and its position is looked up.
Assign(r) ==
  LET g == GroupOf[r] IN
  /\ r \in joined
  /\ ~Active(g)
  /\ \E s \in Sessions :
       /\ start[s] = RS!Unopened
       /\ \A t \in Sessions : t < s => start[t] # RS!Unopened
       /\ holder' = [holder EXCEPT ![g] = r]
       /\ how' = [how EXCEPT ![s] = [after |-> session[g], resumes |-> committed[g] # NoOffset,
                                     committed |-> FALSE]]
       /\ session' = [session EXCEPT ![g] = s]
       /\ start' = [start EXCEPT ![s] = IF committed[g] # NoOffset THEN committed[g] ELSE Len(topic)]
  /\ UNCHANGED <<producer, unacked, topic, committed, joined, ended, handed>>

\* Mutant: the newest record is yielded next.
YieldNewest(g) ==
  LET s == session[g] IN
  /\ Active(g)
  /\ Position(s) < Len(topic)
  /\ handed' = [handed EXCEPT ![s] = Append(@, topic[Len(topic)])]
  /\ UNCHANGED <<producer, unacked, topic, committed, joined, holder, session, start, ended, how>>

\* The next record is yielded.
Yield(g) ==
  LET s == session[g] IN
  /\ Active(g)
  /\ Position(s) < Len(topic)
  /\ handed' = [handed EXCEPT ![s] = Append(@, topic[Position(s) + 1])]
  /\ UNCHANGED <<producer, unacked, topic, committed, joined, holder, session, start, ended, how>>

\* Every few seconds; the record yielded last may still be in its reader's hands.
AutoCommit(g) ==
  /\ Active(g)
  /\ committed' = [committed EXCEPT ![g] = Position(session[g])]
  /\ UNCHANGED <<producer, unacked, topic, joined, holder, session, start, ended, handed, how>>

\* The generator is closed, and its finally stops the consumer.
StopReading(r) ==
  LET g == GroupOf[r]
      mine == IF holder[g] = r THEN {g} ELSE {} IN
  /\ r \in joined
  /\ joined' = joined \ {r}
  /\ \E committing \in SUBSET mine : Release(mine, committing)
  /\ UNCHANGED <<producer, unacked, topic, session, start, handed>>

\* close: the producer and every consumer stop.  _producer stays set.
CloseBus ==
  /\ producer' = IF producer = "none" THEN "none" ELSE "dead"
  /\ joined' = {}
  /\ unacked' = {}
  /\ \E committing \in SUBSET Groups : Release(Groups, committing)
  /\ UNCHANGED <<topic, session, start, handed>>

\* The process dies and is started again; only the broker remembers.
CrashReaders ==
  /\ producer' = "none"
  /\ joined' = {}
  /\ unacked' = {}
  /\ Release(Groups, {})
  /\ UNCHANGED <<topic, session, start, handed>>

RedpandaInit ==
  /\ producer = "none"
  /\ unacked = {}
  /\ topic = <<>>
  /\ committed = [g \in Groups |-> NoOffset]
  /\ joined = {}
  /\ holder = [g \in Groups |-> NoReader]
  /\ session = [g \in Groups |-> NoSession]
  /\ start = [s \in Sessions |-> RS!Unopened]
  /\ ended = [s \in Sessions |-> RS!Open]
  /\ handed = [s \in Sessions |-> <<>>]
  /\ how = [s \in Sessions |-> [after |-> NoSession, resumes |-> FALSE, committed |-> FALSE]]

RedpandaNext ==
  \/ StartProducer
  \/ ProducerStarts
  \/ \E m \in Messages : PublishRecord(m)
  \/ \E m \in Messages : Resend(m)
  \/ \E r \in Consumers : JoinGroup(r)
  \/ \E r \in Consumers : Assign(r)
  \/ \E g \in Groups : Yield(g)
  \/ \E g \in Groups : AutoCommit(g)
  \/ \E r \in Consumers : StopReading(r)
  \/ CloseBus
  \/ CrashReaders

RedpandaSpec == RedpandaInit /\ [][RedpandaNext]_redpandaVars

-----------------------------------------------------------------------------
(* Properties *)

\* Each session is a subscription of the Event Stream: from where it began it is
\* handed every record of the topic, in order, until it ends.
RedpandaStream == RS!Spec

\* Between sessions of a group nothing is left out as soon as something has been
\* committed for the group: the next one begins where the last one stopped, if that
\* could commit, and no later in any case, so that records come twice but none is
\* missed.  Before the first commit a restart misses what is published meanwhile.
SessionsJoin ==
  \A s \in Sessions : start[s] # RS!Unopened =>
    /\ \A g \in Groups : session[g] = s /\ committed[g] # NoOffset => committed[g] <= Position(s)
    /\ how[s].resumes =>
         LET before == how[s].after IN
         /\ before # NoSession
         /\ start[s] <= Position(before)
         /\ how[before].committed => start[s] = Position(before)
         /\ how[before].resumes => start[s] >= start[before]
    /\ ~how[s].resumes => how[s].after = NoSession \/ ~how[how[s].after].committed

=============================================================================
