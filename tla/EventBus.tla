------------------------------ MODULE EventBus ------------------------------
(***************************************************************************)
(* InMemoryEventBus of libs/event_bus.py, one topic of it: an asyncio      *)
(* queue per consumer group, registered by the group's first subscribe.    *)
(*                                                                         *)
(* The queues are unbounded, so publish never suspends and fans out to the *)
(* registered groups in one step.  subscribe keeps a reference to the      *)
(* queue object; close only forgets the queues, so a reader that holds one *)
(* can still empty it, but nothing will be added to it any more.           *)
(***************************************************************************)
EXTENDS EventTopic

CONSTANTS
  Subscriptions,   \* identities of queue objects, in order of creation
  NoQueue          \* no queue

ASSUME BusAssumption == NoQueue \notin Subscriptions

VARIABLES
  queue,        \* queue[s]: the contents of queue object s
  registered,   \* registered[g]: the queue _queues has for group g
  holds,        \* holds[r]: the queue r's generator reads from
  published,    \* history: the messages published on the topic
  from,         \* history: how many preceded the creation of a queue
  upto,         \* history: how many had been published when close dropped it
  delivered     \* history: what get handed out of a queue

vars == <<queue, registered, holds, published, from, upto, delivered>>

ES == INSTANCE EventStream WITH
        Messages <- Messages, Subscriptions <- Subscriptions, Remembers <- FALSE,
        published <- published, from <- from, upto <- upto, delivered <- delivered

Known == {registered[g] : g \in Groups} \ {NoQueue}

\* subscribe, up to its first suspension: _queue_for registers the group if it
\* is new, and the generator keeps the queue.
Subscribe(r) ==
  LET g == GroupOf[r] IN
  /\ holds[r] = NoQueue
  /\ IF registered[g] # NoQueue
     THEN /\ holds' = [holds EXCEPT ![r] = registered[g]]
          /\ UNCHANGED <<registered, from>>
     ELSE \E s \in Subscriptions :
            /\ from[s] = ES!Unopened
            /\ registered' = [registered EXCEPT ![g] = s]
            /\ holds' = [holds EXCEPT ![r] = s]
            /\ from' = [from EXCEPT ![s] = Len(published)]
  /\ UNCHANGED <<queue, published, upto, delivered>>

\* Mutant: the first known queue gets the message, the others do not.
PublishOne(m) ==
  /\ Len(published) < MaxPublished
  /\ queue' = [s \in Subscriptions |->
                 IF s \in Known /\ \A t \in Known : s <= t THEN Append(queue[s], m)
                 ELSE queue[s]]
  /\ published' = Append(published, m)
  /\ UNCHANGED <<registered, holds, from, upto, delivered>>

\* publish: one copy into the queue of every known group, none kept for others.
Publish(m) ==
  /\ Len(published) < MaxPublished
  /\ queue' = [s \in Subscriptions |->
                 IF s \in Known THEN Append(queue[s], m) ELSE queue[s]]
  /\ published' = Append(published, m)
  /\ UNCHANGED <<registered, holds, from, upto, delivered>>

\* queue.get returns and the generator yields the value to its reader.
Get(r) ==
  LET s == holds[r] IN
  /\ s # NoQueue
  /\ queue[s] # <<>>
  /\ queue' = [queue EXCEPT ![s] = Tail(@)]
  /\ delivered' = [delivered EXCEPT ![s] = Append(@, Head(queue[s]))]
  /\ UNCHANGED <<registered, holds, published, from, upto>>

\* A reader returns or is cancelled; its group stays registered.
Leave(r) ==
  /\ holds[r] # NoQueue
  /\ holds' = [holds EXCEPT ![r] = NoQueue]
  /\ UNCHANGED <<queue, registered, published, from, upto, delivered>>

\* Mutant: close leaves the queues registered.
CloseKeeps ==
  /\ upto' = [s \in Subscriptions |->
                IF s \in Known THEN Len(published) ELSE upto[s]]
  /\ UNCHANGED <<queue, registered, holds, published, from, delivered>>

\* close: both dictionaries are cleared.
Close ==
  /\ registered' = [g \in Groups |-> NoQueue]
  /\ upto' = [s \in Subscriptions |->
                IF s \in Known THEN Len(published) ELSE upto[s]]
  /\ UNCHANGED <<queue, holds, published, from, delivered>>

Init ==
  /\ queue = [s \in Subscriptions |-> <<>>]
  /\ registered = [g \in Groups |-> NoQueue]
  /\ holds = [r \in Readers |-> NoQueue]
  /\ ES!Init

Next ==
  \/ \E r \in Readers : Subscribe(r)
  \/ \E m \in Messages : Publish(m)
  \/ \E r \in Readers : Get(r)
  \/ \E r \in Readers : Leave(r)
  \/ Close

Spec == Init /\ [][Next]_vars

-----------------------------------------------------------------------------
(* Properties *)

\* Queues hold messages, groups and readers point at queues that were created.
TypeOK ==
  /\ queue \in [Subscriptions -> Seq(Messages)]
  /\ registered \in [Groups -> Subscriptions \cup {NoQueue}]
  /\ holds \in [Readers -> Subscriptions \cup {NoQueue}]
  /\ published \in Seq(Messages)
  /\ from \in [Subscriptions -> Nat \cup {ES!Unopened}]
  /\ upto \in [Subscriptions -> Nat \cup {ES!Open}]
  /\ delivered \in [Subscriptions -> Seq(Messages)]

\* No message is lost, duplicated or reordered between publish and the readers
\* of a group: what a queue has handed out, then what it still holds, is the
\* topic from the group's registration to the close (test_event_bus.py:29-56).
Conservation ==
  \A s \in Subscriptions : from[s] # ES!Unopened =>
    delivered[s] \o queue[s] = SubSeq(published, from[s] + 1, ES!End(s))

\* A message reaches a group through one queue only: two groups never share a
\* queue, and a reader never holds the queue of another group's subscription.
QueuesApart ==
  /\ \A g, h \in Groups : registered[g] = registered[h] /\ g # h => registered[g] = NoQueue
  /\ \A r, p \in Readers :
       holds[r] = holds[p] /\ holds[r] # NoQueue => GroupOf[r] = GroupOf[p]

\* The bus implements the Event Stream.
Stream == ES!Spec

-----------------------------------------------------------------------------
(* Liveness.  Readers that await the bus are resumed by the event loop when *)
(* a message is there; a reader outside Steady may stop reading at any time *)
(* and nothing is assumed of it.                                            *)

CONSTANT Steady

Fairness == \A r \in Steady : WF_vars(Subscribe(r)) /\ WF_vars(Get(r))

\* A group whose reader keeps reading is handed everything published while it is
\* registered, however little the other groups read (event_bus.py:1-6).
SteadyGroupServed ==
  \A s \in Subscriptions : \A n \in 1..MaxPublished :
    (/\ from[s] # ES!Unopened /\ ES!End(s) - from[s] >= n
     /\ \E r \in Steady : holds[r] = s)
      ~> (Len(delivered[s]) >= n \/ ~\E r \in Steady : holds[r] = s)

LiveSpec == Spec /\ Fairness

=============================================================================
