---------------------------- MODULE EventStream ----------------------------
(***************************************************************************)
(* What the Event Stream promises (the EventBus interface of               *)
(* libs/event_bus.py): a topic is one append-only sequence of messages; a  *)
(* consumer group opens a subscription at the current end of it, or where  *)
(* the bus remembers the place where it left off, and is then handed every *)
(* later message, once, in order, at its own pace, whatever the other      *)
(* groups do, until the subscription is sealed.                            *)
(***************************************************************************)
EXTENDS Integers, Sequences

CONSTANTS
  Messages,        \* the messages that may be published
  Subscriptions,   \* identities of subscriptions
  Remembers        \* may a subscription begin before the end of the topic

VARIABLES
  published,   \* every message of the topic, in order
  from,        \* from[s]: how many messages preceded subscription s, or Unopened
  upto,        \* upto[s]: how many had been published when s was sealed, or Open
  delivered    \* delivered[s]: what the readers of s have been handed

esVars == <<published, from, upto, delivered>>

Unopened == -1
Open == -1

\* The number of messages of the topic up to the end of subscription s.
End(s) == IF upto[s] = Open THEN Len(published) ELSE upto[s]

Init ==
  /\ published = <<>>
  /\ from = [s \in Subscriptions |-> Unopened]
  /\ upto = [s \in Subscriptions |-> Open]
  /\ delivered = [s \in Subscriptions |-> <<>>]

PublishMessage(m) ==
  /\ published' = Append(published, m)
  /\ UNCHANGED <<from, upto, delivered>>

OpenSubscription(s) ==
  /\ from[s] = Unopened
  /\ \E place \in 0..Len(published) :
       /\ place = Len(published) \/ Remembers
       /\ from' = [from EXCEPT ![s] = place]
  /\ UNCHANGED <<published, upto, delivered>>

\* The next message of s, and no other, is handed to a reader of s.
Deliver(s) ==
  /\ from[s] # Unopened
  /\ from[s] + Len(delivered[s]) < End(s)
  /\ delivered' = [delivered EXCEPT ![s] =
                     Append(@, published[from[s] + Len(@) + 1])]
  /\ UNCHANGED <<published, from, upto>>

\* Open subscriptions end where the topic ends now.
Seal(S) ==
  /\ upto' = [s \in Subscriptions |->
                IF s \in S /\ from[s] # Unopened /\ upto[s] = Open THEN Len(published) ELSE upto[s]]
  /\ UNCHANGED <<published, from, delivered>>

Next ==
  \/ \E m \in Messages : PublishMessage(m)
  \/ \E s \in Subscriptions : OpenSubscription(s)
  \/ \E s \in Subscriptions : Deliver(s)
  \/ \E S \in SUBSET Subscriptions : Seal(S)

Spec == Init /\ [][Next]_esVars

=============================================================================
