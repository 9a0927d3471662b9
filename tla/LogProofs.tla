------------------------------ MODULE LogProofs ------------------------------
(***************************************************************************)
(* The two logs of the system and those who read them: the Event Stream    *)
(* and the audit log.                                                      *)
(***************************************************************************)
EXTENDS EventBackends, LiveFeed, SequenceTheorems, WellFoundedInduction, TLAPS

-----------------------------------------------------------------------------
(* The Event Stream.  InMemoryEventBus and RedpandaEventBus implement         *)
(* EventStream, for any groups, readers and messages.  The refinement        *)
(* mappings are the identity on the histories of the buses; what has to be   *)
(* shown is that the queues deliver the one, and that sessions and what is   *)
(* committed fit the other.                                                  *)

\* d, then q, is the topic pub from f (excluded) to e.
Accounted(pub, f, e, d, q) ==
  /\ f + Len(d) + Len(q) = e
  /\ e <= Len(pub)
  /\ \A i \in 1..Len(d) : d[i] = pub[f + i]
  /\ \A i \in 1..Len(q) : q[i] = pub[f + Len(d) + i]

\* Every created queue accounts for the part of the topic it is responsible for.
QueueInv ==
  \A s \in Subscriptions :
    IF from[s] = ES!Unopened
    THEN upto[s] = ES!Open /\ queue[s] = <<>> /\ delivered[s] = <<>>
    ELSE Accounted(published, from[s], ES!End(s), delivered[s], queue[s])

\* The registered queues are exactly those that were created and not closed.
KnownInv ==
  \A s \in Subscriptions : s \in Known <=> from[s] # ES!Unopened /\ upto[s] = ES!Open

\* Readers hold created queues, and a queue serves one group.
HoldInv ==
  \A r \in Readers : holds[r] # NoQueue =>
    /\ from[holds[r]] # ES!Unopened
    /\ \A g \in Groups : registered[g] = holds[r] => g = GroupOf[r]

IInv == TypeOK /\ QueueInv /\ KnownInv /\ HoldInv /\ QueuesApart

-----------------------------------------------------------------------------
(* Sequences *)

\* The place after the last one waiting is the place after the last one published.
LEMMA NextPlace ==
  ASSUME NEW f \in Nat, NEW l \in Nat, NEW k \in Nat, NEW n \in Nat,
         f + l + k = n
  PROVE  f + l + (k + 1) = n + 1
OBVIOUS

\* A message is published and queued.
LEMMA AccountedQueued ==
  ASSUME NEW M, NEW pub \in Seq(M), NEW d \in Seq(M), NEW q \in Seq(M), NEW m \in M,
         NEW f \in Nat, Accounted(pub, f, Len(pub), d, q)
  PROVE  Accounted(Append(pub, m), f, Len(pub) + 1, d, Append(q, m))
<1> DEFINE pub2 == Append(pub, m)
           q2 == Append(q, m)
<1>1. /\ pub2 \in Seq(M) /\ Len(pub2) = Len(pub) + 1
      /\ \A i \in 1..Len(pub) : pub2[i] = pub[i]
      /\ pub2[Len(pub) + 1] = m
  OBVIOUS
<1>2. /\ q2 \in Seq(M) /\ Len(q2) = Len(q) + 1
      /\ \A i \in 1..Len(q) : q2[i] = q[i]
      /\ q2[Len(q) + 1] = m
  OBVIOUS
<1>3. Len(pub) \in Nat /\ Len(d) \in Nat /\ Len(q) \in Nat
  OBVIOUS
<1> HIDE DEF pub2, q2
<1>. f + Len(d) + Len(q) = Len(pub)
  BY Zenon DEF Accounted
<1>4. f + Len(d) + (Len(q) + 1) = Len(pub) + 1
  BY <1>3, NextPlace
<1>5. f + Len(d) + Len(q2) = Len(pub) + 1 /\ Len(pub) + 1 <= Len(pub2)
  <2>1. Len(q2) = Len(q) + 1 /\ Len(pub2) = Len(pub) + 1
    BY <1>1, <1>2, Zenon
  <2>2. Len(pub) + 1 <= Len(pub) + 1
    BY <1>3
  <2> QED
    BY <1>4, <2>1, <2>2, Zenon
<1>6. ASSUME NEW i \in 1..Len(d) PROVE d[i] = pub2[f + i]
  <2>1. f + i \in 1..Len(pub)
    BY <1>3 DEF Accounted
  <2> QED
    BY <1>1, <2>1 DEF Accounted
<1>7. ASSUME NEW i \in 1..Len(q2) PROVE q2[i] = pub2[f + Len(d) + i]
  <2>1. CASE i \in 1..Len(q)
    <3>1. f + Len(d) + i \in 1..Len(pub)
      BY <1>3, <2>1 DEF Accounted
    <3> QED
      BY <1>1, <1>2, <2>1, <3>1 DEF Accounted
  <2>2. CASE i = Len(q) + 1
    <3>1. f + Len(d) + i = Len(pub) + 1
      BY <1>4, <2>2, Zenon
    <3> QED
      BY <1>1, <1>2, <2>2, <3>1
  <2> QED
    BY <1>2, <1>3, <2>1, <2>2
<1> QED
  BY <1>5, <1>6, <1>7 DEF Accounted, pub2, q2

\* A message is published after the queue was dropped by close.
LEMMA AccountedSealed ==
  ASSUME NEW M, NEW pub \in Seq(M), NEW d \in Seq(M), NEW q \in Seq(M), NEW m \in M,
         NEW f \in Nat, NEW e \in Nat, Accounted(pub, f, e, d, q)
  PROVE  Accounted(Append(pub, m), f, e, d, q)
<1> DEFINE pub2 == Append(pub, m)
<1>1. /\ Len(pub2) = Len(pub) + 1
      /\ \A i \in 1..Len(pub) : pub2[i] = pub[i]
  OBVIOUS
<1>2. Len(pub) \in Nat /\ Len(d) \in Nat /\ Len(q) \in Nat
  OBVIOUS
<1> HIDE DEF pub2
<1>3. \A i \in 1..Len(d) : f + i \in 1..Len(pub)
  BY <1>2 DEF Accounted
<1>4. \A i \in 1..Len(q) : f + Len(d) + i \in 1..Len(pub)
  BY <1>2 DEF Accounted
<1>5. Accounted(pub2, f, e, d, q)
  BY <1>1, <1>2, <1>3, <1>4 DEF Accounted
<1> QED
  BY <1>5 DEF pub2

\* The head of the queue is the message the group is due.
LEMMA AccountedHanded ==
  ASSUME NEW M, NEW pub \in Seq(M), NEW d \in Seq(M), NEW q \in Seq(M),
         NEW f \in Nat, NEW e \in Nat, Accounted(pub, f, e, d, q), q # <<>>
  PROVE  /\ f + Len(d) < e
         /\ Head(q) = pub[f + Len(d) + 1]
         /\ Accounted(pub, f, e, Append(d, Head(q)), Tail(q))
<1> DEFINE d2 == Append(d, Head(q))
           q2 == Tail(q)
<1>1. /\ Len(q) \in Nat /\ Len(q) # 0 /\ Len(d) \in Nat /\ Len(pub) \in Nat
      /\ Head(q) = q[1] /\ Head(q) \in M
  OBVIOUS
<1>2. /\ Len(q2) = Len(q) - 1
      /\ \A i \in 1..Len(q2) : q2[i] = q[i + 1]
  BY <1>1
<1>3. /\ Len(d2) = Len(d) + 1
      /\ \A i \in 1..Len(d) : d2[i] = d[i]
      /\ d2[Len(d) + 1] = q[1]
  BY <1>1
<1> HIDE DEF d2, q2
<1>4. q[1] = pub[f + Len(d) + 1] /\ f + Len(d) < e
  BY <1>1 DEF Accounted
<1>5. f + Len(d2) + Len(q2) = e /\ e <= Len(pub)
  <2>1. f + Len(d) + Len(q) = e /\ e <= Len(pub)
    BY Zenon DEF Accounted
  <2>2. Len(d2) = Len(d) + 1 /\ Len(q2) = Len(q) - 1
    BY <1>2, <1>3
  <2>3. Len(d) \in Int /\ Len(q) \in Int /\ f \in Int
    BY <1>1
  <2>4. f + (Len(d) + 1) + (Len(q) - 1) = f + Len(d) + Len(q)
    BY <2>3
  <2> QED
    BY <2>1, <2>2, <2>4
<1>6. ASSUME NEW i \in 1..Len(d2) PROVE d2[i] = pub[f + i]
  <2>1. CASE i = Len(d) + 1
    <3>1. f + i = f + Len(d) + 1
      BY <1>1, <2>1
    <3> QED
      BY <1>3, <1>4, <2>1, <3>1
  <2>2. CASE i \in 1..Len(d)
    BY <1>3, <2>2 DEF Accounted
  <2> QED
    BY <1>1, <1>3, <2>1, <2>2
<1>7. ASSUME NEW i \in 1..Len(q2) PROVE q2[i] = pub[f + Len(d2) + i]
  <2>1. i + 1 \in 1..Len(q) /\ f + Len(d) + (i + 1) = f + Len(d2) + i
    BY <1>1, <1>2, <1>3
  <2> QED
    BY <1>2, <2>1 DEF Accounted
<1>8. Accounted(pub, f, e, d2, q2)
  BY <1>5, <1>6, <1>7 DEF Accounted
<1> QED
  BY <1>1, <1>4, <1>8 DEF d2, q2

-----------------------------------------------------------------------------
(* Each action keeps the invariant and is a step of EventStream, or none.  *)

esv == <<published, from, upto, delivered>>

LEMMA TypeFacts ==
  ASSUME TypeOK, NEW s \in Subscriptions
  PROVE  /\ queue[s] \in Seq(Messages) /\ delivered[s] \in Seq(Messages)
         /\ published \in Seq(Messages) /\ Len(published) \in Nat
         /\ from[s] \in Nat \cup {ES!Unopened}
         /\ upto[s] \in Nat \cup {ES!Open}
         /\ NoQueue \notin Subscriptions
BY BusAssumption, TopicAssumption DEF TypeOK

LEMMA InitIInv == Init => IInv
<1> SUFFICES ASSUME Init PROVE IInv
  OBVIOUS
<1>1. /\ queue = [s \in Subscriptions |-> <<>>]
      /\ registered = [g \in Groups |-> NoQueue]
      /\ holds = [r \in Readers |-> NoQueue]
      /\ published = <<>>
      /\ from = [s \in Subscriptions |-> ES!Unopened]
      /\ upto = [s \in Subscriptions |-> ES!Open]
      /\ delivered = [s \in Subscriptions |-> <<>>]
  BY DEF Init, ES!Init
<1>2. TypeOK
  BY <1>1 DEF TypeOK
<1>3. QueueInv /\ HoldInv /\ QueuesApart
  BY <1>1 DEF QueueInv, HoldInv, QueuesApart
<1>4. KnownInv
  BY <1>1 DEF KnownInv, Known
<1> QED
  BY <1>2, <1>3, <1>4 DEF IInv

\* The first reader of a group creates its queue at the end of the topic.
LEMMA SubscribeStep ==
  ASSUME IInv, NEW r \in Readers, Subscribe(r)
  PROVE  IInv' /\ [ES!Next]_esv
<1> DEFINE g == GroupOf[r]
<1>0. g \in Groups /\ NoQueue \notin Subscriptions /\ holds[r] = NoQueue
      /\ UNCHANGED <<queue, published, upto, delivered>>
  BY BusAssumption, TopicAssumption DEF Subscribe
<1>1. CASE registered[g] # NoQueue
  <2>1. holds' = [holds EXCEPT ![r] = registered[g]] /\ UNCHANGED <<registered, from>>
    BY <1>1 DEF Subscribe
  <2>2. registered[g] \in Known /\ registered[g] \in Subscriptions
    BY <1>0, <1>1 DEF Known, IInv, TypeOK
  <2>3. holds'[r] = registered[g] /\ \A p \in Readers : p # r => holds'[p] = holds[p]
    BY <2>1 DEF IInv, TypeOK
  <2>4. TypeOK'
    BY <1>0, <2>1, <2>2 DEF IInv, TypeOK
  <2>5. QueueInv' /\ KnownInv'
    BY <1>0, <2>1 DEF IInv, QueueInv, KnownInv, Known, ES!End
  <2>6. from[registered[g]] # ES!Unopened
    BY <2>2 DEF IInv, KnownInv
  <2>7. \A h \in Groups : registered[h] = registered[g] => h = g
    BY <1>0, <1>1 DEF IInv, QueuesApart
  <2>8. HoldInv'
    BY <2>1, <2>3, <2>6, <2>7 DEF IInv, HoldInv
  <2>9. \A p \in Readers : holds[p] = registered[g] => GroupOf[p] = g
    BY <1>0, <1>1 DEF IInv, HoldInv
  <2>10. QueuesApart'
    BY <2>1, <2>3, <2>9 DEF IInv, QueuesApart
  <2> QED
    BY <1>0, <2>1, <2>4, <2>5, <2>8, <2>10 DEF IInv, esv
<1>2. CASE registered[g] = NoQueue
  <2>1. PICK s \in Subscriptions :
          /\ from[s] = ES!Unopened
          /\ registered' = [registered EXCEPT ![g] = s]
          /\ holds' = [holds EXCEPT ![r] = s]
          /\ from' = [from EXCEPT ![s] = Len(published)]
    BY <1>2 DEF Subscribe
  <2>2. /\ holds'[r] = s /\ \A p \in Readers : p # r => holds'[p] = holds[p]
        /\ registered'[g] = s /\ \A h \in Groups : h # g => registered'[h] = registered[h]
        /\ from'[s] = Len(published)
        /\ \A u \in Subscriptions : u # s => from'[u] = from[u]
    BY <1>0, <2>1 DEF IInv, TypeOK
  <2>3. Len(published) \in Nat /\ Len(published) # ES!Unopened
    BY DEF IInv, TypeOK, ES!Unopened
  <2>4. s \notin Known /\ upto[s] = ES!Open /\ queue[s] = <<>> /\ delivered[s] = <<>>
    BY <2>1 DEF IInv, KnownInv, QueueInv
  <2>5. TypeOK'
    BY <1>0, <2>1, <2>3 DEF IInv, TypeOK
  <2>6. QueueInv'
    <3> SUFFICES ASSUME NEW u \in Subscriptions
                 PROVE  IF from'[u] = ES!Unopened
                        THEN upto[u] = ES!Open /\ queue[u] = <<>> /\ delivered[u] = <<>>
                        ELSE Accounted(published, from'[u], ES!End(u), delivered[u], queue[u])
      BY <1>0 DEF QueueInv, ES!End
    <3>1. CASE u = s
      <4>1. ES!End(s) = Len(published)
        BY <2>4 DEF ES!End
      <4>2. Accounted(published, Len(published), Len(published), <<>>, <<>>)
        BY <2>3 DEF Accounted
      <4> QED
        BY <2>2, <2>3, <2>4, <3>1, <4>1, <4>2
    <3>2. CASE u # s
      BY <2>2, <3>2 DEF IInv, QueueInv
    <3> QED
      BY <3>1, <3>2
  <2>7. Known' = Known \cup {s}
    BY <1>0, <1>2, <2>1, <2>2 DEF Known
  <2>8. KnownInv'
    BY <1>0, <2>2, <2>3, <2>4, <2>7 DEF IInv, KnownInv
  <2>9. \A h \in Groups : registered[h] # s
    BY <1>0, <2>4 DEF Known
  <2>10. \A p \in Readers : holds[p] # s
    BY <1>0, <2>1 DEF IInv, HoldInv
  <2>11. HoldInv'
    <3> SUFFICES ASSUME NEW p \in Readers, holds'[p] # NoQueue
                 PROVE  /\ from'[holds'[p]] # ES!Unopened
                        /\ \A h \in Groups : registered'[h] = holds'[p] => h = GroupOf[p]
      BY DEF HoldInv
    <3>1. CASE p = r
      BY <2>2, <2>3, <2>9, <3>1
    <3>2. CASE p # r
      <4>1. holds'[p] = holds[p] /\ holds[p] # s /\ holds[p] \in Subscriptions
        BY <2>2, <2>10, <3>2 DEF IInv, TypeOK
      <4> QED
        BY <2>2, <4>1 DEF IInv, HoldInv
    <3> QED
      BY <3>1, <3>2
  <2>12. QueuesApart'
    BY <2>2, <2>9, <2>10 DEF IInv, QueuesApart
  <2>13. ES!OpenSubscription(s)
    <3>1. Len(published) \in 0..Len(published)
      BY DEF IInv, TypeOK
    <3> QED
      BY <1>0, <2>1, <3>1 DEF ES!OpenSubscription
  <2> QED
    BY <2>5, <2>6, <2>8, <2>11, <2>12, <2>13 DEF IInv, ES!Next
<1> QED
  BY <1>1, <1>2

\* A publish adds the message to the topic and to every open queue.
LEMMA PublishStep ==
  ASSUME IInv, NEW m \in Messages, Publish(m)
  PROVE  IInv' /\ [ES!Next]_esv
<1>1. /\ Len(published) < MaxPublished
      /\ queue' = [s \in Subscriptions |->
                     IF s \in Known THEN Append(queue[s], m) ELSE queue[s]]
      /\ published' = Append(published, m)
      /\ UNCHANGED <<registered, holds, from, upto, delivered>>
  BY DEF Publish
<1>2. published' \in Seq(Messages) /\ Len(published') = Len(published) + 1
  BY <1>1 DEF IInv, TypeOK
<1>3. TypeOK'
  <2>1. \A s \in Subscriptions : queue'[s] \in Seq(Messages)
    BY <1>1 DEF IInv, TypeOK
  <2>2. queue' \in [Subscriptions -> Seq(Messages)]
    BY <1>1, <2>1
  <2> QED
    BY <1>1, <1>2, <2>2 DEF IInv, TypeOK
<1>4. QueueInv'
  <2> SUFFICES ASSUME NEW s \in Subscriptions
               PROVE  IF from[s] = ES!Unopened
                      THEN upto[s] = ES!Open /\ queue'[s] = <<>> /\ delivered[s] = <<>>
                      ELSE Accounted(published', from[s], ES!End(s)', delivered[s], queue'[s])
    BY <1>1 DEF QueueInv
  <2> USE TypeFacts DEF IInv
  <2>1. CASE from[s] = ES!Unopened
    BY <1>1, <2>1 DEF QueueInv, KnownInv
  <2>2. CASE from[s] # ES!Unopened /\ upto[s] = ES!Open
    <3>1. s \in Known /\ queue'[s] = Append(queue[s], m)
      BY <1>1, <2>2 DEF KnownInv
    <3>2. ES!End(s) = Len(published) /\ ES!End(s)' = Len(published) + 1
      BY <1>1, <1>2, <2>2 DEF ES!End
    <3>3. Accounted(published, from[s], Len(published), delivered[s], queue[s])
      BY <2>2, <3>2 DEF QueueInv
    <3>4. from[s] \in Nat
      BY <2>2
    <3> QED
      BY <1>1, <2>2, <3>1, <3>2, <3>3, <3>4, AccountedQueued
  <2>3. CASE from[s] # ES!Unopened /\ upto[s] # ES!Open
    <3>1. s \notin Known /\ queue'[s] = queue[s]
      BY <1>1, <2>3 DEF KnownInv
    <3>2. ES!End(s) = upto[s] /\ ES!End(s)' = upto[s]
      BY <1>1, <2>3 DEF ES!End
    <3>3. Accounted(published, from[s], upto[s], delivered[s], queue[s])
      BY <2>3, <3>2 DEF QueueInv
    <3>4. from[s] \in Nat /\ upto[s] \in Nat
      BY <2>3
    <3> QED
      BY <1>1, <2>3, <3>1, <3>2, <3>3, <3>4, AccountedSealed
  <2> QED
    BY <2>1, <2>2, <2>3
<1>5. KnownInv' /\ HoldInv' /\ QueuesApart'
  BY <1>1 DEF IInv, KnownInv, Known, HoldInv, QueuesApart
<1>6. ES!PublishMessage(m)
  BY <1>1 DEF ES!PublishMessage
<1> QED
  BY <1>3, <1>4, <1>5, <1>6 DEF IInv, ES!Next

\* The head of a queue is the next message its group is due.
LEMMA GetStep ==
  ASSUME IInv, NEW r \in Readers, Get(r)
  PROVE  IInv' /\ [ES!Next]_esv
<1> DEFINE s == holds[r]
<1>1. /\ s # NoQueue /\ queue[s] # <<>>
      /\ queue' = [queue EXCEPT ![s] = Tail(queue[s])]
      /\ delivered' = [delivered EXCEPT ![s] = Append(delivered[s], Head(queue[s]))]
      /\ UNCHANGED <<registered, holds, published, from, upto>>
  BY DEF Get
<1>2. s \in Subscriptions /\ from[s] # ES!Unopened
  BY <1>1 DEF IInv, TypeOK, HoldInv
<1> HIDE DEF s
<1>3. /\ queue[s] \in Seq(Messages) /\ delivered[s] \in Seq(Messages)
      /\ published \in Seq(Messages) /\ from[s] \in Nat /\ Len(published) \in Nat
  BY <1>2, TypeFacts DEF IInv
<1>4. ES!End(s) \in Nat
  BY <1>2, <1>3, TypeFacts DEF IInv, ES!End
<1>5. Accounted(published, from[s], ES!End(s), delivered[s], queue[s])
  BY <1>2 DEF IInv, QueueInv
<1>6. /\ from[s] + Len(delivered[s]) < ES!End(s)
      /\ Head(queue[s]) = published[from[s] + Len(delivered[s]) + 1]
      /\ Accounted(published, from[s], ES!End(s),
                   Append(delivered[s], Head(queue[s])), Tail(queue[s]))
  BY <1>1, <1>3, <1>4, <1>5, AccountedHanded
<1>7. Tail(queue[s]) \in Seq(Messages) /\ Head(queue[s]) \in Messages
  BY <1>1, <1>3
<1>8. /\ queue'[s] = Tail(queue[s])
      /\ delivered'[s] = Append(delivered[s], Head(queue[s]))
      /\ \A u \in Subscriptions : u # s => queue'[u] = queue[u] /\ delivered'[u] = delivered[u]
  BY <1>1, <1>2 DEF IInv, TypeOK
<1>9. TypeOK'
  <2>1. Append(delivered[s], Head(queue[s])) \in Seq(Messages)
    BY <1>3, <1>7
  <2> QED
    BY <1>1, <1>2, <1>7, <2>1 DEF IInv, TypeOK
<1>10. QueueInv'
  <2> SUFFICES ASSUME NEW u \in Subscriptions
               PROVE  IF from[u] = ES!Unopened
                      THEN upto[u] = ES!Open /\ queue'[u] = <<>> /\ delivered'[u] = <<>>
                      ELSE Accounted(published, from[u], ES!End(u), delivered'[u], queue'[u])
    BY <1>1 DEF QueueInv, ES!End
  <2>1. CASE u = s
    BY <1>2, <1>6, <1>8, <2>1
  <2>2. CASE u # s
    BY <1>8, <2>2 DEF IInv, QueueInv
  <2> QED
    BY <2>1, <2>2
<1>11. KnownInv' /\ HoldInv' /\ QueuesApart'
  BY <1>1 DEF IInv, KnownInv, Known, HoldInv, QueuesApart
<1>12. ES!Deliver(s)
  BY <1>1, <1>2, <1>6 DEF ES!Deliver
<1> QED
  BY <1>2, <1>9, <1>10, <1>11, <1>12 DEF IInv, ES!Next

\* close seals exactly the open subscriptions.
LEMMA CloseStep ==
  ASSUME IInv, Close
  PROVE  IInv' /\ [ES!Next]_esv
<1>1. /\ registered' = [g \in Groups |-> NoQueue]
      /\ upto' = [s \in Subscriptions |-> IF s \in Known THEN Len(published) ELSE upto[s]]
      /\ UNCHANGED <<queue, holds, published, from, delivered>>
  BY DEF Close
<1>2. Len(published) \in Nat /\ Len(published) # ES!Open
  BY DEF IInv, TypeOK, ES!Open
<1>3. TypeOK'
  BY <1>1, <1>2 DEF IInv, TypeOK
<1>4. QueueInv'
  <2> SUFFICES ASSUME NEW s \in Subscriptions
               PROVE  IF from[s] = ES!Unopened
                      THEN upto'[s] = ES!Open /\ queue[s] = <<>> /\ delivered[s] = <<>>
                      ELSE Accounted(published, from[s], ES!End(s)', delivered[s], queue[s])
    BY <1>1 DEF QueueInv
  <2>1. CASE from[s] = ES!Unopened
    BY <1>1, <2>1 DEF IInv, QueueInv, KnownInv
  <2>2. CASE from[s] # ES!Unopened
    <3>1. ES!End(s)' = ES!End(s)
      BY <1>1, <1>2, <2>2 DEF IInv, KnownInv, ES!End
    <3> QED
      BY <2>2, <3>1 DEF IInv, QueueInv
  <2> QED
    BY <2>1, <2>2
<1>5. KnownInv'
  <2>1. Known' = {}
    BY <1>1 DEF Known
  <2> QED
    BY <1>1, <1>2, <2>1 DEF IInv, KnownInv
<1>6. HoldInv' /\ QueuesApart'
  BY <1>1 DEF IInv, HoldInv, QueuesApart
<1>7. ES!Seal(Subscriptions)
  BY <1>1 DEF IInv, KnownInv, ES!Seal
<1> QED
  BY <1>3, <1>4, <1>5, <1>6, <1>7 DEF IInv, ES!Next

LEMMA NextStep == IInv /\ [Next]_vars => IInv' /\ [ES!Next]_esv
<1> SUFFICES ASSUME IInv, [Next]_vars PROVE IInv' /\ [ES!Next]_esv
  OBVIOUS
<1>1. CASE \E r \in Readers : Subscribe(r)
  BY <1>1, SubscribeStep
<1>2. CASE \E m \in Messages : Publish(m)
  BY <1>2, PublishStep
<1>3. CASE \E r \in Readers : Get(r)
  BY <1>3, GetStep
<1>4. ASSUME NEW r \in Readers, Leave(r)
      PROVE  IInv' /\ [ES!Next]_esv
  <2>1. /\ holds' = [holds EXCEPT ![r] = NoQueue]
        /\ UNCHANGED <<queue, registered, published, from, upto, delivered>>
    BY <1>4 DEF Leave
  <2>2. holds'[r] = NoQueue /\ \A p \in Readers : p # r => holds'[p] = holds[p]
    BY <2>1 DEF IInv, TypeOK
  <2>3. TypeOK'
    BY <2>1 DEF IInv, TypeOK
  <2>4. QueueInv' /\ KnownInv' /\ HoldInv' /\ QueuesApart'
    BY <2>1, <2>2 DEF IInv, QueueInv, KnownInv, Known, HoldInv, QueuesApart, ES!End
  <2> QED
    BY <2>1, <2>3, <2>4 DEF IInv, esv
<1>5. CASE Close
  BY <1>5, CloseStep
<1>6. CASE UNCHANGED vars
  BY <1>6 DEF vars, esv, IInv, TypeOK, QueueInv, KnownInv, Known, HoldInv, QueuesApart, ES!End
<1> QED
  BY <1>1, <1>2, <1>3, <1>4, <1>5, <1>6 DEF Next

-----------------------------------------------------------------------------
(* RedpandaEventBus.  A session of a group is handed the topic from where  *)
(* it began; what is committed for a group is a place its current session  *)
(* has reached, and where that session ended, if it could commit then.     *)

HowRecord == [after : Sessions \cup {NoSession}, resumes : BOOLEAN, committed : BOOLEAN]

BrokerTypeOK ==
  /\ unacked \subseteq Messages
  /\ topic \in Seq(Messages)
  /\ committed \in [Groups -> Nat \cup {NoOffset}]
  /\ joined \subseteq Consumers
  /\ holder \in [Groups -> Readers \cup {NoReader}]
  /\ session \in [Groups -> Sessions \cup {NoSession}]
  /\ start \in [Sessions -> Nat \cup {RS!Unopened}]
  /\ ended \in [Sessions -> Nat \cup {RS!Open}]
  /\ handed \in [Sessions -> Seq(Messages)]
  /\ how \in [Sessions -> HowRecord]

\* Groups have sessions of their own, which have begun, and have not ended while the
\* group has a reader.
SessionInv ==
  \A g \in Groups :
    /\ session[g] # NoSession => start[session[g]] # RS!Unopened
    /\ Active(g) => session[g] # NoSession /\ ended[session[g]] = RS!Open
    /\ \A h \in Groups : session[g] = session[h] /\ session[g] # NoSession => g = h

\* A session is nowhere beyond the end of the topic.
ReachInv ==
  \A s \in Sessions :
    IF start[s] = RS!Unopened THEN handed[s] = <<>> /\ ended[s] = RS!Open
    ELSE Position(s) <= Len(topic)

\* What is committed for a group.
CommitInv ==
  \A g \in Groups :
    /\ committed[g] # NoOffset =>
         /\ session[g] # NoSession
         /\ committed[g] <= Position(session[g])
         /\ how[session[g]].resumes => committed[g] >= start[session[g]]
    /\ session[g] # NoSession /\ how[session[g]].committed =>
         ~Active(g) /\ committed[g] = Position(session[g])

\* A session that was followed by another is nobody's any more.
PastInv ==
  \A s \in Sessions : start[s] # RS!Unopened /\ how[s].after # NoSession =>
    /\ start[how[s].after] # RS!Unopened
    /\ \A g \in Groups : session[g] # how[s].after

BrokerInv ==
  BrokerTypeOK /\ SessionInv /\ ReachInv /\ CommitInv /\ PastInv /\ SessionsJoin

LEMMA HowFields ==
  ASSUME NEW a \in Sessions \cup {NoSession}, NEW b \in BOOLEAN,
         NEW n, n = [after |-> a, resumes |-> b, committed |-> FALSE]
  PROVE  n \in HowRecord /\ n.after = a /\ n.resumes = b /\ n.committed = FALSE
<1>1. ASSUME NEW c
      PROVE  [after |-> a, resumes |-> b, committed |-> c].committed = c
  OBVIOUS
<1>2. n.committed = FALSE
  BY <1>1, Zenon
<1> QED
  BY <1>2 DEF HowRecord

LEMMA HowChanged ==
  ASSUME NEW n \in HowRecord, NEW c \in BOOLEAN, NEW m, m = [n EXCEPT !.committed = c]
  PROVE  m \in HowRecord /\ m.after = n.after /\ m.resumes = n.resumes /\ m.committed = c
BY DEF HowRecord

LEMMA PositionType ==
  ASSUME BrokerTypeOK, NEW s \in Sessions
  PROVE  /\ Len(handed[s]) \in Nat /\ Len(topic) \in Nat
         /\ start[s] # RS!Unopened =>
              start[s] \in Nat /\ Position(s) \in Nat /\ Position(s) # NoOffset
                /\ start[s] <= Position(s)
<1>1. handed[s] \in Seq(Messages) /\ topic \in Seq(Messages)
      /\ start[s] \in Nat \cup {RS!Unopened}
  BY DEF BrokerTypeOK
<1>2. Len(handed[s]) \in Nat /\ Len(topic) \in Nat
  BY <1>1
<1> QED
  BY <1>1, <1>2 DEF Position, NoOffset

LEMMA SessionType ==
  ASSUME BrokerTypeOK, NEW g \in Groups, session[g] # NoSession
  PROVE  session[g] \in Sessions
BY DEF BrokerTypeOK

\* The sessions that end when the partition is taken from some groups.
Ending(G) == {session[g] : g \in {h \in G : Active(h)}}

\* The partition is taken from the groups G, and those of C commit: what becomes of a
\* group that loses it, and that nothing else changes.
LEMMA ReleaseFacts ==
  ASSUME BrokerTypeOK, SessionInv, NEW G \in SUBSET Groups, NEW C \in SUBSET Groups,
         Release(G, C)
  PROVE  /\ \A g \in Groups : g \in G /\ Active(g) =>
              /\ holder'[g] = NoReader
              /\ committed'[g] = IF g \in C THEN Position(session[g]) ELSE committed[g]
              /\ how'[session[g]].committed <=> g \in C
         /\ \A g \in Groups : ~(g \in G /\ Active(g)) =>
              /\ holder'[g] = holder[g] /\ committed'[g] = committed[g]
              /\ session[g] # NoSession =>
                   /\ ended'[session[g]] = ended[session[g]]
                   /\ how'[session[g]] = how[session[g]]
         /\ \A s \in Sessions : s \notin Ending(G) => how'[s] = how[s]
         /\ \A s \in Sessions :
              how'[s].after = how[s].after /\ how'[s].resumes = how[s].resumes
         /\ ended' = [s \in Sessions |-> IF s \in Ending(G) THEN Len(topic) ELSE ended[s]]
         /\ holder' \in [Groups -> Readers \cup {NoReader}]
         /\ committed' \in [Groups -> Nat \cup {NoOffset}]
         /\ ended' \in [Sessions -> Nat \cup {RS!Open}]
         /\ how' \in [Sessions -> HowRecord]
         /\ Ending(G) \subseteq Sessions
<1> DEFINE active == {g \in G : Active(g)}
           by(s) == s \in {session[g] : g \in C}
<1>1. /\ committed' = [g \in Groups |-> IF g \in active \cap C THEN Position(session[g])
                                        ELSE committed[g]]
      /\ holder' = [g \in Groups |-> IF g \in active THEN NoReader ELSE holder[g]]
      /\ ended' = [s \in Sessions |-> IF s \in Ending(G) THEN Len(topic) ELSE ended[s]]
      /\ how' = [s \in Sessions |-> IF s \in Ending(G)
                                    THEN [how[s] EXCEPT !.committed = by(s)] ELSE how[s]]
  BY DEF Release, Ending
<1>2. \A s \in Sessions : by(s) \in BOOLEAN
  OBVIOUS
<1>3. \A g \in Groups : Active(g) =>
        /\ session[g] \in Sessions /\ session[g] # NoSession
        /\ Position(session[g]) \in Nat
  BY SessionType, PositionType DEF SessionInv
<1>4. Ending(G) \subseteq Sessions
  BY <1>3 DEF Ending
<1>5. \A g \in Groups : session[g] # NoSession =>
        /\ session[g] \in Ending(G) <=> g \in active
        /\ by(session[g]) <=> g \in C
  BY DEF SessionInv, Ending
<1>6. \A s \in Sessions :
        /\ how'[s] \in HowRecord
        /\ how'[s].after = how[s].after /\ how'[s].resumes = how[s].resumes
        /\ s \in Ending(G) => how'[s].committed = by(s)
        /\ s \notin Ending(G) => how'[s] = how[s]
  <2> SUFFICES ASSUME NEW s \in Sessions
               PROVE  /\ how'[s] \in HowRecord
                      /\ how'[s].after = how[s].after /\ how'[s].resumes = how[s].resumes
                      /\ s \in Ending(G) => how'[s].committed = by(s)
                      /\ s \notin Ending(G) => how'[s] = how[s]
    OBVIOUS
  <2>1. how[s] \in HowRecord
    BY DEF BrokerTypeOK
  <2>2. how'[s] = IF s \in Ending(G) THEN [how[s] EXCEPT !.committed = by(s)] ELSE how[s]
    BY <1>1, Zenon
  <2> HIDE DEF by
  <2>3. CASE s \in Ending(G)
    <3>1. how'[s] = [how[s] EXCEPT !.committed = by(s)]
      BY <2>2, <2>3, Zenon
    <3>2. by(s) \in BOOLEAN
      BY <1>2
    <3> QED
      BY <2>1, <2>3, <3>1, <3>2, HowChanged, Zenon
  <2>4. CASE s \notin Ending(G)
    BY <2>1, <2>2, <2>4, Zenon
  <2> QED
    BY <2>3, <2>4
<1> HIDE DEF by
<1>7. how' \in [Sessions -> HowRecord]
  <2>1. how' = [s \in Sessions |-> how'[s]]
    BY <1>1, Zenon
  <2> QED
    BY <1>6, <2>1, Zenon
<1>8. /\ holder' \in [Groups -> Readers \cup {NoReader}]
      /\ committed' \in [Groups -> Nat \cup {NoOffset}]
      /\ ended' \in [Sessions -> Nat \cup {RS!Open}]
  <2>1. Len(topic) \in Nat
    BY DEF BrokerTypeOK
  <2>2. \A g \in Groups : committed'[g] \in Nat \cup {NoOffset}
    BY <1>1, <1>3 DEF BrokerTypeOK
  <2>3. \A g \in Groups : holder'[g] \in Readers \cup {NoReader}
    BY <1>1 DEF BrokerTypeOK
  <2>4. \A s \in Sessions : ended'[s] \in Nat \cup {RS!Open}
    BY <1>1, <2>1 DEF BrokerTypeOK
  <2> QED
    BY <1>1, <2>2, <2>3, <2>4
<1>9. ASSUME NEW g \in Groups, g \in G /\ Active(g)
      PROVE  /\ holder'[g] = NoReader
             /\ committed'[g] = IF g \in C THEN Position(session[g]) ELSE committed[g]
             /\ how'[session[g]].committed <=> g \in C
  <2>1. holder'[g] = NoReader
        /\ committed'[g] = IF g \in C THEN Position(session[g]) ELSE committed[g]
    BY <1>1, <1>9
  <2>2. session[g] \in Sessions /\ session[g] \in Ending(G) /\ (by(session[g]) <=> g \in C)
    BY <1>3, <1>5, <1>9
  <2>3. how'[session[g]].committed = by(session[g])
    BY <1>6, <2>2, Zenon
  <2>4. how'[session[g]].committed <=> g \in C
    BY <2>2, <2>3, Zenon
  <2> QED
    BY <2>1, <2>4, Zenon
<1>10. ASSUME NEW g \in Groups, ~(g \in G /\ Active(g))
       PROVE  /\ holder'[g] = holder[g] /\ committed'[g] = committed[g]
              /\ session[g] # NoSession =>
                   /\ ended'[session[g]] = ended[session[g]]
                   /\ how'[session[g]] = how[session[g]]
  <2>1. holder'[g] = holder[g] /\ committed'[g] = committed[g]
    BY <1>1, <1>10
  <2>2. ASSUME session[g] # NoSession
        PROVE  session[g] \in Sessions /\ session[g] \notin Ending(G)
    BY <1>5, <1>10, <2>2, SessionType
  <2> QED
    BY <1>1, <1>6, <2>1, <2>2
<1> QED
  BY <1>1, <1>4, <1>6, <1>7, <1>8, <1>9, <1>10

rsv == <<topic, start, ended, handed>>

\* Taking the partition away keeps the invariant, and seals the sessions that end.
LEMMA ReleaseStep ==
  ASSUME BrokerInv, NEW G \in SUBSET Groups, NEW C \in SUBSET Groups, Release(G, C),
         unacked' \subseteq Messages, joined' \subseteq Consumers,
         UNCHANGED <<topic, session, start, handed>>
  PROVE  BrokerInv' /\ [RS!Next]_rsv
<1>1. BrokerTypeOK /\ SessionInv /\ ReachInv /\ CommitInv /\ PastInv /\ SessionsJoin
  BY DEF BrokerInv
<1>2. /\ \A g \in Groups : g \in G /\ Active(g) =>
              /\ holder'[g] = NoReader
              /\ committed'[g] = IF g \in C THEN Position(session[g]) ELSE committed[g]
              /\ how'[session[g]].committed <=> g \in C
      /\ \A g \in Groups : ~(g \in G /\ Active(g)) =>
              /\ holder'[g] = holder[g] /\ committed'[g] = committed[g]
              /\ session[g] # NoSession =>
                   /\ ended'[session[g]] = ended[session[g]]
                   /\ how'[session[g]] = how[session[g]]
  BY <1>1, ReleaseFacts, Zenon
<1>3. /\ \A s \in Sessions : s \notin Ending(G) => how'[s] = how[s]
      /\ \A s \in Sessions :
           how'[s].after = how[s].after /\ how'[s].resumes = how[s].resumes
      /\ ended' = [s \in Sessions |-> IF s \in Ending(G) THEN Len(topic) ELSE ended[s]]
      /\ Ending(G) \subseteq Sessions
  BY <1>1, ReleaseFacts, Zenon
<1>4. /\ holder' \in [Groups -> Readers \cup {NoReader}]
      /\ committed' \in [Groups -> Nat \cup {NoOffset}]
      /\ ended' \in [Sessions -> Nat \cup {RS!Open}]
      /\ how' \in [Sessions -> HowRecord]
  BY <1>1, ReleaseFacts, Zenon
<1>5. topic' = topic /\ session' = session /\ start' = start /\ handed' = handed
  OBVIOUS
<1>6. BrokerTypeOK'
  BY <1>1, <1>4, <1>5 DEF BrokerTypeOK
<1>7. SessionInv'
  <2>1. \A g \in Groups : Active(g)' => Active(g) /\ ~(g \in G)
    BY <1>2 DEF Active
  <2> QED
    BY <1>1, <1>2, <1>5, <2>1 DEF SessionInv
<1>8. ReachInv'
  <2>1. \A s \in Sessions : start[s] = RS!Unopened => ended'[s] = ended[s]
    BY <1>1, <1>3 DEF SessionInv, Ending
  <2> QED
    BY <1>1, <1>5, <2>1 DEF ReachInv, Position
<1>9. \A s \in Sessions : Position(s)' = Position(s)
  BY <1>5 DEF Position
<1>10. CommitInv'
  <2> SUFFICES ASSUME NEW g \in Groups
               PROVE  /\ committed'[g] # NoOffset =>
                           /\ session[g] # NoSession
                           /\ committed'[g] <= Position(session[g])
                           /\ how'[session[g]].resumes => committed'[g] >= start[session[g]]
                      /\ session[g] # NoSession /\ how'[session[g]].committed =>
                           ~Active(g)' /\ committed'[g] = Position(session[g])
    BY <1>5 DEF CommitInv, Position
  <2>1. CASE g \in G /\ Active(g)
    <3>1. session[g] # NoSession /\ session[g] \in Sessions
          /\ start[session[g]] # RS!Unopened
      BY <1>1, <2>1, SessionType DEF SessionInv
    <3>2. /\ start[session[g]] \in Nat /\ Position(session[g]) \in Nat
          /\ start[session[g]] <= Position(session[g])
      BY <1>1, <3>1, PositionType
    <3>3. ~Active(g)'
      BY <1>2, <2>1 DEF Active
    <3>4. CASE g \in C
      <4>1. committed'[g] = Position(session[g])
        BY <1>2, <2>1, <3>4
      <4> QED
        BY <3>1, <3>2, <3>3, <4>1
    <3>5. CASE g \notin C
      <4>1. committed'[g] = committed[g] /\ ~how'[session[g]].committed
        BY <1>2, <2>1, <3>5, Zenon
      <4>2. how'[session[g]].resumes = how[session[g]].resumes
        BY <1>3, <3>1
      <4> QED
        BY <1>1, <3>1, <4>1, <4>2 DEF CommitInv
    <3> QED
      BY <3>4, <3>5
  <2>2. CASE ~(g \in G /\ Active(g))
    <3>1. /\ committed'[g] = committed[g] /\ (Active(g)' <=> Active(g))
          /\ session[g] # NoSession => how'[session[g]] = how[session[g]]
      BY <1>2, <2>2 DEF Active
    <3>2. /\ committed[g] # NoOffset =>
               /\ session[g] # NoSession
               /\ committed[g] <= Position(session[g])
               /\ how[session[g]].resumes => committed[g] >= start[session[g]]
          /\ session[g] # NoSession /\ how[session[g]].committed =>
               ~Active(g) /\ committed[g] = Position(session[g])
      BY <1>1 DEF CommitInv
    <3>3. session[g] # NoSession =>
            /\ how'[session[g]].resumes <=> how[session[g]].resumes
            /\ how'[session[g]].committed <=> how[session[g]].committed
      BY <3>1, Zenon
    <3> QED
      BY <3>1, <3>2, <3>3
  <2> QED
    BY <2>1, <2>2
<1>11. PastInv'
  BY <1>1, <1>3, <1>5 DEF PastInv
<1>12. SessionsJoin'
  <2> SUFFICES ASSUME NEW s \in Sessions, start[s] # RS!Unopened
               PROVE  /\ \A g \in Groups : session[g] = s /\ committed'[g] # NoOffset
                           => committed'[g] <= Position(s)
                      /\ how'[s].resumes =>
                           /\ how'[s].after # NoSession
                           /\ start[s] <= Position(how'[s].after)
                           /\ how'[how'[s].after].committed
                                => start[s] = Position(how'[s].after)
                           /\ how'[how'[s].after].resumes => start[s] >= start[how'[s].after]
                      /\ ~how'[s].resumes => \/ how'[s].after = NoSession
                                             \/ ~how'[how'[s].after].committed
    BY <1>5 DEF SessionsJoin, Position
  <2>1. \A g \in Groups : session[g] = s /\ committed'[g] # NoOffset
          => committed'[g] <= Position(s)
    BY <1>5, <1>10 DEF CommitInv, Position
  <2>2. how'[s].after = how[s].after /\ how'[s].resumes = how[s].resumes
    BY <1>3
  <2>3. ASSUME how[s].after # NoSession
        PROVE  how'[how[s].after] = how[how[s].after]
    <3>1. how[s].after \in Sessions
      BY <1>1, <2>3 DEF BrokerTypeOK, HowRecord
    <3>2. how[s].after \notin Ending(G)
      BY <1>1, <2>3 DEF PastInv, Ending
    <3> QED
      BY <1>3, <3>1, <3>2
  <2> QED
    BY <1>1, <2>1, <2>2, <2>3 DEF SessionsJoin
<1>13. RS!Seal(Ending(G))
  <2>1. \A s \in Sessions : s \in Ending(G) => start[s] # RS!Unopened /\ ended[s] = RS!Open
    BY <1>1 DEF SessionInv, Ending
  <2>2. ended' = [s \in Sessions |->
                    IF s \in Ending(G) /\ start[s] # RS!Unopened /\ ended[s] = RS!Open
                    THEN Len(topic) ELSE ended[s]]
    BY <1>3, <2>1
  <2> QED
    BY <1>5, <2>2 DEF RS!Seal
<1>14. RS!Next
  BY <1>3, <1>13 DEF RS!Next
<1> QED
  BY <1>6, <1>7, <1>8, <1>10, <1>11, <1>12, <1>14 DEF BrokerInv

\* A record is published, or sent again.
LEMMA RecordStep ==
  ASSUME BrokerInv, NEW m \in Messages, topic' = Append(topic, m),
         unacked' \subseteq Messages,
         UNCHANGED <<committed, joined, holder, session, start, ended, handed, how>>
  PROVE  BrokerInv' /\ [RS!Next]_rsv
<1>1. /\ topic' \in Seq(Messages) /\ Len(topic') = Len(topic) + 1 /\ Len(topic) \in Nat
  BY DEF BrokerInv, BrokerTypeOK
<1>2. BrokerTypeOK'
  BY <1>1 DEF BrokerInv, BrokerTypeOK
<1>3. ReachInv'
  <2> SUFFICES ASSUME NEW s \in Sessions
               PROVE  IF start[s] = RS!Unopened
                      THEN handed[s] = <<>> /\ ended[s] = RS!Open
                      ELSE Position(s) <= Len(topic')
    BY DEF ReachInv, Position
  <2>1. start[s] # RS!Unopened => Position(s) \in Nat
    BY PositionType DEF BrokerInv
  <2>2. IF start[s] = RS!Unopened THEN handed[s] = <<>> /\ ended[s] = RS!Open
        ELSE Position(s) <= Len(topic)
    BY DEF BrokerInv, ReachInv
  <2>3. ASSUME start[s] # RS!Unopened
        PROVE  Position(s) <= Len(topic')
    <3>1. Position(s) \in Nat /\ Position(s) <= Len(topic)
      BY <2>1, <2>2, <2>3
    <3> HIDE DEF Position
    <3> QED
      BY <1>1, <3>1
  <2> QED
    BY <2>2, <2>3
<1>4. SessionInv' /\ CommitInv' /\ PastInv' /\ SessionsJoin'
  BY DEF BrokerInv, SessionInv, CommitInv, PastInv, SessionsJoin, Active, Position
<1>5. RS!PublishMessage(m)
  BY DEF RS!PublishMessage
<1> QED
  BY <1>2, <1>3, <1>4, <1>5 DEF BrokerInv, RS!Next

\* A session begins, at the place committed for the group or at the end of the topic:
\* the former is a place of the topic that the session before has reached.
LEMMA AssignStep ==
  ASSUME BrokerInv, NEW r \in Consumers, Assign(r)
  PROVE  BrokerInv' /\ [RS!Next]_rsv
<1>1. BrokerTypeOK /\ SessionInv /\ ReachInv /\ CommitInv /\ PastInv /\ SessionsJoin
  BY DEF BrokerInv
<1>2. PICK g \in Groups : g = GroupOf[r]
  BY TopicAssumption, RedpandaAssumption
<1>3. PICK s \in Sessions :
       /\ start[s] = RS!Unopened
       /\ holder' = [holder EXCEPT ![g] = r]
       /\ how' = [how EXCEPT ![s] = [after |-> session[g], resumes |-> committed[g] # NoOffset,
                                     committed |-> FALSE]]
       /\ session' = [session EXCEPT ![g] = s]
       /\ start' = [start EXCEPT ![s] = IF committed[g] # NoOffset THEN committed[g] ELSE Len(topic)]
  BY <1>2 DEF Assign
<1>4. /\ ~Active(g) /\ UNCHANGED <<producer, unacked, topic, committed, joined, ended, handed>>
  BY <1>2 DEF Assign
<1>5. /\ Len(topic) \in Nat /\ topic' = topic /\ handed' = handed /\ committed' = committed
      /\ ended' = ended /\ joined' = joined /\ unacked' = unacked
      /\ r \in Readers /\ r # NoReader /\ NoSession \notin Sessions
  BY <1>1, <1>4, RedpandaAssumption DEF BrokerTypeOK, NoSession
<1> DEFINE place == IF committed[g] # NoOffset THEN committed[g] ELSE Len(topic)
           a == session[g]
<1>6. /\ session'[g] = s /\ \A h \in Groups : h # g => session'[h] = session[h]
      /\ holder'[g] = r /\ \A h \in Groups : h # g => holder'[h] = holder[h]
      /\ start'[s] = place /\ \A t \in Sessions : t # s => start'[t] = start[t]
  BY <1>1, <1>3 DEF BrokerTypeOK
<1>7. /\ how'[s] \in HowRecord /\ how'[s].after = a /\ how'[s].committed = FALSE
      /\ how'[s].resumes = (committed[g] # NoOffset)
      /\ \A t \in Sessions : t # s => how'[t] = how[t]
      /\ how' \in [Sessions -> HowRecord]
  <2> DEFINE known == committed[g] # NoOffset
  <2>1. how' = [how EXCEPT ![s] = [after |-> a, resumes |-> known, committed |-> FALSE]]
    BY <1>3, Zenon
  <2>2. a \in Sessions \cup {NoSession} /\ known \in BOOLEAN
    BY <1>1 DEF BrokerTypeOK
  <2> HIDE DEF known
  <2>3. PICK n : n = [after |-> a, resumes |-> known, committed |-> FALSE]
    OBVIOUS
  <2>4. /\ n \in HowRecord /\ n.after = a /\ n.committed = FALSE /\ n.resumes = known
        /\ how' = [how EXCEPT ![s] = n]
    <3>1. n \in HowRecord /\ n.after = a /\ n.resumes = known /\ n.committed = FALSE
      BY <2>2, <2>3, HowFields, Zenon
    <3>2. how' = [how EXCEPT ![s] = n]
      BY <2>1, <2>3, Zenon
    <3> QED
      BY <3>1, <3>2, Zenon
  <2>5. how \in [Sessions -> HowRecord]
    BY <1>1 DEF BrokerTypeOK
  <2>6. how'[s] = n /\ (\A t \in Sessions : t # s => how'[t] = how[t])
        /\ how' \in [Sessions -> HowRecord]
    BY <2>4, <2>5
  <2> QED
    BY <2>4, <2>6, Zenon DEF known
<1>8. \A h \in Groups : session[h] # s
  BY <1>1, <1>3, <1>5 DEF SessionInv
<1>9. place \in 0..Len(topic)
  <2>1. CASE committed[g] # NoOffset
    <3>1. a # NoSession /\ committed[g] <= Position(a) /\ committed[g] \in Nat
      BY <1>1, <2>1 DEF CommitInv, BrokerTypeOK
    <3>2. a \in Sessions /\ start[a] # RS!Unopened
      BY <1>1, <3>1, SessionType DEF SessionInv
    <3>3. Position(a) \in Nat /\ Position(a) <= Len(topic)
      BY <1>1, <3>2, PositionType DEF ReachInv
    <3> HIDE DEF a
    <3> QED
      BY <1>5, <2>1, <3>1, <3>3
  <2>2. CASE committed[g] = NoOffset
    BY <1>5, <2>2
  <2> QED
    BY <2>1, <2>2
<1>10. place \in Nat /\ place # RS!Unopened
  BY <1>5, <1>9 DEF RS!Unopened
<1>11. handed[s] = <<>> /\ Len(handed[s]) = 0
  <2>1. handed[s] = <<>>
    BY <1>1, <1>3 DEF ReachInv
  <2> QED
    BY <2>1
<1>12. Position(s)' = place /\ \A t \in Sessions : t # s => Position(t)' = Position(t)
  <2>1. Position(s)' = place
    BY <1>5, <1>6, <1>10, <1>11 DEF Position
  <2> QED
    BY <1>5, <1>6, <2>1 DEF Position
<1> HIDE DEF place
<1>13. BrokerTypeOK'
  <2>1. start' \in [Sessions -> Nat \cup {RS!Unopened}]
    BY <1>1, <1>3, <1>10 DEF BrokerTypeOK, place
  <2> QED
    BY <1>1, <1>3, <1>5, <1>7, <2>1 DEF BrokerTypeOK
<1>14. SessionInv'
  <2> SUFFICES ASSUME NEW h \in Groups
               PROVE  /\ session'[h] # NoSession => start'[session'[h]] # RS!Unopened
                      /\ Active(h)' => session'[h] # NoSession /\ ended[session'[h]] = RS!Open
                      /\ \A k \in Groups :
                           session'[h] = session'[k] /\ session'[h] # NoSession => h = k
    BY <1>5 DEF SessionInv
  <2>1. CASE h = g
    <3>1. ended[s] = RS!Open
      BY <1>1, <1>3 DEF ReachInv
    <3> QED
      BY <1>5, <1>6, <1>8, <1>10, <2>1, <3>1
  <2>2. CASE h # g
    <3>1. session'[h] = session[h] /\ (Active(h)' <=> Active(h)) /\ session[h] # s
      BY <1>6, <1>8, <2>2 DEF Active
    <3>2. session[h] # NoSession => start'[session[h]] = start[session[h]]
      BY <1>1, <1>6, <3>1, SessionType
    <3> QED
      BY <1>1, <1>6, <1>8, <2>2, <3>1, <3>2 DEF SessionInv
  <2> QED
    BY <2>1, <2>2
<1>15. ReachInv'
  <2>1. place <= Len(topic)
    BY <1>5, <1>9
  <2> QED
    BY <1>1, <1>5, <1>6, <1>10, <1>12, <2>1 DEF ReachInv
<1>16. CommitInv'
  <2> SUFFICES ASSUME NEW h \in Groups, NEW b, b = session'[h]
               PROVE  /\ committed[h] # NoOffset =>
                           /\ b # NoSession
                           /\ committed[h] <= Position(b)'
                           /\ how'[b].resumes => committed[h] >= start'[b]
                      /\ b # NoSession /\ how'[b].committed =>
                           ~Active(h)' /\ committed[h] = Position(b)'
    BY <1>5 DEF CommitInv, Position
  <2>1. CASE h = g
    <3>1. b = s /\ s # NoSession
      BY <1>5, <1>6, <2>1
    <3>2. Position(b)' = place /\ start'[b] = place
      BY <1>6, <1>12, <3>1
    <3>3. committed[h] # NoOffset => place = committed[h] /\ place \in Nat
      BY <1>10, <2>1 DEF place
    <3>4. ~how'[b].committed
      BY <1>7, <3>1
    <3> QED
      BY <3>1, <3>2, <3>3, <3>4
  <2>2. CASE h # g
    <3>1. b = session[h] /\ (Active(h)' <=> Active(h)) /\ b # s
      BY <1>6, <1>8, <2>2 DEF Active
    <3>2. b # NoSession => b \in Sessions
      BY <1>1, <3>1, SessionType
    <3>3. b # NoSession =>
            start'[b] = start[b] /\ how'[b] = how[b] /\ Position(b)' = Position(b)
      BY <1>6, <1>7, <1>12, <3>1, <3>2
    <3>4. /\ committed[h] # NoOffset =>
               /\ b # NoSession
               /\ committed[h] <= Position(b)
               /\ how[b].resumes => committed[h] >= start[b]
          /\ b # NoSession /\ how[b].committed => ~Active(h) /\ committed[h] = Position(b)
      BY <1>1, <3>1 DEF CommitInv
    <3>5. CASE b = NoSession
      BY <3>4, <3>5, Zenon
    <3>6. CASE b # NoSession
      BY <3>1, <3>3, <3>4, <3>6, Zenon
    <3> QED
      BY <3>5, <3>6
  <2> QED
    BY <2>1, <2>2
<1>17. a # NoSession => a \in Sessions /\ a # s /\ start[a] # RS!Unopened
  BY <1>1, <1>8, SessionType DEF SessionInv
<1>18. PastInv'
  <2> SUFFICES ASSUME NEW t \in Sessions, start'[t] # RS!Unopened, how'[t].after # NoSession
               PROVE  /\ start'[how'[t].after] # RS!Unopened
                      /\ \A h \in Groups : session'[h] # how'[t].after
    BY DEF PastInv
  <2>1. CASE t = s
    <3>1. how'[t].after = a /\ a # NoSession
      BY <1>7, <2>1
    <3>2. \A h \in Groups : h # g => session[h] # a
      BY <1>1, <3>1 DEF SessionInv
    <3> QED
      BY <1>6, <1>17, <3>1, <3>2
  <2>2. CASE t # s
    <3>1. how'[t] = how[t] /\ start[t] # RS!Unopened
      BY <1>6, <1>7, <2>2
    <3>2. /\ start[how[t].after] # RS!Unopened
          /\ \A h \in Groups : session[h] # how[t].after
      BY <1>1, <3>1 DEF PastInv
    <3>3. how[t].after \in Sessions /\ how[t].after # s
      BY <1>1, <1>3, <3>1, <3>2 DEF BrokerTypeOK, HowRecord
    <3> QED
      BY <1>6, <3>1, <3>2, <3>3
  <2> QED
    BY <2>1, <2>2
<1>19. SessionsJoin'
  <2> SUFFICES ASSUME NEW t \in Sessions, start'[t] # RS!Unopened, NEW b, b = how'[t].after
               PROVE  /\ \A h \in Groups : session'[h] = t /\ committed[h] # NoOffset
                           => committed[h] <= Position(t)'
                      /\ how'[t].resumes =>
                           /\ b # NoSession
                           /\ start'[t] <= Position(b)'
                           /\ how'[b].committed => start'[t] = Position(b)'
                           /\ how'[b].resumes => start'[t] >= start'[b]
                      /\ ~how'[t].resumes => b = NoSession \/ ~how'[b].committed
    BY <1>5 DEF SessionsJoin, Position
  <2>1. \A h \in Groups : session'[h] = t /\ committed[h] # NoOffset
          => committed[h] <= Position(t)'
    BY <1>5, <1>16 DEF CommitInv, Position
  <2>2. CASE t = s
    <3>1. b = a /\ how'[t].resumes = (committed[g] # NoOffset)
      BY <1>7, <2>2
    <3>2. b # NoSession =>
            /\ Position(b)' = Position(b) /\ how'[b] = how[b] /\ start'[b] = start[b]
            /\ Position(b) \in Nat /\ Position(b) # NoOffset
      BY <1>1, <1>5, <1>6, <1>7, <1>17, <3>1, PositionType DEF Position
    <3>3. CASE committed[g] # NoOffset
      <4>1. b # NoSession /\ committed[g] <= Position(b)
            /\ (how[b].resumes => committed[g] >= start[b])
            /\ (how[b].committed => committed[g] = Position(b))
        BY <1>1, <3>1, <3>3 DEF CommitInv
      <4>2. start'[t] = committed[g]
        BY <1>6, <2>2, <3>3 DEF place
      <4> QED
        BY <2>1, <3>1, <3>2, <3>3, <4>1, <4>2
    <3>4. CASE committed[g] = NoOffset
      <4>1. b # NoSession => ~how[b].committed
        BY <1>1, <3>1, <3>2, <3>4 DEF CommitInv
      <4> QED
        BY <2>1, <3>1, <3>2, <3>4, <4>1
    <3> QED
      BY <3>3, <3>4
  <2>3. CASE t # s
    <3>1. how'[t] = how[t] /\ start'[t] = start[t] /\ b = how[t].after
      BY <1>6, <1>7, <2>3
    <3>2. b # NoSession => b \in Sessions /\ b # s
      BY <1>1, <1>3, <3>1 DEF PastInv, BrokerTypeOK, HowRecord
    <3>3. b # NoSession =>
            Position(b)' = Position(b) /\ how'[b] = how[b] /\ start'[b] = start[b]
      BY <1>5, <1>6, <1>7, <3>2 DEF Position
    <3> QED
      BY <1>1, <2>1, <3>1, <3>3 DEF SessionsJoin
  <2> QED
    BY <2>2, <2>3
<1>20. RS!OpenSubscription(s)
  <2>1. start' = [start EXCEPT ![s] = place]
    BY <1>3 DEF place
  <2> QED
    BY <1>3, <1>5, <1>9, <2>1 DEF RS!OpenSubscription
<1> QED
  BY <1>13, <1>14, <1>15, <1>16, <1>18, <1>19, <1>20 DEF BrokerInv, RS!Next

\* A session is handed the record at its place.
LEMMA YieldStep ==
  ASSUME BrokerInv, NEW g \in Groups, Yield(g)
  PROVE  BrokerInv' /\ [RS!Next]_rsv
<1>1. BrokerTypeOK /\ SessionInv /\ ReachInv /\ CommitInv /\ PastInv /\ SessionsJoin
  BY DEF BrokerInv
<1>2. PICK s : s = session[g]
  OBVIOUS
<1>3. /\ Active(g) /\ Position(s) < Len(topic)
      /\ handed' = [handed EXCEPT ![s] = Append(handed[s], topic[Position(s) + 1])]
      /\ UNCHANGED <<producer, unacked, topic, committed, joined, holder, session, start,
                     ended, how>>
  BY <1>2 DEF Yield
<1>4. s # NoSession /\ s \in Sessions /\ start[s] # RS!Unopened /\ ended[s] = RS!Open
  BY <1>1, <1>2, <1>3, SessionType DEF SessionInv
<1>5. /\ Len(handed[s]) \in Nat /\ Len(topic) \in Nat /\ start[s] \in Nat
      /\ Position(s) \in Nat /\ Position(s) = start[s] + Len(handed[s])
  BY <1>1, <1>4, PositionType DEF Position
<1>6. topic[Position(s) + 1] \in Messages
  <2>1. Position(s) + 1 \in 1..Len(topic)
    BY <1>3, <1>5
  <2> HIDE DEF Position
  <2> QED
    BY <1>1, <2>1 DEF BrokerTypeOK
<1>7. /\ handed'[s] \in Seq(Messages) /\ Len(handed'[s]) = Len(handed[s]) + 1
      /\ \A t \in Sessions : t # s => handed'[t] = handed[t]
      /\ handed' \in [Sessions -> Seq(Messages)]
  <2>1. PICK m \in Messages : m = topic[Position(s) + 1]
    BY <1>6
  <2>2. Append(handed[s], m) \in Seq(Messages) /\ Len(Append(handed[s], m)) = Len(handed[s]) + 1
    BY <1>1, <1>4 DEF BrokerTypeOK
  <2>3. handed' = [handed EXCEPT ![s] = Append(handed[s], m)]
    BY <1>3, <2>1
  <2> QED
    BY <1>1, <1>4, <2>2, <2>3 DEF BrokerTypeOK
<1>8. /\ Position(s)' = Position(s) + 1
      /\ \A t \in Sessions : t # s => Position(t)' = Position(t)
  <2>1. Position(s)' = start[s] + (Len(handed[s]) + 1)
    BY <1>3, <1>7 DEF Position
  <2>2. start[s] + (Len(handed[s]) + 1) = start[s] + Len(handed[s]) + 1
    BY <1>5
  <2> QED
    BY <1>3, <1>5, <1>7, <2>1, <2>2 DEF Position
<1>9. BrokerTypeOK'
  BY <1>1, <1>3, <1>7 DEF BrokerTypeOK
<1>10. SessionInv'
  BY <1>1, <1>3 DEF SessionInv, Active
<1>11. ReachInv'
  <2>1. Position(s) + 1 <= Len(topic)
    BY <1>3, <1>5
  <2> QED
    BY <1>1, <1>3, <1>4, <1>7, <1>8, <2>1 DEF ReachInv
<1>12. \A h \in Groups : h # g => session[h] # s
  BY <1>1, <1>2, <1>4 DEF SessionInv
<1>13. ~how[s].committed
  BY <1>1, <1>2, <1>3, <1>4 DEF CommitInv
<1>14. CommitInv'
  <2> SUFFICES ASSUME NEW h \in Groups
               PROVE  /\ committed[h] # NoOffset =>
                           /\ session[h] # NoSession
                           /\ committed[h] <= Position(session[h])'
                           /\ how[session[h]].resumes => committed[h] >= start[session[h]]
                      /\ session[h] # NoSession /\ how[session[h]].committed =>
                           ~Active(h) /\ committed[h] = Position(session[h])'
    BY <1>3 DEF CommitInv, Active, Position
  <2>1. CASE h = g
    <3>1. committed[h] # NoOffset => committed[h] \in Nat /\ committed[h] <= Position(s)
      BY <1>1, <1>2, <2>1 DEF CommitInv, BrokerTypeOK
    <3>2. committed[h] # NoOffset => committed[h] <= Position(s)'
      BY <1>5, <1>8, <3>1
    <3>3. Position(session[h])' = Position(s)'
      BY <1>2, <1>3, <2>1 DEF Position
    <3> QED
      BY <1>1, <1>2, <1>4, <1>13, <2>1, <3>2, <3>3 DEF CommitInv
  <2>2. CASE h # g
    <3>1. session[h] # NoSession => Position(session[h])' = Position(session[h])
      BY <1>1, <1>3, <1>7, <1>12, <2>2, SessionType DEF Position
    <3> QED
      BY <1>1, <3>1 DEF CommitInv
  <2> QED
    BY <2>1, <2>2
<1>15. PastInv'
  BY <1>1, <1>3 DEF PastInv
<1>16. SessionsJoin'
  <2> SUFFICES ASSUME NEW t \in Sessions, start[t] # RS!Unopened, NEW b, b = how[t].after
               PROVE  /\ \A h \in Groups : session[h] = t /\ committed[h] # NoOffset
                           => committed[h] <= Position(t)'
                      /\ how[t].resumes =>
                           /\ b # NoSession
                           /\ start[t] <= Position(b)'
                           /\ how[b].committed => start[t] = Position(b)'
                           /\ how[b].resumes => start[t] >= start[b]
                      /\ ~how[t].resumes => b = NoSession \/ ~how[b].committed
    BY <1>3 DEF SessionsJoin, Position
  <2>1. \A h \in Groups : session[h] = t /\ committed[h] # NoOffset
          => committed[h] <= Position(t)'
    BY <1>3, <1>14 DEF CommitInv, Position
  <2>2. b # NoSession => b \in Sessions /\ b # s
    BY <1>1, <1>2 DEF PastInv, BrokerTypeOK, HowRecord
  <2>3. b # NoSession => Position(b)' = Position(b)
    BY <1>3, <1>7, <2>2 DEF Position
  <2> QED
    BY <1>1, <2>1, <2>3 DEF SessionsJoin
<1>17. RS!Deliver(s)
  <2>1. RS!End(s) = Len(topic)
    BY <1>4 DEF RS!End
  <2>2. start[s] + Len(handed[s]) < RS!End(s)
    BY <1>3, <1>5, <2>1
  <2>3. handed' = [handed EXCEPT ![s] = Append(handed[s], topic[start[s] + Len(handed[s]) + 1])]
    BY <1>3, <1>5
  <2> QED
    BY <1>3, <1>4, <2>2, <2>3 DEF RS!Deliver
<1> QED
  BY <1>4, <1>9, <1>10, <1>11, <1>14, <1>15, <1>16, <1>17 DEF BrokerInv, RS!Next

\* What the readers have been handed is committed.
LEMMA CommitStep ==
  ASSUME BrokerInv, NEW g \in Groups, AutoCommit(g)
  PROVE  BrokerInv' /\ UNCHANGED rsv
<1>1. BrokerTypeOK /\ SessionInv /\ ReachInv /\ CommitInv /\ PastInv /\ SessionsJoin
  BY DEF BrokerInv
<1>2. /\ Active(g) /\ committed' = [committed EXCEPT ![g] = Position(session[g])]
      /\ UNCHANGED <<producer, unacked, topic, joined, holder, session, start, ended, handed,
                     how>>
  BY DEF AutoCommit
<1>3. session[g] # NoSession /\ session[g] \in Sessions /\ start[session[g]] # RS!Unopened
  BY <1>1, <1>2, SessionType DEF SessionInv
<1>4. /\ Position(session[g]) \in Nat /\ start[session[g]] \in Nat
      /\ start[session[g]] <= Position(session[g])
  BY <1>1, <1>3, PositionType
<1> HIDE DEF Position
<1>5. /\ committed'[g] = Position(session[g])
      /\ \A h \in Groups : h # g => committed'[h] = committed[h]
      /\ committed' \in [Groups -> Nat \cup {NoOffset}]
  BY <1>1, <1>2, <1>4 DEF BrokerTypeOK
<1>6. \A s : Position(s)' = Position(s)
  BY <1>2 DEF Position
<1>7. BrokerTypeOK' /\ SessionInv' /\ ReachInv' /\ PastInv'
  BY <1>1, <1>2, <1>5, <1>6 DEF BrokerTypeOK, SessionInv, Active, ReachInv, PastInv
<1>8. ~how[session[g]].committed
  BY <1>1, <1>2, <1>3 DEF CommitInv
<1>9. \A h \in Groups :
        /\ committed'[h] # NoOffset =>
             /\ session[h] # NoSession
             /\ committed'[h] <= Position(session[h])
             /\ how[session[h]].resumes => committed'[h] >= start[session[h]]
        /\ session[h] # NoSession /\ how[session[h]].committed =>
             ~Active(h) /\ committed'[h] = Position(session[h])
  <2> SUFFICES ASSUME NEW h \in Groups
               PROVE  /\ committed'[h] # NoOffset =>
                           /\ session[h] # NoSession
                           /\ committed'[h] <= Position(session[h])
                           /\ how[session[h]].resumes => committed'[h] >= start[session[h]]
                      /\ session[h] # NoSession /\ how[session[h]].committed =>
                           ~Active(h) /\ committed'[h] = Position(session[h])
    OBVIOUS
  <2>1. CASE h = g
    BY <1>3, <1>4, <1>5, <1>8, <2>1
  <2>2. CASE h # g
    BY <1>1, <1>5, <2>2 DEF CommitInv
  <2> QED
    BY <2>1, <2>2
<1>10. CommitInv'
  BY <1>2, <1>9 DEF CommitInv, Active, Position
<1>11. SessionsJoin'
  <2>1. \A s \in Sessions : \A h \in Groups :
          session[h] = s /\ committed'[h] # NoOffset => committed'[h] <= Position(s)
    BY <1>9
  <2> QED
    BY <1>1, <1>2, <1>6, <2>1 DEF SessionsJoin
<1> QED
  BY <1>2, <1>7, <1>10, <1>11 DEF BrokerInv, rsv

LEMMA InitBroker == RedpandaInit => BrokerInv /\ RS!Init
<1> SUFFICES ASSUME RedpandaInit PROVE BrokerInv /\ RS!Init
  OBVIOUS
<1>1. /\ unacked = {} /\ topic = <<>> /\ joined = {}
      /\ committed = [g \in Groups |-> NoOffset]
      /\ holder = [g \in Groups |-> NoReader]
      /\ session = [g \in Groups |-> NoSession]
      /\ start = [s \in Sessions |-> RS!Unopened]
      /\ ended = [s \in Sessions |-> RS!Open]
      /\ handed = [s \in Sessions |-> <<>>]
  BY DEF RedpandaInit
<1>2. how \in [Sessions -> HowRecord]
  <2>1. PICK n : n = [after |-> NoSession, resumes |-> FALSE, committed |-> FALSE]
    OBVIOUS
  <2>2. n \in HowRecord
    BY <2>1, HowFields, Zenon
  <2>3. how = [s \in Sessions |-> n]
    BY <2>1, Zenon DEF RedpandaInit
  <2> QED
    BY <2>2, <2>3
<1>3. BrokerTypeOK
  BY <1>1, <1>2 DEF BrokerTypeOK
<1>4. SessionInv /\ ReachInv /\ CommitInv /\ PastInv /\ SessionsJoin
  BY <1>1 DEF SessionInv, Active, ReachInv, CommitInv, PastInv, SessionsJoin
<1>5. RS!Init
  BY <1>1 DEF RS!Init
<1> QED
  BY <1>3, <1>4, <1>5 DEF BrokerInv

LEMMA BrokerStep == BrokerInv /\ [RedpandaNext]_redpandaVars => BrokerInv' /\ [RS!Next]_rsv
<1> SUFFICES ASSUME BrokerInv, [RedpandaNext]_redpandaVars
             PROVE  BrokerInv' /\ [RS!Next]_rsv
  OBVIOUS
<1>0. BrokerTypeOK
  BY DEF BrokerInv
<1>1. CASE UNCHANGED <<unacked, topic, committed, joined, holder, session, start, ended,
                       handed, how>>
  BY <1>1 DEF BrokerInv, BrokerTypeOK, SessionInv, ReachInv, CommitInv, PastInv, SessionsJoin,
              Active, Position, rsv
<1>2. ASSUME NEW m \in Messages, PublishRecord(m) \/ Resend(m)
      PROVE  BrokerInv' /\ [RS!Next]_rsv
  <2>1. unacked' \subseteq Messages
    BY <1>0, <1>2 DEF BrokerTypeOK, PublishRecord, Resend
  <2> QED
    BY <1>2, <2>1, RecordStep DEF PublishRecord, Resend
<1>3. ASSUME NEW r \in Consumers, JoinGroup(r)
      PROVE  BrokerInv' /\ [RS!Next]_rsv
  <2>1. PICK C \in SUBSET {GroupOf[r]} : Release({GroupOf[r]}, C)
    BY <1>3 DEF JoinGroup
  <2>2. GroupOf[r] \in Groups
    BY TopicAssumption, RedpandaAssumption
  <2>3. {GroupOf[r]} \in SUBSET Groups /\ C \in SUBSET Groups
    BY <2>1, <2>2
  <2>4. /\ joined' \subseteq Consumers /\ unacked' \subseteq Messages
        /\ UNCHANGED <<topic, session, start, handed>>
    BY <1>0, <1>3 DEF JoinGroup, BrokerTypeOK
  <2> QED
    BY <2>1, <2>3, <2>4, ReleaseStep
<1>4. ASSUME NEW r \in Consumers, StopReading(r)
      PROVE  BrokerInv' /\ [RS!Next]_rsv
  <2>1. PICK G \in SUBSET {GroupOf[r]}, C \in SUBSET {GroupOf[r]} : Release(G, C)
    BY <1>4 DEF StopReading
  <2>2. GroupOf[r] \in Groups
    BY TopicAssumption, RedpandaAssumption
  <2>3. G \in SUBSET Groups /\ C \in SUBSET Groups
    BY <2>1, <2>2
  <2>4. /\ joined' \subseteq Consumers /\ unacked' \subseteq Messages
        /\ UNCHANGED <<topic, session, start, handed>>
    BY <1>0, <1>4 DEF StopReading, BrokerTypeOK
  <2> QED
    BY <2>1, <2>3, <2>4, ReleaseStep
<1>5. CASE CloseBus
  <2>1. PICK C \in SUBSET Groups : Release(Groups, C)
    BY <1>5 DEF CloseBus
  <2>2. /\ joined' \subseteq Consumers /\ unacked' \subseteq Messages
        /\ UNCHANGED <<topic, session, start, handed>>
    BY <1>5 DEF CloseBus
  <2>3. Groups \in SUBSET Groups
    OBVIOUS
  <2> QED
    BY <2>1, <2>2, <2>3, ReleaseStep
<1>6. CASE CrashReaders
  <2>1. /\ Release(Groups, {}) /\ joined' \subseteq Consumers /\ unacked' \subseteq Messages
        /\ UNCHANGED <<topic, session, start, handed>>
    BY <1>6 DEF CrashReaders
  <2>2. Groups \in SUBSET Groups /\ {} \in SUBSET Groups
    OBVIOUS
  <2> QED
    BY <2>1, <2>2, ReleaseStep
<1>7. CASE StartProducer \/ ProducerStarts
  BY <1>1, <1>7 DEF StartProducer, ProducerStarts
<1>8. ASSUME NEW g \in Groups, AutoCommit(g)
      PROVE  BrokerInv' /\ [RS!Next]_rsv
  BY <1>8, CommitStep
<1>9. CASE UNCHANGED redpandaVars
  BY <1>1, <1>9 DEF redpandaVars
<1> QED
  BY <1>2, <1>3, <1>4, <1>5, <1>6, <1>7, <1>8, <1>9, AssignStep, YieldStep DEF RedpandaNext

-----------------------------------------------------------------------------
(* Whichever bus the process runs                                          *)

LEMMA Backends == BackendSpec => Spec /\ RedpandaSpec
<1>1. BackendInit => Init /\ RedpandaInit
  BY DEF BackendInit
<1>2. [BackendNext]_backendVars => [Next]_vars /\ [RedpandaNext]_redpandaVars
  BY DEF BackendNext, backendVars
<1> QED
  BY <1>1, <1>2, PTL DEF BackendSpec, Spec, RedpandaSpec

THEOREM Invariance == BackendSpec => []IInv
<1>1. IInv /\ [Next]_vars => IInv'
  BY NextStep
<1> QED
  BY InitIInv, <1>1, Backends, PTL DEF Spec

THEOREM BrokerInvariance == BackendSpec => []BrokerInv
<1>1. RedpandaInit => BrokerInv
  BY InitBroker
<1>2. BrokerInv /\ [RedpandaNext]_redpandaVars => BrokerInv'
  BY BrokerStep
<1> QED
  BY <1>1, <1>2, Backends, PTL DEF RedpandaSpec

\* Type correctness of both buses.
THEOREM TypeCorrect == BackendSpec => [](TypeOK /\ BrokerTypeOK)
<1>1. IInv /\ BrokerInv => TypeOK /\ BrokerTypeOK
  BY DEF IInv, BrokerInv
<1> QED
  BY <1>1, Invariance, BrokerInvariance, PTL

\* Consumer groups do not share queues.
THEOREM QueuesApartHolds == BackendSpec => []QueuesApart
<1>1. IInv => QueuesApart
  BY DEF IInv
<1> QED
  BY <1>1, Invariance, PTL

\* Every consumer group is handed the topic from its registration on: no loss,
\* no duplicate, no reordering, whatever the other groups do.
THEOREM ConservationHolds == BackendSpec => []Conservation
<1>1. ASSUME IInv PROVE Conservation
  <2> SUFFICES ASSUME NEW s \in Subscriptions, from[s] # ES!Unopened
               PROVE  delivered[s] \o queue[s] = SubSeq(published, from[s] + 1, ES!End(s))
    BY DEF Conservation
  <2> DEFINE d == delivered[s]
             q == queue[s]
             f == from[s]
             e == ES!End(s)
             t == SubSeq(published, f + 1, e)
  <2>1. /\ d \in Seq(Messages) /\ q \in Seq(Messages) /\ published \in Seq(Messages)
        /\ f \in Nat /\ Len(published) \in Nat /\ upto[s] \in Nat \cup {ES!Open}
    BY <1>1, TypeFacts DEF IInv
  <2>2. e \in Nat
    BY <2>1 DEF ES!End
  <2>3. Accounted(published, f, e, d, q)
    BY <1>1 DEF IInv, QueueInv
  <2> HIDE DEF d, q, f, e
  <2>4. f + Len(d) + Len(q) = e /\ e <= Len(published) /\ Len(d) \in Nat /\ Len(q) \in Nat
    BY <2>1, <2>3 DEF Accounted
  <2>5. /\ t \in Seq(Messages) /\ Len(t) = e - f
        /\ \A i \in 1..(e - f) : t[i] = published[f + i]
    <3>1. f + 1 \in Int /\ e \in Int /\ e - (f + 1) + 1 = e - f
          /\ (f + 1 <= e => e - f \in Nat) /\ (~(f + 1 <= e) => e - f = 0)
      BY <2>1, <2>2, <2>4
    <3>2. \A i \in (f + 1)..e : i \in 1..Len(published)
      BY <2>1, <2>2, <2>4
    <3>3. \A i \in (f + 1)..e : published[i] \in Messages
      BY <2>1, <3>2
    <3>4. /\ t \in Seq(Messages)
          /\ Len(t) = IF f + 1 <= e THEN e - (f + 1) + 1 ELSE 0
          /\ \A i \in 1..(e - (f + 1) + 1) : t[i] = published[f + 1 + i - 1]
      BY <3>1, <3>3, SubSeqProperties
    <3> HIDE DEF t
    <3>5. \A i \in 1..(e - f) : f + 1 + i - 1 = f + i
      BY <2>1, <2>2
    <3>6. Len(t) = e - f
      BY <3>1, <3>4
    <3> QED
      BY <3>1, <3>4, <3>5, <3>6
  <2> HIDE DEF t
  <2>6. /\ d \o q \in Seq(Messages) /\ Len(d \o q) = Len(d) + Len(q)
        /\ \A i \in 1..(Len(d) + Len(q)) :
             (d \o q)[i] = IF i <= Len(d) THEN d[i] ELSE q[i - Len(d)]
    BY <2>1
  <2>7. Len(d) + Len(q) = e - f
    BY <2>1, <2>2, <2>4
  <2>8. ASSUME NEW i \in 1..(e - f) PROVE (d \o q)[i] = t[i]
    <3>1. CASE i <= Len(d)
      <4>1. i \in 1..Len(d)
        BY <2>1, <2>2, <2>4, <3>1
      <4>2. d[i] = published[f + i]
        BY <2>3, <4>1 DEF Accounted
      <4> QED
        BY <2>5, <2>6, <2>7, <3>1, <4>2
    <3>2. CASE i > Len(d)
      <4>1. i - Len(d) \in 1..Len(q) /\ f + Len(d) + (i - Len(d)) = f + i
        BY <2>1, <2>2, <2>4, <2>7, <3>2
      <4>2. q[i - Len(d)] = published[f + Len(d) + (i - Len(d))]
        BY <2>3, <4>1 DEF Accounted
      <4>3. ~(i <= Len(d))
        BY <2>4, <3>2
      <4> QED
        BY <2>5, <2>6, <2>7, <4>1, <4>2, <4>3
    <3>3. i <= Len(d) \/ i > Len(d)
      BY <2>1, <2>2, <2>4
    <3> QED
      BY <3>1, <3>2, <3>3
  <2>9. d \o q = t
    BY <2>5, <2>6, <2>7, <2>8, SeqEqual
  <2> QED
    BY <2>9 DEF t, d, q, f, e
<1> QED
  BY <1>1, Invariance, PTL

\* The bus in memory implements the Event Stream: its initial states are initial states
\* of the stream, and each of its steps is a step of the stream or leaves it alone.
THEOREM Refinement == BackendSpec => Stream
<1>1. Init => ES!Init
  BY DEF Init
<1>2. IInv /\ [Next]_vars => [ES!Next]_esv
  BY NextStep
<1> QED
  BY <1>1, <1>2, Invariance, Backends, PTL DEF Spec, Stream, ES!Spec, esv, ES!esVars

\* So does the bus on Redpanda, with a subscription for every session of a group, however
\* readers come and go, the bus is closed, and processes die (event_bus.py:84-140).
THEOREM RedpandaRefinement == BackendSpec => RedpandaStream
<1>1. RedpandaInit => RS!Init
  BY InitBroker
<1>2. BrokerInv /\ [RedpandaNext]_redpandaVars => [RS!Next]_rsv
  BY BrokerStep
<1> QED
  BY <1>1, <1>2, BrokerInvariance, Backends, PTL
  DEF RedpandaSpec, RedpandaStream, RS!Spec, rsv, RS!esVars

\* A session of a group that has committed begins where the one before had got to, if
\* that could commit at its end, and no later in any case: records may come twice to
\* the group, and none is left out (event_bus.py:111-132).
THEOREM SessionsJoinHolds == BackendSpec => []SessionsJoin
<1>1. BrokerInv => SessionsJoin
  BY DEF BrokerInv
<1> QED
  BY <1>1, BrokerInvariance, PTL

-----------------------------------------------------------------------------
(* The audit chain and its live readers, for any appenders, payloads and     *)
(* clients, through edits and power failures, and without the bounds of the  *)
(* runs being small.                                                         *)
(*                                                                           *)
(* The inductive invariant compares the table with what was inserted: row by *)
(* row they differ at most in the payload, every inserted entry carries its  *)
(* own hash and hangs on an earlier one, and so does every hash that a       *)
(* half-done append is holding.  With atomic appends the inserted entries    *)
(* form one chain.  A client has been sent a beginning of what was inserted, *)
(* and what it has read and not sent yet comes next in it.                   *)

IsSeq(s) == \E S : s \in Seq(S)

\* An entry has the four fields of an AuditLogEntry and no other.
Plain(e) == e = [id |-> e.id, prev |-> e.prev, payload |-> e.payload, hash |-> e.hash]

\* The table and the history have the same rows, but for edited payloads.
RowsInv ==
  /\ IsSeq(rows) /\ IsSeq(written)
  /\ Len(rows) = Len(written)
  /\ \A i \in 1..Len(rows) :
       /\ Plain(rows[i]) /\ Plain(written[i])
       /\ rows[i].id = written[i].id
       /\ rows[i].prev = written[i].prev
       /\ rows[i].hash = written[i].hash

\* A half-done append holds the hash of a row, or that of the empty chain.
TipInv ==
  /\ tip \in [Appenders -> {tip[p] : p \in Appenders}]
  /\ \A p \in busy :
       tip[p] = Genesis \/ \E j \in 1..Len(written) : written[j].hash = tip[p]

\* With atomic appends the history is one chain.
ChainInv ==
  store = "sqlite" =>
    \A i \in 1..Len(written) :
      written[i].prev = IF i = 1 THEN Genesis ELSE written[i - 1].hash

LogInv == LogTypeOK /\ RowsInv /\ LinksBack /\ TipInv /\ ChainInv

\* A record of a client has the five fields of Off and no other.
PlainFeed(f) ==
  f = [on |-> f.on, lastSeen |-> f.lastSeen, toSend |-> f.toSend, read |-> f.read,
       polls |-> f.polls]

\* The entries ids agree with those of w from position k + 1 on.
Continues(ids, w, k) ==
  /\ IsSeq(ids) /\ k + Len(ids) <= Len(w)
  /\ \A i \in 1..Len(ids) : ids[i].id = w[k + i].id

\* A client that is on has been sent the first entries of w, and goes on where it is;
\* what it has read ends with what it has not sent yet.
Served(f, s, w) ==
  f.on => /\ Continues(s, w, 0)
          /\ Continues(f.toSend, w, Len(s))
          /\ f.toSend = <<>> => f.lastSeen = Len(s)
          /\ f.toSend # <<>> => f.read = Len(s) + Len(f.toSend)

FeedInv ==
  /\ feed \in [Clients -> {feed[c] : c \in Clients}]
  /\ sent \in [Clients -> {sent[c] : c \in Clients}]
  /\ \A c \in Clients : PlainFeed(feed[c]) /\ Served(feed[c], sent[c], written)

-----------------------------------------------------------------------------
(* Sequences whose elements have no type of their own.                     *)

LEMMA SeqFacts ==
  ASSUME NEW s, IsSeq(s)
  PROVE  Len(s) \in Nat /\ (s = <<>> <=> Len(s) = 0)
BY DEF IsSeq

LEMMA AppendFacts ==
  ASSUME NEW s, NEW e, IsSeq(s)
  PROVE  /\ IsSeq(Append(s, e))
         /\ Len(Append(s, e)) = Len(s) + 1
         /\ \A i \in 1..Len(s) : Append(s, e)[i] = s[i]
         /\ Append(s, e)[Len(s) + 1] = e
<1>1. PICK S : s \in Seq(S)
  BY DEF IsSeq
<1>2. s \in Seq(S \cup {e})
  BY <1>1
<1>3. Append(s, e) \in Seq(S \cup {e})
  BY <1>2
<1> QED
  BY <1>2, <1>3 DEF IsSeq

-----------------------------------------------------------------------------

LEMMA LogInitInv == LogInit => LogInv
<1> SUFFICES ASSUME LogInit PROVE LogInv
  OBVIOUS
<1>1. store \in Stores /\ rows = <<>> /\ written = <<>> /\ busy = {} /\ nextId = 1 /\ tampers = 0
      /\ tip = [p \in Appenders |-> Genesis]
  BY DEF LogInit
<1>2. IsSeq(rows) /\ IsSeq(written)
  <2>1. <<>> \in Seq({})
    OBVIOUS
  <2> QED
    BY <1>1, <2>1 DEF IsSeq
<1> QED
  BY <1>1, <1>2, LogbookAssumption
  DEF LogInv, LogTypeOK, RowsInv, LinksBack, TipInv, ChainInv

\* An insert on top of prev keeps the invariant when prev is the hash of a row,
\* and of the newest row when appends are atomic.
LEMMA InsertStep ==
  ASSUME LogInv, NEW prev, NEW payload \in Payloads, Insert(prev, payload),
         \/ prev = Genesis
         \/ \E j \in 1..Len(written) : written[j].hash = prev,
         store = "sqlite" => prev = LatestHash,
         busy' \subseteq busy, UNCHANGED <<store, tip, tampers>>
  PROVE  LogInv'
<1> USE DEF LogInv
<1> DEFINE n == Len(written)
           e == Entry(nextId, prev, payload)
<1>1. IsSeq(rows) /\ IsSeq(written) /\ Len(rows) = n /\ n \in Nat /\ nextId \in Nat
  BY SeqFacts DEF RowsInv, LogTypeOK
<1>2. /\ IsSeq(rows') /\ Len(rows') = n + 1
      /\ \A i \in 1..n : rows'[i] = rows[i]
      /\ rows'[n + 1] = e
  BY <1>1, AppendFacts DEF Insert
<1>3. /\ IsSeq(written') /\ Len(written') = n + 1
      /\ \A i \in 1..n : written'[i] = written[i]
      /\ written'[n + 1] = e
  BY <1>1, AppendFacts DEF Insert
<1>4. nextId' = nextId + 1
  BY DEF Insert
<1>5. /\ e.id = nextId /\ e.prev = prev /\ e.payload = payload
      /\ e.hash = Hash(nextId, prev, payload) /\ Plain(e)
  BY DEF Entry, Plain
<1>6. LogTypeOK'
  <2>1. ASSUME NEW i \in 1..(n + 1)
        PROVE  rows'[i].id \in 1..(nextId' - 1) /\ rows'[i].payload \in Payloads
    <3>1. CASE i = n + 1
      <4>1. nextId \in 1..(nextId' - 1)
        BY <1>1, <1>4 DEF LogTypeOK
      <4> QED
        BY <1>2, <1>5, <3>1, <4>1
    <3>2. CASE i \in 1..n
      BY <1>1, <1>2, <1>4, <3>2 DEF LogTypeOK
    <3> QED
      BY <1>1, <3>1, <3>2
  <2> QED
    BY <1>1, <1>2, <1>3, <1>4, <2>1 DEF LogTypeOK
<1>7. RowsInv'
  <2>1. ASSUME NEW i \in 1..(n + 1)
        PROVE  /\ Plain(rows'[i]) /\ Plain(written'[i])
               /\ rows'[i].id = written'[i].id
               /\ rows'[i].prev = written'[i].prev
               /\ rows'[i].hash = written'[i].hash
    <3>1. CASE i = n + 1
      BY <1>2, <1>3, <1>5, <3>1
    <3>2. CASE i \in 1..n
      BY <1>1, <1>2, <1>3, <3>2 DEF RowsInv
    <3> QED
      BY <1>1, <3>1, <3>2
  <2> QED
    BY <1>2, <1>3, <2>1 DEF RowsInv
<1>8. LinksBack'
  <2>1. ASSUME NEW i \in 1..(n + 1)
        PROVE  /\ written'[i].hash
                    = Hash(written'[i].id, written'[i].prev, written'[i].payload)
               /\ \/ written'[i].prev = Genesis
                  \/ \E j \in 1..(i - 1) : written'[j].hash = written'[i].prev
    <3>1. CASE i = n + 1
      BY <1>1, <1>3, <1>5, <3>1
    <3>2. CASE i \in 1..n
      <4>1. /\ written[i].hash = Hash(written[i].id, written[i].prev, written[i].payload)
            /\ \/ written[i].prev = Genesis
               \/ \E j \in 1..(i - 1) : written[j].hash = written[i].prev
        BY <3>2 DEF LinksBack
      <4>2. \A j \in 1..(i - 1) : written'[j] = written[j]
        BY <1>1, <1>3, <3>2
      <4> QED
        BY <1>3, <3>2, <4>1, <4>2
    <3> QED
      BY <1>1, <3>1, <3>2
  <2> QED
    BY <1>3, <2>1 DEF LinksBack
<1>9. TipInv'
  <2>1. ASSUME NEW p \in busy'
        PROVE  tip[p] = Genesis \/ \E j \in 1..(n + 1) : written'[j].hash = tip[p]
    BY <1>1, <1>3 DEF TipInv
  <2> QED
    BY <1>3, <2>1 DEF TipInv
<1>10. ChainInv'
  <2> SUFFICES ASSUME store = "sqlite", NEW i \in 1..(n + 1)
               PROVE  written'[i].prev = IF i = 1 THEN Genesis ELSE written'[i - 1].hash
    BY <1>3 DEF ChainInv
  <2>1. CASE i = n + 1
    <3>1. prev = IF n = 0 THEN Genesis ELSE written[n].hash
      BY <1>1, SeqFacts DEF LatestHash, RowsInv
    <3> QED
      BY <1>1, <1>3, <1>5, <2>1, <3>1
  <2>2. CASE i \in 1..n
    BY <1>1, <1>3, <2>2 DEF ChainInv
  <2> QED
    BY <1>1, <2>1, <2>2
<1> QED
  BY <1>6, <1>7, <1>8, <1>9, <1>10

\* The newest hash is the hash of an inserted entry.
LEMMA LatestIsRow ==
  ASSUME LogInv
  PROVE  LatestHash = Genesis \/ \E j \in 1..Len(written) : written[j].hash = LatestHash
<1>1. /\ IsSeq(rows) /\ Len(rows) = Len(written) /\ Len(rows) \in Nat
      /\ rows = <<>> <=> Len(rows) = 0
  BY SeqFacts DEF LogInv, RowsInv
<1>2. CASE Len(rows) # 0
  <2>1. Len(rows) \in 1..Len(written) /\ written[Len(rows)].hash = rows[Len(rows)].hash
    BY <1>1, <1>2 DEF LogInv, RowsInv
  <2> QED
    BY <1>1, <1>2, <2>1 DEF LatestHash
<1> QED
  BY <1>1, <1>2 DEF LatestHash

LEMMA LogNextInv == LogInv /\ [LogNext]_logVars => LogInv'
<1> SUFFICES ASSUME LogInv, [LogNext]_logVars PROVE LogInv'
  OBVIOUS
<1>1. ASSUME NEW p \in Appenders, NEW d \in Payloads, AppendAtomically(p, d)
      PROVE  LogInv'
  <2>1. /\ store = "sqlite" /\ Insert(LatestHash, d) /\ busy' \subseteq busy
        /\ UNCHANGED <<store, tip, tampers>>
    BY <1>1 DEF AppendAtomically
  <2> QED
    BY <2>1, LatestIsRow, InsertStep
<1>2. ASSUME NEW p \in Appenders, ReadTip(p)
      PROVE  LogInv'
  <2>1. /\ store = "postgres" /\ tip' = [tip EXCEPT ![p] = LatestHash]
        /\ busy' = busy \cup {p}
        /\ UNCHANGED <<store, rows, nextId, written, tampers>>
    BY <1>2 DEF ReadTip
  <2>2. tip'[p] = LatestHash /\ \A a \in Appenders : a # p => tip'[a] = tip[a]
    BY <2>1 DEF LogInv, TipInv
  <2>3. tip' \in [Appenders -> {tip'[a] : a \in Appenders}]
    BY <2>1 DEF LogInv, TipInv
  <2>4. LogTypeOK'
    BY <2>1 DEF LogInv, LogTypeOK
  <2>5. TipInv'
    BY <2>1, <2>2, <2>3, LatestIsRow DEF LogInv, TipInv, LogTypeOK
  <2> QED
    BY <2>1, <2>4, <2>5 DEF LogInv, RowsInv, LinksBack, ChainInv
<1>3. ASSUME NEW p \in Appenders, NEW d \in Payloads, Persist(p, d)
      PROVE  LogInv'
  <2>1. /\ p \in busy /\ Insert(tip[p], d) /\ busy' \subseteq busy
        /\ UNCHANGED <<store, tip, tampers>>
    BY <1>3 DEF Persist
  <2>2. store = "postgres"
    BY <2>1 DEF LogInv, LogTypeOK
  <2>3. tip[p] = Genesis \/ \E j \in 1..Len(written) : written[j].hash = tip[p]
    BY <2>1 DEF LogInv, TipInv
  <2> QED
    BY <2>1, <2>2, <2>3, InsertStep
<1>4. ASSUME NEW p \in Appenders, Abandon(p)
      PROVE  LogInv'
  BY <1>4 DEF Abandon, LogInv, LogTypeOK, RowsInv, LinksBack, TipInv, ChainInv
<1>5. ASSUME NEW k \in 1..Len(rows), NEW d \in Payloads, Tamper(k, d)
      PROVE  LogInv'
  <2> DEFINE e == [rows[k] EXCEPT !.payload = d]
  <2>1. /\ rows' = [rows EXCEPT ![k] = e]
        /\ tampers' = tampers + 1 /\ tampers < MaxTampers
        /\ UNCHANGED <<store, nextId, tip, busy, written>>
    BY <1>5 DEF Tamper
  <2>2. /\ IsSeq(rows') /\ Len(rows') = Len(rows)
        /\ \A i \in 1..Len(rows) : rows'[i] = IF i = k THEN e ELSE rows[i]
    <3> HIDE DEF e
    <3>1. PICK S : rows \in Seq(S)
      BY DEF LogInv, RowsInv, IsSeq
    <3>2. rows \in Seq(S \cup {e})
      BY <3>1
    <3>3. rows' \in Seq(S \cup {e}) /\ Len(rows') = Len(rows)
      BY <2>1, <3>2
    <3>4. \A i \in 1..Len(rows) : rows'[i] = IF i = k THEN e ELSE rows[i]
      BY <2>1, <3>2
    <3> QED
      BY <3>3, <3>4 DEF IsSeq
  <2>3. /\ e.id = rows[k].id /\ e.prev = rows[k].prev /\ e.hash = rows[k].hash
        /\ e.payload = d /\ Plain(e)
    <3>1. rows[k] = [id |-> rows[k].id, prev |-> rows[k].prev,
                     payload |-> rows[k].payload, hash |-> rows[k].hash]
      BY DEF LogInv, RowsInv, Plain
    <3>2. e = [id |-> rows[k].id, prev |-> rows[k].prev,
               payload |-> d, hash |-> rows[k].hash]
      BY <3>1
    <3> QED
      BY <3>2 DEF Plain
  <2>4. tampers' \in 0..MaxTampers
    BY <2>1, LogbookAssumption DEF LogInv, LogTypeOK
  <2>5. LogTypeOK'
    BY <2>1, <2>2, <2>3, <2>4 DEF LogInv, LogTypeOK
  <2>6. RowsInv'
    BY <2>1, <2>2, <2>3 DEF LogInv, RowsInv
  <2> QED
    BY <2>1, <2>5, <2>6 DEF LogInv, LinksBack, TipInv, ChainInv
<1>6. CASE UNCHANGED logVars
  BY <1>6 DEF logVars, LogInv, LogTypeOK, RowsInv, LinksBack, TipInv, ChainInv
<1> QED
  BY <1>1, <1>2, <1>3, <1>4, <1>5, <1>6 DEF LogNext

-----------------------------------------------------------------------------
(* Power failures and clients *)

\* Any beginning of a sequence is one.
LEMMA CutFacts ==
  ASSUME NEW s, IsSeq(s), NEW n \in 0..Len(s)
  PROVE  /\ IsSeq(SubSeq(s, 1, n)) /\ Len(SubSeq(s, 1, n)) = n
         /\ \A i \in 1..n : SubSeq(s, 1, n)[i] = s[i]
<1>1. PICK S : s \in Seq(S)
  BY DEF IsSeq
<1>2. n \in Int /\ 1 \in Int /\ \A i \in 1..n : s[i] \in S
  BY <1>1
<1>3. /\ SubSeq(s, 1, n) \in Seq(S)
      /\ Len(SubSeq(s, 1, n)) = IF 1 <= n THEN n - 1 + 1 ELSE 0
      /\ \A i \in 1..(n - 1 + 1) : SubSeq(s, 1, n)[i] = s[1 + i - 1]
  BY <1>2, SubSeqProperties
<1> QED
  BY <1>1, <1>3 DEF IsSeq

LEMMA FailureIInv == LogInv /\ PowerFailure => LogInv'
<1> SUFFICES ASSUME LogInv, PowerFailure PROVE LogInv'
  OBVIOUS
<1>1. PICK n \in 0..Len(rows) :
        rows' = SubSeq(rows, 1, n) /\ written' = SubSeq(written, 1, n)
  BY DEF PowerFailure
<1>2. store = "sqlite" /\ UNCHANGED <<store, nextId, tip, busy, tampers>>
  BY DEF PowerFailure
<1>3. IsSeq(rows) /\ IsSeq(written) /\ Len(rows) \in Nat /\ Len(rows) = Len(written)
  BY SeqFacts DEF LogInv, RowsInv
<1>4. /\ IsSeq(rows') /\ Len(rows') = n
      /\ \A i \in 1..n : rows'[i] = rows[i]
  BY <1>1, <1>3, CutFacts
<1>5. /\ IsSeq(written') /\ Len(written') = n
      /\ \A i \in 1..n : written'[i] = written[i]
  BY <1>1, <1>3, CutFacts
<1>6. n \in Nat /\ \A i \in 1..n : i \in 1..Len(rows)
  BY <1>3
<1>7. busy = {}
  BY <1>2 DEF LogInv, LogTypeOK
<1>8. LogTypeOK'
  BY <1>2, <1>4, <1>5, <1>6, <1>7 DEF LogInv, LogTypeOK
<1>9. RowsInv'
  BY <1>3, <1>4, <1>5, <1>6 DEF LogInv, RowsInv
<1>10. LinksBack'
  <2>1. ASSUME NEW i \in 1..n
        PROVE  /\ written'[i].hash
                    = Hash(written'[i].id, written'[i].prev, written'[i].payload)
               /\ \/ written'[i].prev = Genesis
                  \/ \E j \in 1..(i - 1) : written'[j].hash = written'[i].prev
    <3>1. i \in 1..Len(written)
      BY <1>3, <1>6
    <3>2. /\ written[i].hash = Hash(written[i].id, written[i].prev, written[i].payload)
          /\ \/ written[i].prev = Genesis
             \/ \E j \in 1..(i - 1) : written[j].hash = written[i].prev
      BY <3>1 DEF LogInv, LinksBack
    <3>3. \A j \in 1..(i - 1) : written'[j] = written[j]
      BY <1>5
    <3> QED
      BY <1>5, <3>2, <3>3
  <2> QED
    BY <1>5, <2>1 DEF LinksBack
<1>11. TipInv'
  BY <1>2, <1>7 DEF LogInv, TipInv
<1>12. ChainInv'
  <2>1. ASSUME NEW i \in 1..n
        PROVE  written'[i].prev = IF i = 1 THEN Genesis ELSE written'[i - 1].hash
    <3>1. i \in 1..Len(written)
      BY <1>3, <1>6
    <3>2. written[i].prev = IF i = 1 THEN Genesis ELSE written[i - 1].hash
      BY <1>2, <3>1 DEF LogInv, ChainInv
    <3>3. CASE i = 1
      BY <1>5, <3>2, <3>3
    <3>4. CASE i # 1
      <4>1. i - 1 \in 1..n
        BY <1>6, <3>4
      <4> QED
        BY <1>5, <3>2, <3>4, <4>1
    <3> QED
      BY <3>3, <3>4
  <2> QED
    BY <1>5, <2>1 DEF ChainInv
<1> QED
  BY <1>8, <1>9, <1>10, <1>11, <1>12 DEF LogInv

LEMMA NothingContinues ==
  ASSUME NEW w, IsSeq(w), NEW k \in 0..Len(w)
  PROVE  Continues(<<>>, w, k)
<1>1. IsSeq(<<>>)
  <2>1. <<>> \in Seq({})
    OBVIOUS
  <2> QED
    BY <2>1 DEF IsSeq
<1>2. Len(<<>>) = 0 /\ Len(w) \in Nat
  BY SeqFacts
<1> QED
  BY <1>1, <1>2 DEF Continues

\* The connection is off, or new.
LEMMA OffServed ==
  ASSUME NEW w, IsSeq(w), NEW s
  PROVE  /\ PlainFeed(Off) /\ Served(Off, s, w)
         /\ PlainFeed([Off EXCEPT !.on = TRUE])
         /\ Served([Off EXCEPT !.on = TRUE], <<>>, w)
<1>1. Off.on = FALSE /\ PlainFeed(Off)
  BY DEF Off, PlainFeed
<1> DEFINE f == [Off EXCEPT !.on = TRUE]
<1>2. f = [on |-> TRUE, lastSeen |-> 0, toSend |-> <<>>, read |-> 0, polls |-> 0]
  <2>1. \A t, y, z : [[on |-> y, lastSeen |-> 0, toSend |-> t, read |-> 0, polls |-> 0]
                        EXCEPT !.on = z]
                     = [on |-> z, lastSeen |-> 0, toSend |-> t, read |-> 0, polls |-> 0]
    OBVIOUS
  <2> QED
    BY <2>1, Zenon DEF Off
<1>3. f.toSend = <<>> /\ f.lastSeen = 0 /\ PlainFeed(f)
  BY <1>2 DEF PlainFeed
<1>4. Len(w) \in Nat /\ Len(<<>>) = 0
  BY SeqFacts
<1> HIDE DEF f
<1>5. Continues(<<>>, w, 0)
  BY <1>4, NothingContinues
<1>6. Served(f, <<>>, w)
  BY <1>3, <1>4, <1>5 DEF Served
<1>7. Served(Off, s, w)
  BY <1>1 DEF Served
<1> QED
  BY <1>1, <1>3, <1>6, <1>7 DEF f

\* What a client was sent stays a beginning of a history that grows.
LEMMA GrowthServes ==
  ASSUME NEW f, NEW s, NEW w, NEW v, IsSeq(w), IsSeq(v), Served(f, s, w),
         Len(w) <= Len(v), \A i \in 1..Len(w) : v[i] = w[i]
  PROVE  Served(f, s, v)
<1>1. Len(w) \in Nat /\ Len(v) \in Nat
  BY SeqFacts
<1>2. ASSUME NEW t, NEW k \in Nat, Continues(t, w, k)
      PROVE  Continues(t, v, k)
  <2>1. IsSeq(t) /\ Len(t) \in Nat /\ k + Len(t) <= Len(w)
    BY <1>2, SeqFacts DEF Continues
  <2>2. \A i \in 1..Len(t) : k + i \in 1..Len(w) /\ t[i].id = w[k + i].id
    BY <1>1, <1>2, <2>1 DEF Continues
  <2>3. \A i \in 1..Len(t) : t[i].id = v[k + i].id
    BY <2>2
  <2>4. k + Len(t) <= Len(v)
    BY <1>1, <2>1
  <2> QED
    BY <2>1, <2>3, <2>4 DEF Continues
<1>3. ASSUME f.on
      PROVE  Len(s) \in Nat
  BY <1>3, SeqFacts DEF Served, Continues
<1> QED
  BY <1>2, <1>3 DEF Served

\* One entry more is sent.
LEMMA SendServes ==
  ASSUME NEW f, NEW s, NEW w, IsSeq(w), PlainFeed(f), Served(f, s, w), f.on,
         f.toSend # <<>>, NEW g,
         g = [f EXCEPT !.toSend = Tail(@),
                       !.lastSeen = IF Len(f.toSend) = 1 THEN f.read ELSE @]
  PROVE  PlainFeed(g) /\ Served(g, Append(s, Head(f.toSend)), w)
<1> DEFINE t == f.toSend
           u == Append(s, Head(t))
<1>1. g = [on |-> f.on, lastSeen |-> IF Len(t) = 1 THEN f.read ELSE f.lastSeen,
           toSend |-> Tail(t), read |-> f.read, polls |-> f.polls]
  BY DEF PlainFeed
<1>2. /\ g.on = f.on /\ g.toSend = Tail(t) /\ g.read = f.read
      /\ g.lastSeen = IF Len(t) = 1 THEN f.read ELSE f.lastSeen
      /\ PlainFeed(g)
  BY <1>1 DEF PlainFeed
<1>3. /\ IsSeq(s) /\ IsSeq(t) /\ Len(s) \in Nat /\ Len(t) \in Nat /\ Len(t) # 0
      /\ Len(w) \in Nat
      /\ Len(s) + Len(t) <= Len(w)
      /\ \A i \in 1..Len(s) : s[i].id = w[i].id
      /\ \A i \in 1..Len(t) : t[i].id = w[Len(s) + i].id
      /\ f.read = Len(s) + Len(t)
  <2>1. Continues(s, w, 0) /\ Continues(t, w, Len(s)) /\ f.read = Len(s) + Len(t)
    BY DEF Served
  <2>2. IsSeq(s) /\ IsSeq(t) /\ \A i \in 1..Len(s) : s[i].id = w[0 + i].id
    BY <2>1 DEF Continues
  <2>3. /\ Len(s) \in Nat /\ Len(t) \in Nat /\ Len(t) # 0 /\ Len(w) \in Nat
    BY <2>2, SeqFacts
  <2>4. \A i \in 1..Len(s) : 0 + i = i
    BY <2>3
  <2> QED
    BY <2>1, <2>2, <2>3, <2>4 DEF Continues
<1>4. /\ IsSeq(Tail(t)) /\ Len(Tail(t)) = Len(t) - 1 /\ Head(t) = t[1]
      /\ \A i \in 1..(Len(t) - 1) : Tail(t)[i] = t[i + 1]
      /\ Tail(t) = <<>> <=> Len(t) = 1
  <2>1. PICK S : t \in Seq(S)
    BY <1>3 DEF IsSeq
  <2>2. Tail(t) \in Seq(S) /\ Len(Tail(t)) = Len(t) - 1
    BY <1>3, <2>1
  <2>3. Head(t) = t[1] /\ \A i \in 1..(Len(t) - 1) : Tail(t)[i] = t[i + 1]
    BY <1>3, <2>1
  <2>4. Tail(t) = <<>> <=> Len(Tail(t)) = 0
    BY <2>2, SeqFacts DEF IsSeq
  <2> QED
    BY <1>3, <2>2, <2>3, <2>4 DEF IsSeq
<1>5. /\ IsSeq(u) /\ Len(u) = Len(s) + 1
      /\ \A i \in 1..Len(s) : u[i] = s[i]
      /\ u[Len(s) + 1] = t[1]
  BY <1>3, <1>4, AppendFacts
<1> HIDE DEF t, u
<1>6. Continues(u, w, 0)
  <2>1. 0 + Len(u) <= Len(w)
    BY <1>3, <1>5
  <2>2. ASSUME NEW i \in 1..Len(u)
        PROVE  u[i].id = w[0 + i].id
    <3>0. 0 + i = i
      BY <1>3, <1>5
    <3>1. CASE i = Len(s) + 1
      <4>1. t[1].id = w[Len(s) + 1].id
        BY <1>3
      <4> QED
        BY <1>5, <3>0, <3>1, <4>1
    <3>2. CASE i \in 1..Len(s)
      BY <1>3, <1>5, <3>0, <3>2
    <3> QED
      BY <1>3, <1>5, <3>1, <3>2
  <2> QED
    BY <1>5, <2>1, <2>2 DEF Continues
<1>7. Continues(Tail(t), w, Len(u))
  <2>1. Len(u) + Len(Tail(t)) <= Len(w)
    BY <1>3, <1>4, <1>5
  <2>2. ASSUME NEW i \in 1..Len(Tail(t))
        PROVE  Tail(t)[i].id = w[Len(u) + i].id
    <3>1. i \in 1..(Len(t) - 1) /\ i + 1 \in 1..Len(t) /\ Len(s) + (i + 1) = Len(u) + i
      <4>1. Len(Tail(t)) = Len(t) - 1 /\ Len(u) = Len(s) + 1
            /\ Len(t) \in Nat /\ Len(s) \in Nat
        BY <1>3, <1>4, <1>5
      <4>2. i \in 1..(Len(t) - 1)
        BY <4>1
      <4> QED
        BY <4>1, <4>2
    <3>2. t[i + 1].id = w[Len(s) + (i + 1)].id
      BY <1>3, <3>1
    <3> QED
      BY <1>4, <3>1, <3>2
  <2> QED
    BY <1>4, <2>1, <2>2 DEF Continues
<1>8. Tail(t) = <<>> => g.lastSeen = Len(u)
  BY <1>2, <1>3, <1>4, <1>5 DEF t
<1>9. g.read = Len(u) + Len(Tail(t))
  BY <1>2, <1>3, <1>4, <1>5
<1> QED
  BY <1>2, <1>6, <1>7, <1>8, <1>9 DEF Served, t, u

\* The whole table is read, and what is new in it is to be sent.
LEMMA PollServes ==
  ASSUME NEW f, NEW s, LogInv, PlainFeed(f), Served(f, s, written), f.on,
         f.toSend = <<>>, NEW g,
         g = [f EXCEPT !.toSend = SubSeq(rows, f.lastSeen + 1, Len(rows)),
                       !.read = Len(rows),
                       !.polls = @ + 1]
  PROVE  PlainFeed(g) /\ Served(g, s, written)
<1> DEFINE k == Len(s)
           n == Len(rows)
           t == SubSeq(rows, k + 1, n)
<1>1. /\ IsSeq(s) /\ k \in Nat /\ Continues(s, written, 0) /\ f.lastSeen = k
      /\ n \in Nat /\ Len(written) = n /\ k <= n /\ IsSeq(rows)
      /\ \A i \in 1..n : rows[i].id = written[i].id
  <2>1. Continues(s, written, 0) /\ f.lastSeen = k
    BY DEF Served
  <2>2. IsSeq(s) /\ 0 + k <= Len(written)
    BY <2>1 DEF Continues
  <2>3. k \in Nat
    BY <2>2, SeqFacts
  <2>4. /\ n \in Nat /\ Len(written) = n /\ IsSeq(rows)
        /\ \A i \in 1..n : rows[i].id = written[i].id
    BY SeqFacts DEF LogInv, RowsInv
  <2> QED
    BY <2>1, <2>2, <2>3, <2>4
<1>2. /\ IsSeq(t) /\ Len(t) = n - k
      /\ \A i \in 1..(n - k) : t[i] = rows[k + i]
  <2>1. PICK S : rows \in Seq(S)
    BY <1>1 DEF IsSeq
  <2>2. k + 1 \in Int /\ n \in Int /\ \A i \in (k + 1)..n : rows[i] \in S
    BY <1>1, <2>1
  <2>3. /\ t \in Seq(S)
        /\ Len(t) = IF k + 1 <= n THEN n - (k + 1) + 1 ELSE 0
        /\ \A i \in 1..(n - (k + 1) + 1) : t[i] = rows[(k + 1) + i - 1]
    BY <2>2, SubSeqProperties
  <2>4. n - (k + 1) + 1 = n - k
    BY <1>1
  <2>5. \A i \in 1..(n - k) : (k + 1) + i - 1 = k + i
    BY <1>1
  <2>6. Len(t) = n - k
    BY <1>1, <2>3
  <2>7. \A i \in 1..(n - k) : t[i] = rows[(k + 1) + i - 1]
    BY <2>3, <2>4
  <2> QED
    BY <2>3, <2>5, <2>6, <2>7 DEF IsSeq
<1>3. g = [on |-> f.on, lastSeen |-> f.lastSeen, toSend |-> t, read |-> n,
           polls |-> f.polls + 1]
  BY <1>1 DEF PlainFeed
<1>4. g.on = f.on /\ g.toSend = t /\ g.read = n /\ g.lastSeen = k /\ PlainFeed(g)
  BY <1>1, <1>3 DEF PlainFeed
<1> HIDE DEF t
<1>5. Continues(t, written, k)
  <2>1. \A i \in 1..(n - k) : k + i \in 1..n
    BY <1>1
  <2> QED
    BY <1>1, <1>2, <2>1 DEF Continues
<1>6. t # <<>> => g.read = k + Len(t)
  BY <1>1, <1>2, <1>4
<1> QED
  BY <1>1, <1>4, <1>5, <1>6 DEF Served

LEMMA InitFeedInv == FeedInit => FeedInv
<1> SUFFICES ASSUME FeedInit PROVE FeedInv
  OBVIOUS
<1>1. /\ feed = [c \in Clients |-> Off] /\ sent = [c \in Clients |-> <<>>]
      /\ IsSeq(written)
  BY LogInitInv DEF FeedInit, LogInv, RowsInv
<1> QED
  BY <1>1, OffServed DEF FeedInv

\* A step changes at most the record and the trail of one client.
LEMMA OneClient ==
  ASSUME FeedInv, NEW c \in Clients, NEW f, NEW s,
         feed' = [feed EXCEPT ![c] = f], sent' = [sent EXCEPT ![c] = s],
         PlainFeed(f), Served(f, s, written), written' = written
  PROVE  FeedInv'
<1>1. /\ feed' \in [Clients -> {feed'[a] : a \in Clients}]
      /\ sent' \in [Clients -> {sent'[a] : a \in Clients}]
  BY DEF FeedInv
<1>2. ASSUME NEW a \in Clients
      PROVE  PlainFeed(feed'[a]) /\ Served(feed'[a], sent'[a], written')
  <2>1. CASE a = c
    BY <2>1 DEF FeedInv
  <2>2. CASE a # c
    BY <2>2 DEF FeedInv
  <2> QED
    BY <2>1, <2>2
<1> QED
  BY <1>1, <1>2 DEF FeedInv

LEMMA NextFeedInv == LogInv /\ LogInv' /\ FeedInv /\ [FeedNext]_allVars => FeedInv'
<1> SUFFICES ASSUME LogInv, LogInv', FeedInv, [FeedNext]_allVars PROVE FeedInv'
  OBVIOUS
<1>1. IsSeq(written) /\ IsSeq(written') /\ Len(written) \in Nat
  BY SeqFacts DEF LogInv, RowsInv
<1>2. ASSUME LogNext \/ UNCHANGED logVars, UNCHANGED feedVars
      PROVE  FeedInv'
  <2>1. /\ Len(written) <= Len(written')
        /\ \A i \in 1..Len(written) : written'[i] = written[i]
    <3>1. CASE written' = written
      BY <1>1, <3>1
    <3>2. ASSUME NEW e, written' = Append(written, e)
          PROVE  /\ Len(written) <= Len(written')
                 /\ \A i \in 1..Len(written) : written'[i] = written[i]
      <4>1. /\ Len(written') = Len(written) + 1
            /\ \A i \in 1..Len(written) : written'[i] = written[i]
        BY <1>1, <3>2, AppendFacts
      <4> QED
        BY <1>1, <4>1
    <3>3. written' = written \/ \E e : written' = Append(written, e)
      BY <1>2, Zenon
      DEF LogNext, logVars, AppendAtomically, ReadTip, Persist, Abandon, Tamper, Insert
    <3> QED
      BY <3>1, <3>2, <3>3
  <2>2. feed' = feed /\ sent' = sent
    BY <1>2 DEF feedVars
  <2>3. ASSUME NEW c \in Clients
        PROVE  Served(feed[c], sent[c], written')
    BY <1>1, <2>1, GrowthServes DEF FeedInv
  <2> QED
    BY <2>2, <2>3 DEF FeedInv
<1>3. ASSUME NEW c \in Clients, Connect(c)
      PROVE  FeedInv'
  BY <1>1, <1>3, OneClient, OffServed DEF Connect, logVars
<1>4. ASSUME NEW c \in Clients, Poll(c)
      PROVE  FeedInv'
  <2>1. PICK g : g = [feed[c] EXCEPT
                        !.toSend = SubSeq(rows, feed[c].lastSeen + 1, Len(rows)),
                        !.read = Len(rows), !.polls = @ + 1]
    OBVIOUS
  <2>2. /\ feed' = [feed EXCEPT ![c] = g] /\ sent' = [sent EXCEPT ![c] = sent[c]]
        /\ feed[c].on /\ feed[c].toSend = <<>> /\ written' = written
    BY <1>4, <2>1 DEF Poll, logVars, FeedInv
  <2>3. PlainFeed(g) /\ Served(g, sent[c], written)
    BY <2>1, <2>2, PollServes DEF FeedInv
  <2> QED
    BY <2>2, <2>3, OneClient
<1>5. ASSUME NEW c \in Clients, Send(c)
      PROVE  FeedInv'
  <2>1. PICK g : g = [feed[c] EXCEPT
                        !.toSend = Tail(@),
                        !.lastSeen = IF Len(feed[c].toSend) = 1 THEN feed[c].read ELSE @]
    OBVIOUS
  <2>2. /\ feed' = [feed EXCEPT ![c] = g]
        /\ sent' = [sent EXCEPT ![c] = Append(sent[c], Head(feed[c].toSend))]
        /\ feed[c].on /\ feed[c].toSend # <<>> /\ written' = written
    BY <1>5, <2>1 DEF Send, logVars, FeedInv
  <2>3. PlainFeed(g) /\ Served(g, Append(sent[c], Head(feed[c].toSend)), written)
    BY <1>1, <2>1, <2>2, SendServes DEF FeedInv
  <2> QED
    BY <2>2, <2>3, OneClient
<1>6. ASSUME NEW c \in Clients, Disconnect(c)
      PROVE  FeedInv'
  <2>1. /\ feed' = [feed EXCEPT ![c] = Off] /\ sent' = [sent EXCEPT ![c] = sent[c]]
        /\ written' = written
    BY <1>6 DEF Disconnect, logVars, FeedInv
  <2> QED
    BY <1>1, <2>1, OneClient, OffServed
<1>7. CASE PowerFailure
  <2>1. feed' = [c \in Clients |-> Off] /\ sent' = sent
    BY <1>7 DEF PowerFailure
  <2> QED
    BY <1>1, <2>1, OffServed DEF FeedInv
<1>8. CASE UNCHANGED allVars
  BY <1>2, <1>8 DEF allVars
<1> QED
  BY <1>2, <1>3, <1>4, <1>5, <1>6, <1>7, <1>8 DEF FeedNext

\* A client does nothing to the log.
LEMMA FeedIInv == LogInv /\ [FeedNext]_allVars => LogInv'
<1> SUFFICES ASSUME LogInv, [FeedNext]_allVars PROVE LogInv'
  OBVIOUS
<1>1. CASE PowerFailure
  BY <1>1, FailureIInv
<1>2. CASE ~PowerFailure
  <2>1. LogNext \/ UNCHANGED logVars
    BY <1>2 DEF FeedNext, allVars, Connect, Poll, Send, Disconnect
  <2> QED
    BY <2>1, LogNextInv
<1> QED
  BY <1>1, <1>2

-----------------------------------------------------------------------------
(* The theorems *)

THEOREM LogInvariance == FeedSpec => [](LogInv /\ FeedInv)
<1>1. FeedInit => LogInv /\ FeedInv
  BY LogInitInv, InitFeedInv DEF FeedInit
<1>2. (LogInv /\ FeedInv) /\ [FeedNext]_allVars => (LogInv /\ FeedInv)'
  BY FeedIInv, NextFeedInv
<1> QED
  BY <1>1, <1>2, PTL DEF FeedSpec

\* Type correctness of the store.
THEOREM LogTypeCorrect == FeedSpec => []LogTypeOK
<1>1. LogInv => LogTypeOK
  BY DEF LogInv
<1> QED
  BY <1>1, LogInvariance, PTL

\* Whatever the interleaving of appends and whatever a power failure leaves, no entry
\* hangs on a hash that was never stored (base.py:60-62).
THEOREM LinksBackHolds == FeedSpec => []LinksBack
<1>1. LogInv => LinksBack
  BY DEF LogInv
<1> QED
  BY <1>1, LogInvariance, PTL

\* On SQLite a row fails the walk exactly when it is not what was inserted.
LEMMA BrokenIsAltered ==
  ASSUME LogInv, store = "sqlite"
  PROVE  \A i \in 1..Len(rows) : Broken(rows, i) <=> rows[i] # written[i]
<1> SUFFICES ASSUME NEW i \in 1..Len(rows)
             PROVE  Broken(rows, i) <=> rows[i] # written[i]
  OBVIOUS
<1>1. Len(rows) \in Nat /\ Len(rows) = Len(written)
  BY SeqFacts DEF LogInv, RowsInv
<1>2. rows[i].prev = IF i = 1 THEN Genesis ELSE rows[i - 1].hash
  BY <1>1 DEF LogInv, RowsInv, ChainInv
<1>3. rows[i].hash = Hash(rows[i].id, rows[i].prev, written[i].payload)
  BY <1>1 DEF LogInv, RowsInv, LinksBack
<1>4. rows[i] # written[i] <=> rows[i].payload # written[i].payload
  BY DEF LogInv, RowsInv, Plain
<1> QED
  BY <1>2, <1>3, <1>4 DEF Broken, Hash

\* With the SQLite store the walk of verify_chain breaks at a row exactly when
\* that row is not what was inserted, so it reports the first altered row; what is left
\* of the table after a power failure is no exception (base.py:48-68).
THEOREM TamperLocatedHolds == FeedSpec => []TamperLocated
<1>1. ASSUME LogInv, store = "sqlite"
      PROVE  VerifyChain(rows) = First(Altered)
  <2>1. {i \in 1..Len(rows) : Broken(rows, i)} = Altered
    BY <1>1, BrokenIsAltered DEF Altered
  <2> QED
    BY <2>1 DEF VerifyChain
<1>2. LogInv => TamperLocated
  BY <1>1 DEF TamperLocated
<1> QED
  BY <1>2, LogInvariance, PTL

\* Since it connected, a client has been sent the log from its first entry on, each entry
\* once and in order, however polls, sends and appends interleave (api/main.py:203-222).
THEOREM FeedOnceHolds == FeedSpec => []FeedOnce
<1>1. ASSUME LogInv, FeedInv
      PROVE  FeedOnce
  <2> SUFFICES ASSUME NEW c \in Clients, feed[c].on
               PROVE  /\ Len(sent[c]) <= Len(written)
                      /\ \A i \in 1..Len(sent[c]) : sent[c][i].id = written[i].id
                      /\ feed[c].toSend = <<>> => feed[c].lastSeen = Len(sent[c])
    BY DEF FeedOnce
  <2>1. /\ Continues(sent[c], written, 0)
        /\ feed[c].toSend = <<>> => feed[c].lastSeen = Len(sent[c])
    BY <1>1 DEF FeedInv, Served
  <2>2. IsSeq(sent[c]) /\ 0 + Len(sent[c]) <= Len(written)
    BY <2>1 DEF Continues
  <2>3. Len(sent[c]) \in Nat /\ Len(written) \in Nat
    BY <1>1, <2>2, SeqFacts DEF LogInv, RowsInv
  <2>4. \A i \in 1..Len(sent[c]) : 0 + i = i
    BY <2>3
  <2> QED
    BY <2>1, <2>2, <2>3, <2>4 DEF Continues
<1> QED
  BY <1>1, LogInvariance, PTL

-----------------------------------------------------------------------------
(* What verify_chain reports, for good *)

\* First is the least index, and a set with a least index has one.
LEMMA FirstIs ==
  ASSUME NEW S, S \subseteq Nat, S # {}
  PROVE  First(S) \in S /\ \A j \in S : First(S) <= j
<1> DEFINE R == OpToRel(<, Nat)
<1>1. \E i \in S : \A j \in S : i <= j
  <2>1. IsWellFoundedOn(R, Nat)
    BY NatLessThanWellFounded
  <2> HIDE DEF R
  <2>2. PICK i \in S : \A j \in S : ~(<<j, i>> \in R)
    BY <2>1, WFMin
  <2>3. ASSUME NEW j \in S
        PROVE  i <= j
    <3>1. ~(<<j, i>> \in R) /\ i \in Nat /\ j \in Nat
      BY <2>2
    <3>2. <<j, i>> \in R <=> j < i
      BY <3>1 DEF R, OpToRel
    <3> QED
      BY <3>1, <3>2
  <2> QED
    BY <2>3
<1>2. First(S) = CHOOSE i \in S : \A j \in S : i <= j
  BY DEF First
<1> QED
  BY <1>1, <1>2

LEMMA FirstUnique ==
  ASSUME NEW S, S \subseteq Nat, NEW i \in S, \A j \in S : i <= j
  PROVE  First(S) = i
<1>1. First(S) \in S /\ First(S) <= i /\ i <= First(S)
  BY FirstIs
<1>2. First(S) \in Nat /\ i \in Nat
  BY <1>1
<1> QED
  BY <1>1, <1>2

BrokenRows(entries) == {i \in 1..Len(entries) : Broken(entries, i)}

\* Appending to a table moves no break.
LEMMA AppendKeepsBreaks ==
  ASSUME NEW s, NEW e, IsSeq(s), NEW i \in 1..Len(s)
  PROVE  Broken(Append(s, e), i) <=> Broken(s, i)
<1>1. Len(s) \in Nat /\ \A j \in 1..Len(s) : Append(s, e)[j] = s[j]
  BY SeqFacts, AppendFacts
<1>2. Append(s, e)[i] = s[i]
  BY <1>1
<1>3. i # 1 => Append(s, e)[i - 1] = s[i - 1]
  <2>1. i # 1 => i - 1 \in 1..Len(s)
    BY <1>1
  <2> QED
    BY <1>1, <2>1
<1> QED
  BY <1>2, <1>3 DEF Broken

\* The step behind AppendsNeverMask.
LEMMA AppendKeepsFirst ==
  ASSUME NEW s, NEW e, IsSeq(s), VerifyChain(s) # Intact
  PROVE  VerifyChain(Append(s, e)) = VerifyChain(s)
<1> DEFINE old == BrokenRows(s)
           new == BrokenRows(Append(s, e))
<1>1. Len(s) \in Nat /\ Len(Append(s, e)) = Len(s) + 1
  BY SeqFacts, AppendFacts
<1>2. old \subseteq 1..Len(s) /\ new \subseteq 1..(Len(s) + 1)
  BY <1>1 DEF BrokenRows
<1>3. \A i \in 1..Len(s) : i \in new <=> i \in old
  BY <1>1, AppendKeepsBreaks DEF BrokenRows
<1>4. VerifyChain(s) = First(old) /\ VerifyChain(Append(s, e)) = First(new)
  BY DEF VerifyChain, BrokenRows
<1> HIDE DEF old, new
<1>5. old # {}
  BY <1>4 DEF First, Intact
<1>6. old \subseteq Nat /\ new \subseteq Nat
  BY <1>1, <1>2
<1>7. First(old) \in old /\ \A j \in old : First(old) <= j
  BY <1>5, <1>6, FirstIs
<1>8. First(old) \in new /\ First(old) \in 1..Len(s)
  BY <1>2, <1>3, <1>7
<1>9. ASSUME NEW j \in new
      PROVE  First(old) <= j
  <2>1. CASE j \in 1..Len(s)
    BY <1>3, <1>7, <2>1
  <2>2. CASE j = Len(s) + 1
    BY <1>1, <1>8, <2>2
  <2> QED
    BY <1>1, <1>2, <2>1, <2>2
<1>10. First(new) = First(old)
  BY <1>6, <1>8, <1>9, FirstUnique
<1> QED
  BY <1>4, <1>10

\* Once verify_chain has named a row it goes on naming it: nothing that is appended on
\* either store, by however many appenders, repairs the break or puts one before it.
THEOREM AppendsNeverMaskHolds == FeedSpec => AppendsNeverMask
<1>1. ASSUME LogInv, [FeedNext]_allVars,
             tampers' = tampers, Len(rows') >= Len(rows), VerifyChain(rows) # Intact
      PROVE  VerifyChain(rows') = VerifyChain(rows)
  <2>1. IsSeq(rows) /\ Len(rows) \in Nat
    BY <1>1, SeqFacts DEF LogInv, RowsInv
  <2>2. CASE rows' = rows
    BY <2>2
  <2>3. ASSUME NEW e, rows' = Append(rows, e)
        PROVE  VerifyChain(rows') = VerifyChain(rows)
    BY <1>1, <2>1, <2>3, AppendKeepsFirst
  <2>4. CASE PowerFailure
    <3>1. PICK n \in 0..Len(rows) : rows' = SubSeq(rows, 1, n)
      BY <2>4 DEF PowerFailure
    <3>2. Len(rows') = n
      BY <2>1, <3>1, CutFacts
    <3>3. n = Len(rows)
      BY <1>1, <2>1, <3>2
    <3>4. PICK S : rows \in Seq(S)
      BY <2>1 DEF IsSeq
    <3>5. SubSeq(rows, 1, Len(rows)) = rows
      BY <3>4, SubSeqFull
    <3> QED
      BY <2>2, <3>1, <3>3, <3>5
  <2>5. CASE LogNext
    <3>1. ASSUME NEW i \in 1..Len(rows), NEW d \in Payloads
          PROVE  ~Tamper(i, d)
      <4>1. tampers \in Nat
        BY <1>1, LogbookAssumption DEF LogInv, LogTypeOK
      <4> QED
        BY <1>1, <4>1 DEF Tamper
    <3>2. rows' = rows \/ \E e : rows' = Append(rows, e)
      BY <2>5, <3>1, Zenon DEF LogNext, AppendAtomically, ReadTip, Persist, Abandon, Insert
    <3> QED
      BY <2>2, <2>3, <3>2
  <2>6. CASE ~PowerFailure /\ ~LogNext
    BY <1>1, <2>2, <2>6 DEF FeedNext, allVars, logVars, Connect, Poll, Send, Disconnect
  <2> QED
    BY <2>4, <2>5, <2>6
<1>2. LogInv /\ [FeedNext]_allVars
      => [tampers' = tampers /\ Len(rows') >= Len(rows) /\ VerifyChain(rows) # Intact
            => VerifyChain(rows') = VerifyChain(rows)]_logVars
  BY <1>1
<1> QED
  BY <1>2, LogInvariance, PTL DEF FeedSpec, AppendsNeverMask

=============================================================================
