----------------------------- MODULE LanesProofs -----------------------------
(***************************************************************************)
(* What the lanes make of the events they are fed, for any flows, sources, *)
(* windows and lateness, and any capture.                                  *)
(*                                                                         *)
(* The lanes do not read one another's state: each has an invariant of its *)
(* own, and a call of ingest_event keeps both.  What a replay adds, the    *)
(* last two parts, relates them to the capture they are fed from.          *)
(***************************************************************************)
EXTENDS Lanes, FiniteSetTheorems, WellFoundedInduction, TLAPS

-----------------------------------------------------------------------------
(* Sequences *)

LEMMA Appending ==
  ASSUME NEW S, NEW s \in Seq(S), NEW x \in S
  PROVE  /\ Append(s, x) \in Seq(S)
         /\ Len(s) \in Nat
         /\ Len(Append(s, x)) = Len(s) + 1
         /\ Append(s, x) # <<>>
         /\ \A i \in 1..Len(s) : i \in 1..Len(Append(s, x)) /\ Append(s, x)[i] = s[i]
         /\ \A i \in 1..Len(s) : s[i] \in S
         /\ Append(s, x)[Len(s) + 1] = x
         /\ \A i \in 1..Len(Append(s, x)) : i \in 1..Len(s) \/ i = Len(s) + 1
OBVIOUS

LEMMA Single ==
  ASSUME NEW S, NEW x \in S
  PROVE  /\ <<x>> \in Seq(S) /\ Len(<<x>>) = 1 /\ <<x>> # <<>>
         /\ \A i \in 1..Len(<<x>>) : i = 1 /\ <<x>>[i] = x
OBVIOUS

LEMMA NonEmpty ==
  ASSUME NEW S, NEW s \in Seq(S), s # <<>>
  PROVE  1 \in 1..Len(s) /\ Len(s) \in Nat
OBVIOUS

LEMMA Dropping ==
  ASSUME NEW q \in Seq(Nat), NEW k \in 0..Len(q)
  PROVE  /\ SubSeq(q, k + 1, Len(q)) \in Seq(Nat)
         /\ Len(SubSeq(q, k + 1, Len(q))) = Len(q) - k
         /\ \A i \in 1..(Len(q) - k) : SubSeq(q, k + 1, Len(q))[i] = q[k + i]
OBVIOUS

LEMMA Element ==
  ASSUME NEW q \in Seq(Nat), NEW i \in 1..Len(q)
  PROVE  q[i] \in Nat
OBVIOUS

-----------------------------------------------------------------------------
(* The fast lane: the sources do not interact, so the argument is about one of *)
(* them; h is its window and sn all the timestamps it has sent.                *)

\* The window is the tail of what was seen, and holds the last event.
IsTail(h, sn) ==
  /\ h \in Seq(Nat) /\ sn \in Seq(Nat)
  /\ sn # <<>> => h # <<>>
  /\ Len(h) <= Len(sn)
  /\ \A i \in 1..Len(h) : h[i] = sn[Len(sn) - Len(h) + i]

\* No timestamp is older than an earlier one by more than the lateness.
Late(sn) == \A i, j \in 1..Len(sn) : i < j => sn[j] >= sn[i] - MaxLate

\* What was evicted was stale for an event that followed it.
Evicted(h, sn) ==
  \A i \in 1..Len(sn) : i <= Len(sn) - Len(h) =>
    \E j \in 1..Len(sn) : i < j /\ sn[j] - sn[i] > HistorySpan

Fresh(h, sn) == \A i \in 1..Len(h) : sn[Len(sn)] - h[i] <= HistorySpan + MaxLate

\* Where eviction stopped, the front is not stale.
FrontFresh(h, sn) == h # <<>> => sn[Len(sn)] - h[1] <= HistorySpan

Sound(h, sn) ==
  IsTail(h, sn) /\ Late(sn) /\ Evicted(h, sn) /\ Fresh(h, sn) /\ FrontFresh(h, sn)

FeaturesInv ==
  /\ history \in [Addresses -> Seq(Nat)] /\ seen \in [Addresses -> Seq(Nat)]
  /\ \A s \in Addresses : Sound(history[s], seen[s])

LEMMA NotStale ==
  ASSUME NEW ts \in Nat, NEW x \in Nat
  PROVE  ~Stale(x, ts) <=> ts - x <= HistorySpan
BY FeaturizerAssumption DEF Stale

\* features_for appends ts to the window h, giving q, and evicts k events of q,
\* giving g; it turns the timestamps sn into tn.
Call(h, sn, ts, q, k, g, tn) ==
  /\ \A i \in 1..Len(sn) : ts >= sn[i] - MaxLate
  /\ q = Append(h, ts)
  /\ EvictedCount(q, ts, k)
  /\ g = SubSeq(q, k + 1, Len(q))
  /\ tn = Append(sn, ts)

\* One call of features_for keeps the window of its source sound.
LEMMA WindowStep ==
  ASSUME NEW h, NEW sn, Sound(h, sn), NEW ts \in Nat,
         NEW q, NEW k, NEW g, NEW tn, Call(h, sn, ts, q, k, g, tn)
  PROVE  Sound(g, tn)
<1>1. /\ h \in Seq(Nat) /\ sn \in Seq(Nat)
      /\ Len(h) \in Nat /\ Len(sn) \in Nat /\ Len(h) <= Len(sn)
      /\ \A i \in 1..Len(h) : h[i] = sn[Len(sn) - Len(h) + i]
  BY DEF Sound, IsTail
<1>2. HistorySpan \in Nat /\ MaxLate \in Nat
  BY FeaturizerAssumption
<1>3. /\ q \in Seq(Nat) /\ Len(q) = Len(h) + 1
      /\ \A i \in 1..Len(h) : q[i] = h[i]
      /\ q[Len(q)] = ts
  BY <1>1, Appending DEF Call
<1>4. /\ tn \in Seq(Nat) /\ Len(tn) = Len(sn) + 1 /\ tn # <<>>
      /\ \A i \in 1..Len(sn) : tn[i] = sn[i] /\ sn[i] \in Nat
      /\ tn[Len(tn)] = ts
  BY <1>1, Appending DEF Call
<1>5. /\ k \in 0..Len(q)
      /\ \A j \in 1..k : Stale(q[j], ts)
      /\ k < Len(q) => ~Stale(q[k + 1], ts)
  BY DEF Call, EvictedCount
<1>6. k <= Len(h) /\ k \in Nat
  <2>1. ~Stale(q[Len(q)], ts)
    BY <1>2, <1>3 DEF Stale
  <2>2. k # Len(q)
    <3> SUFFICES ASSUME k = Len(q) PROVE FALSE
      OBVIOUS
    <3>1. Len(q) \in 1..k
      BY <1>1, <1>3
    <3> QED
      BY <1>5, <2>1, <3>1
  <2> QED
    BY <1>1, <1>3, <1>5, <2>2
<1>7. /\ g \in Seq(Nat) /\ Len(g) = Len(q) - k
      /\ \A i \in 1..Len(g) : g[i] = q[k + i]
  <2>1. q \in Seq(Nat) /\ k \in 0..Len(q)
    BY <1>3, <1>5
  <2> QED
    BY <2>1, Dropping, SMTT(40) DEF Call
\* The lengths alone, for the index arithmetic below.
<1>len. /\ Len(h) \in Nat /\ Len(sn) \in Nat /\ Len(h) <= Len(sn)
        /\ Len(q) = Len(h) + 1 /\ Len(tn) = Len(sn) + 1
        /\ Len(g) = Len(q) - k /\ k \in Nat /\ k <= Len(h)
  BY <1>1, <1>3, <1>4, <1>6, <1>7
\* The tail of q is the tail of tn.
<1>8. \A i \in 1..Len(q) : q[i] = tn[Len(tn) - Len(q) + i]
  <2> SUFFICES ASSUME NEW i \in 1..Len(q) PROVE q[i] = tn[Len(tn) - Len(q) + i]
    OBVIOUS
  <2>1. CASE i = Len(q)
    <3>1. Len(tn) - Len(q) + i = Len(tn)
      BY <1>len, <2>1
    <3> QED
      BY <1>3, <1>4, <2>1, <3>1
  <2>2. CASE i # Len(q)
    <3>1. /\ i \in 1..Len(h) /\ Len(sn) - Len(h) + i \in 1..Len(sn)
          /\ Len(tn) - Len(q) + i = Len(sn) - Len(h) + i
      BY <1>len, <2>2
    <3> QED
      BY <1>1, <1>3, <1>4, <3>1
  <2> QED
    BY <2>1, <2>2
<1>9. IsTail(g, tn)
  <2>1. Len(g) <= Len(tn) /\ Len(g) \in Nat \ {0}
    BY <1>len
  <2>2. g # <<>>
    BY <1>7, <2>1
  <2>3. ASSUME NEW i \in 1..Len(g) PROVE g[i] = tn[Len(tn) - Len(g) + i]
    <3>1. k + i \in 1..Len(q) /\ Len(tn) - Len(q) + (k + i) = Len(tn) - Len(g) + i
      BY <1>len
    <3> QED
      BY <1>7, <1>8, <3>1
  <2> QED
    BY <1>4, <1>7, <2>1, <2>2, <2>3 DEF IsTail
<1>10. Late(tn)
  <2> SUFFICES ASSUME NEW i \in 1..Len(tn), NEW j \in 1..Len(tn), i < j
               PROVE  tn[j] >= tn[i] - MaxLate
    BY DEF Late
  <2>1. i \in 1..Len(sn)
    BY <1>len
  <2>2. CASE j = Len(tn)
    <3>1. ts >= sn[i] - MaxLate
      BY <2>1 DEF Call
    <3> QED
      BY <1>4, <2>1, <2>2, <3>1
  <2>3. CASE j # Len(tn)
    <3>1. j \in 1..Len(sn)
      BY <1>len, <2>3
    <3> QED
      BY <1>4, <2>1, <3>1 DEF Sound, Late
  <2> QED
    BY <2>2, <2>3
<1>11. Evicted(g, tn)
  <2> SUFFICES ASSUME NEW i \in 1..Len(tn), i <= Len(tn) - Len(g)
               PROVE  \E j \in 1..Len(tn) : i < j /\ tn[j] - tn[i] > HistorySpan
    BY DEF Evicted
  <2>1. i \in 1..Len(sn) /\ Len(tn) \in 1..Len(tn) /\ i < Len(tn)
    BY <1>len
  <2>2. CASE i <= Len(sn) - Len(h)
    <3>1. PICK j \in 1..Len(sn) : i < j /\ sn[j] - sn[i] > HistorySpan
      BY <2>1, <2>2 DEF Sound, Evicted
    <3>2. j \in 1..Len(tn)
      BY <1>len
    <3> QED
      BY <1>4, <2>1, <3>1, <3>2
  <2>3. CASE ~(i <= Len(sn) - Len(h))
    <3> DEFINE m == i - (Len(sn) - Len(h))
    <3>1. m \in 1..k /\ m \in 1..Len(q) /\ Len(tn) - Len(q) + m = i
      BY <1>len, <2>1, <2>3
    <3> HIDE DEF m
    <3>2. Stale(q[m], ts) /\ q[m] = tn[i]
      BY <1>5, <1>8, <3>1
    <3>3. tn[Len(tn)] - tn[i] > HistorySpan
      BY <1>4, <3>2 DEF Stale
    <3> QED
      BY <2>1, <3>3
  <2> QED
    BY <2>2, <2>3
<1>12. Fresh(g, tn)
  <2> SUFFICES ASSUME NEW i \in 1..Len(g) PROVE ts - g[i] <= HistorySpan + MaxLate
    BY <1>4 DEF Fresh
  <2>1. k + 1 \in 1..Len(q) /\ k + i \in 1..Len(q) /\ k < Len(q) /\ i \in Int /\ Len(tn) \in Nat
    BY <1>len
  <2>2. ts - q[k + 1] <= HistorySpan /\ q[k + 1] \in Nat /\ q[k + i] \in Nat
    <3>1. q \in Seq(Nat)
      BY <1>3
    <3>2. q[k + 1] \in Nat /\ q[k + i] \in Nat
      BY <2>1, <3>1, Element
    <3>3. ~Stale(q[k + 1], ts)
      BY <1>5, <2>1
    <3> QED
      BY <3>2, <3>3, NotStale
  <2>3. q[k + i] >= q[k + 1] - MaxLate
    <3>1. CASE i = 1
      BY <1>2, <2>2, <3>1
    <3>2. CASE i # 1
      <4> DEFINE a == Len(tn) - Len(q) + (k + 1)
                 b == Len(tn) - Len(q) + (k + i)
      <4>1. a \in 1..Len(tn) /\ b \in 1..Len(tn) /\ a < b
        BY <1>len, <2>1, <3>2
      <4>2. q[k + 1] = tn[a] /\ q[k + i] = tn[b]
        BY <1>8, <2>1
      <4> HIDE DEF a, b
      <4> QED
        BY <1>10, <4>1, <4>2 DEF Late
    <3> QED
      BY <3>1, <3>2
  <2>4. g[i] = q[k + i]
    BY <1>7
  <2>5. ASSUME NEW x \in Nat, NEW y \in Nat, ts - x <= HistorySpan, y >= x - MaxLate
        PROVE  ts - y <= HistorySpan + MaxLate
    BY <1>2, <2>5
  <2> QED
    BY <2>2, <2>3, <2>4, <2>5
<1>13. FrontFresh(g, tn)
  <2>1. k + 1 \in 1..Len(q) /\ k < Len(q) /\ 1 \in 1..Len(g)
    BY <1>len
  <2>2. q[k + 1] \in Nat /\ ~Stale(q[k + 1], ts)
    BY <1>3, <1>5, <2>1, Element
  <2>3. ts - q[k + 1] <= HistorySpan
    BY <2>2, NotStale
  <2>4. g[1] = q[k + 1]
    BY <1>7, <2>1
  <2> QED
    BY <1>4, <2>3, <2>4 DEF FrontFresh
<1> QED
  BY <1>9, <1>10, <1>11, <1>12, <1>13 DEF Sound

LEMMA Empty == Sound(<<>>, <<>>)
BY DEF Sound, IsTail, Late, Evicted, Fresh, FrontFresh

\* A call of features_for keeps every window sound.
LEMMA FeaturesStep ==
  ASSUME FeaturesInv, NEW s \in Addresses, NEW ts \in Nat, FeaturesFor(s, ts)
  PROVE  FeaturesInv'
<1>1. ts \in Nat
  OBVIOUS
<1> DEFINE q == Append(history[s], ts)
<1>2. PICK k \in 0..Len(q) :
        /\ EvictedCount(q, ts, k)
        /\ history' = [history EXCEPT ![s] = SubSeq(q, k + 1, Len(q))]
  BY DEF FeaturesFor
<1>3. /\ \A i \in 1..Len(seen[s]) : ts >= seen[s][i] - MaxLate
      /\ seen' = [seen EXCEPT ![s] = Append(@, ts)]
  BY DEF FeaturesFor
<1> DEFINE g == SubSeq(q, k + 1, Len(q))
           tn == Append(seen[s], ts)
<1>4. Sound(history[s], seen[s])
  BY DEF FeaturesInv
<1>5. Sound(g, tn)
  <2>1. Call(history[s], seen[s], ts, q, k, g, tn)
    BY <1>2, <1>3 DEF Call
  <2> QED
    BY <1>1, <1>4, <2>1, WindowStep
<1> HIDE DEF q, g, tn
<1>6. g \in Seq(Nat) /\ tn \in Seq(Nat)
  BY <1>5 DEF Sound, IsTail
<1>7. history' = [history EXCEPT ![s] = g] /\ seen' = [seen EXCEPT ![s] = tn]
  BY <1>2, <1>3 DEF g, tn
<1>8. history' \in [Addresses -> Seq(Nat)] /\ seen' \in [Addresses -> Seq(Nat)]
  BY <1>6, <1>7 DEF FeaturesInv
<1>9. ASSUME NEW p \in Addresses PROVE Sound(history'[p], seen'[p])
  <2>1. CASE p = s
    <3>1. history'[s] = g /\ seen'[s] = tn
      BY <1>7 DEF FeaturesInv
    <3> QED
      BY <1>5, <2>1, <3>1
  <2>2. CASE p # s
    <3>1. history'[p] = history[p] /\ seen'[p] = seen[p]
      BY <1>7, <2>2 DEF FeaturesInv
    <3> QED
      BY <3>1 DEF FeaturesInv
  <2> QED
    BY <2>1, <2>2
<1> QED
  BY <1>8, <1>9 DEF FeaturesInv

LEMMA ResetStep == FeaturesInv /\ Reset => FeaturesInv'
<1> SUFFICES ASSUME FeaturesInv, Reset PROVE FeaturesInv'
  OBVIOUS
<1>1. \A s \in Addresses : history'[s] = <<>> /\ seen'[s] = <<>>
  BY DEF Reset
<1>2. history' \in [Addresses -> Seq(Nat)] /\ seen' \in [Addresses -> Seq(Nat)]
  BY DEF Reset
<1> QED
  BY <1>1, <1>2, Empty DEF FeaturesInv

LEMMA FeaturesInit == FeaturizerInit => FeaturesInv
<1> SUFFICES ASSUME FeaturizerInit PROVE FeaturesInv
  OBVIOUS
<1>1. \A s \in Addresses : history[s] = <<>> /\ seen[s] = <<>>
  BY DEF FeaturizerInit
<1>2. history \in [Addresses -> Seq(Nat)] /\ seen \in [Addresses -> Seq(Nat)]
  BY DEF FeaturizerInit
<1> QED
  BY <1>1, <1>2, Empty DEF FeaturesInv

-----------------------------------------------------------------------------
(* The deep lane *)

\* The buffered events were accepted against the start of the open window.
BufferInv ==
  buffer # <<>> =>
    /\ windowStart <= newest
    /\ \A i \in 1..Len(buffer) :
         buffer[i].ts < windowStart + Window /\ buffer[i].ts >= windowStart - MaxLate

\* An elapsed window was closed by an event at or after its end, so whatever has
\* arrived since is not much older.
ElapsedInv ==
  \A j \in 1..Len(emitted) : emitted[j].elapsed =>
    /\ newest >= emitted[j].start + Window
    /\ \A i \in 1..Len(buffer) : buffer[i].ts >= emitted[j].start + Window - MaxLate

BuilderInv ==
  TypeOK /\ BufferInv /\ ElapsedInv /\ EventsOnce /\ WindowSpan /\ WindowsInOrder

Windows == [events : Seq(Events), start : Nat, elapsed : BOOLEAN]

LEMMA WindowFields ==
  ASSUME NEW s \in Seq(Windows), NEW j \in 1..Len(s)
  PROVE  s[j].start \in Nat
<1>1. s[j] \in Windows
  OBVIOUS
<1> QED
  BY <1>1 DEF Windows

\* What arrives after an elapsed window is not much older than its end.
LEMMA LateBound ==
  ASSUME NEW start \in Nat, NEW n \in Nat, NEW m \in Nat, NEW ts \in Nat,
         m >= n, ts >= n - MaxLate, n >= start + Window
  PROVE  m >= start + Window /\ ts >= start + Window - MaxLate
BY BuilderAssumption

\* An event that closes a window is at or after its end.
LEMMA CloseBound ==
  ASSUME NEW start \in Nat, NEW m \in Nat, NEW ts \in Nat, m >= ts, ts - start >= Window
  PROVE  m >= start + Window /\ ts >= start + Window - MaxLate
BY BuilderAssumption

\* An event that arrives is an event, and not older than MaxLate.
LEMMA Arrival ==
  ASSUME BuilderInv, NEW flow \in Flows, NEW ts \in Nat, Ingest(flow, ts)
  PROVE  /\ Event(arrived + 1, flow, ts) \in Events
         /\ ts \in Nat /\ ts >= newest - MaxLate
         /\ arrived' = arrived + 1 /\ arrived \in Nat
         /\ newest' \in Nat /\ newest' >= newest /\ newest' >= ts /\ newest \in Nat
<1>1. ts \in Nat
  BY BuilderAssumption DEF Times
<1>2. arrived \in Nat /\ newest \in Nat
  BY DEF BuilderInv, TypeOK
<1> QED
  BY <1>1, <1>2 DEF Ingest, Elapsed, OpenedWith, Event, Events

\* Handing the buffer on as a window keeps what is said of the windows.
LEMMA Handover ==
  ASSUME BuilderInv, buffer # <<>>, NEW b \in BOOLEAN,
         emitted' = Append(emitted, Closed(buffer, windowStart, b)),
         arrived' - Len(buffer') = arrived,
         RunFrom(buffer', arrived + 1),
         NEW n \in Nat, n = Len(emitted)
  PROVE  /\ emitted' \in Seq(Windows)
         /\ WindowSpan' /\ WindowsInOrder' /\ EventsOnce'
<1> DEFINE w == Closed(buffer, windowStart, b)
<1>1. /\ windowStart \in Nat /\ buffer \in Seq(Events) /\ emitted \in Seq(Windows)
      /\ arrived \in Nat /\ newest \in Nat
  BY DEF BuilderInv, TypeOK, Windows
<1>2. /\ w \in Windows
      /\ w.events = buffer /\ w.start = windowStart /\ w.elapsed = b
  BY <1>1 DEF Closed, Windows
<1>3. n \in Nat /\ Len(buffer) \in Nat /\ 1 \in 1..Len(buffer)
  BY <1>1, NonEmpty
<1> HIDE DEF w
<1>4. /\ emitted' \in Seq(Windows) /\ Len(emitted') = n + 1
      /\ \A k \in 1..n : k \in 1..Len(emitted') /\ emitted'[k] = emitted[k]
      /\ emitted'[n + 1] = w
      /\ \A k \in 1..Len(emitted') : k \in 1..n \/ k = n + 1
  <2>1. emitted' = Append(emitted, w)
    BY DEF w
  <2> QED
    BY <1>1, <1>2, <2>1, Appending
<1>5. WindowSpan'
  BY <1>2, <1>4 DEF WindowSpan, BuilderInv, BufferInv
<1>6. WindowsInOrder'
  <2> SUFFICES ASSUME NEW j \in 1..Len(emitted'), NEW k \in 1..Len(emitted'),
                      NEW i \in 1..Len(emitted'[k].events),
                      j < k, emitted'[j].elapsed
               PROVE  emitted'[k].events[i].ts >= emitted'[j].start + Window - MaxLate
    BY ZenonT(40) DEF WindowsInOrder
  <2>1. j \in 1..n
    BY <1>3, <1>4
  <2>2. CASE k \in 1..n
    BY <1>4, <2>1, <2>2 DEF BuilderInv, WindowsInOrder
  <2>3. CASE k = n + 1
    BY <1>2, <1>4, <2>1, <2>3 DEF BuilderInv, ElapsedInv
  <2> QED
    BY <1>4, <2>2, <2>3
<1>7. EventsOnce'
  <2>1. FirstId(n + 1) = arrived - Len(buffer) + 1
    BY <1>3 DEF FirstId
  <2>2. RunFrom(buffer, arrived - Len(buffer) + 1)
    BY <2>1 DEF BuilderInv, EventsOnce
  <2>3. buffer[1].id = arrived - Len(buffer) + 1
    BY <1>1, <1>3, <2>2 DEF RunFrom
  <2>4. FirstId(n + 1)' = FirstId(n + 1)
    BY <1>2, <1>3, <1>4, <2>1, <2>3 DEF FirstId
  <2>5. \A k \in 1..n : FirstId(k)' = FirstId(k)
    BY <1>3, <1>4 DEF FirstId
  <2>6. FirstId(n + 2)' = arrived + 1
    BY <1>3, <1>4 DEF FirstId
  <2>7. FirstId(1)' = 1
    <3>1. CASE n = 0
      BY <2>4, <3>1 DEF BuilderInv, EventsOnce
    <3>2. CASE n # 0
      BY <1>3, <2>5, <3>2 DEF BuilderInv, EventsOnce
    <3> QED
      BY <3>1, <3>2
  <2>8. RunFrom(buffer, FirstId(Len(emitted) + 1))'
    <3>1. FirstId(Len(emitted) + 1)' = arrived + 1
      BY <1>3, <1>4, <2>6
    <3> QED
      BY <3>1 DEF RunFrom
  <2>9. ASSUME NEW k \in 1..Len(emitted')
        PROVE  /\ emitted'[k].events # <<>>
               /\ RunFrom(emitted'[k].events, FirstId(k)')
               /\ FirstId(k + 1)' = FirstId(k)' + Len(emitted'[k].events)
    <3>1. CASE k \in 1..n
      <4>1. /\ emitted[k].events # <<>>
            /\ RunFrom(emitted[k].events, FirstId(k))
            /\ FirstId(k + 1) = FirstId(k) + Len(emitted[k].events)
        BY <3>1 DEF BuilderInv, EventsOnce
      <4>2. FirstId(k + 1)' = FirstId(k + 1)
        <5>1. k + 1 \in 1..n \/ k + 1 = n + 1
          BY <1>3, <3>1
        <5> QED
          BY <2>4, <2>5, <5>1
      <4> QED
        BY <1>4, <2>5, <3>1, <4>1, <4>2
    <3>2. CASE k = n + 1
      <4>1. FirstId(k + 1)' = arrived + 1
        BY <1>3, <2>6, <3>2
      <4>2. emitted'[k].events = buffer
        BY <1>2, <1>4, <3>2
      <4>3. FirstId(k)' = arrived - Len(buffer) + 1
        BY <2>1, <2>4, <3>2
      <4>4. arrived + 1 = arrived - Len(buffer) + 1 + Len(buffer)
        BY <1>1, <1>3
      <4> QED
        BY <2>2, <4>1, <4>2, <4>3, <4>4
    <3> QED
      BY <1>4, <3>1, <3>2
  <2> QED
    BY <2>7, <2>8, <2>9 DEF EventsOnce, RunFrom
<1> QED
  BY <1>4, <1>5, <1>6, <1>7

-----------------------------------------------------------------------------

LEMMA BuilderInit == Init => BuilderInv
<1> SUFFICES ASSUME Init PROVE BuilderInv
  OBVIOUS
<1>1. TypeOK
  BY DEF Init, TypeOK
<1>2. Len(emitted) = 0 /\ Len(buffer) = 0 /\ arrived = 0
  BY DEF Init
<1> QED
  BY <1>1, <1>2 DEF Init, BuilderInv, BufferInv, ElapsedInv, EventsOnce, RunFrom, FirstId,
                    WindowSpan, WindowsInOrder

\* ingest, when the event joins the open window or opens one.
LEMMA JoinStep ==
  ASSUME BuilderInv, NEW flow \in Flows, NEW ts \in Nat, Ingest(flow, ts),
         NEW start \in Nat, start = IF windowStart = NoStart THEN ts ELSE windowStart,
         ~(ts - start >= Window /\ buffer # <<>>)
  PROVE  BuilderInv'
<1> DEFINE e == Event(arrived + 1, flow, ts)
<1>1. /\ e \in Events /\ ts \in Nat /\ ts >= newest - MaxLate
      /\ arrived' = arrived + 1 /\ arrived \in Nat
      /\ newest' \in Nat /\ newest' >= newest /\ newest' >= ts /\ newest \in Nat
  BY Arrival
<1>2. buffer' = Append(buffer, e) /\ windowStart' = start /\ emitted' = emitted
  BY DEF Ingest, Elapsed, OpenedWith
<1>3. e.id = arrived + 1 /\ e.ts = ts
  BY DEF Event
<1> HIDE DEF e
<1>4. /\ buffer \in Seq(Events) /\ windowStart \in Nat \cup {NoStart}
      /\ (windowStart = NoStart <=> buffer = <<>>)
      /\ emitted \in Seq(Windows)
  BY DEF BuilderInv, TypeOK, Windows
<1>5. /\ buffer' \in Seq(Events) /\ buffer' # <<>> /\ Len(buffer) \in Nat
      /\ Len(buffer') = Len(buffer) + 1
      /\ \A i \in 1..Len(buffer) : buffer'[i] = buffer[i]
      /\ buffer'[Len(buffer) + 1] = e
      /\ \A i \in 1..Len(buffer') : i \in 1..Len(buffer) \/ i = Len(buffer) + 1
  BY <1>1, <1>2, <1>4, Appending
<1>6. Window \in Nat /\ MaxLate \in Nat /\ Window > 0
  BY BuilderAssumption
<1>7. TypeOK'
  BY <1>1, <1>2, <1>5, <1>4 DEF TypeOK, NoStart, BuilderInv
<1>8. ts < start + Window /\ start <= newest'
  <2>1. CASE buffer = <<>>
    BY <1>1, <1>4, <1>6, <2>1
  <2>2. CASE buffer # <<>>
    <3>1. start = windowStart /\ windowStart <= newest
      BY <1>4, <2>2 DEF BuilderInv, BufferInv
    <3> QED
      BY <1>1, <1>6, <2>2, <3>1
  <2> QED
    BY <2>1, <2>2
<1>9. ts >= start - MaxLate
  <2>1. CASE buffer = <<>>
    BY <1>1, <1>4, <1>6, <2>1
  <2>2. CASE buffer # <<>>
    <3>1. start = windowStart /\ windowStart <= newest
      BY <1>4, <2>2 DEF BuilderInv, BufferInv
    <3> QED
      BY <1>1, <1>6, <3>1
  <2> QED
    BY <2>1, <2>2
<1>10. BufferInv'
  <2>1. ASSUME NEW i \in 1..Len(buffer')
        PROVE  buffer'[i].ts < start + Window /\ buffer'[i].ts >= start - MaxLate
    <3>1. CASE i \in 1..Len(buffer)
      <4>1. buffer # <<>>
        BY <1>5, <3>1
      <4>2. start = windowStart
        BY <1>4, <4>1
      <4> QED
        BY <1>5, <3>1, <4>1, <4>2 DEF BuilderInv, BufferInv
    <3>2. CASE i = Len(buffer) + 1
      BY <1>3, <1>5, <1>8, <1>9, <3>2
    <3> QED
      BY <1>5, <3>1, <3>2
  <2> QED
    BY <1>2, <1>8, <2>1 DEF BufferInv
<1>11. ElapsedInv'
  <2> SUFFICES ASSUME NEW j \in 1..Len(emitted), emitted[j].elapsed
               PROVE  /\ newest' >= emitted[j].start + Window
                      /\ \A i \in 1..Len(buffer') :
                           buffer'[i].ts >= emitted[j].start + Window - MaxLate
    BY <1>2 DEF ElapsedInv
  <2>1. /\ newest >= emitted[j].start + Window
        /\ \A i \in 1..Len(buffer) :
             buffer[i].ts >= emitted[j].start + Window - MaxLate
    BY DEF BuilderInv, ElapsedInv
  <2>2. emitted[j].start \in Nat
    BY <1>4, WindowFields
  <2>3. newest' >= emitted[j].start + Window /\ ts >= emitted[j].start + Window - MaxLate
    <3>1. newest >= emitted[j].start + Window
      BY <2>1
    <3> QED
      BY <1>1, <1>6, <2>2, <3>1, SMTT(40)
  <2> QED
    BY <1>3, <1>5, <2>1, <2>3
<1>12. WindowSpan' /\ WindowsInOrder'
  BY <1>2 DEF BuilderInv, WindowSpan, WindowsInOrder
<1>13. EventsOnce'
  <2>1. arrived' - Len(buffer') + 1 = arrived - Len(buffer) + 1
    BY <1>1, <1>5
  <2>2. \A k \in Int : FirstId(k)' = FirstId(k)
    BY <1>2, <2>1 DEF FirstId
  <2>3. FirstId(1)' = 1 /\ Len(emitted) \in Nat
    BY <1>4, <2>2 DEF BuilderInv, EventsOnce
  <2>4. \A k \in 1..Len(emitted) :
          /\ emitted[k].events # <<>>
          /\ RunFrom(emitted[k].events, FirstId(k))
          /\ FirstId(k + 1) = FirstId(k) + Len(emitted[k].events)
    BY DEF BuilderInv, EventsOnce
  <2>5. \A k \in 1..Len(emitted) : FirstId(k)' = FirstId(k) /\ FirstId(k + 1)' = FirstId(k + 1)
    BY <2>2
  <2>6. FirstId(Len(emitted) + 1) = arrived - Len(buffer) + 1
    BY <2>3 DEF FirstId
  <2>7. FirstId(Len(emitted) + 1)' = arrived - Len(buffer) + 1
    BY <1>2, <2>1, <2>3 DEF FirstId
  <2>8. RunFrom(buffer, arrived - Len(buffer) + 1)
    BY <2>6 DEF BuilderInv, EventsOnce
  <2>9. RunFrom(buffer', arrived - Len(buffer) + 1)
    <3>1. arrived + 1 = arrived - Len(buffer) + 1 + (Len(buffer) + 1) - 1
      BY <1>1, <1>5
    <3> QED
      BY <1>3, <1>5, <2>8, <3>1 DEF RunFrom
  <2>10. RunFrom(buffer, FirstId(Len(emitted) + 1))'
    BY <2>7, <2>9 DEF RunFrom
  <2>11. \A k \in 1..Len(emitted') :
          /\ emitted'[k].events # <<>>
          /\ RunFrom(emitted'[k].events, FirstId(k)')
          /\ FirstId(k + 1)' = FirstId(k)' + Len(emitted'[k].events)
    BY <1>2, <2>4, <2>5
  <2> QED
    BY <2>3, <2>10, <2>11 DEF EventsOnce, RunFrom
<1> QED
  BY <1>7, <1>10, <1>11, <1>12, <1>13 DEF BuilderInv

\* ingest, when the event closes the open window.
LEMMA CloseStep ==
  ASSUME BuilderInv, NEW flow \in Flows, NEW ts \in Nat, Ingest(flow, ts),
         NEW start \in Nat, start = IF windowStart = NoStart THEN ts ELSE windowStart,
         ts - start >= Window, buffer # <<>>
  PROVE  BuilderInv'
<1> DEFINE e == Event(arrived + 1, flow, ts)
<1>1. /\ e \in Events /\ ts \in Nat /\ ts >= newest - MaxLate
      /\ arrived' = arrived + 1 /\ arrived \in Nat
      /\ newest' \in Nat /\ newest' >= newest /\ newest' >= ts /\ newest \in Nat
  BY Arrival
<1>2. /\ windowStart = start
      /\ buffer \in Seq(Events) /\ emitted \in Seq(Windows) /\ Len(emitted) \in Nat
  BY DEF BuilderInv, TypeOK, Windows
<1>3. /\ emitted' = Append(emitted, Closed(buffer, windowStart, TRUE))
      /\ buffer' = <<e>> /\ windowStart' = ts
  BY <1>2 DEF Ingest, Elapsed, OpenedWith
<1>4. e.id = arrived + 1 /\ e.ts = ts
  BY DEF Event
<1> HIDE DEF e
<1>5. /\ buffer' \in Seq(Events) /\ Len(buffer') = 1 /\ buffer' # <<>>
      /\ \A i \in 1..Len(buffer') : i = 1 /\ buffer'[i] = e
  BY <1>1, <1>3, Single
<1>6. Window \in Nat /\ MaxLate \in Nat /\ Window > 0
  BY BuilderAssumption
<1>7. arrived' - Len(buffer') = arrived /\ RunFrom(buffer', arrived + 1)
  BY <1>1, <1>4, <1>5 DEF RunFrom
<1>8. emitted' \in Seq(Windows) /\ WindowSpan' /\ WindowsInOrder' /\ EventsOnce'
  BY <1>2, <1>3, <1>7, Handover
<1>9. TypeOK'
  <2>1. windowStart' \in Nat /\ windowStart' # NoStart
    BY <1>1, <1>3 DEF NoStart
  <2> QED
    BY <1>1, <1>5, <1>8, <2>1 DEF TypeOK, Windows
<1>10. BufferInv'
  BY <1>1, <1>3, <1>4, <1>5, <1>6 DEF BufferInv
<1>11. ElapsedInv'
  <2>1. /\ \A k \in 1..Len(emitted) : emitted'[k] = emitted[k]
        /\ \A k \in 1..Len(emitted') : k \in 1..Len(emitted) \/ k = Len(emitted) + 1
        /\ emitted'[Len(emitted) + 1] = Closed(buffer, windowStart, TRUE)
    <3> DEFINE w == Closed(buffer, windowStart, TRUE)
    <3>1. w \in Windows /\ emitted' = Append(emitted, w)
      BY <1>2, <1>3 DEF Closed, Windows
    <3>2. emitted \in Seq(Windows)
      BY <1>2
    <3> HIDE DEF w
    <3>3. /\ \A k \in 1..Len(emitted) : emitted'[k] = emitted[k]
          /\ \A k \in 1..Len(emitted') : k \in 1..Len(emitted) \/ k = Len(emitted) + 1
          /\ emitted'[Len(emitted) + 1] = w
      BY <3>1, <3>2, Appending
    <3> QED
      BY <3>3 DEF w
  <2> SUFFICES ASSUME NEW j \in 1..Len(emitted'), emitted'[j].elapsed
               PROVE  /\ newest' >= emitted'[j].start + Window
                      /\ ts >= emitted'[j].start + Window - MaxLate
    BY <1>4, <1>5 DEF ElapsedInv
  <2>2. CASE j \in 1..Len(emitted)
    <3>1. newest >= emitted[j].start + Window
      BY <2>1, <2>2 DEF BuilderInv, ElapsedInv
    <3>2. emitted[j].start \in Nat
      BY <1>2, <2>2, WindowFields
    <3>3. newest' >= emitted[j].start + Window /\ ts >= emitted[j].start + Window - MaxLate
      BY <1>1, <3>1, <3>2, LateBound
    <3> QED
      BY <2>1, <2>2, <3>3
  <2>3. CASE j = Len(emitted) + 1
    <3>1. emitted'[j].start = start
      BY <1>2, <2>1, <2>3 DEF Closed
    <3>2. newest' \in Nat /\ newest' >= ts
      BY <1>1
    <3>3. newest' >= start + Window /\ ts >= start + Window - MaxLate
      BY <1>1, <3>2, CloseBound
    <3> QED
      BY <3>1, <3>3
  <2> QED
    BY <2>1, <2>2, <2>3
<1> QED
  BY <1>8, <1>9, <1>10, <1>11 DEF BuilderInv

LEMMA FlushStep ==
  ASSUME BuilderInv, Flush
  PROVE  BuilderInv'
<1>1. /\ buffer # <<>> /\ windowStart \in Nat
      /\ emitted' = Append(emitted, Closed(buffer, windowStart, FALSE))
      /\ buffer' = <<>> /\ windowStart' = NoStart
      /\ arrived' = arrived /\ newest' = newest
  BY DEF Flush, BuilderInv, TypeOK
<1>2. /\ arrived \in Nat /\ newest \in Nat
      /\ emitted \in Seq(Windows) /\ Len(emitted) \in Nat
      /\ buffer \in Seq(Events) /\ Len(buffer') = 0
  BY <1>1 DEF BuilderInv, TypeOK, Windows
<1>3. arrived' - Len(buffer') = arrived /\ RunFrom(buffer', arrived + 1)
  BY <1>1, <1>2 DEF RunFrom
<1>4. emitted' \in Seq(Windows) /\ WindowSpan' /\ WindowsInOrder' /\ EventsOnce'
  BY <1>1, <1>2, <1>3, Handover
<1>5. TypeOK'
  <2>1. buffer' \in Seq(Events)
    BY <1>1
  <2> QED
    BY <1>1, <1>2, <1>4, <2>1 DEF TypeOK, Windows
<1>6. BufferInv'
  BY <1>1 DEF BufferInv
<1>7. ElapsedInv'
  <2>1. /\ \A k \in 1..Len(emitted) : emitted'[k] = emitted[k]
        /\ \A k \in 1..Len(emitted') : k \in 1..Len(emitted) \/ k = Len(emitted) + 1
        /\ emitted'[Len(emitted) + 1] = Closed(buffer, windowStart, FALSE)
    <3> DEFINE w == Closed(buffer, windowStart, FALSE)
    <3>1. w \in Windows /\ emitted' = Append(emitted, w)
      BY <1>1, <1>2 DEF Closed, Windows
    <3>2. emitted \in Seq(Windows)
      BY <1>2
    <3> HIDE DEF w
    <3>3. /\ \A k \in 1..Len(emitted) : emitted'[k] = emitted[k]
          /\ \A k \in 1..Len(emitted') : k \in 1..Len(emitted) \/ k = Len(emitted) + 1
          /\ emitted'[Len(emitted) + 1] = w
      BY <3>1, <3>2, Appending
    <3> QED
      BY <3>3 DEF w
  <2>2. ~emitted'[Len(emitted) + 1].elapsed
    BY <2>1 DEF Closed
  <2> QED
    <3>1. ASSUME NEW j \in 1..Len(emitted'), emitted'[j].elapsed
          PROVE  newest >= emitted'[j].start + Window
      <4>1. j \in 1..Len(emitted)
        BY <2>1, <2>2, <3>1
      <4> QED
        BY <2>1, <3>1, <4>1 DEF BuilderInv, ElapsedInv
    <3>2. newest' = newest /\ Len(buffer') = 0
      BY <1>1, <1>2
    <3> QED
      BY <3>1, <3>2 DEF ElapsedInv
<1> QED
  BY <1>4, <1>5, <1>6, <1>7 DEF BuilderInv

\* An event keeps the builder's invariant, whether it joins the open window or not.
LEMMA BuilderStep ==
  ASSUME BuilderInv, NEW flow \in Flows, NEW ts \in Nat, Ingest(flow, ts)
  PROVE  BuilderInv'
<1> DEFINE start == IF windowStart = NoStart THEN ts ELSE windowStart
<1>1. start \in Nat
  BY DEF BuilderInv, TypeOK
<1>2. CASE ts - start >= Window /\ buffer # <<>>
  BY <1>1, <1>2, CloseStep
<1>3. CASE ~(ts - start >= Window /\ buffer # <<>>)
  BY <1>1, <1>3, JoinStep
<1> QED
  BY <1>2, <1>3

LEMMA BuilderStutter == BuilderInv /\ UNCHANGED vars => BuilderInv'
<1> SUFFICES ASSUME BuilderInv, UNCHANGED vars PROVE BuilderInv'
  OBVIOUS
<1>1. /\ buffer' = buffer /\ windowStart' = windowStart /\ emitted' = emitted
      /\ arrived' = arrived /\ newest' = newest
  BY DEF vars
<1>2. TypeOK' /\ BufferInv' /\ ElapsedInv' /\ WindowSpan' /\ WindowsInOrder'
  BY <1>1 DEF BuilderInv, TypeOK, BufferInv, ElapsedInv, WindowSpan, WindowsInOrder
<1>3. EventsOnce'
  BY <1>1 DEF BuilderInv, EventsOnce, RunFrom, FirstId
<1> QED
  BY <1>2, <1>3 DEF BuilderInv

LEMMA FeaturesStutter == FeaturesInv /\ UNCHANGED featurizerVars => FeaturesInv'
BY DEF featurizerVars, FeaturesInv

-----------------------------------------------------------------------------
(* A capture cut into flows *)

Ends == {p.src : p \in Packets} \cup {p.dst : p \in Packets}
Members == [id : Nat, packet : Packets, ts : Nat]
FlowStates ==
  [src : Ends, dst : Ends, first : Nat, last : Nat, fwd : Nat, bwd : Nat,
   members : Seq(Members)]

\* What the packets of a flow have in common.
MemberOK(f, j) ==
  /\ FlowKey(f.members[j].packet) = FlowKey(f)
  /\ f.first - MaxLate <= f.members[j].ts
  /\ f.members[j].ts <= f.first + Active
  /\ j < Len(f.members) => Gap(f, j) <= Idle

\* A flow is put together from its packets.
FlowOK(f) ==
  /\ f \in FlowStates
  /\ \E p \in Packets : f.src = p.src /\ f.dst = p.dst
  /\ f.members # <<>>
  /\ f.fwd + f.bwd = Len(f.members) /\ f.fwd > 0
  /\ f.members[1].ts = f.first
  /\ f.members[Len(f.members)].ts = f.last
  /\ \A j \in 1..Len(f.members) : MemberOK(f, j)

Id(s, i, j) == s[i].members[j].id

\* The flow g, that goes on with the conversation where f ends, had to be opened.
HadToOpen(f, g) == g.first - f.last > Idle \/ g.first - f.first > Active

\* One of the flows is over before the other begins.
Apart(f, g) == LastPacket(f) < FirstPacket(g) \/ LastPacket(g) < FirstPacket(f)

\* The flows s are a cut of the packets 1..n.
Cut(s, n) ==
  /\ s \in Seq(FlowStates)
  /\ \A i \in 1..Len(s) : FlowOK(s[i])
  /\ \A i \in 1..Len(s) : \A j \in 1..Len(s[i].members) :
       Id(s, i, j) \in 1..n /\ j <= Id(s, i, j)
  /\ \A m \in 1..n : \E i \in 1..Len(s) : \E j \in 1..Len(s[i].members) : Id(s, i, j) = m
  /\ \A i, k \in 1..Len(s) : \A j \in 1..Len(s[i].members) : \A l \in 1..Len(s[k].members) :
       Id(s, i, j) = Id(s, k, l) => i = k /\ j = l
  /\ \A i, k \in 1..Len(s) : i # k /\ FlowKey(s[i]) = FlowKey(s[k]) =>
       /\ Apart(s[i], s[k])
       /\ Continues(s, s[i], s[k]) => HadToOpen(s[i], s[k])

\* A conversation whose flow f is finished has one open that began later.
Succeeded(f) ==
  \E k \in 1..Len(openFlows) :
    FlowKey(openFlows[k]) = FlowKey(f) /\ LastPacket(f) < FirstPacket(openFlows[k])

\* While a capture is read, at most one flow of every conversation is open, and that is
\* its last one.
ReadingInv ==
  extraction = "reading" =>
    /\ finished \in Seq(FlowStates) /\ openFlows \in Seq(FlowStates)
    /\ Cut(finished \o openFlows, parsed)
    /\ \A i, k \in 1..Len(openFlows) : FlowKey(openFlows[i]) = FlowKey(openFlows[k]) => i = k
    /\ \A i \in 1..Len(openFlows) : openFlows[i].first <= clock
    /\ \A i \in 1..Len(finished) : Succeeded(finished[i])

Sorted(s) == \A i, k \in 1..Len(s) : i < k => s[i].first <= s[k].first

ExtractedInv == extraction = "extracted" => Cut(finished, parsed) /\ Sorted(finished)

ExtractionInv ==
  /\ parsed \in Nat /\ clock \in Nat /\ Times \subseteq Nat
  /\ ReadingInv /\ ExtractedInv

-----------------------------------------------------------------------------
(* A capture replayed *)

\* Before the first flow of a capture nothing has been fed.
Unfed ==
  /\ buffer = <<>> /\ windowStart = NoStart /\ emitted = <<>>
  /\ arrived = 0 /\ newest = 0
  /\ \A s \in Addresses : history[s] = <<>> /\ seen[s] = <<>>
  /\ replayed = 0

\* What has been fed is not newer than the next flow.
FedInOrder ==
  /\ replayed \in 0..Len(finished)
  /\ \A k \in 1..Len(finished) : k > replayed => newest <= finished[k].first
  /\ \A s \in Addresses : \A i \in 1..Len(seen[s]) : seen[s][i] <= newest
  /\ \A s \in Addresses : \A i, j \in 1..Len(seen[s]) : i < j => seen[s][i] <= seen[s][j]

\* What is buffered is not older than its window, and begins after every closed one
\* has elapsed; so does what is still to be replayed.
CutInOrder ==
  /\ \A i \in 1..Len(buffer) : buffer[i].ts >= windowStart
  /\ \A j \in 1..Len(emitted) :
       /\ replayed < Len(finished) => newest >= emitted[j].start + Window
       /\ \A i \in 1..Len(buffer) : buffer[i].ts >= emitted[j].start + Window

\* The windows do not overlap.
WindowsApart ==
  \A k \in 1..Len(emitted) : \A i \in 1..Len(emitted[k].events) :
    LET ts == emitted[k].events[i].ts IN
    /\ emitted[k].start <= ts /\ ts < emitted[k].start + Window
    /\ \A j \in 1..(k - 1) : ts >= emitted[j].start + Window

ReplayInv ==
  origin = "capture" =>
    IF extraction = "extracted" THEN FedInOrder /\ CutInOrder /\ WindowsApart ELSE Unfed

-----------------------------------------------------------------------------
(* The sort of extract_flows *)

\* The flows that go before j, itself included, are as many as its place.
LEMMA PlaceFacts ==
  ASSUME NEW s, NEW n \in Nat, DOMAIN s = 1..n,
         \A i \in 1..n : s[i].first \in Nat
  PROVE  /\ \A j \in 1..n : Place(s, j) \in 1..n
         /\ \A i, j \in 1..n : i # j /\ Before(s, i, j) => Place(s, i) < Place(s, j)
         /\ \A i, j \in 1..n : Before(s, i, j) \/ Before(s, j, i)
<1> DEFINE Up(j) == {i \in 1..n : Before(s, i, j)}
<1>1. IsFiniteSet(1..n) /\ Cardinality(1..n) = n
  BY FS_Interval
<1>2. ASSUME NEW j \in 1..n
      PROVE  /\ IsFiniteSet(Up(j)) /\ Cardinality(Up(j)) \in 1..n
             /\ j \in Up(j) /\ Place(s, j) = Cardinality(Up(j))
  <2>1. IsFiniteSet(Up(j)) /\ Cardinality(Up(j)) <= n
    BY <1>1, FS_Subset
  <2>2. j \in Up(j)
    BY DEF Before
  <2>3. Cardinality(Up(j)) \in Nat
    BY <2>1, FS_CardinalityType
  <2>4. Cardinality(Up(j)) # 0
    BY <2>1, <2>2, FS_EmptySet
  <2>5. Place(s, j) = Cardinality(Up(j))
    BY DEF Place
  <2> HIDE DEF Up
  <2> QED
    BY <2>1, <2>2, <2>3, <2>4, <2>5
<1>3. ASSUME NEW i \in 1..n, NEW j \in 1..n, i # j, Before(s, i, j)
      PROVE  Place(s, i) < Place(s, j)
  <2>1. Up(i) \subseteq Up(j)
    BY <1>3 DEF Before
  <2>2. j \notin Up(i)
    BY <1>3 DEF Before
  <2> HIDE DEF Up
  <2>3. Up(i) # Up(j)
    BY <1>2, <2>2
  <2>4. Cardinality(Up(i)) <= Cardinality(Up(j)) /\ Cardinality(Up(i)) # Cardinality(Up(j))
    BY <1>2, <2>1, <2>3, FS_Subset
  <2> QED
    BY <1>2, <2>4
<1>4. \A i, j \in 1..n : Before(s, i, j) \/ Before(s, j, i)
  BY DEF Before
<1> HIDE DEF Up
<1> QED
  BY <1>2, <1>3, <1>4

\* t is a rearrangement of s.
Rearranges(t, s, at) ==
  /\ DOMAIN t = 1..Len(s)
  /\ at \in [1..Len(s) -> 1..Len(s)]
  /\ \A i, k \in 1..Len(s) : at[i] = at[k] => i = k
  /\ \A i \in 1..Len(s) : \E k \in 1..Len(s) : at[k] = i
  /\ \A k \in 1..Len(s) : t[k] = s[at[k]]

\* What the sort returns are the same flows, the earlier first.
LEMMA InOrderSorts ==
  ASSUME NEW S, NEW s \in Seq(S), \A i \in 1..Len(s) : s[i].first \in Nat
  PROVE  /\ InOrder(s) \in Seq(S) /\ Len(InOrder(s)) = Len(s)
         /\ \E at : Rearranges(InOrder(s), s, at)
         /\ \A i, k \in 1..Len(s) : i < k => InOrder(s)[i].first <= InOrder(s)[k].first
<1> DEFINE n == Len(s)
           place == [j \in 1..n |-> Place(s, j)]
           at == [k \in 1..n |-> CHOOSE j \in 1..n : Place(s, j) = k]
<1>1. n \in Nat /\ DOMAIN s = 1..n /\ \A i \in 1..n : s[i] \in S
  OBVIOUS
<1> HIDE DEF n
<1>2. /\ \A j \in 1..n : Place(s, j) \in 1..n
      /\ \A i, j \in 1..n : i # j /\ Before(s, i, j) => Place(s, i) < Place(s, j)
      /\ \A i, j \in 1..n : Before(s, i, j) \/ Before(s, j, i)
  BY <1>1, PlaceFacts DEF n
<1>3. ASSUME NEW i \in 1..n, NEW j \in 1..n, Place(s, i) = Place(s, j) PROVE i = j
  BY <1>2, <1>3
<1>4. place \in Injection(1..n, 1..n)
  BY <1>2, <1>3 DEF Injection, IsInjective
<1>5. place \in Surjection(1..n, 1..n)
  BY <1>1, <1>4, FS_Injection, FS_Interval
<1>6. \A k \in 1..n : \E j \in 1..n : Place(s, j) = k
  BY <1>5 DEF Surjection
<1>7. \A k \in 1..n : at[k] \in 1..n /\ Place(s, at[k]) = k
  BY <1>6
<1>8. InOrder(s) = [k \in 1..n |-> s[at[k]]]
  BY <1>1 DEF InOrder
<1>9. at \in [1..n -> 1..n]
  BY <1>7
<1> HIDE DEF at, place
<1>10. /\ \A i, k \in 1..n : at[i] = at[k] => i = k
       /\ \A i \in 1..n : at[Place(s, i)] = i
  BY <1>2, <1>3, <1>7
<1>11. Rearranges(InOrder(s), s, at)
  BY <1>2, <1>8, <1>9, <1>10 DEF Rearranges, n
<1>12. InOrder(s) \in [1..n -> S]
  BY <1>1, <1>7, <1>8
<1>13. InOrder(s) \in Seq(S) /\ Len(InOrder(s)) = n
  BY <1>1, <1>12
<1>14. ASSUME NEW i \in 1..n, NEW k \in 1..n, i < k
       PROVE  InOrder(s)[i].first <= InOrder(s)[k].first
  <2>1. /\ at[i] \in 1..n /\ at[k] \in 1..n
        /\ Place(s, at[i]) = i /\ Place(s, at[k]) = k
    BY <1>7
  <2>2. at[i] # at[k]
    BY <1>14, <2>1
  <2>3. ~Before(s, at[k], at[i])
    BY <1>2, <1>14, <2>1, <2>2
  <2>4. Before(s, at[i], at[k])
    BY <1>2, <2>1, <2>3
  <2>5. s[at[i]].first <= s[at[k]].first
    BY <1>1, <2>1, <2>4 DEF Before, n
  <2> QED
    BY <1>8, <2>5
<1> QED
  BY <1>11, <1>13, <1>14 DEF n

-----------------------------------------------------------------------------
(* Cuts *)

LEMMA CutParts ==
  ASSUME NEW s, NEW n, Cut(s, n)
  PROVE  /\ s \in Seq(FlowStates) /\ Len(s) \in Nat
         /\ \A i \in 1..Len(s) :
              /\ FlowOK(s[i]) /\ s[i] \in FlowStates
              /\ s[i].members \in Seq(Members) /\ Len(s[i].members) \in Nat \ {0}
              /\ 1 \in 1..Len(s[i].members)
              /\ Len(s[i].members) \in 1..Len(s[i].members)
              /\ s[i].first \in Nat /\ s[i].last \in Nat
         /\ \A i \in 1..Len(s) : \A j \in 1..Len(s[i].members) :
              Id(s, i, j) \in 1..n /\ j <= Id(s, i, j)
<1>1. s \in Seq(FlowStates) /\ \A i \in 1..Len(s) : FlowOK(s[i])
  BY DEF Cut
<1>2. ASSUME NEW i \in 1..Len(s)
      PROVE  /\ FlowOK(s[i]) /\ s[i] \in FlowStates
             /\ s[i].members \in Seq(Members) /\ Len(s[i].members) \in Nat \ {0}
             /\ 1 \in 1..Len(s[i].members)
             /\ Len(s[i].members) \in 1..Len(s[i].members)
             /\ s[i].first \in Nat /\ s[i].last \in Nat
  <2>1. FlowOK(s[i])
    BY <1>1
  <2>2. s[i] \in FlowStates /\ s[i].members # <<>>
    BY <2>1 DEF FlowOK
  <2>3. s[i].members \in Seq(Members) /\ s[i].first \in Nat /\ s[i].last \in Nat
    BY <2>2 DEF FlowStates
  <2>4. Len(s[i].members) \in Nat \ {0}
    BY <2>2, <2>3
  <2> QED
    BY <2>1, <2>2, <2>3, <2>4
<1>3. \A i \in 1..Len(s) : \A j \in 1..Len(s[i].members) :
        Id(s, i, j) \in 1..n /\ j <= Id(s, i, j)
  BY DEF Cut
<1>4. Len(s) \in Nat
  BY <1>1
<1> QED
  BY <1>1, <1>2, <1>3, <1>4, ZenonT(40)

LEMMA CutIds ==
  ASSUME NEW s, NEW n, Cut(s, n), NEW i \in 1..Len(s), NEW k \in 1..Len(s),
         NEW j \in 1..Len(s[i].members), NEW l \in 1..Len(s[k].members),
         Id(s, i, j) = Id(s, k, l)
  PROVE  i = k /\ j = l
BY DEF Cut

\* The first and the last packet of a flow are among those that are cut.
LEMMA CutEnds ==
  ASSUME NEW s, NEW n, Cut(s, n), NEW i \in 1..Len(s)
  PROVE  /\ FirstPacket(s[i]) = Id(s, i, 1) /\ FirstPacket(s[i]) \in 1..n
         /\ LastPacket(s[i]) \in 1..n
<1>1. 1 \in 1..Len(s[i].members) /\ Len(s[i].members) \in 1..Len(s[i].members)
  BY CutParts
<1>2. FirstPacket(s[i]) = Id(s, i, 1) /\ LastPacket(s[i]) = Id(s, i, Len(s[i].members))
  BY DEF FirstPacket, LastPacket, Id
<1> QED
  BY <1>1, <1>2, CutParts

LEMMA CutPairs ==
  ASSUME NEW s, NEW n, Cut(s, n), NEW i \in 1..Len(s), NEW k \in 1..Len(s), i # k,
         FlowKey(s[i]) = FlowKey(s[k])
  PROVE  Apart(s[i], s[k]) /\ (Continues(s, s[i], s[k]) => HadToOpen(s[i], s[k]))
BY DEF Cut

\* A flow goes on after another as well among other flows, if their conversation has at
\* least the flows there that it has here.
LEMMA ContinuesAmong ==
  ASSUME NEW s, NEW t, NEW f, NEW g, NEW f1, NEW g1, Continues(t, f1, g1),
         FlowKey(f) = FlowKey(f1), FlowKey(g) = FlowKey(g1),
         LastPacket(f) = LastPacket(f1), FirstPacket(g) = FirstPacket(g1),
         \A h \in DOMAIN s : \E x \in DOMAIN t :
           FlowKey(t[x]) = FlowKey(s[h]) /\ FirstPacket(t[x]) = FirstPacket(s[h])
  PROVE  Continues(s, f, g)
BY DEF Continues

\* A rearranged cut is a cut.
LEMMA CutRearranged ==
  ASSUME NEW s, NEW n, Cut(s, n), NEW t \in Seq(FlowStates), Len(t) = Len(s),
         NEW at, Rearranges(t, s, at)
  PROVE  Cut(t, n)
<1>1. /\ at \in [1..Len(s) -> 1..Len(s)]
      /\ \A i, k \in 1..Len(s) : at[i] = at[k] => i = k
      /\ \A i \in 1..Len(s) : \E k \in 1..Len(s) : at[k] = i
      /\ \A k \in 1..Len(s) : at[k] \in 1..Len(s) /\ t[k] = s[at[k]]
  BY DEF Rearranges
<1>2. \A i, j : i \in 1..Len(s) => Id(t, i, j) = Id(s, at[i], j)
  BY <1>1 DEF Id
<1>3. \A i \in 1..Len(t) : FlowOK(t[i])
  BY <1>1 DEF Cut
<1>4. ASSUME NEW i \in 1..Len(t), NEW j \in 1..Len(t[i].members)
      PROVE  Id(t, i, j) \in 1..n /\ j <= Id(t, i, j)
  <2>1. at[i] \in 1..Len(s) /\ j \in 1..Len(s[at[i]].members)
    BY <1>1
  <2>2. Id(s, at[i], j) \in 1..n /\ j <= Id(s, at[i], j)
    BY <2>1, CutParts
  <2> QED
    BY <1>2, <2>2
<1>5. ASSUME NEW m \in 1..n
      PROVE  \E i \in 1..Len(t) : \E j \in 1..Len(t[i].members) : Id(t, i, j) = m
  <2>1. PICK i \in 1..Len(s) : \E j \in 1..Len(s[i].members) : Id(s, i, j) = m
    BY DEF Cut
  <2>2. PICK k \in 1..Len(s) : at[k] = i
    BY <1>1
  <2>3. t[k] = s[i] /\ \A j : Id(t, k, j) = Id(s, i, j)
    BY <1>1, <1>2, <2>2
  <2> QED
    BY <2>1, <2>3
<1>6. ASSUME NEW i \in 1..Len(t), NEW k \in 1..Len(t),
             NEW j \in 1..Len(t[i].members), NEW l \in 1..Len(t[k].members),
             Id(t, i, j) = Id(t, k, l)
      PROVE  i = k /\ j = l
  <2>1. /\ at[i] \in 1..Len(s) /\ j \in 1..Len(s[at[i]].members)
        /\ at[k] \in 1..Len(s) /\ l \in 1..Len(s[at[k]].members)
    BY <1>1
  <2>2. Id(s, at[i], j) = Id(s, at[k], l)
    BY <1>2, <1>6
  <2>3. ASSUME NEW a \in 1..Len(s), NEW b \in 1..Len(s), a = at[i], b = at[k]
        PROVE  a = b /\ j = l
    <3>1. /\ j \in 1..Len(s[a].members) /\ l \in 1..Len(s[b].members)
          /\ Id(s, a, j) = Id(s, b, l)
      BY <2>1, <2>2, <2>3
    <3> QED
      BY <3>1, CutIds
  <2> QED
    BY <1>1, <2>1, <2>3
<1>7. ASSUME NEW i \in 1..Len(t), NEW k \in 1..Len(t), i # k, FlowKey(t[i]) = FlowKey(t[k])
      PROVE  Apart(t[i], t[k]) /\ (Continues(t, t[i], t[k]) => HadToOpen(t[i], t[k]))
  <2>1. at[i] \in 1..Len(s) /\ at[k] \in 1..Len(s) /\ at[i] # at[k]
    BY <1>1, <1>7
  <2>2. t[i] = s[at[i]] /\ t[k] = s[at[k]]
    BY <1>1
  <2>3. /\ Apart(s[at[i]], s[at[k]])
        /\ Continues(s, s[at[i]], s[at[k]]) => HadToOpen(s[at[i]], s[at[k]])
    BY <1>7, <2>1, <2>2, CutPairs
  <2>4. ASSUME Continues(t, t[i], t[k]) PROVE Continues(s, s[at[i]], s[at[k]])
    <3>1. DOMAIN s = 1..Len(s) /\ DOMAIN t = 1..Len(t)
      BY DEF Cut
    <3>2. ASSUME NEW h \in DOMAIN s
          PROVE  \E x \in DOMAIN t :
                   FlowKey(t[x]) = FlowKey(s[h]) /\ FirstPacket(t[x]) = FirstPacket(s[h])
      <4>1. PICK x \in 1..Len(s) : at[x] = h
        BY <1>1, <3>1
      <4>2. x \in DOMAIN t /\ t[x] = s[h]
        BY <1>1, <3>1, <4>1
      <4> QED
        BY <4>2
    <3> QED
      BY <2>2, <2>4, <3>2, ContinuesAmong
  <2> QED
    BY <2>2, <2>3, <2>4
<1> QED
  BY <1>3, <1>4, <1>5, <1>6, <1>7 DEF Cut

\* A new flow of the packet after the last keeps a cut, if it had to be opened.
LEMMA CutAdded ==
  ASSUME NEW n \in Nat, NEW s, Cut(s, n), NEW f, FlowOK(f),
         Len(f.members) = 1, f.members[1].id = n + 1,
         \A i \in 1..Len(s) : Continues(s, s[i], f) => HadToOpen(s[i], f)
  PROVE  Cut(Append(s, f), n + 1)
<1> DEFINE t == Append(s, f)
           N == Len(s)
<1>1. f \in FlowStates /\ s \in Seq(FlowStates)
  BY DEF FlowOK, Cut
<1>2. /\ t \in Seq(FlowStates) /\ Len(t) = N + 1 /\ N \in Nat
      /\ \A i \in 1..N : i \in 1..(N + 1) /\ t[i] = s[i]
      /\ t[N + 1] = f
      /\ \A i \in 1..(N + 1) : i \in 1..N \/ i = N + 1
  BY <1>1, Appending
<1> HIDE DEF t
<1>3. /\ \A i \in 1..N : \A j : Id(t, i, j) = Id(s, i, j)
      /\ Id(t, N + 1, 1) = n + 1
  BY <1>2 DEF Id
<1>4. \A i \in 1..N : \A j \in 1..Len(t[i].members) : Id(t, i, j) \in 1..n /\ j <= Id(t, i, j)
  BY <1>2, <1>3, CutParts
<1>5. \A j \in 1..Len(t[N + 1].members) : j = 1
  <2>1. Len(t[N + 1].members) = 1
    BY <1>2
  <2> QED
    BY <2>1
<1>6. \A i \in 1..Len(t) : FlowOK(t[i])
  BY <1>2, CutParts
<1>7. \A i \in 1..Len(t) : \A j \in 1..Len(t[i].members) :
        Id(t, i, j) \in 1..(n + 1) /\ j <= Id(t, i, j)
  <2> SUFFICES ASSUME NEW i \in 1..Len(t), NEW j \in 1..Len(t[i].members)
               PROVE  Id(t, i, j) \in 1..(n + 1) /\ j <= Id(t, i, j)
    OBVIOUS
  <2>1. CASE i \in 1..N
    <3>1. Id(t, i, j) \in 1..n /\ j <= Id(t, i, j)
      BY <1>4, <2>1
    <3> QED
      BY <3>1
  <2>2. CASE i = N + 1
    <3>1. j = 1
      BY <1>5, <2>2
    <3>2. Id(t, i, j) = n + 1
      BY <1>3, <2>2, <3>1
    <3> QED
      BY <3>1, <3>2
  <2> QED
    BY <1>2, <2>1, <2>2
<1>8. ASSUME NEW m \in 1..(n + 1)
      PROVE  \E i \in 1..Len(t) : \E j \in 1..Len(t[i].members) : Id(t, i, j) = m
  <2>1. CASE m \in 1..n
    <3>1. PICK i \in 1..N : \E j \in 1..Len(s[i].members) : Id(s, i, j) = m
      BY <2>1 DEF Cut
    <3> QED
      BY <1>2, <1>3, <3>1
  <2>2. CASE m = n + 1
    <3>1. N + 1 \in 1..Len(t) /\ 1 \in 1..Len(t[N + 1].members)
      BY <1>2
    <3> QED
      BY <1>3, <2>2, <3>1
  <2>3. m \in 1..n \/ m = n + 1
    OBVIOUS
  <2> QED
    BY <2>1, <2>2, <2>3
<1>9. ASSUME NEW i \in 1..Len(t), NEW k \in 1..Len(t),
             NEW j \in 1..Len(t[i].members), NEW l \in 1..Len(t[k].members),
             Id(t, i, j) = Id(t, k, l)
      PROVE  i = k /\ j = l
  <2>1. CASE i \in 1..N /\ k \in 1..N
    <3>1. /\ j \in 1..Len(s[i].members) /\ l \in 1..Len(s[k].members)
          /\ Id(s, i, j) = Id(s, k, l)
      BY <1>2, <1>3, <1>9, <2>1
    <3> QED
      BY <2>1, <3>1, CutIds
  <2>2. CASE i \in 1..N /\ k = N + 1
    BY <1>3, <1>4, <1>5, <1>9, <2>2
  <2>3. CASE i = N + 1 /\ k \in 1..N
    BY <1>3, <1>4, <1>5, <1>9, <2>3
  <2>4. CASE i = N + 1 /\ k = N + 1
    BY <1>5, <2>4
  <2> QED
    BY <1>2, <2>1, <2>2, <2>3, <2>4
<1>10. ASSUME NEW i \in 1..Len(t), NEW k \in 1..Len(t), i # k, FlowKey(t[i]) = FlowKey(t[k])
       PROVE  Apart(t[i], t[k]) /\ (Continues(t, t[i], t[k]) => HadToOpen(t[i], t[k]))
  <2>1. \A h \in 1..N : FirstPacket(t[h]) \in 1..n /\ LastPacket(t[h]) \in 1..n
    BY <1>2, CutEnds
  <2>2. FirstPacket(t[N + 1]) = n + 1 /\ LastPacket(t[N + 1]) = n + 1
    BY <1>2 DEF FirstPacket, LastPacket
  <2>3. \A h \in DOMAIN s : h \in DOMAIN t /\ t[h] = s[h]
    BY <1>1, <1>2
  <2>4. \A a, b : a \in 1..N /\ Continues(t, s[a], b) => Continues(s, s[a], b)
    BY <2>3, ContinuesAmong
  <2>5. CASE i \in 1..N /\ k \in 1..N
    <3>1. t[i] = s[i] /\ t[k] = s[k]
      BY <1>2, <2>5
    <3>2. Apart(s[i], s[k]) /\ (Continues(s, s[i], s[k]) => HadToOpen(s[i], s[k]))
      BY <1>10, <2>5, <3>1, CutPairs
    <3> QED
      BY <2>4, <2>5, <3>1, <3>2
  <2>6. CASE i \in 1..N /\ k = N + 1
    <3>1. t[i] = s[i] /\ t[k] = f
      BY <1>2, <2>6
    <3>2. LastPacket(t[i]) < FirstPacket(t[k])
      BY <2>1, <2>2, <2>6
    <3>3. Continues(s, s[i], f) => HadToOpen(s[i], f)
      BY <2>6
    <3> QED
      BY <2>4, <2>6, <3>1, <3>2, <3>3 DEF Apart
  <2>7. CASE i = N + 1 /\ k \in 1..N
    <3>1. LastPacket(t[k]) < FirstPacket(t[i]) /\ ~(LastPacket(t[i]) < FirstPacket(t[k]))
      BY <2>1, <2>2, <2>7
    <3> QED
      BY <3>1 DEF Apart, Continues
  <2> QED
    BY <1>2, <1>10, <2>5, <2>6, <2>7
<1>11. Cut(t, n + 1)
  BY <1>2, <1>6, <1>7, <1>8, <1>9, <1>10 DEF Cut
<1> QED
  BY <1>11 DEF t

\* Adding the packet after the last to a flow keeps a cut, if the conversation has no
\* later flow.
LEMMA CutExtended ==
  ASSUME NEW n \in Nat, NEW s, Cut(s, n), NEW k \in 1..Len(s), NEW f, FlowOK(f),
         NEW m \in Members, m.id = n + 1, f.members = Append(s[k].members, m),
         f.first = s[k].first, FlowKey(f) = FlowKey(s[k]),
         \A q \in 1..Len(s) :
           q # k /\ FlowKey(s[q]) = FlowKey(s[k]) => LastPacket(s[q]) < FirstPacket(s[k]),
         NEW t, t = [s EXCEPT ![k] = f]
  PROVE  Cut(t, n + 1)
<1> DEFINE N == Len(s)
           L == Len(s[k].members)
<1>1. f \in FlowStates /\ s \in Seq(FlowStates) /\ N \in Nat
  BY DEF FlowOK, Cut
<1>2. /\ t \in Seq(FlowStates) /\ Len(t) = N
      /\ \A i \in 1..N : i # k => t[i] = s[i]
      /\ t[k] = f
  BY <1>1
<1>3. s[k].members \in Seq(Members) /\ L \in Nat \ {0} /\ 1 \in 1..L
  BY CutParts
<1>4. /\ Len(f.members) = L + 1
      /\ \A j \in 1..L : f.members[j] = s[k].members[j]
      /\ f.members[L + 1] = m
      /\ \A j \in 1..(L + 1) : j \in 1..L \/ j = L + 1
  BY <1>3, Appending
<1>5. /\ \A i \in 1..N : \A j : i # k => Id(t, i, j) = Id(s, i, j)
      /\ \A j \in 1..L : Id(t, k, j) = Id(s, k, j)
      /\ Id(t, k, L + 1) = n + 1
  BY <1>2, <1>4 DEF Id
<1>6. \A i \in 1..N : \A j \in 1..Len(s[i].members) :
        /\ Id(t, i, j) = Id(s, i, j) /\ Id(s, i, j) \in 1..n /\ j <= Id(s, i, j)
  BY <1>5, CutParts
<1>7. \A i \in 1..N : \A j \in 1..Len(t[i].members) :
        j \in 1..Len(s[i].members) \/ (i = k /\ j = L + 1)
  BY <1>2, <1>4
<1> HIDE DEF N, L
<1>8. \A i \in 1..Len(t) : FlowOK(t[i])
  BY <1>2, CutParts DEF N
<1>9. L <= n
  <2>1. L \in 1..Len(s[k].members) /\ k \in 1..N
    BY <1>3 DEF L, N
  <2>2. L <= Id(s, k, L) /\ Id(s, k, L) \in 1..n
    BY <1>6, <2>1
  <2> QED
    BY <1>3, <2>2
<1>10. \A i \in 1..Len(t) : \A j \in 1..Len(t[i].members) :
         Id(t, i, j) \in 1..(n + 1) /\ j <= Id(t, i, j)
  <2> SUFFICES ASSUME NEW i \in 1..N, NEW j \in 1..Len(t[i].members)
               PROVE  Id(t, i, j) \in 1..(n + 1) /\ j <= Id(t, i, j)
    BY <1>2
  <2>1. CASE j \in 1..Len(s[i].members)
    <3>1. Id(t, i, j) \in 1..n /\ j <= Id(t, i, j)
      BY <1>6, <2>1
    <3> QED
      BY <3>1
  <2>2. CASE i = k /\ j = L + 1
    <3>1. Id(t, i, j) = n + 1
      BY <1>5, <2>2
    <3> QED
      BY <1>3, <1>9, <2>2, <3>1
  <2> QED
    BY <1>7, <2>1, <2>2
<1>11. ASSUME NEW p \in 1..(n + 1)
       PROVE  \E i \in 1..Len(t) : \E j \in 1..Len(t[i].members) : Id(t, i, j) = p
  <2>1. CASE p \in 1..n
    <3>1. PICK i \in 1..N : \E j \in 1..Len(s[i].members) : Id(s, i, j) = p
      BY <2>1 DEF Cut, N
    <3>2. PICK j \in 1..Len(s[i].members) : Id(s, i, j) = p
      BY <3>1
    <3>3. j \in 1..Len(t[i].members)
      <4>1. CASE i = k
        BY <1>2, <1>3, <1>4, <4>1 DEF L
      <4>2. CASE i # k
        BY <1>2, <4>2
      <4> QED
        BY <4>1, <4>2
    <3> QED
      BY <1>2, <1>6, <3>2, <3>3
  <2>2. CASE p = n + 1
    <3>1. k \in 1..Len(t) /\ L + 1 \in 1..Len(t[k].members)
      BY <1>2, <1>3, <1>4 DEF N
    <3> QED
      BY <1>5, <2>2, <3>1
  <2>3. p \in 1..n \/ p = n + 1
    OBVIOUS
  <2> QED
    BY <2>1, <2>2, <2>3
<1>12. ASSUME NEW i \in 1..N, NEW q \in 1..N,
              NEW j \in 1..Len(t[i].members), NEW l \in 1..Len(t[q].members),
              Id(t, i, j) = Id(t, q, l)
       PROVE  i = q /\ j = l
  <2>1. CASE j \in 1..Len(s[i].members) /\ l \in 1..Len(s[q].members)
    <3>1. Id(s, i, j) = Id(s, q, l)
      BY <1>6, <1>12, <2>1
    <3>2. i \in 1..Len(s) /\ q \in 1..Len(s)
      BY DEF N
    <3> QED
      BY <2>1, <3>1, <3>2, CutIds
  <2>2. CASE j \in 1..Len(s[i].members) /\ q = k /\ l = L + 1
    <3>1. Id(t, i, j) \in 1..n /\ Id(t, q, l) = n + 1
      BY <1>5, <1>6, <2>2
    <3> QED
      BY <1>12, <3>1
  <2>3. CASE i = k /\ j = L + 1 /\ l \in 1..Len(s[q].members)
    <3>1. Id(t, q, l) \in 1..n /\ Id(t, i, j) = n + 1
      BY <1>5, <1>6, <2>3
    <3> QED
      BY <1>12, <3>1
  <2>4. CASE i = k /\ j = L + 1 /\ q = k /\ l = L + 1
    BY <2>4
  <2> QED
    BY <1>7, <2>1, <2>2, <2>3, <2>4
<1>13. ASSUME NEW i \in 1..N, NEW q \in 1..N, i # q, FlowKey(t[i]) = FlowKey(t[q])
       PROVE  Apart(t[i], t[q]) /\ (Continues(t, t[i], t[q]) => HadToOpen(t[i], t[q]))
  <2>1. ASSUME NEW h \in 1..N
        PROVE  /\ FlowKey(t[h]) = FlowKey(s[h]) /\ FirstPacket(t[h]) = FirstPacket(s[h])
               /\ FirstPacket(s[h]) \in 1..n
    <3>1. FirstPacket(s[h]) \in 1..n
      BY CutEnds DEF N
    <3>2. CASE h = k
      <4>1. f.members[1] = s[k].members[1]
        BY <1>3, <1>4 DEF L
      <4> QED
        BY <1>2, <3>1, <3>2, <4>1 DEF FirstPacket
    <3>3. CASE h # k
      BY <1>2, <3>1, <3>3
    <3> QED
      BY <3>2, <3>3
  <2>2. LastPacket(t[k]) = n + 1
    BY <1>2, <1>4 DEF LastPacket
  <2>3. \A h \in 1..N : h # k => LastPacket(t[h]) = LastPacket(s[h]) /\ t[h] = s[h]
    BY <1>2 DEF N
  <2>4. DOMAIN s = 1..N /\ DOMAIN t = 1..N
    BY <1>1, <1>2 DEF N
  <2>5. Apart(s[i], s[q]) /\ (Continues(s, s[i], s[q]) => HadToOpen(s[i], s[q]))
    BY <1>13, <2>1, CutPairs DEF N
  <2>6. ASSUME i # k, Continues(t, t[i], t[q]) PROVE Continues(s, s[i], s[q])
    <3>1. \A h \in DOMAIN s : \E x \in DOMAIN t :
            FlowKey(t[x]) = FlowKey(s[h]) /\ FirstPacket(t[x]) = FirstPacket(s[h])
      BY <2>1, <2>4
    <3>2. /\ FlowKey(s[i]) = FlowKey(t[i]) /\ FlowKey(s[q]) = FlowKey(t[q])
          /\ LastPacket(s[i]) = LastPacket(t[i]) /\ FirstPacket(s[q]) = FirstPacket(t[q])
      BY <2>1, <2>3, <2>6
    <3> QED
      BY <2>6, <3>1, <3>2 DEF Continues
  <2>7. CASE i = k
    <3>1. ~(LastPacket(t[i]) < FirstPacket(t[q]))
      BY <2>1, <2>2, <2>7
    <3>2. FlowKey(s[q]) = FlowKey(s[k]) /\ q # k /\ q \in 1..Len(s)
      BY <1>13, <2>1, <2>7 DEF N
    <3>3. LastPacket(s[q]) < FirstPacket(s[k])
      BY <3>2
    <3>4. LastPacket(t[q]) < FirstPacket(t[i])
      BY <2>1, <2>3, <2>7, <3>2, <3>3
    <3> QED
      BY <3>1, <3>4 DEF Apart, Continues
  <2>8. CASE q = k
    <3>1. FlowKey(s[i]) = FlowKey(s[k]) /\ i # k /\ i \in 1..Len(s)
      BY <1>13, <2>1, <2>8 DEF N
    <3>2. LastPacket(s[i]) < FirstPacket(s[k])
      BY <3>1
    <3>3. Apart(t[i], t[q])
      BY <2>1, <2>3, <2>8, <3>1, <3>2 DEF Apart
    <3>4. t[i] = s[i] /\ t[q].first = s[q].first
      BY <1>2, <2>3, <2>8, <3>1
    <3> QED
      BY <2>5, <2>6, <3>1, <3>3, <3>4 DEF HadToOpen
  <2>9. CASE i # k /\ q # k
    BY <2>3, <2>5, <2>6, <2>9
  <2> QED
    BY <2>7, <2>8, <2>9
<1>14. s \in Seq(FlowStates) /\ t \in Seq(FlowStates) /\ Len(t) = N
  BY <1>1, <1>2
<1> QED
  BY <1>8, <1>10, <1>11, <1>12, <1>13, <1>14 DEF Cut

-----------------------------------------------------------------------------
(* Packets *)

LEMMA Concat ==
  ASSUME NEW S, NEW s \in Seq(S), NEW t \in Seq(S)
  PROVE  /\ s \o t \in Seq(S) /\ Len(s) \in Nat /\ Len(t) \in Nat
         /\ Len(s \o t) = Len(s) + Len(t)
         /\ \A i \in 1..Len(s) : (s \o t)[i] = s[i]
         /\ \A i \in 1..Len(t) : (s \o t)[Len(s) + i] = t[i]
OBVIOUS

LEMMA SameSeq ==
  ASSUME NEW S, NEW s \in Seq(S), NEW t \in Seq(S), Len(s) = Len(t),
         \A i \in 1..Len(s) : s[i] = t[i]
  PROVE  s = t
OBVIOUS

\* SetToSeq of what closes: nothing, or one flow.
LEMMA SetToSeqSmall ==
  /\ SetToSeq({}) = <<>>
  /\ \A x : SetToSeq({x}) = <<x>>
<1>1. SetToSeq({}) = <<>>
  <2>1. Cardinality({}) = 0
    BY FS_EmptySet
  <2>2. \E f \in [1..0 -> {}] : IsInjective(f)
    <3>1. [i \in 1..0 |-> i] \in [1..0 -> {}]
      OBVIOUS
    <3>2. IsInjective([i \in 1..0 |-> i])
      BY DEF IsInjective
    <3> QED
      BY <3>1, <3>2
  <2>3. SetToSeq({}) \in [1..0 -> {}]
    BY <2>1, <2>2 DEF SetToSeq
  <2> QED
    BY <2>3
<1>2. ASSUME NEW x PROVE SetToSeq({x}) = <<x>>
  <2>1. Cardinality({x}) = 1
    BY FS_Singleton
  <2>2. \E f \in [1..1 -> {x}] : IsInjective(f)
    <3>1. [i \in 1..1 |-> x] \in [1..1 -> {x}]
      OBVIOUS
    <3>2. IsInjective([i \in 1..1 |-> x])
      BY DEF IsInjective
    <3> QED
      BY <3>1, <3>2
  <2>3. SetToSeq({x}) \in [1..1 -> {x}]
    BY <2>1, <2>2 DEF SetToSeq
  <2> QED
    BY <2>3
<1> QED
  BY <1>1, <1>2

LEMMA AddFields ==
  ASSUME NEW f \in FlowStates, NEW p \in Packets, NEW ts \in Nat, parsed \in Nat,
         NEW g, g = Add(f, p, ts), NEW m, m = [id |-> parsed + 1, packet |-> p, ts |-> ts]
  PROVE  /\ g \in FlowStates /\ m \in Members
         /\ g.src = f.src /\ g.dst = f.dst /\ g.first = f.first /\ g.last = ts
         /\ g.fwd \in Nat /\ g.bwd \in Nat
         /\ p.src = f.src => g.fwd = f.fwd + 1 /\ g.bwd = f.bwd
         /\ p.src # f.src => g.fwd = f.fwd /\ g.bwd = f.bwd + 1
         /\ g.members = Append(f.members, m)
         /\ m.id = parsed + 1 /\ m.packet = p /\ m.ts = ts
<1>1. /\ m \in Members /\ m.id = parsed + 1 /\ m.packet = p /\ m.ts = ts
  BY DEF Members
<1>2. /\ f.src \in Ends /\ f.dst \in Ends /\ f.first \in Nat
      /\ f.fwd \in Nat /\ f.bwd \in Nat /\ f.members \in Seq(Members)
  BY DEF FlowStates
<1>3. PICK a \in Nat, b \in Nat :
        /\ a = IF p.src = f.src THEN f.fwd + 1 ELSE f.fwd
        /\ b = IF p.src = f.src THEN f.bwd ELSE f.bwd + 1
  BY <1>2
<1>4. PICK ms : ms = Append(f.members, m)
  OBVIOUS
<1>5. ms \in Seq(Members)
  BY <1>1, <1>2, <1>4, Appending
<1>6. g = [f EXCEPT !.fwd = a, !.bwd = b, !.last = ts, !.members = ms]
  BY <1>3, <1>4 DEF Add
<1>7. /\ g \in FlowStates
      /\ g.src = f.src /\ g.dst = f.dst /\ g.first = f.first /\ g.last = ts
      /\ g.fwd = a /\ g.bwd = b /\ g.members = ms
  BY <1>5, <1>6 DEF FlowStates
<1> QED
  BY <1>1, <1>3, <1>4, <1>7

\* The first packet of a conversation, or the one that finds its flow timed out, is a
\* flow by itself.
LEMMA NewFlowOK ==
  ASSUME NEW p \in Packets, NEW ts \in Nat, parsed \in Nat,
         NEW g, g = Add(NewFlow(p, ts), p, ts)
  PROVE  /\ FlowOK(g) /\ Len(g.members) = 1 /\ g.members[1].id = parsed + 1
         /\ FlowKey(g) = FlowKey(p) /\ g.first = ts
<1>1. PICK m : m = [id |-> parsed + 1, packet |-> p, ts |-> ts]
  OBVIOUS
<1>2. PICK f : f = NewFlow(p, ts)
  OBVIOUS
<1>3. /\ f \in FlowStates /\ f.src = p.src /\ f.dst = p.dst /\ f.first = ts
      /\ f.fwd = 0 /\ f.bwd = 0 /\ f.members = <<>>
  <2>1. p.src \in Ends /\ p.dst \in Ends
    BY DEF Ends
  <2> QED
    BY <1>2, <2>1 DEF NewFlow, FlowStates
<1>4. /\ g \in FlowStates /\ m \in Members
      /\ g.src = f.src /\ g.dst = f.dst /\ g.first = f.first /\ g.last = ts
      /\ g.fwd = f.fwd + 1 /\ g.bwd = f.bwd
      /\ g.members = Append(f.members, m)
      /\ m.id = parsed + 1 /\ m.packet = p /\ m.ts = ts
  BY <1>1, <1>2, <1>3, AddFields
<1>5. g.members = <<m>>
  BY <1>3, <1>4
<1>6. Len(g.members) = 1 /\ g.members[1] = m /\ g.members # <<>>
  BY <1>5
<1>7. MemberOK(g, 1)
  BY <1>3, <1>4, <1>6, ExtractionAssumption, FeaturizerAssumption DEF MemberOK, FlowKey
<1>8. \A j \in 1..Len(g.members) : MemberOK(g, j)
  BY <1>6, <1>7
<1>9. g.fwd = 1 /\ g.bwd = 0
  BY <1>3, <1>4
<1>10. FlowOK(g)
  BY <1>3, <1>4, <1>6, <1>8, <1>9 DEF FlowOK
<1> QED
  BY <1>3, <1>4, <1>6, <1>10 DEF FlowKey

\* A packet that does not find its flow timed out joins it.
LEMMA AddOK ==
  ASSUME NEW f, FlowOK(f), NEW p \in Packets, NEW ts \in Nat, parsed \in Nat,
         FlowKey(f) = FlowKey(p), ~TimedOut(f, ts), ts >= f.first - MaxLate,
         NEW g, g = Add(f, p, ts)
  PROVE  /\ FlowOK(g) /\ FlowKey(g) = FlowKey(f) /\ g.first = f.first
         /\ \E m \in Members : m.id = parsed + 1 /\ g.members = Append(f.members, m)
<1> DEFINE L == Len(f.members)
<1>1. PICK m : m = [id |-> parsed + 1, packet |-> p, ts |-> ts]
  OBVIOUS
<1>2. /\ f \in FlowStates /\ f.members # <<>>
      /\ \E q \in Packets : f.src = q.src /\ f.dst = q.dst
      /\ f.fwd + f.bwd = L /\ f.fwd > 0
      /\ f.members[1].ts = f.first
      /\ f.members[L].ts = f.last
      /\ \A j \in 1..L : MemberOK(f, j)
  BY DEF FlowOK
<1>3. /\ g \in FlowStates /\ m \in Members
      /\ g.src = f.src /\ g.dst = f.dst /\ g.first = f.first /\ g.last = ts
      /\ p.src = f.src => g.fwd = f.fwd + 1 /\ g.bwd = f.bwd
      /\ p.src # f.src => g.fwd = f.fwd /\ g.bwd = f.bwd + 1
      /\ g.members = Append(f.members, m)
      /\ m.id = parsed + 1 /\ m.packet = p /\ m.ts = ts
  BY <1>1, <1>2, AddFields
<1>4. /\ f.members \in Seq(Members) /\ L \in Nat \ {0}
      /\ f.fwd \in Nat /\ f.bwd \in Nat /\ f.first \in Nat /\ f.last \in Nat
  <2>1. /\ f.members \in Seq(Members)
        /\ f.fwd \in Nat /\ f.bwd \in Nat /\ f.first \in Nat /\ f.last \in Nat
    BY <1>2 DEF FlowStates
  <2> QED
    BY <1>2, <2>1
<1>5. /\ Len(g.members) = L + 1 /\ g.members # <<>>
      /\ \A j \in 1..L : g.members[j] = f.members[j]
      /\ g.members[L + 1] = m
      /\ \A j \in 1..Len(g.members) : j \in 1..L \/ j = L + 1
  BY <1>3, <1>4, Appending
<1> HIDE DEF L
<1>6. ts - f.last <= Idle /\ ts - f.first <= Active
  BY <1>4, ExtractionAssumption DEF TimedOut
<1>7. FlowKey(g) = FlowKey(f)
  BY <1>3 DEF FlowKey
<1>8. ASSUME NEW j \in 1..L PROVE MemberOK(g, j)
  <2>1. /\ FlowKey(f.members[j].packet) = FlowKey(f)
        /\ f.first - MaxLate <= f.members[j].ts
        /\ f.members[j].ts <= f.first + Active
        /\ j < L => Gap(f, j) <= Idle
    BY <1>2 DEF MemberOK, L
  <2>2. g.members[j] = f.members[j]
    BY <1>5
  <2>3. Gap(g, j) <= Idle
    <3>1. CASE j < L
      <4>1. j + 1 \in 1..L
        BY <1>4, <3>1
      <4>2. g.members[j + 1] = f.members[j + 1]
        BY <1>5, <4>1
      <4> QED
        BY <2>1, <2>2, <3>1, <4>2 DEF Gap
    <3>2. CASE j = L
      BY <1>2, <1>3, <1>5, <1>6, <2>2, <3>2 DEF Gap, L
    <3> QED
      BY <1>4, <3>1, <3>2
  <2> QED
    BY <1>3, <1>7, <2>1, <2>2, <2>3 DEF MemberOK
<1>9. MemberOK(g, L + 1)
  <2>1. ts <= f.first + Active
    BY <1>4, <1>6, ExtractionAssumption
  <2>2. ~(L + 1 < Len(g.members))
    BY <1>4, <1>5
  <2> QED
    BY <1>3, <1>5, <1>7, <2>1, <2>2 DEF MemberOK
<1>10. g.fwd + g.bwd = L + 1 /\ g.fwd > 0
  <2>1. f.fwd + f.bwd = L /\ f.fwd > 0
    BY <1>2 DEF L
  <2>2. \/ g.fwd = f.fwd + 1 /\ g.bwd = f.bwd
        \/ g.fwd = f.fwd /\ g.bwd = f.bwd + 1
    BY <1>3
  <2> QED
    BY <1>4, <2>1, <2>2
<1>11. g.members[1].ts = g.first /\ g.members[Len(g.members)].ts = g.last
  <2>1. 1 \in 1..L
    BY <1>4
  <2> QED
    BY <1>2, <1>3, <1>5, <2>1
<1>12. FlowOK(g)
  BY <1>2, <1>3, <1>5, <1>8, <1>9, <1>10, <1>11 DEF FlowOK
<1> QED
  BY <1>3, <1>7, <1>12

LEMMA Updating ==
  ASSUME NEW S, NEW s \in Seq(S), NEW x, NEW e \in S
  PROVE  [s EXCEPT ![x] = e] \in Seq(S) /\ Len([s EXCEPT ![x] = e]) = Len(s)
<1>1. PICK n \in Nat : n = Len(s) /\ s \in [1..n -> S]
  OBVIOUS
<1>2. PICK t : t = [s EXCEPT ![x] = e]
  OBVIOUS
<1>3. DOMAIN t = 1..n /\ \A i \in 1..n : t[i] = IF i = x THEN e ELSE s[i]
  BY <1>1, <1>2
<1>4. t \in [1..n -> S]
  BY <1>1, <1>2, <1>3
<1>5. t \in Seq(S) /\ Len(t) = n
  BY <1>1, <1>4
<1> QED
  BY <1>1, <1>2, <1>5

\* What is known of the flows while the capture is read.
LEMMA ReadingFacts ==
  ASSUME ExtractionInv, extraction = "reading"
  PROVE  /\ finished \in Seq(FlowStates) /\ openFlows \in Seq(FlowStates)
         /\ Cut(finished \o openFlows, parsed)
         /\ \A i, k \in 1..Len(openFlows) : FlowKey(openFlows[i]) = FlowKey(openFlows[k]) => i = k
         /\ \A i \in 1..Len(openFlows) :
              openFlows[i].first <= clock /\ openFlows[i].first \in Nat /\ FlowOK(openFlows[i])
         /\ \A i \in 1..Len(finished) : Succeeded(finished[i])
<1>1. /\ finished \in Seq(FlowStates) /\ openFlows \in Seq(FlowStates)
      /\ Cut(finished \o openFlows, parsed)
      /\ \A i, k \in 1..Len(openFlows) : FlowKey(openFlows[i]) = FlowKey(openFlows[k]) => i = k
      /\ \A i \in 1..Len(openFlows) : openFlows[i].first <= clock
      /\ \A i \in 1..Len(finished) : Succeeded(finished[i])
  BY DEF ExtractionInv, ReadingInv
<1>2. ASSUME NEW i \in 1..Len(openFlows)
      PROVE  openFlows[i].first \in Nat /\ FlowOK(openFlows[i])
  <2>1. /\ Len(finished) + i \in 1..Len(finished \o openFlows)
        /\ (finished \o openFlows)[Len(finished) + i] = openFlows[i]
    BY <1>1, Concat
  <2> QED
    BY <1>1, <2>1, CutParts
<1> QED
  BY <1>1, <1>2

\* No flow holds a packet that has not been read.
LEMMA LastPacketsSmall ==
  ASSUME ExtractionInv, extraction = "reading"
  PROVE  /\ \A i \in 1..Len(finished) : LastPacket(finished[i]) < parsed + 1
         /\ \A i \in 1..Len(openFlows) : LastPacket(openFlows[i]) < parsed + 1
<1> DEFINE s == finished \o openFlows
<1>1. /\ finished \in Seq(FlowStates) /\ openFlows \in Seq(FlowStates) /\ Cut(s, parsed)
      /\ parsed \in Nat
  BY ReadingFacts DEF ExtractionInv
<1>2. /\ Len(finished) \in Nat /\ Len(openFlows) \in Nat
      /\ Len(s) = Len(finished) + Len(openFlows)
      /\ \A i \in 1..Len(finished) : s[i] = finished[i]
      /\ \A i \in 1..Len(openFlows) : s[Len(finished) + i] = openFlows[i]
  BY <1>1, Concat
<1> HIDE DEF s
<1>3. ASSUME NEW i \in 1..Len(s) PROVE LastPacket(s[i]) < parsed + 1
  <2>1. LastPacket(s[i]) \in 1..parsed
    BY <1>1, CutEnds
  <2> QED
    BY <1>1, <2>1
<1>4. /\ \A i \in 1..Len(finished) : i \in 1..Len(s)
      /\ \A i \in 1..Len(openFlows) : Len(finished) + i \in 1..Len(s)
  BY <1>2
<1> QED
  BY <1>2, <1>3, <1>4

\* The flows that a packet at ts would end: those of its conversation.
Same(p) == {i \in DOMAIN openFlows : FlowKey(openFlows[i]) = FlowKey(p)}
Live(p, ts) == {i \in Same(p) : ~TimedOut(openFlows[i], ts)}

\* If the packet opens a flow, that flow had to be opened.
LEMMA OpensRightly ==
  ASSUME ExtractionInv, extraction = "reading", NEW p, NEW ts, Live(p, ts) = {},
         NEW g, FlowKey(g) = FlowKey(p), g.first = ts, FirstPacket(g) = parsed + 1,
         NEW i \in 1..Len(finished \o openFlows),
         Continues(finished \o openFlows, (finished \o openFlows)[i], g)
  PROVE  HadToOpen((finished \o openFlows)[i], g)
<1> DEFINE s == finished \o openFlows
<1>1. /\ finished \in Seq(FlowStates) /\ openFlows \in Seq(FlowStates) /\ Cut(s, parsed)
      /\ \A k \in 1..Len(finished) : Succeeded(finished[k])
  BY ReadingFacts
<1>2. /\ s \in Seq(FlowStates) /\ Len(s) = Len(finished) + Len(openFlows)
      /\ Len(finished) \in Nat /\ Len(openFlows) \in Nat
      /\ \A k \in 1..Len(finished) : s[k] = finished[k]
      /\ \A k \in 1..Len(openFlows) : s[Len(finished) + k] = openFlows[k]
  BY <1>1, Concat
<1>3. /\ FlowKey(s[i]) = FlowKey(g)
      /\ \A h \in DOMAIN s :
           FlowKey(s[h]) = FlowKey(s[i])
             => ~(LastPacket(s[i]) < FirstPacket(s[h]) /\ FirstPacket(s[h]) < parsed + 1)
  BY DEF Continues
<1>4. i \in 1..Len(s) /\ parsed \in Nat
  BY DEF ExtractionInv
<1> HIDE DEF s
<1>5. i \notin 1..Len(finished)
  <2> SUFFICES ASSUME i \in 1..Len(finished) PROVE FALSE
    OBVIOUS
  <2>1. s[i] = finished[i] /\ Succeeded(finished[i])
    BY <1>1, <1>2
  <2>2. PICK k \in 1..Len(openFlows) :
          /\ FlowKey(openFlows[k]) = FlowKey(finished[i])
          /\ LastPacket(finished[i]) < FirstPacket(openFlows[k])
    BY <2>1 DEF Succeeded
  <2>3. PICK x \in 1..Len(s) : s[x] = openFlows[k]
    <3>1. Len(finished) + k \in 1..Len(s)
      BY <1>2
    <3> QED
      BY <1>2, <3>1
  <2>4. FirstPacket(s[x]) \in 1..parsed
    BY <1>1, CutEnds
  <2>5. x \in DOMAIN s /\ FirstPacket(s[x]) < parsed + 1
    BY <1>2, <1>4, <2>4
  <2> QED
    BY <1>3, <2>1, <2>2, <2>3, <2>5
<1>6. PICK k \in 1..Len(openFlows) : i = Len(finished) + k
  <2>1. i - Len(finished) \in 1..Len(openFlows) /\ i = Len(finished) + (i - Len(finished))
    BY <1>2, <1>4, <1>5
  <2> QED
    BY <2>1
<1>7. s[i] = openFlows[k]
  BY <1>2, <1>6
<1>8. k \in Same(p)
  BY <1>1, <1>3, <1>7 DEF Same
<1>9. TimedOut(openFlows[k], ts)
  BY <1>8 DEF Live
<1> QED
  BY <1>7, <1>9 DEF TimedOut, HadToOpen, s

\* A packet that is folded in.
LEMMA JoinsFlow ==
  ASSUME ExtractionInv, extraction = "reading", NEW p \in Packets, NEW ts \in Times,
         ts >= clock - MaxLate, NEW k \in Live(p, ts),
         parsed' = parsed + 1, clock' = IF ts > clock THEN ts ELSE clock,
         finished' = finished,
         openFlows' = [openFlows EXCEPT ![k] = Add(openFlows[k], p, ts)],
         extraction' = "reading"
  PROVE  ExtractionInv'
<1>1. /\ finished \in Seq(FlowStates) /\ openFlows \in Seq(FlowStates)
      /\ Cut(finished \o openFlows, parsed)
      /\ \A i, j \in 1..Len(openFlows) : FlowKey(openFlows[i]) = FlowKey(openFlows[j]) => i = j
      /\ \A i \in 1..Len(openFlows) :
           openFlows[i].first <= clock /\ openFlows[i].first \in Nat /\ FlowOK(openFlows[i])
      /\ \A i \in 1..Len(finished) : Succeeded(finished[i])
  BY ReadingFacts
<1>2. ts \in Nat /\ parsed \in Nat /\ clock \in Nat /\ MaxLate \in Nat
  BY FeaturizerAssumption DEF ExtractionInv
<1>3. /\ k \in 1..Len(openFlows) /\ FlowKey(openFlows[k]) = FlowKey(p)
      /\ ~TimedOut(openFlows[k], ts)
  BY <1>1 DEF Live, Same
<1>4. PICK g : g = Add(openFlows[k], p, ts)
  OBVIOUS
<1>5. ts >= openFlows[k].first - MaxLate
  BY <1>1, <1>2, <1>3
<1>6. /\ FlowOK(g) /\ FlowKey(g) = FlowKey(openFlows[k]) /\ g.first = openFlows[k].first
      /\ \E m \in Members : m.id = parsed + 1 /\ g.members = Append(openFlows[k].members, m)
  <2>1. PICK f : f = openFlows[k]
    OBVIOUS
  <2>2. /\ FlowOK(f) /\ FlowKey(f) = FlowKey(p) /\ ~TimedOut(f, ts)
        /\ ts >= f.first - MaxLate /\ g = Add(f, p, ts)
    BY <1>1, <1>3, <1>4, <1>5, <2>1
  <2>3. /\ FlowOK(g) /\ FlowKey(g) = FlowKey(f) /\ g.first = f.first
        /\ \E m \in Members : m.id = parsed + 1 /\ g.members = Append(f.members, m)
    BY <1>2, <2>2, AddOK
  <2> QED
    BY <2>1, <2>3
<1>7. PICK m \in Members : m.id = parsed + 1 /\ g.members = Append(openFlows[k].members, m)
  BY <1>6
<1>8. g \in FlowStates
  BY <1>6 DEF FlowOK
<1>9. /\ openFlows' \in Seq(FlowStates) /\ Len(openFlows') = Len(openFlows)
      /\ openFlows'[k] = g
      /\ \A i \in 1..Len(openFlows) : i # k => openFlows'[i] = openFlows[i]
  BY <1>1, <1>3, <1>4, <1>8
<1>10. Cut(finished \o openFlows', parsed + 1)
  <2> DEFINE s == finished \o openFlows
             x == Len(finished) + k
             t == [s EXCEPT ![x] = g]
             u == finished \o openFlows'
  <2>1. /\ s \in Seq(FlowStates) /\ Len(finished) \in Nat /\ Len(openFlows) \in Nat
        /\ Len(s) = Len(finished) + Len(openFlows)
        /\ \A i \in 1..Len(finished) : s[i] = finished[i]
        /\ \A i \in 1..Len(openFlows) : s[Len(finished) + i] = openFlows[i]
    BY <1>1, Concat
  <2>2. /\ u \in Seq(FlowStates)
        /\ Len(u) = Len(finished) + Len(openFlows)
        /\ \A i \in 1..Len(finished) : u[i] = finished[i]
        /\ \A i \in 1..Len(openFlows) : u[Len(finished) + i] = openFlows'[i]
    BY <1>1, <1>9, Concat
  <2>3. x \in 1..Len(s) /\ s[x] = openFlows[k] /\ Cut(s, parsed)
    BY <1>1, <1>3, <2>1
  <2> HIDE DEF s, u
  <2>4. Cut(t, parsed + 1)
    <3> HIDE DEF t, x
    <3>1. t = [s EXCEPT ![x] = g]
      BY DEF t
    <3>2. ASSUME NEW q \in 1..Len(s), q # x, FlowKey(s[q]) = FlowKey(s[x])
          PROVE  LastPacket(s[q]) < FirstPacket(s[x])
      <4>1. CASE q \in 1..Len(finished)
        <5>1. s[q] = finished[q] /\ Succeeded(finished[q])
          BY <1>1, <2>1, <4>1
        <5>2. PICK o \in 1..Len(openFlows) :
                /\ FlowKey(openFlows[o]) = FlowKey(finished[q])
                /\ LastPacket(finished[q]) < FirstPacket(openFlows[o])
          BY <5>1 DEF Succeeded
        <5>3. o = k
          BY <1>1, <1>3, <2>3, <3>2, <5>1, <5>2
        <5> QED
          BY <2>3, <5>1, <5>2, <5>3
      <4>2. CASE q \notin 1..Len(finished)
        <5>1. PICK o \in 1..Len(openFlows) : q = Len(finished) + o
          <6>1. /\ q - Len(finished) \in 1..Len(openFlows)
                /\ q = Len(finished) + (q - Len(finished))
            BY <2>1, <4>2
          <6> QED
            BY <6>1
        <5>2. s[q] = openFlows[o]
          BY <2>1, <5>1
        <5>3. o = k
          BY <1>1, <1>3, <2>3, <3>2, <5>2
        <5> QED
          BY <3>2, <5>1, <5>3 DEF x
      <4> QED
        BY <4>1, <4>2
    <3> QED
      BY <1>2, <1>6, <1>7, <2>3, <3>1, <3>2, CutExtended
  <2>5. t \in Seq(FlowStates) /\ Len(t) = Len(s)
    BY <1>8, <2>1, Updating
  <2>6. ASSUME NEW i \in 1..Len(u) PROVE u[i] = t[i]
    <3>1. CASE i \in 1..Len(finished)
      BY <1>3, <2>1, <2>2, <3>1
    <3>2. CASE i \notin 1..Len(finished)
      <4>1. PICK j \in 1..Len(openFlows) : i = Len(finished) + j
        <5>1. i - Len(finished) \in 1..Len(openFlows) /\ i = Len(finished) + (i - Len(finished))
          BY <2>1, <2>2, <3>2
        <5> QED
          BY <5>1
      <4>2. u[i] = openFlows'[j] /\ s[i] = openFlows[j]
        BY <2>1, <2>2, <4>1
      <4>3. i \in 1..Len(s) /\ (i = x <=> j = k)
        BY <1>3, <2>1, <4>1
      <4> QED
        BY <1>9, <2>1, <4>2, <4>3
    <3> QED
      BY <3>1, <3>2
  <2>7. u = t
    BY <2>1, <2>2, <2>5, <2>6, SameSeq
  <2> QED
    BY <2>4, <2>7 DEF u
<1>11. \A i, j \in 1..Len(openFlows') : FlowKey(openFlows'[i]) = FlowKey(openFlows'[j]) => i = j
  <2>1. \A i \in 1..Len(openFlows) : FlowKey(openFlows'[i]) = FlowKey(openFlows[i])
    BY <1>6, <1>9
  <2> QED
    BY <1>1, <1>9, <2>1
<1>12. \A i \in 1..Len(openFlows') : openFlows'[i].first <= clock'
  <2> TAKE i \in 1..Len(openFlows')
  <2>1. openFlows'[i].first = openFlows[i].first
    BY <1>6, <1>9
  <2>2. openFlows[i].first <= clock /\ openFlows[i].first \in Nat
    BY <1>1, <1>9
  <2> QED
    BY <1>2, <2>1, <2>2
<1>13. \A i \in 1..Len(finished) : \E o \in 1..Len(openFlows') :
         /\ FlowKey(openFlows'[o]) = FlowKey(finished[i])
         /\ LastPacket(finished[i]) < FirstPacket(openFlows'[o])
  <2> TAKE i \in 1..Len(finished)
  <2>1. PICK o \in 1..Len(openFlows) :
          /\ FlowKey(openFlows[o]) = FlowKey(finished[i])
          /\ LastPacket(finished[i]) < FirstPacket(openFlows[o])
    BY <1>1 DEF Succeeded
  <2>2. CASE o = k
    <3>1. g.members[1] = openFlows[k].members[1]
      <4>1. FlowOK(openFlows[k])
        BY <1>1, <1>3
      <4>2. openFlows[k].members \in Seq(Members) /\ openFlows[k].members # <<>>
        BY <4>1 DEF FlowOK, FlowStates
      <4>3. 1 \in 1..Len(openFlows[k].members)
        BY <4>2
      <4> QED
        BY <1>7, <4>2, <4>3, Appending
    <3>2. FirstPacket(g) = FirstPacket(openFlows[k])
      BY <3>1 DEF FirstPacket
    <3> QED
      BY <1>6, <1>9, <2>1, <2>2, <3>2
  <2>3. CASE o # k
    BY <1>9, <2>1, <2>3
  <2> QED
    BY <2>2, <2>3
<1>14. ReadingInv'
  <2>1. (\A i \in 1..Len(finished) : Succeeded(finished[i]))'
    BY <1>13 DEF Succeeded, FlowKey, FirstPacket, LastPacket
  <2> QED
    BY <1>1, <1>9, <1>10, <1>11, <1>12, <2>1 DEF ReadingInv, FlowKey
<1>15. ExtractedInv'
  BY DEF ExtractedInv
<1> QED
  BY <1>2, <1>14, <1>15 DEF ExtractionInv

\* What the opening of a flow leaves of the invariant to show.
LEMMA OpensCut ==
  ASSUME ExtractionInv, extraction = "reading", NEW p \in Packets, NEW ts \in Times,
         Live(p, ts) = {}, NEW g, g = Add(NewFlow(p, ts), p, ts)
  PROVE  /\ FlowOK(g) /\ g \in FlowStates /\ FlowKey(g) = FlowKey(p) /\ g.first = ts
         /\ FirstPacket(g) = parsed + 1
         /\ Cut(Append(finished \o openFlows, g), parsed + 1)
<1>1. ts \in Nat /\ parsed \in Nat
  BY DEF ExtractionInv
<1>2. /\ FlowOK(g) /\ Len(g.members) = 1 /\ g.members[1].id = parsed + 1
      /\ FlowKey(g) = FlowKey(p) /\ g.first = ts
  BY <1>1, NewFlowOK
<1>3. \A i \in 1..Len(finished \o openFlows) :
        Continues(finished \o openFlows, (finished \o openFlows)[i], g)
          => HadToOpen((finished \o openFlows)[i], g)
  <2>1. FirstPacket(g) = parsed + 1
    BY <1>2 DEF FirstPacket
  <2> QED
    BY <1>2, <2>1, OpensRightly
<1>4. PICK s : s = finished \o openFlows
  OBVIOUS
<1>5. Cut(s, parsed)
  BY <1>4, ReadingFacts
<1>6. Cut(Append(s, g), parsed + 1)
  BY <1>1, <1>2, <1>3, <1>4, <1>5, CutAdded
<1> QED
  BY <1>2, <1>4, <1>6 DEF FlowOK, FirstPacket

\* A packet that opens the first flow of a conversation.
LEMMA OpensFlow ==
  ASSUME ExtractionInv, extraction = "reading", NEW p \in Packets, NEW ts \in Times,
         Same(p) = {},
         parsed' = parsed + 1, clock' = IF ts > clock THEN ts ELSE clock,
         finished' = finished,
         openFlows' = Append(openFlows, Add(NewFlow(p, ts), p, ts)),
         extraction' = "reading"
  PROVE  ExtractionInv'
<1>1. PICK g : g = Add(NewFlow(p, ts), p, ts)
  OBVIOUS
<1>2. /\ FlowOK(g) /\ g \in FlowStates /\ FlowKey(g) = FlowKey(p) /\ g.first = ts
      /\ Cut(Append(finished \o openFlows, g), parsed + 1)
  <2>1. Live(p, ts) = {}
    BY DEF Live
  <2> QED
    BY <1>1, <2>1, OpensCut
<1>3. /\ finished \in Seq(FlowStates) /\ openFlows \in Seq(FlowStates)
      /\ \A i, j \in 1..Len(openFlows) : FlowKey(openFlows[i]) = FlowKey(openFlows[j]) => i = j
      /\ \A i \in 1..Len(openFlows) :
           openFlows[i].first <= clock /\ openFlows[i].first \in Nat /\ FlowOK(openFlows[i])
  BY ReadingFacts
<1>4. ts \in Nat /\ parsed \in Nat /\ clock \in Nat
  BY DEF ExtractionInv
<1>5. /\ openFlows' \in Seq(FlowStates) /\ Len(openFlows') = Len(openFlows) + 1
      /\ Len(openFlows) \in Nat
      /\ \A i \in 1..Len(openFlows) : openFlows'[i] = openFlows[i]
      /\ openFlows'[Len(openFlows) + 1] = g
      /\ \A i \in 1..Len(openFlows') : i \in 1..Len(openFlows) \/ i = Len(openFlows) + 1
  BY <1>1, <1>2, <1>3, Appending
<1>6. finished \o openFlows' = Append(finished \o openFlows, g)
  BY <1>1, <1>2, <1>3
<1>7. \A i \in 1..Len(openFlows) : FlowKey(openFlows[i]) # FlowKey(p)
  BY <1>3 DEF Same
<1>8. \A i, j \in 1..Len(openFlows') : FlowKey(openFlows'[i]) = FlowKey(openFlows'[j]) => i = j
  BY <1>2, <1>3, <1>5, <1>7
<1>9. \A i \in 1..Len(openFlows') : openFlows'[i].first <= clock'
  <2> TAKE i \in 1..Len(openFlows')
  <2>1. CASE i \in 1..Len(openFlows)
    <3>1. openFlows'[i].first <= clock /\ openFlows'[i].first \in Nat
      BY <1>3, <1>5, <2>1
    <3> QED
      BY <1>4, <3>1
  <2>2. CASE i = Len(openFlows) + 1
    BY <1>2, <1>4, <1>5, <2>2
  <2> QED
    BY <1>5, <2>1, <2>2
<1>10. \A i \in 1..Len(finished) : \E o \in 1..Len(openFlows') :
         /\ FlowKey(openFlows'[o]) = FlowKey(finished[i])
         /\ LastPacket(finished[i]) < FirstPacket(openFlows'[o])
  <2> TAKE i \in 1..Len(finished)
  <2>1. PICK o \in 1..Len(openFlows) :
          /\ FlowKey(openFlows[o]) = FlowKey(finished[i])
          /\ LastPacket(finished[i]) < FirstPacket(openFlows[o])
    BY ReadingFacts DEF Succeeded
  <2> QED
    BY <1>5, <2>1
<1>11. ReadingInv'
  BY <1>2, <1>3, <1>5, <1>6, <1>8, <1>9, <1>10
     DEF ReadingInv, Succeeded, FlowKey, FirstPacket, LastPacket
<1>12. ExtractedInv'
  BY DEF ExtractedInv
<1> QED
  BY <1>4, <1>11, <1>12 DEF ExtractionInv

\* A packet that finds the flow of its conversation timed out: that flow is finished,
\* and the new one takes its place.
LEMMA ReplacesFlow ==
  ASSUME ExtractionInv, extraction = "reading", NEW p \in Packets, NEW ts \in Times,
         Live(p, ts) = {}, NEW k \in Same(p),
         parsed' = parsed + 1, clock' = IF ts > clock THEN ts ELSE clock,
         finished' = Append(finished, openFlows[k]),
         openFlows' = [openFlows EXCEPT ![k] = Add(NewFlow(p, ts), p, ts)],
         extraction' = "reading"
  PROVE  ExtractionInv'
<1> DEFINE F == Len(finished)
           O == Len(openFlows)
<1>1. PICK g : g = Add(NewFlow(p, ts), p, ts)
  OBVIOUS
<1>2. /\ FlowOK(g) /\ g \in FlowStates /\ FlowKey(g) = FlowKey(p) /\ g.first = ts
      /\ FirstPacket(g) = parsed + 1
      /\ Cut(Append(finished \o openFlows, g), parsed + 1)
  BY <1>1, OpensCut
<1>3. /\ finished \in Seq(FlowStates) /\ openFlows \in Seq(FlowStates)
      /\ F \in Nat /\ O \in Nat
      /\ \A i, j \in 1..O : FlowKey(openFlows[i]) = FlowKey(openFlows[j]) => i = j
      /\ \A i \in 1..O :
           openFlows[i].first <= clock /\ openFlows[i].first \in Nat /\ FlowOK(openFlows[i])
  BY ReadingFacts
<1>4. ts \in Nat /\ parsed \in Nat /\ clock \in Nat
  BY DEF ExtractionInv
<1>5. k \in 1..O /\ FlowKey(openFlows[k]) = FlowKey(p)
  BY <1>3 DEF Same
<1>6. /\ openFlows' \in Seq(FlowStates) /\ Len(openFlows') = O
      /\ openFlows'[k] = g
      /\ \A i \in 1..O : i # k => openFlows'[i] = openFlows[i]
  BY <1>1, <1>2, <1>3, <1>5
<1>7. /\ finished' \in Seq(FlowStates) /\ Len(finished') = F + 1
      /\ \A i \in 1..F : finished'[i] = finished[i]
      /\ finished'[F + 1] = openFlows[k]
      /\ \A i \in 1..Len(finished') : i \in 1..F \/ i = F + 1
  <2>1. openFlows[k] \in FlowStates
    BY <1>3, <1>5
  <2> QED
    BY <1>3, <2>1, Appending
<1>8. Cut(finished' \o openFlows', parsed + 1)
  <2> DEFINE s == finished \o openFlows
             t == Append(s, g)
             u == finished' \o openFlows'
             at == [x \in 1..(F + O + 1) |->
                      IF x <= F THEN x
                      ELSE IF x = F + 1 THEN F + k
                      ELSE IF x = F + 1 + k THEN F + O + 1
                      ELSE x - 1]
  <2>1. /\ s \in Seq(FlowStates) /\ Len(s) = F + O
        /\ \A i \in 1..F : s[i] = finished[i]
        /\ \A i \in 1..O : s[F + i] = openFlows[i]
    BY <1>3, Concat
  <2>2. /\ t \in Seq(FlowStates) /\ Len(t) = F + O + 1
        /\ \A i \in 1..(F + O) : t[i] = s[i]
        /\ t[F + O + 1] = g
    BY <1>2, <2>1, Appending
  <2>3. /\ u \in Seq(FlowStates) /\ Len(u) = F + O + 1
        /\ \A i \in 1..(F + 1) : u[i] = finished'[i]
        /\ \A i \in 1..O : u[F + 1 + i] = openFlows'[i]
    <3>1. /\ u \in Seq(FlowStates) /\ Len(u) = Len(finished') + Len(openFlows')
          /\ \A i \in 1..Len(finished') : u[i] = finished'[i]
          /\ \A i \in 1..Len(openFlows') : u[Len(finished') + i] = openFlows'[i]
      BY <1>6, <1>7, Concat
    <3> HIDE DEF u
    <3> QED
      BY <1>3, <1>6, <1>7, <3>1
  <2>4. Cut(t, parsed + 1)
    BY <1>2
  <2> HIDE DEF s, t, u
  <2>5. /\ at \in [1..(F + O + 1) -> 1..(F + O + 1)]
        /\ \A x, y \in 1..(F + O + 1) : at[x] = at[y] => x = y
        /\ \A y \in 1..(F + O + 1) : \E x \in 1..(F + O + 1) : at[x] = y
    <3> HIDE DEF F, O
    <3>1. at \in [1..(F + O + 1) -> 1..(F + O + 1)]
      BY <1>3, <1>5
    <3>2. \A x, y \in 1..(F + O + 1) : at[x] = at[y] => x = y
      BY <1>3, <1>5
    <3>3. ASSUME NEW y \in 1..(F + O + 1)
          PROVE  \E x \in 1..(F + O + 1) : at[x] = y
      <4>1. CASE y <= F
        BY <1>3, <4>1
      <4>2. CASE y = F + k
        <5>1. F + 1 \in 1..(F + O + 1) /\ at[F + 1] = y
          BY <1>3, <1>5, <4>2
        <5> QED
          BY <5>1
      <4>3. CASE y = F + O + 1
        <5>1. F + 1 + k \in 1..(F + O + 1) /\ at[F + 1 + k] = y
          BY <1>3, <1>5, <4>3
        <5> QED
          BY <5>1
      <4>4. CASE y > F /\ y # F + k /\ y # F + O + 1
        <5>1. y + 1 \in 1..(F + O + 1) /\ at[y + 1] = y
          BY <1>3, <1>5, <4>4
        <5> QED
          BY <5>1
      <4> QED
        BY <1>3, <4>1, <4>2, <4>3, <4>4
    <3> QED
      BY <3>1, <3>2, <3>3
  <2>6. ASSUME NEW x \in 1..(F + O + 1) PROVE u[x] = t[at[x]]
    <3>1. CASE x <= F
      <4>1. at[x] = x /\ x \in 1..F /\ x \in 1..(F + O) /\ x \in 1..(F + 1)
        BY <1>3, <3>1
      <4> HIDE DEF at
      <4> QED
        BY <1>7, <2>1, <2>2, <2>3, <4>1
    <3>2. CASE x = F + 1
      <4>1. at[x] = F + k /\ F + k \in 1..(F + O) /\ x \in 1..(F + 1)
        BY <1>3, <1>5, <3>2
      <4> HIDE DEF at
      <4>2. u[x] = openFlows[k]
        BY <1>7, <2>3, <3>2, <4>1
      <4>3. t[F + k] = openFlows[k]
        BY <1>5, <2>1, <2>2, <4>1
      <4> QED
        BY <4>1, <4>2, <4>3
    <3>3. CASE x = F + 1 + k
      <4>1. at[x] = F + O + 1
        BY <1>3, <1>5, <3>3
      <4> HIDE DEF at
      <4> QED
        BY <1>5, <1>6, <2>2, <2>3, <3>3, <4>1
    <3>4. CASE x > F + 1 /\ x # F + 1 + k
      <4>1. PICK j \in 1..O : x = F + 1 + j /\ j # k
        <5>1. /\ x - F - 1 \in 1..O /\ x = F + 1 + (x - F - 1)
              /\ x - F - 1 # k
          BY <1>3, <1>5, <3>4
        <5> QED
          BY <5>1
      <4>2. at[x] = F + j /\ F + j \in 1..(F + O)
        BY <1>3, <1>5, <3>4, <4>1
      <4> HIDE DEF at
      <4> QED
        BY <1>6, <2>1, <2>2, <2>3, <4>1, <4>2
    <3> QED
      BY <1>3, <3>1, <3>2, <3>3, <3>4
  <2>7. Rearranges(u, t, at)
    <3> HIDE DEF at
    <3>1. DOMAIN u = 1..Len(t)
      BY <2>2, <2>3
    <3> QED
      BY <2>2, <2>5, <2>6, <3>1 DEF Rearranges
  <2>8. Cut(u, parsed + 1)
    <3> HIDE DEF at
    <3> QED
      BY <2>2, <2>3, <2>4, <2>7, CutRearranged
  <2> QED
    BY <2>8 DEF u
<1> HIDE DEF F, O
<1>9. \A i, j \in 1..Len(openFlows') : FlowKey(openFlows'[i]) = FlowKey(openFlows'[j]) => i = j
  <2>1. \A i \in 1..O : FlowKey(openFlows'[i]) = FlowKey(openFlows[i])
    BY <1>2, <1>5, <1>6
  <2> QED
    BY <1>3, <1>6, <2>1
<1>10. \A i \in 1..Len(openFlows') : openFlows'[i].first <= clock'
  <2> TAKE i \in 1..Len(openFlows')
  <2>1. CASE i # k
    <3>1. openFlows'[i].first <= clock /\ openFlows'[i].first \in Nat
      BY <1>3, <1>6, <2>1
    <3> QED
      BY <1>4, <3>1
  <2>2. CASE i = k
    BY <1>2, <1>4, <1>6, <2>2
  <2> QED
    BY <2>1, <2>2
<1>11. \A i \in 1..Len(finished') : \E o \in 1..Len(openFlows') :
         /\ FlowKey(openFlows'[o]) = FlowKey(finished'[i])
         /\ LastPacket(finished'[i]) < FirstPacket(openFlows'[o])
  <2> TAKE i \in 1..Len(finished')
  <2>1. /\ k \in 1..Len(openFlows') /\ FlowKey(openFlows'[k]) = FlowKey(openFlows[k])
        /\ FirstPacket(openFlows'[k]) = parsed + 1
    BY <1>2, <1>5, <1>6
  <2>2. CASE i \in 1..F
    <3>1. finished'[i] = finished[i] /\ LastPacket(finished[i]) < parsed + 1
      BY <1>7, <2>2, LastPacketsSmall DEF F
    <3>2. PICK o \in 1..O :
            /\ FlowKey(openFlows[o]) = FlowKey(finished[i])
            /\ LastPacket(finished[i]) < FirstPacket(openFlows[o])
      BY <2>2, ReadingFacts DEF Succeeded, F, O
    <3>3. CASE o = k
      BY <2>1, <3>1, <3>2, <3>3
    <3>4. CASE o # k
      BY <1>6, <3>1, <3>2, <3>4
    <3> QED
      BY <3>3, <3>4
  <2>3. CASE i = F + 1
    <3>1. finished'[i] = openFlows[k] /\ LastPacket(openFlows[k]) < parsed + 1
      BY <1>5, <1>7, <2>3, LastPacketsSmall DEF O
    <3> QED
      BY <2>1, <3>1
  <2> QED
    BY <1>7, <2>2, <2>3
<1>12. ReadingInv'
  BY <1>6, <1>7, <1>8, <1>9, <1>10, <1>11
     DEF ReadingInv, Succeeded, FlowKey, FirstPacket, LastPacket
<1>13. ExtractedInv'
  BY DEF ExtractedInv
<1> QED
  BY <1>4, <1>12, <1>13 DEF ExtractionInv

LEMMA ExtractionStart == ExtractionInit => ExtractionInv
<1> SUFFICES ASSUME ExtractionInit PROVE ExtractionInv
  OBVIOUS
<1>1. /\ extraction = "reading" /\ finished = <<>> /\ openFlows = <<>>
      /\ parsed = 0 /\ clock = 0
  BY DEF ExtractionInit
<1>2. Len(<<>>) = 0 /\ <<>> \o <<>> = <<>> /\ <<>> \in Seq(FlowStates)
  OBVIOUS
<1>3. Cut(<<>>, 0)
  BY <1>2 DEF Cut
<1>4. ReadingInv
  BY <1>1, <1>2, <1>3 DEF ReadingInv
<1>5. Times \subseteq Nat
  BY FeaturizerAssumption DEF Times
<1> QED
  BY <1>1, <1>4, <1>5 DEF ExtractionInv, ExtractedInv

LEMMA NothingAdded == ASSUME NEW S, NEW s \in Seq(S) PROVE s \o <<>> = s
<1>1. s \o <<>> \in Seq(S) /\ Len(s \o <<>>) = Len(s)
  OBVIOUS
<1>2. \A i \in 1..Len(s) : (s \o <<>>)[i] = s[i]
  OBVIOUS
<1> QED
  BY <1>1, <1>2, SameSeq

\* A packet.
LEMMA ReadStep ==
  ASSUME ExtractionInv, NEW p \in Packets, NEW ts \in Times, ReadPacket(p, ts)
  PROVE  ExtractionInv'
<1> DEFINE same == Same(p)
           live == Live(p, ts)
<1>1. /\ extraction = "reading" /\ ts >= clock - MaxLate
      /\ parsed' = parsed + 1
      /\ clock' = IF ts > clock THEN ts ELSE clock
      /\ finished' = finished \o SetToSeq({openFlows[i] : i \in same \ live})
  BY DEF ReadPacket, Same, Live
<1>2. \/ extraction' = "raised"
      \/ /\ extraction' = "reading"
         /\ openFlows' =
              IF live # {} THEN [i \in DOMAIN openFlows |->
                                   IF i \in live THEN Add(openFlows[i], p, ts) ELSE openFlows[i]]
              ELSE IF same # {} THEN [i \in DOMAIN openFlows |->
                                        IF i \in same THEN Add(NewFlow(p, ts), p, ts)
                                        ELSE openFlows[i]]
              ELSE Append(openFlows, Add(NewFlow(p, ts), p, ts))
  BY <1>1 DEF ReadPacket, Same, Live
<1>3. /\ finished \in Seq(FlowStates) /\ openFlows \in Seq(FlowStates)
      /\ \A i, j \in 1..Len(openFlows) : FlowKey(openFlows[i]) = FlowKey(openFlows[j]) => i = j
  BY <1>1, ReadingFacts
<1>4. ts \in Nat /\ parsed \in Nat /\ clock \in Nat /\ Times \subseteq Nat
  BY DEF ExtractionInv
\* A conversation has one flow open at most.
<1>5. \A i, j \in same : i = j
  BY <1>3 DEF Same
<1>6. live \subseteq same /\ same \subseteq DOMAIN openFlows
  BY DEF Live, Same
<1> HIDE DEF same, live
<1>7. CASE extraction' = "raised"
  BY <1>1, <1>4, <1>7 DEF ExtractionInv, ReadingInv, ExtractedInv
<1>8. CASE extraction' = "reading" /\ live # {}
  <2>1. PICK k \in live : TRUE
    BY <1>8
  <2>2. same = {k} /\ live = {k}
    BY <1>5, <1>6, <2>1
  <2>3. {openFlows[i] : i \in same \ live} = {}
    BY <2>2
  <2>4. finished' = finished
    <3>1. finished' = finished \o <<>>
      BY <1>1, <2>3, SetToSeqSmall
    <3>2. finished \in Seq(FlowStates)
      BY <1>3
    <3> QED
      BY <3>1, <3>2, NothingAdded
  <2>5. openFlows' = [openFlows EXCEPT ![k] = Add(openFlows[k], p, ts)]
    BY <1>2, <1>6, <1>8, <2>2
  <2> QED
    BY <1>1, <1>8, <2>1, <2>4, <2>5, JoinsFlow DEF live
<1>9. CASE extraction' = "reading" /\ live = {} /\ same # {}
  <2>1. PICK k \in same : TRUE
    BY <1>9
  <2>2. same = {k}
    BY <1>5, <2>1
  <2>3. {openFlows[i] : i \in same \ live} = {openFlows[k]}
    BY <1>9, <2>2
  <2>4. finished' = Append(finished, openFlows[k])
    <3>1. finished' = finished \o <<openFlows[k]>>
      BY <1>1, <2>3, SetToSeqSmall
    <3>2. openFlows[k] \in FlowStates
      BY <1>3, <1>6
    <3> QED
      BY <1>3, <3>1, <3>2
  <2>5. openFlows' = [openFlows EXCEPT ![k] = Add(NewFlow(p, ts), p, ts)]
    BY <1>2, <1>6, <1>9, <2>2
  <2> QED
    BY <1>1, <1>9, <2>1, <2>4, <2>5, ReplacesFlow DEF live, same
<1>10. CASE extraction' = "reading" /\ same = {}
  <2>1. live = {} /\ {openFlows[i] : i \in same \ live} = {}
    BY <1>6, <1>10
  <2>2. finished' = finished
    <3>1. finished' = finished \o <<>>
      BY <1>1, <2>1, SetToSeqSmall
    <3>2. finished \in Seq(FlowStates)
      BY <1>3
    <3> QED
      BY <3>1, <3>2, NothingAdded
  <2>3. openFlows' = Append(openFlows, Add(NewFlow(p, ts), p, ts))
    BY <1>2, <1>10, <2>1
  <2> QED
    BY <1>1, <1>10, <2>2, <2>3, OpensFlow DEF same
<1> QED
  BY <1>2, <1>7, <1>8, <1>9, <1>10

LEMMA EndStep == ExtractionInv /\ EndOfCapture => ExtractionInv'
<1> SUFFICES ASSUME ExtractionInv, EndOfCapture PROVE ExtractionInv'
  OBVIOUS
<1> DEFINE s == finished \o openFlows
<1>1. /\ extraction = "reading" /\ extraction' = "extracted"
      /\ finished' = InOrder(s) /\ parsed' = parsed /\ clock' = clock
  BY DEF EndOfCapture
<1>2. /\ finished \in Seq(FlowStates) /\ openFlows \in Seq(FlowStates) /\ Cut(s, parsed)
  BY <1>1, ReadingFacts
<1>3. s \in Seq(FlowStates)
  BY <1>2, Concat
<1> HIDE DEF s
<1>4. \A i \in 1..Len(s) : s[i].first \in Nat
  BY <1>2, CutParts
<1>5. /\ InOrder(s) \in Seq(FlowStates) /\ Len(InOrder(s)) = Len(s)
      /\ \E at : Rearranges(InOrder(s), s, at)
      /\ \A i, k \in 1..Len(s) : i < k => InOrder(s)[i].first <= InOrder(s)[k].first
  BY <1>3, <1>4, InOrderSorts
<1>6. PICK at : Rearranges(InOrder(s), s, at)
  BY <1>5
<1>7. Cut(InOrder(s), parsed)
  BY <1>2, <1>5, <1>6, CutRearranged
<1>8. Sorted(InOrder(s))
  BY <1>5 DEF Sorted
<1>9. ExtractedInv'
  BY <1>1, <1>7, <1>8 DEF ExtractedInv, Sorted
<1>10. ReadingInv'
  BY <1>1 DEF ReadingInv
<1> QED
  BY <1>1, <1>9, <1>10 DEF ExtractionInv

\* Nothing else concerns what the packets are cut into.
LEMMA ExtractionStutter ==
  ExtractionInv /\ UNCHANGED <<extraction, openFlows, finished, parsed, clock>>
    => ExtractionInv'
<1> SUFFICES ASSUME ExtractionInv, UNCHANGED <<extraction, openFlows, finished, parsed, clock>>
             PROVE  ExtractionInv'
  OBVIOUS
<1>1. ReadingInv'
  BY DEF ExtractionInv, ReadingInv, Succeeded, FlowKey, FirstPacket, LastPacket
<1>2. ExtractedInv'
  BY DEF ExtractionInv, ExtractedInv, Sorted
<1> QED
  BY <1>1, <1>2 DEF ExtractionInv

\* What a cut says of the flows that are returned.
LEMMA CutIsFlowsCut == ExtractionInv => FlowsCut
<1> SUFFICES ASSUME ExtractionInv, extraction = "extracted"
             PROVE  /\ \A n \in 1..parsed : Cardinality(Holding(n)) = 1
                    /\ \A i \in DOMAIN finished : LET f == finished[i] IN
                         /\ f.fwd + f.bwd = Len(f.members) /\ f.fwd > 0
                         /\ \A j \in DOMAIN f.members :
                              /\ FlowKey(f.members[j].packet) = FlowKey(f)
                              /\ f.first - MaxLate <= f.members[j].ts
                              /\ f.members[j].ts <= f.first + Active
                              /\ j < Len(f.members) => Gap(f, j) <= Idle
                         /\ Duration(f) <= Active
                    /\ \A i, k \in DOMAIN finished : LET f == finished[i]  g == finished[k] IN
                         i # k /\ FlowKey(f) = FlowKey(g) =>
                           /\ LastPacket(f) < FirstPacket(g) \/ LastPacket(g) < FirstPacket(f)
                           /\ Continues(finished, f, g) =>
                                \/ g.first - f.members[Len(f.members)].ts > Idle
                                \/ g.first - f.first > Active
  BY DEF FlowsCut
<1>1. Cut(finished, parsed) /\ parsed \in Nat
  BY DEF ExtractionInv, ExtractedInv
<1>2. finished \in Seq(FlowStates) /\ DOMAIN finished = 1..Len(finished) /\ Len(finished) \in Nat
  BY <1>1 DEF Cut
<1>3. ASSUME NEW i \in 1..Len(finished)
      PROVE  DOMAIN finished[i].members = 1..Len(finished[i].members)
  <2>1. finished[i].members \in Seq(Members)
    BY <1>1, CutParts
  <2> QED
    BY <2>1
<1>4. ASSUME NEW n \in 1..parsed PROVE Cardinality(Holding(n)) = 1
  <2>1. PICK i \in 1..Len(finished) : \E j \in 1..Len(finished[i].members) : Id(finished, i, j) = n
    BY <1>1 DEF Cut
  <2>2. PICK j \in 1..Len(finished[i].members) : Id(finished, i, j) = n
    BY <2>1
  <2>3. j \in 1..parsed
    <3>1. j <= Id(finished, i, j)
      BY <1>1 DEF Cut
    <3>2. j \in Nat /\ j >= 1 /\ j <= n
      BY <2>2, <3>1
    <3>3. n \in Nat /\ n <= parsed
      BY <1>1
    <3> QED
      BY <1>1, <3>2, <3>3
  <2>4. <<i, j>> \in Holding(n)
    BY <1>2, <1>3, <2>2, <2>3 DEF Holding, Id
  <2>5. ASSUME NEW x \in Holding(n) PROVE x = <<i, j>>
    <3>1. PICK a \in 1..Len(finished), b \in 1..parsed : x = <<a, b>>
      BY <1>2, <2>5 DEF Holding
    <3>2. b \in 1..Len(finished[a].members) /\ finished[a].members[b].id = n
      BY <1>3, <2>5, <3>1 DEF Holding
    <3>3. Id(finished, a, b) = Id(finished, i, j)
      BY <2>2, <3>2 DEF Id
    <3>4. a = i /\ b = j
      BY <1>1, <3>2, <3>3, CutIds
    <3> QED
      BY <3>1, <3>4
  <2>6. Holding(n) = {<<i, j>>}
    BY <2>4, <2>5
  <2> QED
    BY <2>6, FS_Singleton
<1>5. ASSUME NEW i \in 1..Len(finished), NEW f, f = finished[i]
      PROVE  /\ f.fwd + f.bwd = Len(f.members) /\ f.fwd > 0
             /\ \A j \in 1..Len(f.members) :
                  /\ FlowKey(f.members[j].packet) = FlowKey(f)
                  /\ f.first - MaxLate <= f.members[j].ts
                  /\ f.members[j].ts <= f.first + Active
                  /\ j < Len(f.members) => Gap(f, j) <= Idle
             /\ Duration(f) <= Active
             /\ f.members[Len(f.members)].ts = f.last
  <2>1. /\ FlowOK(f) /\ f.first \in Nat /\ f.last \in Nat
        /\ Len(f.members) \in 1..Len(f.members)
    BY <1>1, <1>5, CutParts
  <2>2. /\ f.fwd + f.bwd = Len(f.members) /\ f.fwd > 0
        /\ \A j \in 1..Len(f.members) : MemberOK(f, j)
        /\ f.members[Len(f.members)].ts = f.last
    BY <2>1 DEF FlowOK
  <2>3. f.last <= f.first + Active
    BY <2>1, <2>2 DEF MemberOK
  <2>4. Duration(f) <= Active
    BY <2>1, <2>3, ExtractionAssumption DEF Duration
  <2> QED
    BY <2>2, <2>4 DEF MemberOK
<1>6. ASSUME NEW i \in 1..Len(finished), NEW k \in 1..Len(finished),
             NEW f, f = finished[i], NEW g, g = finished[k],
             i # k, FlowKey(f) = FlowKey(g)
      PROVE  /\ LastPacket(f) < FirstPacket(g) \/ LastPacket(g) < FirstPacket(f)
             /\ Continues(finished, f, g) =>
                  \/ g.first - f.members[Len(f.members)].ts > Idle
                  \/ g.first - f.first > Active
  <2>1. Apart(f, g) /\ (Continues(finished, f, g) => HadToOpen(f, g))
    BY <1>1, <1>6, CutPairs
  <2>2. f.members[Len(f.members)].ts = f.last
    BY <1>5, <1>6
  <2> QED
    BY <2>1, <2>2 DEF HadToOpen, Apart
<1> QED
  BY <1>2, <1>3, <1>4, <1>5, <1>6

-----------------------------------------------------------------------------
(* A replay *)

\* A flow of a capture is an event of the lanes.
LEMMA NextFlow ==
  ASSUME ExtractionInv, extraction = "extracted", NEW k \in 1..Len(finished)
  PROVE  /\ FlowOf(finished[k]) \in Flows /\ FlowOf(finished[k]).src \in Addresses
         /\ finished[k].first \in Nat
<1>1. FlowOK(finished[k]) /\ finished[k] \in FlowStates
  BY DEF ExtractionInv, ExtractedInv, Cut, FlowOK
<1>2. PICK p \in Packets : finished[k].src = p.src /\ finished[k].dst = p.dst
  BY <1>1 DEF FlowOK
<1>3. FlowOf(finished[k]) = FlowOf(p)
  BY <1>2 DEF FlowOf
<1>4. FlowOf(p) \in Flows /\ FlowOf(p).src \in Addresses
  BY LanesAssumption
<1> QED
  BY <1>1, <1>3, <1>4 DEF FlowStates

\* What ingest does with an event that is not late.
LEMMA InTime ==
  ASSUME BuilderInv, NEW flow \in Flows, NEW ts \in Nat, Ingest(flow, ts), ts >= newest
  PROVE  /\ newest' = ts
         /\ \E e \in Events : e.ts = ts /\
              \/ /\ emitted' = emitted
                 /\ buffer' = Append(buffer, e)
                 /\ windowStart' = IF buffer = <<>> THEN ts ELSE windowStart
              \/ /\ buffer # <<>> /\ ts >= windowStart + Window
                 /\ emitted' = Append(emitted, Closed(buffer, windowStart, TRUE))
                 /\ buffer' = <<e>> /\ windowStart' = ts
<1> DEFINE e == Event(arrived + 1, flow, ts)
<1>1. /\ windowStart = NoStart <=> buffer = <<>>
      /\ newest \in Nat /\ arrived \in Nat
      /\ windowStart \in Nat \cup {NoStart}
  BY DEF BuilderInv, TypeOK
<1>2. newest' = ts
  BY <1>1 DEF Ingest
<1>3. e \in Events /\ e.ts = ts
  BY <1>1 DEF Event, Events
<1>4. \/ /\ emitted' = emitted
         /\ buffer' = Append(buffer, e)
         /\ windowStart' = IF windowStart = NoStart THEN ts ELSE windowStart
      \/ /\ buffer # <<>> /\ Elapsed(IF windowStart = NoStart THEN ts ELSE windowStart, ts)
         /\ emitted' = Append(emitted, Closed(buffer, IF windowStart = NoStart THEN ts ELSE windowStart, TRUE))
         /\ buffer' = <<e>> /\ windowStart' = ts
  BY DEF Ingest, OpenedWith
<1> HIDE DEF e
<1>5. ASSUME buffer # <<>> PROVE windowStart # NoStart /\ windowStart \in Nat
  BY <1>1, <1>5
<1>6. ASSUME windowStart \in Nat, Elapsed(windowStart, ts) PROVE ts >= windowStart + Window
  BY <1>6, BuilderAssumption DEF Elapsed
<1> QED
  BY <1>1, <1>2, <1>3, <1>4, <1>5, <1>6

\* A window that is handed on lies after the others.
LEMMA WindowAdded ==
  ASSUME BuilderInv, CutInOrder, WindowsApart, buffer # <<>>, NEW b \in BOOLEAN,
         emitted' = Append(emitted, Closed(buffer, windowStart, b))
  PROVE  /\ WindowsApart'
         /\ \A j \in 1..Len(emitted') :
              \/ j \in 1..Len(emitted) /\ emitted'[j] = emitted[j]
              \/ emitted'[j].start = windowStart /\ windowStart \in Nat
<1> DEFINE w == Closed(buffer, windowStart, b)
           n == Len(emitted)
<1>1. /\ windowStart \in Nat /\ buffer \in Seq(Events) /\ emitted \in Seq(Windows)
  BY DEF BuilderInv, TypeOK, Windows
<1>2. /\ w \in Windows
      /\ w.events = buffer /\ w.start = windowStart
  BY <1>1 DEF Closed, Windows
<1>3. emitted' = Append(emitted, w)
  OBVIOUS
<1> HIDE DEF w
<1>4. /\ n \in Nat
      /\ \A k \in 1..n : k \in 1..Len(emitted') /\ emitted'[k] = emitted[k]
      /\ emitted'[n + 1] = w
      /\ \A k \in 1..Len(emitted') : k \in 1..n \/ k = n + 1
  BY <1>1, <1>2, <1>3, Appending
<1> HIDE DEF n
<1>5. ASSUME NEW k \in 1..Len(emitted'), NEW i \in 1..Len(emitted'[k].events),
             NEW ts, ts = emitted'[k].events[i].ts
      PROVE  /\ emitted'[k].start <= ts /\ ts < emitted'[k].start + Window
             /\ \A j \in 1..(k - 1) : ts >= emitted'[j].start + Window
  <2>1. CASE k \in 1..n
    <3>1. \A j \in 1..(k - 1) : j \in 1..n
      BY <1>4, <2>1
    <3>2. /\ emitted[k].start <= ts /\ ts < emitted[k].start + Window
          /\ \A j \in 1..(k - 1) : ts >= emitted[j].start + Window
      BY <1>4, <1>5, <2>1 DEF WindowsApart, n
    <3> QED
      BY <1>4, <2>1, <3>1, <3>2
  <2>2. CASE k = n + 1
    <3>1. i \in 1..Len(buffer) /\ ts = buffer[i].ts
      BY <1>2, <1>4, <1>5, <2>2
    <3>2. windowStart <= ts /\ ts < windowStart + Window
      <4>1. ts >= windowStart /\ ts < windowStart + Window
        BY <3>1 DEF CutInOrder, BuilderInv, BufferInv
      <4>2. ts \in Nat
        <5>1. buffer[i] \in Events
          BY <1>1, <3>1
        <5> QED
          BY <3>1, <5>1 DEF Events
      <4> QED
        BY <1>1, <4>1, <4>2
    <3>3. \A j \in 1..n : ts >= emitted[j].start + Window
      BY <3>1 DEF CutInOrder, n
    <3>4. \A j \in 1..(k - 1) : j \in 1..n
      BY <1>4, <2>2
    <3> QED
      BY <1>2, <1>4, <2>2, <3>2, <3>3, <3>4
  <2> QED
    BY <1>4, <2>1, <2>2
<1>6. WindowsApart'
  BY <1>5 DEF WindowsApart
<1> QED
  BY <1>1, <1>2, <1>4, <1>6 DEF n


LEMMA FedStep ==
  ASSUME FeaturesInv, FedInOrder, NEW p \in Addresses, NEW ts \in Nat, newest \in Nat,
         newest <= ts, FeaturesFor(p, ts)
  PROVE  /\ \A s \in Addresses : \A i \in 1..Len(seen'[s]) : seen'[s][i] <= ts
         /\ \A s \in Addresses : \A i, j \in 1..Len(seen'[s]) :
              i < j => seen'[s][i] <= seen'[s][j]
<1>1. seen' = [seen EXCEPT ![p] = Append(seen[p], ts)] /\ seen \in [Addresses -> Seq(Nat)]
  BY DEF FeaturesFor, FeaturesInv
<1>2. ASSUME NEW s \in Addresses
      PROVE  /\ \A i \in 1..Len(seen[s]) : seen[s][i] <= ts
             /\ \A i, j \in 1..Len(seen[s]) : i < j => seen[s][i] <= seen[s][j]
  <2>1. seen[s] \in Seq(Nat)
    BY <1>1
  <2>2. ASSUME NEW i \in 1..Len(seen[s]) PROVE seen[s][i] <= ts
    <3>1. seen[s][i] <= newest /\ seen[s][i] \in Nat
      BY <2>1 DEF FedInOrder
    <3> QED
      BY <3>1
  <2> QED
    BY <2>2 DEF FedInOrder
<1>3. ASSUME NEW s \in Addresses
      PROVE  /\ \A i \in 1..Len(seen'[s]) : seen'[s][i] <= ts
             /\ \A i, j \in 1..Len(seen'[s]) : i < j => seen'[s][i] <= seen'[s][j]
  <2>1. CASE s # p
    BY <1>1, <1>2, <2>1
  <2>2. CASE s = p
    <3> DEFINE sn == seen[p]
               tn == Append(sn, ts)
    <3>1. seen'[s] = tn /\ sn \in Seq(Nat)
      BY <1>1, <2>2
    <3> HIDE DEF sn
    <3>2. /\ Len(sn) \in Nat /\ tn[Len(sn) + 1] = ts
          /\ \A i \in 1..Len(sn) : tn[i] = sn[i]
          /\ \A i \in 1..Len(tn) : i \in 1..Len(sn) \/ i = Len(sn) + 1
      BY <3>1, Appending
    <3>3. /\ \A i \in 1..Len(sn) : sn[i] <= ts
          /\ \A i, j \in 1..Len(sn) : i < j => sn[i] <= sn[j]
      BY <1>2 DEF sn
    <3> HIDE DEF tn
    <3>4. ASSUME NEW i \in 1..Len(tn) PROVE tn[i] <= ts
      BY <3>2, <3>3
    <3>5. ASSUME NEW i \in 1..Len(tn), NEW j \in 1..Len(tn), i < j PROVE tn[i] <= tn[j]
      <4>1. i \in 1..Len(sn)
        BY <3>2, <3>5
      <4>2. tn[i] = sn[i] /\ sn[i] <= ts
        BY <3>2, <3>3, <4>1
      <4>3. CASE j = Len(sn) + 1
        BY <3>2, <4>2, <4>3
      <4>4. CASE j \in 1..Len(sn)
        <5>1. sn[i] <= sn[j]
          BY <3>3, <3>5, <4>1, <4>4
        <5> QED
          BY <3>2, <4>2, <4>4, <5>1
      <4> QED
        BY <3>2, <4>3, <4>4
    <3> QED
      BY <3>1, <3>4, <3>5
  <2> QED
    BY <2>1, <2>2
<1> QED
  BY <1>3

\* An event that is not late leaves the windows apart.
LEMMA CutStep ==
  ASSUME BuilderInv, CutInOrder, WindowsApart, NEW flow \in Flows, NEW ts \in Nat,
         Ingest(flow, ts), newest \in Nat, newest <= ts,
         \A j \in 1..Len(emitted) : newest >= emitted[j].start + Window
  PROVE  WindowsApart' /\ CutInOrder'
<1>1. PICK e \in Events : e.ts = ts /\
        \/ /\ emitted' = emitted
           /\ buffer' = Append(buffer, e)
           /\ windowStart' = IF buffer = <<>> THEN ts ELSE windowStart
        \/ /\ buffer # <<>> /\ ts >= windowStart + Window
           /\ emitted' = Append(emitted, Closed(buffer, windowStart, TRUE))
           /\ buffer' = <<e>> /\ windowStart' = ts
  BY InTime
<1>2. newest' = ts
  BY InTime
<1>3. /\ buffer \in Seq(Events) /\ Window \in Nat /\ emitted \in Seq(Windows)
      /\ (windowStart = NoStart <=> buffer = <<>>) /\ windowStart \in Nat \cup {NoStart}
  BY BuilderAssumption DEF BuilderInv, TypeOK, Windows
<1>4. ASSUME NEW j \in 1..Len(emitted) PROVE ts >= emitted[j].start + Window
  <2>1. newest >= emitted[j].start + Window /\ emitted[j].start \in Nat
    BY <1>3, WindowFields
  <2> QED
    BY <1>3, <2>1
<1>5. CASE emitted' = emitted /\ buffer' = Append(buffer, e)
           /\ windowStart' = IF buffer = <<>> THEN ts ELSE windowStart
  <2>1. WindowsApart'
    BY <1>5 DEF WindowsApart
  <2>2. /\ Len(buffer) \in Nat
        /\ \A i \in 1..Len(buffer) : buffer'[i] = buffer[i]
        /\ buffer'[Len(buffer) + 1] = e
        /\ \A i \in 1..Len(buffer') : i \in 1..Len(buffer) \/ i = Len(buffer) + 1
    BY <1>3, <1>5, Appending
  <2>3. ASSUME NEW i \in 1..Len(buffer') PROVE buffer'[i].ts >= windowStart'
    <3>1. CASE i \in 1..Len(buffer)
      <4>1. buffer # <<>>
        BY <1>3, <3>1
      <4> QED
        BY <1>5, <2>2, <3>1, <4>1 DEF CutInOrder
    <3>2. CASE i = Len(buffer) + 1
      <4>1. buffer'[i].ts = ts
        BY <1>1, <2>2, <3>2
      <4>2. CASE buffer = <<>>
        BY <1>5, <4>1, <4>2
      <4>3. CASE buffer # <<>>
        <5>1. windowStart \in Nat /\ windowStart <= newest
          BY <1>3, <4>3 DEF BuilderInv, BufferInv
        <5> QED
          BY <1>5, <4>1, <4>3, <5>1
      <4> QED
        BY <4>2, <4>3
    <3> QED
      BY <2>2, <3>1, <3>2
  <2>4. ASSUME NEW j \in 1..Len(emitted'), NEW i \in 1..Len(buffer')
        PROVE  buffer'[i].ts >= emitted'[j].start + Window
    <3>1. CASE i \in 1..Len(buffer)
      BY <1>5, <2>2, <3>1 DEF CutInOrder
    <3>2. CASE i = Len(buffer) + 1
      BY <1>1, <1>4, <1>5, <2>2, <3>2
    <3> QED
      BY <2>2, <3>1, <3>2
  <2>5. \A j \in 1..Len(emitted') : newest' >= emitted'[j].start + Window
    BY <1>2, <1>4, <1>5
  <2> QED
    BY <2>1, <2>3, <2>4, <2>5 DEF CutInOrder
<1>6. CASE /\ buffer # <<>> /\ ts >= windowStart + Window
           /\ emitted' = Append(emitted, Closed(buffer, windowStart, TRUE))
           /\ buffer' = <<e>> /\ windowStart' = ts
  <2>1. /\ WindowsApart'
        /\ \A j \in 1..Len(emitted') :
             \/ j \in 1..Len(emitted) /\ emitted'[j] = emitted[j]
             \/ emitted'[j].start = windowStart /\ windowStart \in Nat
    BY <1>6, WindowAdded
  <2>2. ASSUME NEW j \in 1..Len(emitted') PROVE ts >= emitted'[j].start + Window
    BY <1>4, <1>6, <2>1
  <2>3. \A i \in 1..Len(buffer') : buffer'[i] = e
    BY <1>6, Single
  <2>4. \A i \in 1..Len(buffer') : buffer'[i].ts = ts
    BY <1>1, <2>3
  <2>5. /\ \A i \in 1..Len(buffer') : buffer'[i].ts >= windowStart'
        /\ \A j \in 1..Len(emitted') : \A i \in 1..Len(buffer') :
             buffer'[i].ts >= emitted'[j].start + Window
    <3>1. windowStart' = ts /\ ts >= ts
      BY <1>6
    <3> QED
      BY <2>2, <2>4, <3>1
  <2>6. \A j \in 1..Len(emitted') : newest' >= emitted'[j].start + Window
    BY <1>2, <2>2
  <2> QED
    BY <2>1, <2>5, <2>6 DEF CutInOrder
<1> QED
  BY <1>1, <1>5, <1>6

\* The next flow of a capture is fed to both lanes.
LEMMA ReplayStep ==
  ASSUME BuilderInv, FeaturesInv, ExtractionInv, ReplayInv, Replay
  PROVE  ReplayInv'
<1> DEFINE f == finished[replayed + 1]
           ts == f.first
           flow == FlowOf(f)
<1>1. /\ origin = "capture" /\ extraction = "extracted" /\ replayed < Len(finished)
      /\ FeaturesFor(flow.src, ts) /\ Ingest(flow, ts)
      /\ replayed' = replayed + 1
      /\ origin' = origin /\ extraction' = extraction /\ finished' = finished
  BY DEF Replay, IngestEvent, extractionVars
<1>2. FedInOrder /\ CutInOrder /\ WindowsApart
  BY <1>1 DEF ReplayInv
<1>3. /\ replayed \in Nat /\ Len(finished) \in Nat
      /\ replayed + 1 \in 1..Len(finished) /\ replayed' \in 0..Len(finished)
  <2>1. finished \in Seq(FlowStates)
    BY <1>1 DEF ExtractionInv, ExtractedInv, Cut
  <2> QED
    BY <1>1, <1>2, <2>1 DEF FedInOrder
<1>4. flow \in Flows /\ flow.src \in Addresses /\ ts \in Nat
  BY <1>1, <1>3, NextFlow
<1>5. newest <= ts /\ newest \in Nat
  BY <1>2, <1>3 DEF FedInOrder, BuilderInv, TypeOK
<1>6. \A k \in 1..Len(finished) : k > replayed' => ts <= finished[k].first
  BY <1>1, <1>3 DEF ExtractionInv, ExtractedInv, Sorted
<1> HIDE DEF flow, ts, f
<1>7. newest' = ts
  BY <1>1, <1>4, <1>5, InTime
<1>8. FedInOrder'
  <2>1. /\ \A s \in Addresses : \A i \in 1..Len(seen'[s]) : seen'[s][i] <= ts
        /\ \A s \in Addresses : \A i, j \in 1..Len(seen'[s]) :
             i < j => seen'[s][i] <= seen'[s][j]
    BY <1>1, <1>2, <1>4, <1>5, FedStep
  <2>2. \A k \in 1..Len(finished') : k > replayed' => newest' <= finished'[k].first
    BY <1>1, <1>6, <1>7
  <2> QED
    BY <1>1, <1>3, <1>7, <2>1, <2>2 DEF FedInOrder
<1>9. WindowsApart' /\ CutInOrder'
  <2>1. \A j \in 1..Len(emitted) : newest >= emitted[j].start + Window
    BY <1>1, <1>2 DEF CutInOrder
  <2> QED
    BY <1>1, <1>2, <1>4, <1>5, <2>1, CutStep
<1> QED
  BY <1>1, <1>8, <1>9 DEF ReplayInv

\* The last window of a replay is flushed.
LEMMA FlushedStep ==
  ASSUME BuilderInv, ReplayInv, FlushWindow
  PROVE  ReplayInv'
<1>1. /\ buffer # <<>> /\ buffer' = <<>> /\ newest' = newest
      /\ emitted' = Append(emitted, Closed(buffer, windowStart, FALSE))
      /\ seen' = seen /\ replayed' = replayed /\ origin' = origin
      /\ extraction' = extraction /\ finished' = finished
      /\ origin = "capture" => extraction = "extracted" /\ replayed = Len(finished)
  BY DEF FlushWindow, Flush, extractionVars, featurizerVars
<1> SUFFICES ASSUME origin = "capture" PROVE ReplayInv'
  BY <1>1 DEF ReplayInv
<1>2. FedInOrder /\ CutInOrder /\ WindowsApart
  BY <1>1 DEF ReplayInv
<1>3. WindowsApart'
  BY <1>1, <1>2, WindowAdded
<1>4. Len(buffer') = 0 /\ ~(replayed' < Len(finished'))
  <2>1. replayed \in Int
    BY <1>2 DEF FedInOrder
  <2> QED
    BY <1>1, <2>1
<1>5. CutInOrder'
  BY <1>4 DEF CutInOrder
<1>6. FedInOrder'
  BY <1>1, <1>2 DEF FedInOrder
<1> QED
  BY <1>1, <1>3, <1>5, <1>6 DEF ReplayInv

\* As the capture is read, nothing is fed; when it has been, all is to be replayed.
LEMMA ReadyStep ==
  ASSUME ReplayInv, Extract, ExtractionInv'
  PROVE  ReplayInv'
<1>1. /\ origin = "capture" /\ extraction = "reading"
      /\ buffer' = buffer /\ windowStart' = windowStart /\ emitted' = emitted
      /\ arrived' = arrived /\ newest' = newest /\ history' = history /\ seen' = seen
      /\ replayed' = replayed /\ origin' = origin
  BY DEF Extract, ReadPacket, DropFrame, EndOfCapture, lanes, vars, featurizerVars
<1>2. Unfed
  BY <1>1 DEF ReplayInv
<1>3. Unfed'
  BY <1>1, <1>2 DEF Unfed
<1>4. CASE extraction' # "extracted"
  BY <1>3, <1>4 DEF ReplayInv
<1>5. CASE extraction' = "extracted"
  <2>1. /\ \A k \in 1..Len(finished') : finished'[k].first \in Nat
        /\ Len(finished') \in Nat
    <3>1. finished' \in Seq(FlowStates)
      BY <1>5 DEF ExtractionInv, ExtractedInv, Cut
    <3>2. ASSUME NEW k \in 1..Len(finished') PROVE finished'[k].first \in Nat
      <4>1. finished'[k] \in FlowStates
        BY <3>1
      <4> QED
        BY <4>1 DEF FlowStates
    <3> QED
      BY <3>1, <3>2
  <2>2. /\ Len(buffer') = 0 /\ Len(emitted') = 0 /\ newest' = 0 /\ replayed' = 0
        /\ \A s \in Addresses : Len(seen'[s]) = 0
    BY <1>3 DEF Unfed
  <2>3. FedInOrder'
    BY <2>1, <2>2 DEF FedInOrder
  <2>4. CutInOrder' /\ WindowsApart'
    BY <2>2 DEF CutInOrder, WindowsApart
  <2> QED
    BY <1>5, <2>3, <2>4 DEF ReplayInv
<1> QED
  BY <1>4, <1>5

\* Fed in order, a window holds exactly what is recent.
LEMMA SortedWindow ==
  ASSUME NEW h, NEW sn, Sound(h, sn), \A i, j \in 1..Len(sn) : i < j => sn[i] <= sn[j],
         NEW i \in 1..Len(sn)
  PROVE  sn[Len(sn)] - sn[i] <= HistorySpan <=> i > Len(sn) - Len(h)
<1>1. /\ h \in Seq(Nat) /\ sn \in Seq(Nat)
      /\ Len(h) \in Nat /\ Len(sn) \in Nat /\ Len(h) <= Len(sn)
      /\ \A m \in 1..Len(h) : h[m] = sn[Len(sn) - Len(h) + m]
  BY DEF Sound, IsTail
<1>2. HistorySpan \in Nat
  BY FeaturizerAssumption
<1> DEFINE last == sn[Len(sn)]
<1>3. last \in Nat /\ sn[i] \in Nat /\ Len(sn) \in 1..Len(sn)
  BY <1>1
<1>4. ASSUME NEW a \in 1..Len(sn), NEW b \in 1..Len(sn), a <= b
      PROVE  sn[a] <= sn[b] /\ sn[a] \in Nat /\ sn[b] \in Nat
  <2>1. sn[a] \in Nat /\ sn[b] \in Nat
    BY <1>1
  <2>2. CASE a = b
    BY <2>1, <2>2
  <2>3. CASE a # b
    BY <1>4, <2>1, <2>3
  <2> QED
    BY <2>2, <2>3
<1>5. CASE i > Len(sn) - Len(h)
  <2> DEFINE a == Len(sn) - Len(h) + 1
  <2>1. a \in 1..Len(sn) /\ a <= i /\ 1 \in 1..Len(h) /\ Len(h) > 0
    BY <1>1, <1>5
  <2>2. h[1] = sn[a] /\ h # <<>>
    BY <1>1, <2>1
  <2> HIDE DEF a
  <2>3. last - sn[a] <= HistorySpan
    BY <2>2 DEF Sound, FrontFresh
  <2>4. sn[a] <= sn[i] /\ sn[a] \in Nat
    BY <1>4, <2>1
  <2> HIDE DEF last
  <2>5. last - sn[i] <= HistorySpan
    BY <1>2, <1>3, <2>3, <2>4
  <2> QED
    BY <1>5, <2>5 DEF last
<1>6. CASE ~(i > Len(sn) - Len(h))
  <2>1. i <= Len(sn) - Len(h)
    BY <1>1, <1>6
  <2>2. PICK j \in 1..Len(sn) : i < j /\ sn[j] - sn[i] > HistorySpan
    BY <2>1 DEF Sound, Evicted
  <2>3. sn[j] <= last /\ sn[j] \in Nat
    <3>1. j <= Len(sn)
      OBVIOUS
    <3> QED
      BY <1>3, <1>4, <3>1
  <2> HIDE DEF last
  <2>4. ~(last - sn[i] <= HistorySpan)
    BY <1>2, <1>3, <2>2, <2>3
  <2> QED
    BY <1>6, <2>4 DEF last
<1> QED
  BY <1>5, <1>6

LEMMA ReplayedInOrder == FeaturesInv /\ BuilderInv /\ ReplayInv => ReplayInOrder
<1> SUFFICES ASSUME FeaturesInv, BuilderInv, ReplayInv, origin = "capture" PROVE ReplayInOrder
  BY DEF ReplayInOrder
<1>1. CASE extraction = "extracted"
  <2>1. FedInOrder /\ WindowsApart
    BY <1>1 DEF ReplayInv
  <2>2. ASSUME NEW s \in Addresses, NEW i \in 1..Len(seen[s])
        PROVE  Latest(s) - seen[s][i] <= HistorySpan <=> i > Len(seen[s]) - Len(history[s])
    <3>1. Sound(history[s], seen[s])
      BY DEF FeaturesInv
    <3>2. \A k, l \in 1..Len(seen[s]) : k < l => seen[s][k] <= seen[s][l]
      BY <2>1 DEF FedInOrder
    <3> QED
      BY <3>1, <3>2, SortedWindow DEF Latest
  <2> QED
    BY <2>1, <2>2 DEF ReplayInOrder, WindowsApart
<1>2. CASE extraction # "extracted"
  <2>1. Len(emitted) = 0 /\ \A s \in Addresses : Len(seen[s]) = 0
    BY <1>2 DEF ReplayInv, Unfed
  <2>2. /\ \A k \in 1..Len(emitted) : FALSE
        /\ \A s \in Addresses : \A i \in 1..Len(seen[s]) : FALSE
    BY <2>1
  <2> QED
    BY <2>2, Zenon DEF ReplayInOrder
<1> QED
  BY <1>1, <1>2

-----------------------------------------------------------------------------
(* The graph of a window.  A sum over a set is a recursive function on its   *)
(* subsets, taking out an element that CHOOSE picks.  What is counted for    *)
(* each element adds up to a function that can be written down, so the       *)
(* recursion has a solution; a smallest subset on which another solution     *)
(* differs from it does not exist.                                           *)

Picked(s) == CHOOSE x \in s : TRUE

\* f adds c over every subset of D.
Adds(f, c, D) ==
  f = [s \in SUBSET D |-> IF s = {} THEN 0 ELSE c[Picked(s)] + f[s \ {Picked(s)}]]

\* How many of 1..n go into s.
Into(g, n, s) == Cardinality({i \in 1..n : g[i] \in s})

LEMMA IntoFinite ==
  ASSUME NEW g, NEW n \in Nat, NEW s
  PROVE  IsFiniteSet({i \in 1..n : g[i] \in s})
<1>1. IsFiniteSet(1..n)
  BY FS_Interval
<1> QED
  BY <1>1, FS_Subset

\* An element more adds those that go into it.
LEMMA IntoStep ==
  ASSUME NEW g, NEW n \in Nat, NEW s, NEW x \in s
  PROVE  Into(g, n, s) = Into(g, n, {x}) + Into(g, n, s \ {x})
<1> DEFINE A == {i \in 1..n : g[i] \in {x}}
           B == {i \in 1..n : g[i] \in s \ {x}}
<1>1. IsFiniteSet(A) /\ IsFiniteSet(B)
  BY IntoFinite
<1>2. A \cap B = {} /\ {i \in 1..n : g[i] \in s} = A \cup B
  OBVIOUS
<1>3. Cardinality(A \cap B) = 0
  BY <1>2, FS_EmptySet
<1>4. Cardinality(A) \in Nat /\ Cardinality(B) \in Nat
  BY <1>1, FS_CardinalityType
<1>5. Cardinality(A \cup B) = Cardinality(A) + Cardinality(B) - Cardinality(A \cap B)
  BY <1>1, FS_Union
<1> HIDE DEF A, B
<1>6. Cardinality(A \cup B) = Cardinality(A) + Cardinality(B)
  BY <1>3, <1>4, <1>5
<1> QED
  BY <1>2, <1>6 DEF Into, A, B

\* What is counted for each element adds up to all of them, and there is a function
\* that adds it.
LEMMA CountsAddUp ==
  ASSUME NEW n \in Nat, NEW g, NEW D, IsFiniteSet(D), \A i \in 1..n : g[i] \in D,
         NEW c, \A d \in D : c[d] = Into(g, n, {d})
  PROVE  /\ \E f : Adds(f, c, D)
         /\ \A f : Adds(f, c, D) => f[D] = n
<1> DEFINE h == [s \in SUBSET D |-> Into(g, n, s)]
<1>1. Into(g, n, {}) = 0
  BY FS_EmptySet DEF Into
<1>2. \A s : s # {} => Picked(s) \in s
  BY DEF Picked
<1>3. ASSUME NEW s \in SUBSET D, s # {}
      PROVE  Into(g, n, s) = c[Picked(s)] + Into(g, n, s \ {Picked(s)})
  <2>1. Picked(s) \in s /\ Picked(s) \in D
    BY <1>2, <1>3
  <2>2. c[Picked(s)] = Into(g, n, {Picked(s)})
    BY <2>1
  <2> QED
    BY <2>1, <2>2, IntoStep
<1>4. Adds(h, c, D)
  <2>1. \A s \in SUBSET D : s \ {Picked(s)} \in SUBSET D
    OBVIOUS
  <2>2. ASSUME NEW s \in SUBSET D
        PROVE  h[s] = IF s = {} THEN 0 ELSE c[Picked(s)] + h[s \ {Picked(s)}]
    BY <1>1, <1>3, <2>1
  <2>3. h = [s \in SUBSET D |-> h[s]]
    OBVIOUS
  <2> HIDE DEF h
  <2> QED
    BY <2>2, <2>3 DEF Adds
<1>5. ASSUME NEW f, Adds(f, c, D) PROVE f[D] = n
  <2>1. \A s \in SUBSET D : f[s] = IF s = {} THEN 0 ELSE c[Picked(s)] + f[s \ {Picked(s)}]
    BY <1>5 DEF Adds
  <2> DEFINE B == {s \in SUBSET D : f[s] # Into(g, n, s)}
  <2>2. B = {}
    <3> SUFFICES ASSUME B # {} PROVE FALSE
      OBVIOUS
    <3>1. B \subseteq FiniteSubsetsOf(D)
      BY FS_Subset DEF FiniteSubsetsOf
    <3>2. \E x \in B : \A y \in B : ~(<<y, x>> \in StrictSubsetOrdering(D))
      <4> HIDE DEF B
      <4> QED
        BY <3>1, FS_StrictSubsetOrderingWellFounded, WFMin
    <3>3. PICK x \in B : \A y \in B : ~(<<y, x>> \in StrictSubsetOrdering(D))
      BY <3>2
    <3>4. x # {}
      BY <1>1, <2>1
    <3> DEFINE y == x \ {Picked(x)}
    <3>5. y \in SUBSET D /\ y \subseteq x /\ y # x
      BY <1>2, <3>4
    <3>6. <<y, x>> \in StrictSubsetOrdering(D)
      BY <3>5 DEF StrictSubsetOrdering
    <3>7. f[y] = Into(g, n, y)
      BY <3>3, <3>5, <3>6
    <3>8. x \in SUBSET D /\ f[x] = c[Picked(x)] + f[y]
      BY <2>1, <3>4
    <3>9. Into(g, n, x) = c[Picked(x)] + Into(g, n, y)
      BY <1>3, <3>4, <3>8
    <3> QED
      BY <3>7, <3>8, <3>9
  <2>3. f[D] = Into(g, n, D)
    BY <2>2
  <2>4. {i \in 1..n : g[i] \in D} = 1..n
    OBVIOUS
  <2>5. Cardinality(1..n) = n
    BY FS_Interval
  <2> QED
    BY <2>3, <2>4, <2>5 DEF Into
<1> QED
  BY <1>4, <1>5

LEMMA SumIs ==
  ASSUME NEW D, NEW c, \E f : Adds(f, c, D), NEW k, \A f : Adds(f, c, D) => f[D] = k
  PROVE  MapThenSumSet(LAMBDA d : c[d], D) = k
<1>1. MapThenSumSet(LAMBDA d : c[d], D) = (CHOOSE f : Adds(f, c, D))[D]
  BY DEF MapThenSumSet, MapThenFoldSet, Adds, Picked
<1>2. PICK f : Adds(f, c, D)
  OBVIOUS
<1>3. Adds(CHOOSE e : Adds(e, c, D), c, D)
  BY <1>2
<1> QED
  BY <1>1, <1>3
LEMMA ImageFinite ==
  ASSUME NEW n \in Nat, NEW g, DOMAIN g = 1..n, NEW D, D = {g[i] : i \in 1..n}
  PROVE  IsFiniteSet(D) /\ Cardinality(D) <= n
<1>1. IsFiniteSet(1..n) /\ Cardinality(1..n) = n
  BY FS_Interval
<1>2. [i \in 1..n |-> g[i]] \in Surjection(1..n, D)
  BY DEF Surjection
<1> QED
  BY <1>1, <1>2, FS_Surjection

LEMMA EdgesSum ==
  ASSUME NEW events \in Seq(Events)
  PROVE  MapThenSumSet(LAMBDA p : Edges(events)[p], DOMAIN Edges(events)) = Len(events)
<1> DEFINE n == Len(events)
           g == [i \in 1..n |-> <<events[i].flow.src, events[i].flow.dst>>]
           D == {<<events[i].flow.src, events[i].flow.dst>> : i \in 1..n}
           c == Edges(events)
<1>1. n \in Nat
  OBVIOUS
<1>2. DOMAIN c = D
  BY DEF Edges
<1>3. D = {g[i] : i \in 1..n}
  OBVIOUS
<1>4. IsFiniteSet(D)
  <2> HIDE DEF n, D
  <2> QED
    BY <1>1, <1>3, ImageFinite
<1>5. ASSUME NEW p \in D PROVE c[p] = Into(g, n, {p})
  <2>1. c[p] = Cardinality({i \in 1..n : events[i].flow.src = p[1] /\ events[i].flow.dst = p[2]})
    BY DEF Edges, Where
  <2>2. ASSUME NEW i \in 1..n
        PROVE  events[i].flow.src = p[1] /\ events[i].flow.dst = p[2] <=> g[i] \in {p}
    OBVIOUS
  <2> HIDE DEF g, c, D, n
  <2>3. {i \in 1..n : events[i].flow.src = p[1] /\ events[i].flow.dst = p[2]} = {i \in 1..n : g[i] \in {p}}
    BY <2>2
  <2> QED
    BY <2>1, <2>3 DEF Into
<1>6. \A i \in 1..n : g[i] \in D
  OBVIOUS
<1> HIDE DEF n, g, D, c
<1>7. (\E f : Adds(f, c, D)) /\ \A f : Adds(f, c, D) => f[D] = n
  BY <1>1, <1>4, <1>5, <1>6, CountsAddUp
<1>8. MapThenSumSet(LAMBDA p : c[p], D) = n
  BY <1>7, SumIs
<1>9. MapThenSumSet(LAMBDA p : c[p], DOMAIN c) = n
  BY <1>2, <1>8
<1> QED
  BY <1>9 DEF c, n

LEMMA HostsFinite ==
  ASSUME NEW events \in Seq(Events)
  PROVE  IsFiniteSet(HostIds(events))
<1> DEFINE n == Len(events)
           src == [i \in 1..n |-> events[i].flow.src]
           dst == [i \in 1..n |-> events[i].flow.dst]
<1>1. n \in Nat
  OBVIOUS
<1>2. Sources(events) = {src[i] : i \in 1..n} /\ Targets(events) = {dst[i] : i \in 1..n}
  BY DEF Sources, Targets
<1>3. DOMAIN src = 1..n /\ DOMAIN dst = 1..n
  OBVIOUS
<1> HIDE DEF n, src, dst
<1>4. IsFiniteSet(Sources(events)) /\ IsFiniteSet(Targets(events))
  BY <1>1, <1>2, <1>3, ImageFinite
<1> QED
  BY <1>4, FS_Union DEF HostIds

LEMMA OutSum ==
  ASSUME NEW events \in Seq(Events)
  PROVE  MapThenSumSet(LAMBDA h : Nodes(events)[h].degreeOut, DOMAIN Nodes(events)) = Len(events)
<1> DEFINE n == Len(events)
           g == [i \in 1..n |-> events[i].flow.src]
           D == HostIds(events)
           m == Nodes(events)
           c == [h \in D |-> m[h].degreeOut]
<1>1. n \in Nat
  OBVIOUS
<1>2. DOMAIN m = D
  BY DEF Nodes
<1>3. IsFiniteSet(D)
  BY HostsFinite
<1>4. ASSUME NEW h \in D PROVE c[h] = Into(g, n, {h})
  <2>1. c[h] = Cardinality({i \in 1..n : events[i].flow.src = h})
    BY DEF Nodes, Where
  <2>2. \A i \in 1..n : events[i].flow.src = h <=> g[i] \in {h}
    OBVIOUS
  <2> HIDE DEF g, c, D, n
  <2>3. {i \in 1..n : events[i].flow.src = h} = {i \in 1..n : g[i] \in {h}}
    BY <2>2
  <2> QED
    BY <2>1, <2>3 DEF Into
<1>5. \A i \in 1..n : g[i] \in D
  BY DEF HostIds, Sources, Targets
<1>6. \A h \in D : c[h] = m[h].degreeOut
  OBVIOUS
<1> HIDE DEF n, g, D, c, m
<1>7. (\E f : Adds(f, c, D)) /\ \A f : Adds(f, c, D) => f[D] = n
  BY <1>1, <1>3, <1>4, <1>5, CountsAddUp
<1>8. MapThenSumSet(LAMBDA h : m[h].degreeOut, D) = n
  <2> DEFINE SumsUp(f) ==
        f = [s \in SUBSET D |-> IF s = {} THEN 0 ELSE m[Picked(s)].degreeOut + f[s \ {Picked(s)}]]
  <2>1. MapThenSumSet(LAMBDA h : m[h].degreeOut, D) = (CHOOSE f : SumsUp(f))[D]
    BY DEF MapThenSumSet, MapThenFoldSet, Picked
  <2>2. ASSUME NEW s \in SUBSET D, s # {} PROVE c[Picked(s)] = m[Picked(s)].degreeOut
    <3>1. Picked(s) \in D
      BY <2>2 DEF Picked
    <3> QED
      BY <1>6, <3>1
  <2>3. ASSUME NEW f PROVE Adds(f, c, D) <=> SumsUp(f)
    <3>1. \A s \in SUBSET D :
            (IF s = {} THEN 0 ELSE c[Picked(s)] + f[s \ {Picked(s)}])
              = IF s = {} THEN 0 ELSE m[Picked(s)].degreeOut + f[s \ {Picked(s)}]
      BY <2>2
    <3> QED
      BY <3>1 DEF Adds
  <2>4. SumsUp(CHOOSE f : SumsUp(f))
    BY <1>7, <2>3
  <2> HIDE DEF SumsUp
  <2> QED
    BY <1>7, <2>1, <2>3, <2>4
<1>9. MapThenSumSet(LAMBDA h : m[h].degreeOut, DOMAIN m) = n
  BY <1>2, <1>8
<1> QED
  BY <1>9 DEF m, n

LEMMA InSum ==
  ASSUME NEW events \in Seq(Events)
  PROVE  MapThenSumSet(LAMBDA h : Nodes(events)[h].degreeIn, DOMAIN Nodes(events)) = Len(events)
<1> DEFINE n == Len(events)
           g == [i \in 1..n |-> events[i].flow.dst]
           D == HostIds(events)
           m == Nodes(events)
           c == [h \in D |-> m[h].degreeIn]
<1>1. n \in Nat
  OBVIOUS
<1>2. DOMAIN m = D
  BY DEF Nodes
<1>3. IsFiniteSet(D)
  BY HostsFinite
<1>4. ASSUME NEW h \in D PROVE c[h] = Into(g, n, {h})
  <2>1. c[h] = Cardinality({i \in 1..n : events[i].flow.dst = h})
    BY DEF Nodes, Where
  <2>2. \A i \in 1..n : events[i].flow.dst = h <=> g[i] \in {h}
    OBVIOUS
  <2> HIDE DEF g, c, D, n
  <2>3. {i \in 1..n : events[i].flow.dst = h} = {i \in 1..n : g[i] \in {h}}
    BY <2>2
  <2> QED
    BY <2>1, <2>3 DEF Into
<1>5. \A i \in 1..n : g[i] \in D
  BY DEF HostIds, Sources, Targets
<1>6. \A h \in D : c[h] = m[h].degreeIn
  OBVIOUS
<1> HIDE DEF n, g, D, c, m
<1>7. (\E f : Adds(f, c, D)) /\ \A f : Adds(f, c, D) => f[D] = n
  BY <1>1, <1>3, <1>4, <1>5, CountsAddUp
<1>8. MapThenSumSet(LAMBDA h : m[h].degreeIn, D) = n
  <2> DEFINE SumsUp(f) ==
        f = [s \in SUBSET D |-> IF s = {} THEN 0 ELSE m[Picked(s)].degreeIn + f[s \ {Picked(s)}]]
  <2>1. MapThenSumSet(LAMBDA h : m[h].degreeIn, D) = (CHOOSE f : SumsUp(f))[D]
    BY DEF MapThenSumSet, MapThenFoldSet, Picked
  <2>2. ASSUME NEW s \in SUBSET D, s # {} PROVE c[Picked(s)] = m[Picked(s)].degreeIn
    <3>1. Picked(s) \in D
      BY <2>2 DEF Picked
    <3> QED
      BY <1>6, <3>1
  <2>3. ASSUME NEW f PROVE Adds(f, c, D) <=> SumsUp(f)
    <3>1. \A s \in SUBSET D :
            (IF s = {} THEN 0 ELSE c[Picked(s)] + f[s \ {Picked(s)}])
              = IF s = {} THEN 0 ELSE m[Picked(s)].degreeIn + f[s \ {Picked(s)}]
      BY <2>2
    <3> QED
      BY <3>1 DEF Adds
  <2>4. SumsUp(CHOOSE f : SumsUp(f))
    BY <1>7, <2>3
  <2> HIDE DEF SumsUp
  <2> QED
    BY <1>7, <2>1, <2>3, <2>4
<1>9. MapThenSumSet(LAMBDA h : m[h].degreeIn, DOMAIN m) = n
  BY <1>2, <1>8
<1> QED
  BY <1>9 DEF m, n

\* A host contacts at most one port per flow it sends.
LEMMA PortsBound ==
  ASSUME NEW events \in Seq(Events), NEW h \in HostIds(events)
  PROVE  Nodes(events)[h].ports <= Nodes(events)[h].degreeOut
<1> DEFINE n == Len(events)
           W == {i \in 1..n : events[i].flow.src = h}
           P == {events[i].flow.port : i \in W}
<1>1. Nodes(events)[h].ports = Cardinality(P \ {NoPort}) /\ Nodes(events)[h].degreeOut = Cardinality(W)
  BY DEF Nodes, PortsOf, Where
<1>2. IsFiniteSet(1..n)
  BY FS_Interval
<1>3. IsFiniteSet(W)
  BY <1>2, FS_Subset
<1>4. [i \in W |-> events[i].flow.port] \in Surjection(W, P)
  BY DEF Surjection
<1> HIDE DEF W, P
<1>5. IsFiniteSet(P) /\ Cardinality(P) <= Cardinality(W)
  BY <1>3, <1>4, FS_Surjection
<1>6. IsFiniteSet(P \ {NoPort}) /\ Cardinality(P \ {NoPort}) <= Cardinality(P)
  BY <1>5, FS_Subset
<1>7. Cardinality(W) \in Nat /\ Cardinality(P) \in Nat /\ Cardinality(P \ {NoPort}) \in Nat
  BY <1>3, <1>5, <1>6, FS_CardinalityType
<1> QED
  BY <1>1, <1>5, <1>6, <1>7

LEMMA EdgeEnds ==
  ASSUME NEW events \in Seq(Events), NEW p \in DOMAIN Edges(events)
  PROVE  {p[1], p[2]} \subseteq DOMAIN Nodes(events)
<1>1. PICK i \in 1..Len(events) : p = <<events[i].flow.src, events[i].flow.dst>>
  BY DEF Edges
<1>2. p[1] \in Sources(events) /\ p[2] \in Targets(events)
  BY <1>1 DEF Sources, Targets
<1> QED
  BY <1>2 DEF Nodes, HostIds

\* The graph of a window accounts for every flow in it, whatever hosts and ports the flows
\* name, and whether or not they name a port.
LEMMA Accounted == TypeOK => GraphAccounts
<1> SUFFICES ASSUME TypeOK, NEW k \in 1..Len(emitted) PROVE
      LET events == emitted[k].events
          nodes == Nodes(events)
          edges == Edges(events)
      IN /\ \A p \in DOMAIN edges : {p[1], p[2]} \subseteq DOMAIN nodes
         /\ MapThenSumSet(LAMBDA p : edges[p], DOMAIN edges) = Len(events)
         /\ MapThenSumSet(LAMBDA h : nodes[h].degreeOut, DOMAIN nodes) = Len(events)
         /\ MapThenSumSet(LAMBDA h : nodes[h].degreeIn, DOMAIN nodes) = Len(events)
         /\ \A h \in DOMAIN nodes : nodes[h].ports <= nodes[h].degreeOut
  BY DEF GraphAccounts
<1> DEFINE events == emitted[k].events
<1>1. events \in Seq(Events)
  <2>1. emitted \in Seq(Windows)
    BY DEF TypeOK, Windows
  <2>2. emitted[k] \in Windows
    BY <2>1
  <2> QED
    BY <2>2 DEF Windows
<1> HIDE DEF events
<1>2. \A p \in DOMAIN Edges(events) : {p[1], p[2]} \subseteq DOMAIN Nodes(events)
  BY <1>1, EdgeEnds
<1>3. MapThenSumSet(LAMBDA p : Edges(events)[p], DOMAIN Edges(events)) = Len(events)
  BY <1>1, EdgesSum
<1>4. MapThenSumSet(LAMBDA h : Nodes(events)[h].degreeOut, DOMAIN Nodes(events)) = Len(events)
  BY <1>1, OutSum
<1>5. MapThenSumSet(LAMBDA h : Nodes(events)[h].degreeIn, DOMAIN Nodes(events)) = Len(events)
  BY <1>1, InSum
<1>6. \A h \in HostIds(events) : Nodes(events)[h].ports <= Nodes(events)[h].degreeOut
  BY <1>1, PortsBound
<1>7. DOMAIN Nodes(events) = HostIds(events)
  BY DEF Nodes
<1> QED
  BY <1>2, <1>3, <1>4, <1>5, <1>6, <1>7 DEF events

-----------------------------------------------------------------------------
(* The invariants of the lanes *)

IInv == BuilderInv /\ FeaturesInv /\ ExtractionInv /\ ReplayInv

LEMMA LanesStart == LanesInit => IInv
<1> SUFFICES ASSUME LanesInit PROVE IInv
  OBVIOUS
<1>1. BuilderInv
  BY BuilderInit DEF LanesInit
<1>2. FeaturesInv
  BY FeaturesInit DEF LanesInit
<1>3. ExtractionInv
  BY ExtractionStart DEF LanesInit
<1>4. Unfed /\ extraction # "extracted"
  BY DEF LanesInit, FeaturizerInit, Init, ExtractionInit, Unfed
<1>5. ReplayInv
  BY <1>4 DEF ReplayInv
<1> QED
  BY <1>1, <1>2, <1>3, <1>5 DEF IInv

LEMMA LanesStep == IInv /\ [LanesNext]_allVars => IInv'
<1> SUFFICES ASSUME IInv, [LanesNext]_allVars PROVE IInv'
  OBVIOUS
<1>1. BuilderInv /\ FeaturesInv /\ ExtractionInv /\ ReplayInv
  BY DEF IInv
<1>2. ASSUME UNCHANGED extractionVars PROVE ExtractionInv'
  BY <1>1, <1>2, ExtractionStutter DEF extractionVars
<1>3. ASSUME NEW flow \in Flows, NEW ts \in Times, Post(flow, ts) PROVE IInv'
  <2>1. /\ ts \in Nat /\ flow.src \in Addresses
        /\ FeaturesFor(flow.src, ts) /\ Ingest(flow, ts)
        /\ origin = "posted" /\ origin' = origin /\ UNCHANGED extractionVars
    BY <1>1, <1>3, LanesAssumption DEF Post, IngestEvent, ExtractionInv
  <2>2. BuilderInv' /\ FeaturesInv' /\ ExtractionInv'
    BY <1>1, <1>2, <2>1, BuilderStep, FeaturesStep
  <2>3. ReplayInv'
    BY <2>1 DEF ReplayInv
  <2> QED
    BY <2>2, <2>3 DEF IInv
<1>4. CASE Extract
  <2>1. UNCHANGED vars /\ UNCHANGED featurizerVars
    BY <1>4 DEF Extract, lanes
  <2>2. BuilderInv' /\ FeaturesInv'
    BY <1>1, <2>1, BuilderStutter, FeaturesStutter
  <2>3. ExtractionInv'
    <3>1. CASE \E p \in Packets, ts \in Times : ReadPacket(p, ts)
      BY <1>1, <3>1, ReadStep
    <3>2. CASE DropFrame
      BY <1>1, <3>2, ExtractionStutter DEF DropFrame
    <3>3. CASE EndOfCapture
      BY <1>1, <3>3, EndStep
    <3> QED
      BY <1>4, <3>1, <3>2, <3>3 DEF Extract
  <2>4. ReplayInv'
    BY <1>1, <1>4, <2>3, ReadyStep
  <2> QED
    BY <2>2, <2>3, <2>4 DEF IInv
<1>5. CASE Replay
  <2> DEFINE f == finished[replayed + 1]
  <2>1. /\ FeaturesFor(FlowOf(f).src, f.first) /\ Ingest(FlowOf(f), f.first)
        /\ UNCHANGED extractionVars
    BY <1>5 DEF Replay, IngestEvent
  <2>2. FlowOf(f) \in Flows /\ FlowOf(f).src \in Addresses /\ f.first \in Nat
    <3>1. extraction = "extracted" /\ origin = "capture" /\ replayed < Len(finished)
      BY <1>5 DEF Replay
    <3>2. finished \in Seq(FlowStates) /\ replayed \in 0..Len(finished)
      BY <1>1, <3>1 DEF ReplayInv, FedInOrder, ExtractionInv, ExtractedInv, Cut
    <3>3. replayed + 1 \in 1..Len(finished)
      BY <3>1, <3>2
    <3> QED
      BY <1>1, <3>1, <3>3, NextFlow
  <2> HIDE DEF f
  <2>3. BuilderInv' /\ FeaturesInv' /\ ExtractionInv'
    BY <1>1, <1>2, <2>1, <2>2, BuilderStep, FeaturesStep
  <2>4. ReplayInv'
    BY <1>1, <1>5, ReplayStep
  <2> QED
    BY <2>3, <2>4 DEF IInv
<1>6. CASE FlushWindow
  <2>1. Flush /\ UNCHANGED featurizerVars /\ UNCHANGED extractionVars
    BY <1>6 DEF FlushWindow
  <2>2. BuilderInv' /\ FeaturesInv' /\ ExtractionInv' /\ ReplayInv'
    BY <1>1, <1>2, <1>6, <2>1, FlushStep, FeaturesStutter, FlushedStep
  <2> QED
    BY <2>2 DEF IInv
<1>7. CASE ResetFeatures
  <2>1. /\ Reset /\ UNCHANGED vars /\ UNCHANGED extractionVars
        /\ origin = "posted" /\ origin' = origin
    BY <1>7 DEF ResetFeatures
  <2>2. BuilderInv' /\ FeaturesInv' /\ ExtractionInv'
    BY <1>1, <1>2, <2>1, BuilderStutter, ResetStep
  <2>3. ReplayInv'
    BY <2>1 DEF ReplayInv
  <2> QED
    BY <2>2, <2>3 DEF IInv
<1>8. CASE UNCHANGED allVars
  <2>1. /\ UNCHANGED vars /\ UNCHANGED featurizerVars /\ UNCHANGED extractionVars
        /\ origin' = origin /\ replayed' = replayed
    BY <1>8 DEF allVars, lanes
  <2>2. BuilderInv' /\ FeaturesInv' /\ ExtractionInv'
    BY <1>1, <1>2, <2>1, BuilderStutter, FeaturesStutter
  <2>3. /\ buffer' = buffer /\ windowStart' = windowStart /\ emitted' = emitted
        /\ arrived' = arrived /\ newest' = newest /\ history' = history /\ seen' = seen
        /\ extraction' = extraction /\ finished' = finished
    BY <2>1 DEF vars, featurizerVars, extractionVars
  <2>4. ReplayInv'
    BY <1>1, <2>1, <2>3 DEF ReplayInv, FedInOrder, CutInOrder, WindowsApart, Unfed
  <2> QED
    BY <2>2, <2>4 DEF IInv
<1> QED
  BY <1>3, <1>4, <1>5, <1>6, <1>7, <1>8 DEF LanesNext

-----------------------------------------------------------------------------
(* The theorems *)

\* What every state of the lanes satisfies: the deep lane's buffer fits its window, the
\* fast lane's windows are sound, the flows cut the capture, and a replay keeps their
\* order.
THEOREM Invariance == LanesSpec => []IInv
BY LanesStart, LanesStep, PTL DEF LanesSpec

\* Type correctness of both lanes.
THEOREM TypeCorrect == LanesSpec => [](TypeOK /\ FeaturizerTypeOK)
<1>1. IInv => TypeOK /\ FeaturizerTypeOK
  BY DEF IInv, BuilderInv, FeaturesInv, FeaturizerTypeOK
<1> QED
  BY <1>1, Invariance, PTL

\* No event of the deep lane is lost, counted twice or moved to another window,
\* whatever timestamps the events carry and whenever flush is called.
THEOREM EventsOnceHolds == LanesSpec => []EventsOnce
<1>1. IInv => EventsOnce
  BY DEF IInv, BuilderInv
<1> QED
  BY <1>1, Invariance, PTL

\* A window covers Window seconds of event time from its start on, and no more of the
\* past than events may be late; elapsed windows are disjoint, up to the lateness.
THEOREM WindowTimesHolds == LanesSpec => []WindowTimes
<1>1. IInv => WindowTimes
  BY DEF IInv, BuilderInv, WindowTimes
<1> QED
  BY <1>1, Invariance, PTL

\* The graph that the Detective sees of a window accounts for every event in it: degrees
\* and flow counts add up to the events, and no edge ends outside the graph.
THEOREM GraphAccountsHolds == LanesSpec => []GraphAccounts
<1>1. IInv => GraphAccounts
  BY Accounted DEF IInv, BuilderInv
<1> QED
  BY <1>1, Invariance, PTL

\* Nothing younger than the window less the lateness is missed.
LEMMA Complete == FeaturesInv => WindowComplete
<1>1. ASSUME FeaturesInv, NEW s \in Addresses, NEW i \in 1..Len(seen[s]),
             i <= Len(seen[s]) - Len(history[s])
      PROVE  Latest(s) - seen[s][i] > HistorySpan - MaxLate
  <2> DEFINE sn == seen[s]
  <2>1. Late(sn) /\ Evicted(history[s], sn) /\ sn \in Seq(Nat)
    BY <1>1 DEF FeaturesInv, Sound
  <2>2. PICK j \in 1..Len(sn) : i < j /\ sn[j] - sn[i] > HistorySpan
    BY <1>1, <2>1 DEF Evicted
  <2>3. /\ Len(sn) \in 1..Len(sn) /\ Len(sn) \in Nat
        /\ sn[i] \in Nat /\ sn[j] \in Nat /\ sn[Len(sn)] \in Nat
    BY <2>1
  <2>4. sn[Len(sn)] >= sn[j] - MaxLate
    <3>1. CASE j = Len(sn)
      BY <2>3, <3>1, FeaturizerAssumption
    <3>2. CASE j # Len(sn)
      <4>1. j < Len(sn)
        BY <2>3, <3>2
      <4> QED
        BY <2>1, <2>3, <4>1 DEF Late
    <3> QED
      BY <3>1, <3>2
  <2>5. ASSUME NEW x \in Nat, NEW y \in Nat, NEW z \in Nat, y - x > HistorySpan, z >= y - MaxLate
        PROVE  z - x > HistorySpan - MaxLate
    BY <2>5, FeaturizerAssumption
  <2> QED
    BY <2>2, <2>3, <2>4, <2>5 DEF Latest
<1>2. ASSUME FeaturesInv, NEW s \in Addresses, NEW i \in 1..Len(seen[s])
      PROVE  /\ Latest(s) \in Nat /\ seen[s][i] \in Nat
             /\ Len(seen[s]) \in Nat /\ Len(history[s]) \in Nat
  <2>1. seen[s] \in Seq(Nat) /\ history[s] \in Seq(Nat)
    BY <1>2 DEF FeaturesInv
  <2>2. Len(seen[s]) \in 1..Len(seen[s])
    BY <2>1
  <2> QED
    BY <2>1, <2>2 DEF Latest
<1>3. ASSUME NEW a \in Nat, NEW b \in Nat, NEW i \in Nat, ~(i <= a - b)
      PROVE  i > a - b
  BY <1>3
<1>4. ASSUME FeaturesInv, NEW s \in Addresses, NEW i \in 1..Len(seen[s]),
             Latest(s) - seen[s][i] <= HistorySpan - MaxLate
      PROVE  i > Len(seen[s]) - Len(history[s])
  <2>1. /\ Latest(s) \in Nat /\ seen[s][i] \in Nat
        /\ Len(seen[s]) \in Nat /\ Len(history[s]) \in Nat
    BY <1>2, <1>4
  <2>2. ~(Latest(s) - seen[s][i] > HistorySpan - MaxLate)
    BY <1>4, <2>1, FeaturizerAssumption
  <2>3. ~(i <= Len(seen[s]) - Len(history[s]))
    <3>1. SUFFICES ASSUME i <= Len(seen[s]) - Len(history[s])
                   PROVE  FALSE
      OBVIOUS
    <3>2. Latest(s) - seen[s][i] > HistorySpan - MaxLate
      BY ONLY <1>1, <1>4, <3>1, Zenon
    <3> QED
      BY ONLY <2>2, <3>2, Zenon
  <2>4. i \in Nat
    OBVIOUS
  <2> QED
    BY <1>3, <2>1, <2>3, <2>4, Zenon
<1> QED
  BY <1>4 DEF WindowComplete

\* What the features of a source are computed from is the tail of its own events, is not
\* empty, and is right at both ends, for any lateness.
THEOREM WindowExactHolds == LanesSpec => []WindowExact
<1>1. FeaturesInv => WindowIsTail
  BY DEF FeaturesInv, Sound, IsTail, WindowIsTail
<1>2. FeaturesInv => WindowFresh
  BY DEF FeaturesInv, Sound, Fresh, WindowFresh, Latest
<1>3. IInv => WindowExact
  BY <1>1, <1>2, Complete DEF IInv, WindowExact
<1> QED
  BY <1>3, Invariance, PTL

\* A capture is cut into flows such that every packet is in one of them and no flow
\* outlives a timeout or is cut without need, whatever the order of its packets; and
\* what is replayed of it is windowed as if no event were ever late.
THEOREM CaptureExactHolds == LanesSpec => []CaptureExact
<1>1. IInv => CaptureExact
  BY CutIsFlowsCut, ReplayedInOrder DEF IInv, CaptureExact
<1> QED
  BY <1>1, Invariance, PTL

=============================================================================
