------------------------- MODULE KronusSystemProofs -------------------------
(***************************************************************************)
(* What the orchestrator's coroutines guarantee for any number of them,    *)
(* any events, addresses and environments.                                 *)
(***************************************************************************)
EXTENDS KronusSystem, FiniteSetTheorems, SequenceTheorems, WellFoundedInduction,
        TLAPS

\* Any answer but a dry run is about an open window.
LEMMA ActingAnswer ==
  ASSUME NEW i, NEW d \in Answers(i), d.action # "dry_run"
  PROVE  Actionable(i) /\ i.prior_action = NoAction
<1>1. d \in AllowlistRule(i) \cup ThrottleRule(i) \cup BlockRule(i)
  BY DEF Answers, Decisions, ResolvedRule, UncertainRule, BenignRule, BelowGrayRule,
         GrayRule, Rule, DryRun
<1>2. Actionable(i)
  BY <1>1 DEF AllowlistRule, ThrottleRule, BlockRule, Rule
<1> QED
  BY <1>2 DEF Actionable, Eligible, AlreadyResolved

-----------------------------------------------------------------------------
(* Type correctness *)

\* The places of a coroutine that handles a verdict, and the others.
Handling == {"detection", "decide", "rejection", "decision", "enforcement", "enqueue",
             "deep"}
Places == Handling \cup {"idle", "correction", "read", "swap", "explain"}

Windows == Events \cup Nat

VerdictRec == [role : {"handled", "flushed", "rebuilt"}, tier : Tiers, label : Labels,
               confidence : 0..FullConfidence, window : Windows,
               ip : IPs \cup {NoIP}, covers : SUBSET Events]
DecisionRec == [verdict : Nat, ip : IPs \cup {NoIP}, action : Actions]
EntryRec == [type : {"detection", "decision", "rejection", "enforcement", "correction",
                     "explanation"},
             ref : Nat, about : Nat]
LocalRec == [verdict : Nat, decision : Nat, snapshot : Nat, todo : Seq(Nat)]
BlockRec == [decision : Nat, reversed : BOOLEAN]

TypeOK ==
  /\ env \in Environments
  /\ pc \in [Requests -> Places]
  /\ ctx \in [Requests -> LocalRec]
  /\ verdicts \in Seq(VerdictRec)
  /\ decisions \in Seq(DecisionRec)
  /\ resolved \subseteq Windows
  /\ blocks \in [IPs -> BlockRec]
  /\ last \in [IPs -> Nat]
  /\ buffer \subseteq Events
  /\ log \in Seq(EntryRec)
  /\ queue \in Seq(Nat)
  /\ uncommitted \in Seq(Nat)
  /\ committed \in BOOLEAN
  /\ worker \in BOOLEAN
  /\ received \in Seq(Nat)
  /\ drift \in [corrections : Nat, sessions : Nat]
  /\ lost \subseteq Nat
  /\ dropped \subseteq Nat
  /\ again \subseteq Nat
  /\ born \in Nat

\* The verdict a coroutine is at work on exists; one that goes on to the deep lane
\* is the fast lane's.
HandsOK ==
  \A r \in Requests :
    /\ pc[r] \in Handling => ctx[r].verdict \in 1..Len(verdicts)
    /\ pc[r] = "deep" => verdicts[ctx[r].verdict].tier = "bouncer"
    /\ pc[r] \in {"decision", "enforcement"} => ctx[r].decision \in 1..Len(decisions)
    /\ pc[r] = "explain" => ctx[r].todo # <<>>
    /\ \A i \in 1..Len(ctx[r].todo) : ctx[r].todo[i] \in 1..Len(verdicts)

\* The window of a fast lane's verdict is its event.
EventWindows ==
  \A v \in 1..Len(verdicts) : verdicts[v].tier = "bouncer" => verdicts[v].window \in Events

\* The jobs are about verdicts.
JobsName ==
  /\ \A i \in 1..Len(queue) : queue[i] \in 1..Len(verdicts)
  /\ \A i \in 1..Len(uncommitted) : uncommitted[i] \in 1..Len(verdicts)
  /\ \A i \in 1..Len(received) : received[i] \in 1..Len(verdicts)

TypeInv == TypeOK /\ HandsOK /\ EventWindows /\ JobsName

\* What a step of coroutine r does to the coroutines: it goes to place p with c.
Moves(r, p, c) ==
  /\ pc' = [pc EXCEPT ![r] = p]
  /\ ctx' = [ctx EXCEPT ![r] = c]

\* The verdicts, decisions and log entries are sequences: their lengths are numbers.
LEMMA Lengths ==
  ASSUME TypeOK
  PROVE  Len(verdicts) \in Nat /\ Len(decisions) \in Nat /\ Len(log) \in Nat
<1>1. verdicts \in Seq(VerdictRec) /\ decisions \in Seq(DecisionRec) /\ log \in Seq(EntryRec)
  BY DEF TypeOK
<1> QED
  BY <1>1

\* The same of the state after a step.
LEMMA NextLengths ==
  ASSUME TypeOK'
  PROVE  Len(verdicts') \in Nat /\ Len(decisions') \in Nat /\ Len(log') \in Nat
<1>1. /\ verdicts' \in Seq(VerdictRec)
      /\ decisions' \in Seq(DecisionRec)
      /\ log' \in Seq(EntryRec)
  BY DEF TypeOK
<1> QED
  BY <1>1

\* The verdicts are a sequence of verdict records.
LEMMA VerdictsTyped ==
  ASSUME TypeOK
  PROVE  verdicts \in Seq(VerdictRec)
  BY DEF TypeOK

\* A step that moves coroutine r leaves every other where it was.
LEMMA MoveEffect ==
  ASSUME TypeOK, NEW r \in Requests, NEW p \in Places, NEW c \in LocalRec, Moves(r, p, c)
  PROVE  /\ pc' \in [Requests -> Places] /\ ctx' \in [Requests -> LocalRec]
         /\ pc'[r] = p /\ ctx'[r] = c
         /\ \A q \in Requests \ {r} : pc'[q] = pc[q] /\ ctx'[q] = ctx[q]
<1>1. pc \in [Requests -> Places] /\ ctx \in [Requests -> LocalRec]
  BY DEF TypeOK
<1> QED
  BY <1>1 DEF Moves

LEMMA LocalTyped ==
  ASSUME NEW c \in LocalRec
  PROVE  /\ c.verdict \in Nat /\ c.decision \in Nat /\ c.snapshot \in Nat
         /\ c.todo \in Seq(Nat)
         /\ \A n \in Nat : [c EXCEPT !.decision = n] \in LocalRec
         /\ \A n \in Nat : [c EXCEPT !.snapshot = n] \in LocalRec
         /\ \A t \in Seq(Nat) : [c EXCEPT !.todo = t] \in LocalRec
BY DEF LocalRec

LEMMA IdleTyped ==
  /\ Idle \in LocalRec
  /\ Idle = [verdict |-> 0, decision |-> 0, snapshot |-> 0, todo |-> <<>>]
  /\ \A n \in Nat : [Idle EXCEPT !.verdict = n] \in LocalRec
  /\ \A n \in Nat : [Idle EXCEPT !.decision = n] \in LocalRec
<1>1. <<>> \in Seq(Nat)
  OBVIOUS
<1> QED
  BY <1>1 DEF LocalRec, Idle

\* The places and locals that each step leads to.
LEMMA GotoMoves ==
  ASSUME TypeOK, NEW r \in Requests, NEW p, Goto(r, p), UNCHANGED ctx
  PROVE  Moves(r, p, ctx[r]) /\ ctx[r] \in LocalRec
<1>1. ctx = [ctx EXCEPT ![r] = ctx[r]] /\ ctx[r] \in LocalRec
  BY DEF TypeOK
<1> QED
  BY <1>1 DEF Moves, Goto

LEMMA FinishMoves ==
  ASSUME NEW r \in Requests, Finish(r)
  PROVE  Moves(r, "idle", Idle)
BY DEF Moves, Goto, Finish

\* The smallest of some addresses is one of them.
LEMMA SmallestNat ==
  ASSUME NEW S, S \subseteq Nat, S # {}
  PROVE  \E x \in S : \A y \in S : x <= y
<1> DEFINE R == OpToRel(<, Nat)
<1>1. \E x \in S : \A y \in S : ~(<<y, x>> \in R)
  <2> HIDE DEF R
  <2>1. IsWellFoundedOn(R, Nat)
    BY NatLessThanWellFounded DEF R
  <2> QED
    BY <2>1, WFMin
<1>2. \A x, y \in S : <<y, x>> \in R <=> y < x
  BY DEF OpToRel
<1>3. PICK x \in S : \A y \in S : ~(<<y, x>> \in R)
  BY <1>1
<1>4. \A y \in S : ~(y < x)
  BY <1>3, <1>2
<1> QED
  BY <1>4

LEMMA MinIsIn ==
  ASSUME NEW S, S \subseteq Nat, S # {}
  PROVE  Min(S) \in S
BY SmallestNat DEF Min

LEMMA MaxIsIn ==
  ASSUME NEW S, S \subseteq Nat, S # {}, NEW n \in Nat, \A x \in S : x <= n
  PROVE  Max(S) \in S
<1> DEFINE T == {k \in Nat : \A x \in S : x <= k}
<1>1. T \subseteq Nat /\ n \in T
  OBVIOUS
<1>2. PICK m \in T : \A k \in T : m <= k
  <2> HIDE DEF T
  <2> QED
    BY <1>1, SmallestNat
<1>3. m \in S
  <2> SUFFICES ASSUME m \notin S PROVE FALSE
    OBVIOUS
  <2>1. PICK x \in S : x \in Nat
    OBVIOUS
  <2>2. m \in Nat /\ \A y \in S : y \in Nat /\ y < m
    OBVIOUS
  <2>3. m - 1 \in Nat /\ \A y \in S : y <= m - 1
    BY <2>1, <2>2
  <2>4. m - 1 \in T
    BY <2>3
  <2> HIDE DEF T
  <2> QED
    BY <1>2, <2>2, <2>4
<1>4. \A y \in S : m >= y
  OBVIOUS
<1> HIDE DEF T
<1> QED
  BY <1>3, <1>4 DEF Max

LEMMA NewVerdict ==
  ASSUME TypeOK, NEW v \in VerdictRec, verdicts' = Append(verdicts, v)
  PROVE  /\ verdicts' \in Seq(VerdictRec)
         /\ Len(verdicts) \in Nat /\ Len(verdicts') = Len(verdicts) + 1
         /\ \A i \in 1..Len(verdicts) : verdicts'[i] = verdicts[i]
         /\ verdicts'[Len(verdicts) + 1] = v
<1>1. verdicts \in Seq(VerdictRec)
  BY DEF TypeOK
<1> QED
  BY <1>1, AppendProperties

LEMMA NewDecision ==
  ASSUME TypeOK, NEW d \in DecisionRec, decisions' = Append(decisions, d)
  PROVE  /\ decisions' \in Seq(DecisionRec)
         /\ Len(decisions) \in Nat /\ Len(decisions') = Len(decisions) + 1
         /\ \A i \in 1..Len(decisions) : decisions'[i] = decisions[i]
         /\ decisions'[Len(decisions) + 1] = d
<1>1. decisions \in Seq(DecisionRec)
  BY DEF TypeOK
<1> QED
  BY <1>1, AppendProperties

LEMMA NewEntry ==
  ASSUME TypeOK, NEW e \in EntryRec, Logged(e)
  PROVE  /\ log' \in Seq(EntryRec)
         /\ Len(log) \in Nat /\ Len(log') = Len(log) + 1
         /\ \A i \in 1..Len(log) : log'[i] = log[i]
         /\ log'[Len(log) + 1] = e
<1>1. log \in Seq(EntryRec) /\ log' = Append(log, e)
  BY DEF TypeOK, Logged
<1> QED
  BY <1>1, AppendProperties

LEMMA EntryTyped ==
  ASSUME NEW t \in {"detection", "decision", "rejection", "enforcement", "correction",
                    "explanation"},
         NEW n \in Nat
  PROVE  Entry(t, n) \in EntryRec
BY DEF Entry, EntryRec

\* A verdict that somebody is to handle begins with its detection.
LEMMA HandleEffect ==
  ASSUME TypeOK, NEW r \in Requests, NEW v, Handle(r, v)
  PROVE  /\ Moves(r, "detection", [Idle EXCEPT !.verdict = Len(verdicts) + 1])
         /\ [Idle EXCEPT !.verdict = Len(verdicts) + 1] \in LocalRec
         /\ [Idle EXCEPT !.verdict = Len(verdicts) + 1].verdict = Len(verdicts) + 1
         /\ [Idle EXCEPT !.verdict = Len(verdicts) + 1].decision = 0
         /\ [Idle EXCEPT !.verdict = Len(verdicts) + 1].todo = <<>>
         /\ verdicts' = Append(verdicts, v)
<1>1. Len(verdicts) + 1 \in Nat
  BY DEF TypeOK
<1> QED
  BY <1>1, IdleTyped DEF Moves, Goto, Handle

LEMMA VerdictTyped ==
  ASSUME NEW role \in {"handled", "flushed", "rebuilt"}, NEW tier \in Tiers,
         NEW v, v.label \in Labels, v.confidence \in 0..FullConfidence,
         NEW w \in Windows, NEW ip \in IPs \cup {NoIP}, NEW covers \in SUBSET Events
  PROVE  /\ Verdict(role, tier, v, w, ip, covers) \in VerdictRec
         /\ Verdict(role, tier, v, w, ip, covers).role = role
         /\ Verdict(role, tier, v, w, ip, covers).tier = tier
         /\ Verdict(role, tier, v, w, ip, covers).window = w
         /\ Verdict(role, tier, v, w, ip, covers).covers = covers
BY DEF Verdict, VerdictRec

LEMMA ModelVerdict ==
  ASSUME TypeOK, NEW v \in env.verdicts
  PROVE  v.label \in Labels /\ v.confidence \in 0..FullConfidence
<1>1. env.verdicts \subseteq [label : Labels, confidence : 0..FullConfidence]
  BY SystemAssumption DEF TypeOK
<1> QED
  BY <1>1

LEMMA FreshTyped ==
  ASSUME TypeOK
  PROVE  FreshWindow \in Windows /\ Len(verdicts) \in Nat
BY DEF TypeOK, FreshWindow, Windows

\* The evidence of an attack in a non-empty window names some address.
LEMMA TargetTyped ==
  ASSUME TypeOK, buffer # {}, NEW v, NEW e \in Events, NEW ip \in Targets(v, e)
  PROVE  ip \in IPs
<1>1. CASE v.label = "benign"
  BY <1>1, SystemAssumption DEF Targets
<1>2. CASE v.label # "benign"
  <2> DEFINE E == Edges(buffer)
             n == Cardinality(E)
             k == IF n < TopK THEN n ELSE TopK
  <2>1. PICK nodes \in Evidence(buffer) : ip = Min(nodes)
    BY <1>2 DEF Targets
  <2>2. PICK S \in kSubset(k, E) : nodes = UNION {{g[1], g[2]} : g \in S}
    BY <2>1 DEF Evidence
  <2>3. S \subseteq E /\ Cardinality(S) = k
    BY <2>2 DEF kSubset
  <2>4. E \subseteq IPs \X IPs
    BY SystemAssumption DEF Edges, TypeOK
  <2>5. IsFiniteSet(E) /\ E # {}
    <3>1. IsFiniteSet(IPs \X IPs)
      BY SystemAssumption, FS_Product
    <3>2. E # {}
      BY DEF Edges
    <3> QED
      BY <3>1, <3>2, <2>4, FS_Subset
  <2>6. n \in Nat \ {0}
    BY <2>5, FS_CardinalityType, FS_EmptySet
  <2>7. k # 0
    BY <2>6, SystemAssumption
  <2>8. S # {}
    BY <2>3, <2>7, FS_EmptySet
  <2>9. nodes # {} /\ nodes \subseteq IPs
    BY <2>2, <2>3, <2>4, <2>8
  <2>10. Min(nodes) \in nodes
    BY <2>9, SystemAssumption, MinIsIn
  <2> QED
    BY <2>1, <2>9, <2>10
<1> QED
  BY <1>1, <1>2

\* Verdicts and decisions are only ever added.
Grown ==
  /\ Len(verdicts) <= Len(verdicts')
  /\ \A v \in 1..Len(verdicts) : verdicts'[v] = verdicts[v]
  /\ Len(decisions) <= Len(decisions')
  /\ \A d \in 1..Len(decisions) : decisions'[d] = decisions[d]

LEMMA HandsMove ==
  ASSUME TypeOK, TypeOK', HandsOK, Grown,
         NEW r \in Requests, NEW p \in Places, NEW c \in LocalRec, Moves(r, p, c),
         p \in Handling => c.verdict \in 1..Len(verdicts'),
         p = "deep" => verdicts'[c.verdict].tier = "bouncer",
         p \in {"decision", "enforcement"} => c.decision \in 1..Len(decisions'),
         p = "explain" => c.todo # <<>>,
         \A i \in 1..Len(c.todo) : c.todo[i] \in 1..Len(verdicts')
  PROVE  HandsOK'
<1>1. /\ pc'[r] = p /\ ctx'[r] = c
      /\ \A q \in Requests \ {r} : pc'[q] = pc[q] /\ ctx'[q] = ctx[q]
  BY MoveEffect
<1>2. /\ Len(verdicts) \in Nat /\ Len(decisions) \in Nat
      /\ Len(verdicts') \in Nat /\ Len(decisions') \in Nat
  BY Lengths, NextLengths
<1>3. 1..Len(verdicts) \subseteq 1..Len(verdicts') /\ 1..Len(decisions) \subseteq 1..Len(decisions')
  BY <1>2 DEF Grown
<1> SUFFICES ASSUME NEW q \in Requests
             PROVE  /\ pc'[q] \in Handling => ctx'[q].verdict \in 1..Len(verdicts')
                    /\ pc'[q] = "deep" => verdicts'[ctx'[q].verdict].tier = "bouncer"
                    /\ pc'[q] \in {"decision", "enforcement"} =>
                         ctx'[q].decision \in 1..Len(decisions')
                    /\ pc'[q] = "explain" => ctx'[q].todo # <<>>
                    /\ \A i \in 1..Len(ctx'[q].todo) : ctx'[q].todo[i] \in 1..Len(verdicts')
  BY DEF HandsOK
<1>4. CASE q = r
  BY <1>1, <1>4
<1>5. CASE q # r
  <2>1. pc'[q] = pc[q] /\ ctx'[q] = ctx[q]
    BY <1>1, <1>5
  <2>2. /\ pc[q] \in Handling => ctx[q].verdict \in 1..Len(verdicts)
        /\ pc[q] = "deep" => pc[q] \in Handling
        /\ pc[q] = "deep" => verdicts[ctx[q].verdict].tier = "bouncer"
        /\ pc[q] \in {"decision", "enforcement"} => ctx[q].decision \in 1..Len(decisions)
        /\ pc[q] = "explain" => ctx[q].todo # <<>>
        /\ \A i \in 1..Len(ctx[q].todo) : ctx[q].todo[i] \in 1..Len(verdicts)
    BY DEF HandsOK, Handling
  <2>3. pc[q] = "deep" => verdicts'[ctx[q].verdict].tier = "bouncer"
    BY <2>2 DEF Grown
  <2> QED
    BY <1>3, <2>1, <2>2, <2>3
<1> QED
  BY <1>4, <1>5

\* The rest of the type invariant, when nothing is done to the queues.
LEMMA OthersKept ==
  ASSUME TypeInv, TypeOK', Grown, UNCHANGED <<queue, uncommitted, received>>,
         \A v \in 1..Len(verdicts') : v > Len(verdicts) /\ verdicts'[v].tier = "bouncer" =>
             verdicts'[v].window \in Events
  PROVE  EventWindows' /\ JobsName'
<1>1. Len(verdicts) \in Nat /\ Len(verdicts') \in Nat
  BY DEF TypeInv, TypeOK
<1>2. EventWindows'
  BY <1>1 DEF EventWindows, TypeInv, Grown
<1>3. JobsName'
  BY <1>1 DEF JobsName, TypeInv, Grown
<1> QED
  BY <1>2, <1>3

LEMMA GrownSame ==
  ASSUME TypeOK, UNCHANGED <<verdicts, decisions>>
  PROVE  Grown
BY DEF Grown, TypeOK

LEMMA BeginsTyped ==
  ASSUME TypeInv, NEW r \in Requests, NEW v \in VerdictRec, Handle(r, v),
         v.tier = "bouncer" => v.window \in Events, buffer' \subseteq Events,
         UNCHANGED <<env, engineVars, log, jobVars, drift, faultVars>>
  PROVE  TypeInv'
<1> DEFINE c == [Idle EXCEPT !.verdict = Len(verdicts) + 1]
<1>1. TypeOK
  BY DEF TypeInv
<1>2. /\ Moves(r, "detection", c) /\ c \in LocalRec
      /\ c.verdict = Len(verdicts) + 1 /\ c.todo = <<>>
      /\ verdicts' = Append(verdicts, v)
  BY <1>1, HandleEffect
<1> HIDE DEF c
<1>3. /\ verdicts' \in Seq(VerdictRec)
      /\ Len(verdicts) \in Nat /\ Len(verdicts') = Len(verdicts) + 1
      /\ \A i \in 1..Len(verdicts) : verdicts'[i] = verdicts[i]
      /\ verdicts'[Len(verdicts) + 1] = v
  BY <1>1, <1>2, NewVerdict
<1>4. pc' \in [Requests -> Places] /\ ctx' \in [Requests -> LocalRec]
  BY <1>1, <1>2, MoveEffect DEF Places, Handling
<1>5. TypeOK'
  BY <1>1, <1>3, <1>4 DEF TypeOK, engineVars, jobVars, faultVars
<1>6. Grown
  <2>1. Len(decisions) \in Nat /\ decisions' = decisions
    BY <1>1 DEF TypeOK, engineVars
  <2> QED
    BY <1>3, <2>1 DEF Grown
<1>7. HandsOK'
  BY <1>1, <1>2, <1>3, <1>5, <1>6, HandsMove DEF Places, Handling, TypeInv
<1>8. EventWindows' /\ JobsName'
  BY <1>3, <1>5, <1>6, OthersKept DEF jobVars
<1> QED
  BY <1>5, <1>7, <1>8 DEF TypeInv

\* A step that appends an entry to the log and goes on to p with c, and leaves the
\* verdicts, the decisions and the queues alone.
LEMMA MovesTyped ==
  ASSUME TypeInv, NEW r \in Requests, NEW p \in Places, NEW c \in LocalRec, Moves(r, p, c),
         UNCHANGED <<env, verdicts, engineVars, jobVars>>,
         log' \in Seq(EntryRec), buffer' \subseteq Events,
         drift' \in [corrections : Nat, sessions : Nat],
         lost' \subseteq Nat, dropped' \subseteq Nat, again' \subseteq Nat, born' \in Nat,
         p \in Handling => c.verdict \in 1..Len(verdicts),
         p = "deep" => verdicts[c.verdict].tier = "bouncer",
         p \in {"decision", "enforcement"} => c.decision \in 1..Len(decisions),
         p = "explain" => c.todo # <<>>,
         \A i \in 1..Len(c.todo) : c.todo[i] \in 1..Len(verdicts)
  PROVE  TypeInv'
<1>1. TypeOK
  BY DEF TypeInv
<1>2. TypeOK'
  BY <1>1, MoveEffect DEF TypeOK, engineVars, jobVars
<1>3. Grown /\ verdicts' = verdicts /\ decisions' = decisions
  BY <1>1, GrownSame DEF engineVars
<1>4. HandsOK'
  BY <1>1, <1>2, <1>3, HandsMove DEF TypeInv
<1>5. EventWindows' /\ JobsName'
  <2>1. Len(verdicts) \in Nat
    BY <1>1 DEF TypeOK
  <2> QED
    BY <1>2, <1>3, <2>1, OthersKept DEF jobVars
<1> QED
  BY <1>2, <1>4, <1>5 DEF TypeInv

\* The hands of a coroutine that handles, taken apart.
LEMMA HandFacts ==
  ASSUME TypeInv, NEW r \in Requests
  PROVE  /\ ctx[r] \in LocalRec /\ pc[r] \in Places
         /\ ctx[r].verdict \in Nat /\ ctx[r].decision \in Nat /\ ctx[r].todo \in Seq(Nat)
         /\ pc[r] \in Handling => Mine(r) \in VerdictRec /\ ctx[r].verdict \in 1..Len(verdicts)
         /\ pc[r] = "deep" => Mine(r).window \in Events
         /\ \A i \in 1..Len(ctx[r].todo) : ctx[r].todo[i] \in 1..Len(verdicts)
<1>1. ctx[r] \in LocalRec /\ pc[r] \in Places /\ verdicts \in Seq(VerdictRec)
  BY DEF TypeInv, TypeOK
<1>2. ctx[r].verdict \in Nat /\ ctx[r].decision \in Nat /\ ctx[r].todo \in Seq(Nat)
  BY <1>1, LocalTyped
<1>3. pc[r] \in Handling => Mine(r) \in VerdictRec /\ ctx[r].verdict \in 1..Len(verdicts)
  BY <1>1, ElementOfSeq DEF TypeInv, HandsOK, Mine
<1>4. pc[r] = "deep" => Mine(r).window \in Events
  BY <1>3 DEF TypeInv, HandsOK, EventWindows, Mine, Handling
<1>5. \A i \in 1..Len(ctx[r].todo) : ctx[r].todo[i] \in 1..Len(verdicts)
  BY DEF TypeInv, HandsOK
<1> QED
  BY <1>1, <1>2, <1>3, <1>4, <1>5

LEMMA IngestTyped ==
  ASSUME TypeInv, NEW r \in Requests, NEW e \in Events, NEW v \in env.verdicts,
         IngestEvent(r, e, v)
  PROVE  TypeInv'
<1> DEFINE w == Verdict("handled", "bouncer", v, e, Source[e], {e})
<1>1. w \in VerdictRec /\ w.window = e
  <2>1. Source[e] \in IPs
    BY SystemAssumption
  <2>2. v.label \in Labels /\ v.confidence \in 0..FullConfidence
    BY ModelVerdict DEF TypeInv
  <2> QED
    BY <2>1, <2>2, VerdictTyped DEF Windows, Tiers
<1> HIDE DEF w
<1>2. /\ Handle(r, w) /\ buffer' = buffer
      /\ UNCHANGED <<env, engineVars, log, jobVars, drift, faultVars>>
  BY DEF IngestEvent, w
<1>3. buffer \subseteq Events
  BY DEF TypeInv, TypeOK
<1> QED
  BY <1>1, <1>2, <1>3, BeginsTyped

LEMMA DecoyTyped ==
  ASSUME TypeInv, NEW r \in Requests, NEW ip \in IPs, HandleDecoySession(r, ip)
  PROVE  TypeInv'
<1> DEFINE m == [label |-> "decoy_interaction", confidence |-> FullConfidence]
           w == Verdict("handled", "decoy", m, FreshWindow, ip, {})
<1>1. w \in VerdictRec /\ w.tier = "decoy"
  <2>1. m.label \in Labels /\ m.confidence \in 0..FullConfidence
    BY PolicyAssumption DEF Labels
  <2> QED
    BY <2>1, FreshTyped, VerdictTyped DEF Tiers, TypeInv
<1> HIDE DEF w
<1>2. /\ Handle(r, w) /\ buffer' = buffer
      /\ UNCHANGED <<env, engineVars, log, jobVars, drift, faultVars>>
  BY DEF HandleDecoySession, w
<1>3. buffer \subseteq Events
  BY DEF TypeInv, TypeOK
<1> QED
  BY <1>1, <1>2, <1>3, BeginsTyped

LEMMA ClosesTyped ==
  ASSUME TypeInv, NEW r \in Requests, NEW v \in env.verdicts, DeepLaneCloses(r, v)
  PROVE  TypeInv'
<1> DEFINE e == Mine(r).window
<1>1. pc[r] = "deep" /\ e \in Events
  BY HandFacts DEF DeepLaneCloses, At
<1>2. PICK ip \in Targets(v, e) :
        Handle(r, Verdict("handled", "detective", v, FreshWindow, ip, buffer))
  BY DEF DeepLaneCloses
<1> DEFINE w == Verdict("handled", "detective", v, FreshWindow, ip, buffer)
<1>3. w \in VerdictRec /\ w.tier = "detective"
  <2>1. ip \in IPs
    BY <1>1, TargetTyped DEF DeepLaneCloses, TypeInv
  <2>2. v.label \in Labels /\ v.confidence \in 0..FullConfidence
    BY ModelVerdict DEF TypeInv
  <2>3. buffer \in SUBSET Events
    BY DEF TypeInv, TypeOK
  <2> QED
    BY <2>1, <2>2, <2>3, FreshTyped, VerdictTyped DEF Tiers, TypeInv
<1> HIDE DEF w
<1>4. /\ Handle(r, w) /\ buffer' = {e}
      /\ UNCHANGED <<env, engineVars, log, jobVars, drift, faultVars>>
  BY <1>2 DEF DeepLaneCloses, w
<1> QED
  BY <1>1, <1>3, <1>4, BeginsTyped

LEMMA FlushTyped ==
  ASSUME TypeInv, NEW v \in env.verdicts, FlushGraphWindow(v)
  PROVE  TypeInv'
<1> DEFINE w == Verdict("flushed", "detective", v, FreshWindow, NoIP, buffer)
<1>1. TypeOK
  BY DEF TypeInv
<1>2. w \in VerdictRec /\ w.tier = "detective"
  <2>1. v.label \in Labels /\ v.confidence \in 0..FullConfidence /\ buffer \in SUBSET Events
    BY <1>1, ModelVerdict DEF TypeOK
  <2>2. FreshWindow \in Windows /\ NoIP \in IPs \cup {NoIP}
    BY <1>1, FreshTyped
  <2>3. "detective" \in Tiers
    BY DEF Tiers
  <2> QED
    BY <2>1, <2>2, <2>3, VerdictTyped
<1> HIDE DEF w
<1>3. verdicts' = Append(verdicts, w)
  BY DEF FlushGraphWindow, w
<1>4. /\ verdicts' \in Seq(VerdictRec)
      /\ Len(verdicts) \in Nat /\ Len(verdicts') = Len(verdicts) + 1
      /\ \A i \in 1..Len(verdicts) : verdicts'[i] = verdicts[i]
      /\ verdicts'[Len(verdicts) + 1] = w
  BY <1>1, <1>2, <1>3, NewVerdict
<1>5. TypeOK'
  BY <1>1, <1>4 DEF TypeOK, engineVars, jobVars, faultVars, coroutineVars, FlushGraphWindow
<1>6. Grown /\ decisions' = decisions /\ pc' = pc /\ ctx' = ctx
  <2>1. Len(decisions) \in Nat /\ decisions' = decisions
    BY <1>1 DEF TypeOK, engineVars, FlushGraphWindow
  <2> QED
    BY <1>4, <2>1 DEF Grown, coroutineVars, FlushGraphWindow
<1>7. HandsOK'
  BY <1>4, <1>6 DEF HandsOK, TypeInv, Handling
<1>8. EventWindows' /\ JobsName'
  BY <1>2, <1>4, <1>5, <1>6, OthersKept DEF jobVars, FlushGraphWindow
<1> QED
  BY <1>5, <1>7, <1>8 DEF TypeInv

\* A coroutine that ends holds nothing.
LEMMA IdleMovesTyped ==
  ASSUME TypeInv, NEW r \in Requests, Moves(r, "idle", Idle),
         UNCHANGED <<env, verdicts, engineVars, jobVars>>,
         log' \in Seq(EntryRec), buffer' \subseteq Events,
         drift' \in [corrections : Nat, sessions : Nat],
         lost' \subseteq Nat, dropped' \subseteq Nat, again' \subseteq Nat, born' \in Nat
  PROVE  TypeInv'
<1>1. "idle" \in Places /\ "idle" \notin Handling
  BY DEF Places, Handling
<1>2. Idle \in LocalRec /\ \A i \in 1..Len(Idle.todo) : Idle.todo[i] \in 1..Len(verdicts)
  <2>1. Idle \in LocalRec /\ Idle.todo = <<>>
    BY IdleTyped
  <2>2. 1..Len(Idle.todo) = {}
    BY <2>1
  <2> QED
    BY <2>1, <2>2
<1> HIDE DEF Idle
<1> QED
  BY <1>1, <1>2, MovesTyped

\* The steps that write one entry, or none, and go on.
LEMMA LogsTyped ==
  ASSUME TypeInv, NEW r \in Requests,
         \/ LogDetection(r) \/ Reject(r) \/ LogDecision(r) \/ LogEnforcement(r)
         \/ LogCorrection(r) \/ ReadAll(r) \/ DeepLaneBuffers(r)
  PROVE  TypeInv'
<1>1. /\ TypeOK /\ ctx[r] \in LocalRec /\ pc[r] \in Places
      /\ ctx[r].verdict \in Nat /\ ctx[r].decision \in Nat
      /\ pc[r] \in Handling => ctx[r].verdict \in 1..Len(verdicts)
      /\ \A j \in 1..Len(ctx[r].todo) : ctx[r].todo[j] \in 1..Len(verdicts)
  BY HandFacts DEF TypeInv
<1>2. /\ log \in Seq(EntryRec) /\ buffer \subseteq Events
      /\ drift \in [corrections : Nat, sessions : Nat]
      /\ lost \subseteq Nat /\ dropped \subseteq Nat /\ again \subseteq Nat /\ born \in Nat
  BY <1>1 DEF TypeOK
<1>3. CASE LogDetection(r) \/ LogEnforcement(r) \/ LogDecision(r) \/ Reject(r)
  <2>1. PICK p \in {"decide", "rejection", "enforcement", "enqueue"} :
          /\ Moves(r, p, ctx[r])
          /\ pc[r] \in Handling
          /\ p = "enforcement" => ctx[r].decision \in 1..Len(decisions)
    <3>1. CASE LogDetection(r)
      BY <1>1, <3>1, GotoMoves DEF LogDetection, At, Handling
    <3>2. CASE LogEnforcement(r)
      BY <1>1, <3>2, GotoMoves DEF LogEnforcement, At, Handling
    <3>3. CASE LogDecision(r)
      <4>1. pc[r] = "decision" /\ ctx[r].decision \in 1..Len(decisions)
        BY <3>3 DEF LogDecision, At, TypeInv, HandsOK
      <4>2. \E p \in {"enforcement", "enqueue"} : Goto(r, p) /\ UNCHANGED ctx
        BY <3>3 DEF LogDecision, AfterDecision
      <4> QED
        BY <1>1, <4>1, <4>2, GotoMoves DEF Handling
    <3>4. CASE Reject(r)
      BY <1>1, <3>4, GotoMoves DEF Reject, At, Handling
    <3> QED
      BY <1>3, <3>1, <3>2, <3>3, <3>4
  <2>2. log' \in Seq(EntryRec)
    <3>1. CASE Reject(r)
      BY <1>2, <3>1 DEF Reject
    <3>2. CASE LogDetection(r) \/ LogEnforcement(r) \/ LogDecision(r)
      BY <1>1, <3>2, NewEntry, EntryTyped DEF LogDetection, LogEnforcement, LogDecision
    <3> QED
      BY <1>3, <3>1, <3>2
  <2>3. UNCHANGED <<env, verdicts, engineVars, buffer, jobVars, drift, faultVars>>
    BY <1>3 DEF LogDetection, LogEnforcement, LogDecision, Reject
  <2>4. /\ UNCHANGED <<env, verdicts, engineVars, jobVars>> /\ buffer' \subseteq Events
        /\ drift' \in [corrections : Nat, sessions : Nat]
        /\ lost' \subseteq Nat /\ dropped' \subseteq Nat /\ again' \subseteq Nat /\ born' \in Nat
    BY <1>2, <2>3 DEF faultVars
  <2>5. p \in Places /\ p \notin {"deep", "decision", "explain"}
    BY <2>1 DEF Places, Handling
  <2> QED
    BY <1>1, <2>1, <2>2, <2>4, <2>5, MovesTyped
<1>4. CASE LogCorrection(r)
  <2>1. Moves(r, "idle", Idle)
    BY <1>4, FinishMoves DEF LogCorrection
  <2>2. log' \in Seq(EntryRec)
    BY <1>1, <1>4, NewEntry, EntryTyped DEF LogCorrection
  <2>3. drift' \in [corrections : Nat, sessions : Nat]
    BY <1>2, <1>4 DEF LogCorrection
  <2>4. UNCHANGED <<env, verdicts, engineVars, buffer, jobVars, faultVars>>
    BY <1>4 DEF LogCorrection
  <2>5. /\ UNCHANGED <<env, verdicts, engineVars, jobVars>> /\ buffer' \subseteq Events
        /\ lost' \subseteq Nat /\ dropped' \subseteq Nat /\ again' \subseteq Nat /\ born' \in Nat
    BY <1>2, <2>4 DEF faultVars
  <2> QED
    BY <2>1, <2>2, <2>3, <2>5, IdleMovesTyped
<1>5. CASE ReadAll(r)
  <2> DEFINE c == [ctx[r] EXCEPT !.snapshot = Len(log)]
  <2>1. Moves(r, "swap", c)
    BY <1>5 DEF ReadAll, Moves, Goto
  <2>2. c \in LocalRec /\ c.todo = ctx[r].todo
    <3>1. Len(log) \in Nat
      BY <1>2
    <3> QED
      BY <1>1, <3>1 DEF LocalRec
  <2>3. UNCHANGED <<env, verdicts, engineVars, buffer, log, jobVars, drift, faultVars>>
    BY <1>5 DEF ReadAll
  <2> HIDE DEF c
  <2> QED
    BY <1>1, <1>2, <2>1, <2>2, <2>3, MovesTyped DEF Places, Handling, jobVars, faultVars
<1>6. CASE DeepLaneBuffers(r)
  <2>1. Moves(r, "idle", Idle)
    BY <1>6, FinishMoves DEF DeepLaneBuffers
  <2>2. buffer' \subseteq Events
    BY <1>2, <1>6, HandFacts DEF DeepLaneBuffers, At
  <2>3. UNCHANGED <<env, verdicts, engineVars, log, jobVars, drift, faultVars>>
    BY <1>6 DEF DeepLaneBuffers
  <2>4. /\ UNCHANGED <<env, verdicts, engineVars, jobVars>> /\ log' \in Seq(EntryRec)
        /\ drift' \in [corrections : Nat, sessions : Nat]
        /\ lost' \subseteq Nat /\ dropped' \subseteq Nat /\ again' \subseteq Nat /\ born' \in Nat
    BY <1>2, <2>3 DEF faultVars
  <2> QED
    BY <2>1, <2>2, <2>4, IdleMovesTyped
<1> QED
  BY <1>3, <1>4, <1>5, <1>6

\* Where a coroutine is after _handle_verdict.
LEMMA ReturnMoves ==
  ASSUME TypeInv, NEW r \in Requests, pc[r] \in Handling, Return(r)
  PROVE  /\ \/ Moves(r, "deep", ctx[r]) /\ Mine(r).tier = "bouncer"
            \/ Moves(r, "idle", Idle) /\ Mine(r).tier # "bouncer"
         /\ drift' \in [corrections : Nat, sessions : Nat]
<1>1. drift \in [corrections : Nat, sessions : Nat]
  BY DEF TypeInv, TypeOK
<1>2. drift' \in [corrections : Nat, sessions : Nat]
  BY <1>1 DEF Return
<1>3. CASE Mine(r).tier = "bouncer"
  <2>1. Goto(r, "deep") /\ UNCHANGED ctx
    BY <1>3 DEF Return
  <2> QED
    BY <1>2, <1>3, <2>1, GotoMoves DEF TypeInv
<1>4. CASE Mine(r).tier # "bouncer"
  BY <1>2, <1>4, FinishMoves DEF Return
<1> QED
  BY <1>3, <1>4

LEMMA ReturnTyped ==
  ASSUME TypeInv, NEW r \in Requests, LogRejection(r) \/ Enqueue(r)
  PROVE  TypeInv'
<1>1. /\ TypeOK /\ ctx[r] \in LocalRec /\ pc[r] \in Handling
      /\ ctx[r].verdict \in 1..Len(verdicts) /\ Mine(r) = verdicts[ctx[r].verdict]
      /\ \A j \in 1..Len(ctx[r].todo) : ctx[r].todo[j] \in 1..Len(verdicts)
  BY HandFacts DEF TypeInv, LogRejection, Enqueue, At, Handling, Mine
<1>2. /\ log \in Seq(EntryRec) /\ buffer \subseteq Events
      /\ lost \subseteq Nat /\ dropped \subseteq Nat /\ again \subseteq Nat /\ born \in Nat
  BY <1>1 DEF TypeOK
<1>3. /\ \/ Moves(r, "deep", ctx[r]) /\ Mine(r).tier = "bouncer"
         \/ Moves(r, "idle", Idle)
      /\ drift' \in [corrections : Nat, sessions : Nat]
  BY <1>1, ReturnMoves DEF LogRejection, Enqueue
<1>4. PICK p \in {"deep", "idle"}, c \in LocalRec :
        /\ Moves(r, p, c)
        /\ p = "deep" => Mine(r).tier = "bouncer" /\ c = ctx[r]
        /\ \A j \in 1..Len(c.todo) : c.todo[j] \in 1..Len(verdicts)
  <2>1. \A j \in 1..Len(Idle.todo) : Idle.todo[j] \in 1..Len(verdicts)
    BY IdleTyped
  <2>2. CASE Moves(r, "deep", ctx[r]) /\ Mine(r).tier = "bouncer"
    BY <1>1, <2>2
  <2>3. CASE Moves(r, "idle", Idle)
    BY <2>1, <2>3, IdleTyped
  <2> QED
    BY <1>3, <2>2, <2>3
<1>5. CASE LogRejection(r)
  <2>1. log' \in Seq(EntryRec)
    <3>1. ctx[r].verdict \in Nat
      BY <1>1
    <3> QED
      BY <1>1, <1>5, <3>1, NewEntry, EntryTyped DEF LogRejection
  <2>2. UNCHANGED <<env, verdicts, engineVars, buffer, jobVars, faultVars>>
    BY <1>5 DEF LogRejection
  <2> QED
    BY <1>1, <1>2, <1>3, <1>4, <2>1, <2>2, MovesTyped DEF Places, Handling, jobVars, faultVars
<1>6. CASE Enqueue(r)
  <2>1. UNCHANGED <<env, verdicts, engineVars, buffer, log, uncommitted, committed, worker,
                    received, faultVars>>
    BY <1>6 DEF Enqueue
  <2>2. /\ queue' \in Seq(Nat)
        /\ \A i \in 1..Len(queue') : queue'[i] \in 1..Len(verdicts)
    <3>1. queue \in Seq(Nat) /\ \A i \in 1..Len(queue) : queue[i] \in 1..Len(verdicts)
      BY DEF TypeInv, TypeOK, JobsName
    <3>2. queue' = queue \/ queue' = Append(queue, ctx[r].verdict)
      BY <1>6 DEF Enqueue
    <3>3. ctx[r].verdict \in Nat
      BY <1>1
    <3>4. CASE queue' = queue
      BY <3>1, <3>4
    <3>5. CASE queue' = Append(queue, ctx[r].verdict)
      <4>1. /\ queue' \in Seq(Nat) /\ Len(queue) \in Nat /\ Len(queue') = Len(queue) + 1
            /\ \A i \in 1..Len(queue) : queue'[i] = queue[i]
            /\ queue'[Len(queue) + 1] = ctx[r].verdict
        BY <3>1, <3>3, <3>5, AppendProperties
      <4>2. ASSUME NEW i \in 1..Len(queue') PROVE queue'[i] \in 1..Len(verdicts)
        <5>1. i \in 1..Len(queue) \/ i = Len(queue) + 1
          BY <4>1
        <5> QED
          BY <1>1, <3>1, <4>1, <5>1
      <4> QED
        BY <4>1, <4>2
    <3> QED
      BY <3>2, <3>4, <3>5
  <2>3. TypeOK'
    BY <1>1, <1>3, <1>4, <2>1, <2>2, MoveEffect
    DEF TypeOK, engineVars, faultVars, Places, Handling
  <2>4. Grown /\ verdicts' = verdicts /\ decisions' = decisions
    BY <1>1, <2>1, GrownSame DEF engineVars
  <2>5. HandsOK'
    BY <1>1, <1>4, <2>3, <2>4, HandsMove DEF TypeInv, Places, Handling
  <2>6. EventWindows' /\ JobsName'
    BY <2>1, <2>2 DEF EventWindows, JobsName, TypeInv
  <2> QED
    BY <2>3, <2>5, <2>6 DEF TypeInv
<1> QED
  BY <1>5, <1>6

\* What the policy answers is one of its actions.
LEMMA AnswerTyped ==
  ASSUME NEW i, NEW d \in Answers(i)
  PROVE  d.action \in Actions
BY DEF Answers, Decisions, ResolvedRule, UncertainRule, BenignRule, BelowGrayRule,
       GrayRule, AllowlistRule, ThrottleRule, BlockRule, Rule, DryRun, Actions

\* What a decision writes.
LEMMA DecideEffect ==
  ASSUME TypeInv, NEW r \in Requests, Decide(r)
  PROVE  /\ pc[r] = "decide"
         /\ Moves(r, "decision", [ctx[r] EXCEPT !.decision = Len(decisions) + 1])
         /\ [ctx[r] EXCEPT !.decision = Len(decisions) + 1] \in LocalRec
         /\ [ctx[r] EXCEPT !.decision = Len(decisions) + 1].verdict = ctx[r].verdict
         /\ [ctx[r] EXCEPT !.decision = Len(decisions) + 1].decision = Len(decisions) + 1
         /\ [ctx[r] EXCEPT !.decision = Len(decisions) + 1].todo = ctx[r].todo
         /\ \E listed, tripped \in BOOLEAN :
            \E d \in Answers(PolicyInput(Mine(r), listed, tripped)) :
              /\ d.action \in Actions
              /\ decisions' = Append(decisions, [verdict |-> ctx[r].verdict,
                                                 ip |-> Mine(r).ip, action |-> d.action])
              /\ resolved' = IF d.action = "dry_run" THEN resolved
                             ELSE resolved \cup {Mine(r).window}
              /\ blocks' = IF d.action # "block" THEN blocks
                           ELSE [blocks EXCEPT ![Mine(r).ip] =
                                   [decision |-> Len(decisions) + 1, reversed |-> FALSE]]
              /\ last' = [last EXCEPT ![Mine(r).ip] = Len(decisions) + 1]
         /\ UNCHANGED <<env, verdicts, buffer, log, jobVars, drift, faultVars>>
<1> DEFINE n == Len(decisions) + 1
<1>1. n \in Nat
  BY DEF TypeInv, TypeOK
<1>2. ctx[r] \in LocalRec
  BY HandFacts
<1>3. /\ [ctx[r] EXCEPT !.decision = n] \in LocalRec
      /\ [ctx[r] EXCEPT !.decision = n].verdict = ctx[r].verdict
      /\ [ctx[r] EXCEPT !.decision = n].decision = n
      /\ [ctx[r] EXCEPT !.decision = n].todo = ctx[r].todo
  <2> HIDE DEF n
  <2> QED
    BY <1>1, <1>2 DEF LocalRec
<1>4. pc[r] = "decide" /\ Moves(r, "decision", [ctx[r] EXCEPT !.decision = n])
  BY DEF Decide, At, Moves, Goto
<1>5. UNCHANGED <<env, verdicts, buffer, log, jobVars, drift, faultVars>>
  BY DEF Decide
<1>6. \E listed, tripped \in BOOLEAN :
      \E d \in Answers(PolicyInput(Mine(r), listed, tripped)) :
        /\ d.action \in Actions
        /\ decisions' = Append(decisions, [verdict |-> ctx[r].verdict,
                                           ip |-> Mine(r).ip, action |-> d.action])
        /\ resolved' = IF d.action = "dry_run" THEN resolved
                       ELSE resolved \cup {Mine(r).window}
        /\ blocks' = IF d.action # "block" THEN blocks
                     ELSE [blocks EXCEPT ![Mine(r).ip] =
                             [decision |-> n, reversed |-> FALSE]]
        /\ last' = [last EXCEPT ![Mine(r).ip] = n]
  BY AnswerTyped, Zenon DEF Decide, Remember
<1> QED
  BY <1>3, <1>4, <1>5, <1>6

LEMMA DecideTyped ==
  ASSUME TypeInv, NEW r \in Requests, Decide(r)
  PROVE  TypeInv'
<1> DEFINE c == [ctx[r] EXCEPT !.decision = Len(decisions) + 1]
<1>1. PICK a \in Actions :
        /\ decisions' = Append(decisions, [verdict |-> ctx[r].verdict,
                                           ip |-> Mine(r).ip, action |-> a])
        /\ resolved' = resolved \/ resolved' = resolved \cup {Mine(r).window}
        /\ blocks' = blocks \/ blocks' = [blocks EXCEPT ![Mine(r).ip] =
                                   [decision |-> Len(decisions) + 1, reversed |-> FALSE]]
        /\ last' = [last EXCEPT ![Mine(r).ip] = Len(decisions) + 1]
  BY DecideEffect, Zenon
<1>2. /\ pc[r] = "decide" /\ Moves(r, "decision", c) /\ c \in LocalRec
      /\ c.verdict = ctx[r].verdict /\ c.decision = Len(decisions) + 1
      /\ c.todo = ctx[r].todo
      /\ UNCHANGED <<env, verdicts, buffer, log, jobVars, drift, faultVars>>
  BY DecideEffect
<1> HIDE DEF c
<1>3. /\ TypeOK /\ Mine(r) \in VerdictRec /\ ctx[r].verdict \in 1..Len(verdicts)
      /\ ctx[r].verdict \in Nat
      /\ \A j \in 1..Len(ctx[r].todo) : ctx[r].todo[j] \in 1..Len(verdicts)
  BY <1>2, HandFacts DEF TypeInv, Handling
<1>4. Mine(r).ip \in IPs \cup {NoIP} /\ Mine(r).window \in Windows
  BY <1>3 DEF VerdictRec
<1> DEFINE d == [verdict |-> ctx[r].verdict, ip |-> Mine(r).ip, action |-> a]
<1>5. d \in DecisionRec
  BY <1>3, <1>4 DEF DecisionRec
<1>6. decisions' = Append(decisions, d)
  BY <1>1
<1> HIDE DEF d
<1>7. /\ decisions' \in Seq(DecisionRec)
      /\ Len(decisions) \in Nat /\ Len(decisions') = Len(decisions) + 1
      /\ \A i \in 1..Len(decisions) : decisions'[i] = decisions[i]
  BY <1>3, <1>5, <1>6, NewDecision
<1>8. resolved' \subseteq Windows
  BY <1>1, <1>3, <1>4 DEF TypeOK
<1>9. blocks' \in [IPs -> BlockRec]
  <2>1. [decision |-> Len(decisions) + 1, reversed |-> FALSE] \in BlockRec
    BY <1>7 DEF BlockRec
  <2>2. blocks \in [IPs -> BlockRec]
    BY <1>3 DEF TypeOK
  <2> QED
    BY <1>1, <2>1, <2>2
<1>10. last' \in [IPs -> Nat]
  <2>1. last \in [IPs -> Nat] /\ Len(decisions) + 1 \in Nat
    BY <1>3, <1>7 DEF TypeOK
  <2> QED
    BY <1>1, <2>1
<1>11. TypeOK'
  BY <1>2, <1>3, <1>7, <1>8, <1>9, <1>10, MoveEffect
  DEF TypeOK, jobVars, faultVars, Places, Handling
<1>12. Grown
  <2>1. Len(verdicts) \in Nat
    BY <1>3 DEF TypeOK
  <2> QED
    BY <1>2, <1>7, <2>1 DEF Grown
<1>13. HandsOK'
  BY <1>2, <1>3, <1>7, <1>11, <1>12, HandsMove DEF TypeInv, Places, Handling
<1>14. EventWindows' /\ JobsName'
  <2>1. Len(verdicts) \in Nat /\ verdicts' = verdicts
    BY <1>2, <1>3 DEF TypeOK
  <2> QED
    BY <1>2, <1>11, <1>12, <2>1, OthersKept DEF jobVars
<1> QED
  BY <1>11, <1>13, <1>14 DEF TypeInv

LEMMA RecordTyped ==
  ASSUME TypeInv, NEW r \in Requests, NEW ip \in IPs, NEW fp \in BOOLEAN,
         RecordCorrection(r, ip, fp)
  PROVE  TypeInv'
<1> DEFINE c == [Idle EXCEPT !.decision = last[ip]]
<1>1. TypeOK /\ last[ip] \in Nat
  BY DEF TypeInv, TypeOK
<1>2. Moves(r, "correction", c)
  BY DEF RecordCorrection, Moves, Goto
<1>3. c \in LocalRec /\ c.todo = <<>>
  BY <1>1, IdleTyped
<1> HIDE DEF c
<1>4. UNCHANGED <<env, verdicts, decisions, resolved, last, buffer, log, jobVars,
                  drift, faultVars>>
  BY DEF RecordCorrection
<1>5. blocks' \in [IPs -> BlockRec]
  <2>1. blocks \in [IPs -> BlockRec]
    BY <1>1 DEF TypeOK
  <2>2. blocks' = blocks \/ blocks' = [blocks EXCEPT ![ip].reversed = TRUE]
    BY DEF RecordCorrection
  <2>3. [blocks EXCEPT ![ip].reversed = TRUE] \in [IPs -> BlockRec]
    <3>1. [blocks[ip] EXCEPT !.reversed = TRUE] \in BlockRec
      BY <2>1 DEF BlockRec
    <3> QED
      BY <2>1, <3>1
  <2> QED
    BY <2>1, <2>2, <2>3
<1>6. TypeOK'
  BY <1>1, <1>2, <1>3, <1>4, <1>5, MoveEffect DEF TypeOK, jobVars, faultVars, Places
<1>7. Grown
  BY <1>1, <1>4, GrownSame
<1>8. HandsOK'
  BY <1>1, <1>2, <1>3, <1>6, <1>7, HandsMove DEF TypeInv, Places, Handling
<1>9. EventWindows' /\ JobsName'
  BY <1>4 DEF EventWindows, JobsName, TypeInv, jobVars
<1> QED
  BY <1>6, <1>8, <1>9 DEF TypeInv

\* Two lists of jobs in a row.
LEMMA ConcatNames ==
  ASSUME NEW n \in Nat, NEW s \in Seq(Nat), NEW t \in Seq(Nat),
         \A i \in 1..Len(s) : s[i] \in 1..n, \A i \in 1..Len(t) : t[i] \in 1..n
  PROVE  s \o t \in Seq(Nat) /\ \A i \in 1..Len(s \o t) : (s \o t)[i] \in 1..n
<1>1. /\ s \o t \in Seq(Nat) /\ Len(s \o t) = Len(s) + Len(t)
      /\ Len(s) \in Nat /\ Len(t) \in Nat
      /\ \A i \in 1..(Len(s) + Len(t)) :
           (s \o t)[i] = IF i <= Len(s) THEN s[i] ELSE t[i - Len(s)]
  BY ConcatProperties
<1>2. ASSUME NEW i \in 1..Len(s \o t) PROVE (s \o t)[i] \in 1..n
  <2>1. i \in 1..Len(s) \/ (i > Len(s) /\ i - Len(s) \in 1..Len(t))
    BY <1>1
  <2> QED
    BY <1>1, <2>1
<1> QED
  BY <1>1, <1>2

LEMMA TailNames ==
  ASSUME NEW n \in Nat, NEW s \in Seq(Nat), s # <<>>, \A i \in 1..Len(s) : s[i] \in 1..n
  PROVE  /\ Head(s) \in 1..n /\ Head(s) = s[1]
         /\ \A i \in 1..Len(Tail(s)) : Tail(s)[i] \in 1..n
<1>1. Len(s) \in Nat \ {0}
  BY EmptySeq
<1>2. /\ Len(Tail(s)) = Len(s) - 1
      /\ \A i \in 1..Len(Tail(s)) : Tail(s)[i] = s[i + 1]
  BY HeadTailProperties
<1>3. Head(s) = s[1] /\ 1 \in 1..Len(s)
  BY <1>1
<1>4. ASSUME NEW i \in 1..Len(Tail(s)) PROVE Tail(s)[i] \in 1..n
  <2>1. i + 1 \in 1..Len(s)
    BY <1>1, <1>2
  <2> QED
    BY <1>2, <2>1
<1> QED
  BY <1>3, <1>4

\* What happens to the topic is nothing to the coroutines, the engine and the log.
LEMMA TopicFrame ==
  ASSUME OnTopic
  PROVE  UNCHANGED <<env, pc, ctx, verdicts, decisions, resolved, blocks, last, buffer, log,
                     drift, lost, born>>
<1>1. CASE \E r \in Requests : LoseAck(r)
  BY <1>1 DEF LoseAck, coroutineVars, engineVars
<1>2. CASE JobWorker \/ JobYielded \/ AutoCommit
  BY <1>2 DEF JobWorker, JobYielded, AutoCommit, coroutineVars, engineVars, faultVars
<1>3. CASE Start \/ Stop
  BY <1>3 DEF Start, Stop, coroutineVars, engineVars, faultVars
<1> QED
  BY <1>1, <1>2, <1>3 DEF OnTopic

\* The lists of jobs made out of others.
LEMMA NamesSeq ==
  ASSUME NEW n \in Nat, NEW v \in 1..n,
         NEW s \in Seq(Nat), \A i \in 1..Len(s) : s[i] \in 1..n
  PROVE  /\ Append(s, v) \in Seq(Nat)
         /\ \A i \in 1..Len(Append(s, v)) : Append(s, v)[i] \in 1..n
         /\ Range(s) \subseteq 1..n
<1>1. v \in Nat
  OBVIOUS
<1>2. /\ Append(s, v) \in Seq(Nat) /\ Len(s) \in Nat /\ Len(Append(s, v)) = Len(s) + 1
      /\ \A i \in 1..Len(s) : Append(s, v)[i] = s[i]
      /\ Append(s, v)[Len(s) + 1] = v
  BY <1>1, AppendProperties
<1>3. ASSUME NEW i \in 1..Len(Append(s, v)) PROVE Append(s, v)[i] \in 1..n
  <2>1. i \in 1..Len(s) \/ i = Len(s) + 1
    BY <1>2
  <2> QED
    BY <1>2, <2>1
<1>4. Range(s) \subseteq 1..n
  BY RangeOfSeq DEF Range
<1> QED
  BY <1>2, <1>3, <1>4

\* A list of jobs that are about verdicts.
NamesJobs(s) == s \in Seq(Nat) /\ \A i \in 1..Len(s) : s[i] \in 1..Len(verdicts)

LEMMA TopicTyped ==
  ASSUME TypeInv, OnTopic
  PROVE  /\ NamesJobs(queue') /\ NamesJobs(uncommitted') /\ NamesJobs(received')
         /\ worker' \in BOOLEAN /\ committed' \in BOOLEAN
         /\ dropped' \subseteq Nat /\ again' \subseteq Nat
<1>1. /\ Len(verdicts) \in Nat /\ NamesJobs(<<>>)
      /\ NamesJobs(queue) /\ NamesJobs(uncommitted) /\ NamesJobs(received)
      /\ worker \in BOOLEAN /\ committed \in BOOLEAN
      /\ dropped \subseteq Nat /\ again \subseteq Nat
  BY DEF TypeInv, TypeOK, JobsName, NamesJobs
<1>2. \A s, t : NamesJobs(s) /\ NamesJobs(t) => NamesJobs(s \o t)
  BY <1>1, ConcatNames DEF NamesJobs
<1>3. \A s : NamesJobs(s) => Range(s) \subseteq Nat
  BY RangeOfSeq DEF NamesJobs
<1>4. \A s : \A v \in 1..Len(verdicts) : NamesJobs(s) => NamesJobs(Append(s, v))
  BY <1>1, NamesSeq DEF NamesJobs
<1>5. ASSUME NEW s, NamesJobs(s), s # <<>>
      PROVE  NamesJobs(Tail(s)) /\ Head(s) \in 1..Len(verdicts)
  <2>1. /\ Head(s) \in 1..Len(verdicts)
        /\ \A i \in 1..Len(Tail(s)) : Tail(s)[i] \in 1..Len(verdicts)
    BY <1>1, <1>5, TailNames DEF NamesJobs
  <2>2. Tail(s) \in Seq(Nat)
    BY <1>5, HeadTailProperties DEF NamesJobs
  <2> QED
    BY <2>1, <2>2 DEF NamesJobs
<1>6. ASSUME NEW r \in Requests, LoseAck(r)
      PROVE  NamesJobs(queue') /\ again' \subseteq Nat
  <2>1. ctx[r].verdict \in 1..Len(verdicts)
    BY <1>6, HandFacts DEF LoseAck, At, Handling
  <2>2. queue' = Append(queue, ctx[r].verdict) /\ again' = again \cup {ctx[r].verdict}
    BY <1>6 DEF LoseAck
  <2>3. NamesJobs(Append(queue, ctx[r].verdict))
    BY <1>1, <1>4, <2>1
  <2>4. again \cup {ctx[r].verdict} \subseteq Nat
    <3>1. again \subseteq Nat
      BY <1>1
    <3>2. Len(verdicts) \in Nat
      BY <1>1
    <3>3. ctx[r].verdict \in Nat
      BY <2>1, <3>2
    <3> QED
      BY <3>1, <3>3
  <2> QED
    BY <2>2, <2>3, <2>4
<1>7. CASE \E r \in Requests : LoseAck(r)
  BY <1>1, <1>6, <1>7 DEF LoseAck
<1>8. CASE JobWorker
  BY <1>1, <1>2, <1>8 DEF JobWorker, faultVars
<1>9. CASE JobYielded
  BY <1>1, <1>4, <1>5, <1>9 DEF JobYielded, faultVars
<1>10. CASE AutoCommit
  BY <1>1, <1>10 DEF AutoCommit, faultVars
<1>11. CASE Start
  <2>1. /\ worker' = TRUE /\ committed' = committed /\ received' = received
        /\ Seek \/ UNCHANGED <<queue, uncommitted, again, dropped>>
    BY <1>11 DEF Start
  <2>2. CASE Seek
    <3>1. /\ queue' \in {uncommitted \o queue, <<>>} /\ uncommitted' = <<>>
          /\ again' \in {again, again \cup Range(uncommitted)}
          /\ dropped' \in {dropped, dropped \cup Range(queue)}
      BY <2>2 DEF Seek
    <3>2. NamesJobs(uncommitted \o queue)
      BY <1>1, <1>2
    <3> QED
      BY <1>1, <1>3, <2>1, <3>1, <3>2
  <2> QED
    BY <1>1, <2>1, <2>2
<1>12. CASE Stop
  BY <1>1, <1>12 DEF Stop, faultVars
<1> QED
  BY <1>7, <1>8, <1>9, <1>10, <1>11, <1>12 DEF OnTopic

\* The steps of a drain and on the topic, which leave verdicts and log alone.
LEMMA JobsTyped ==
  ASSUME TypeInv, OnTopic \/ \E r \in Requests : Drain(r) \/ Swap(r)
  PROVE  TypeInv'
<1>1. /\ TypeOK /\ Len(verdicts) \in Nat
      /\ queue \in Seq(Nat) /\ received \in Seq(Nat) /\ <<>> \in Seq(Nat)
      /\ \A i \in 1..Len(queue) : queue[i] \in 1..Len(verdicts)
      /\ \A i \in 1..Len(received) : received[i] \in 1..Len(verdicts)
      /\ \A i \in 1..Len(<<>>) : <<>>[i] \in 1..Len(verdicts)
  BY DEF TypeInv, TypeOK, JobsName
<1>2. /\ received \o queue \in Seq(Nat)
      /\ \A i \in 1..Len(received \o queue) : (received \o queue)[i] \in 1..Len(verdicts)
  BY <1>1, ConcatNames
<1>3. UNCHANGED <<env, verdicts, engineVars, buffer, log, drift, lost, born>>
  BY TopicFrame DEF Drain, Swap, engineVars, faultVars
<1>4. /\ NamesJobs(queue') /\ NamesJobs(uncommitted') /\ NamesJobs(received')
      /\ worker' \in BOOLEAN /\ committed' \in BOOLEAN
      /\ dropped' \subseteq Nat /\ again' \subseteq Nat
  <2>1. CASE OnTopic
    BY <2>1, TopicTyped
  <2>2. CASE \E r \in Requests : Drain(r) \/ Swap(r)
    <3>1. /\ received' \in {received, received \o queue, <<>>} /\ queue' \in {queue, <<>>}
          /\ UNCHANGED <<uncommitted, committed, worker, dropped, again>>
      BY <2>2 DEF Drain, Swap, faultVars
    <3>2. /\ worker \in BOOLEAN /\ committed \in BOOLEAN /\ NamesJobs(uncommitted)
          /\ dropped \subseteq Nat /\ again \subseteq Nat
      BY DEF TypeInv, TypeOK, JobsName, NamesJobs
    <3>3. NamesJobs(received \o queue) /\ NamesJobs(received) /\ NamesJobs(queue)
          /\ NamesJobs(<<>>)
      BY <1>1, <1>2 DEF NamesJobs
    <3>4. NamesJobs(queue') /\ NamesJobs(received')
      BY <3>1, <3>3
    <3>5. NamesJobs(uncommitted')
      BY <3>1, <3>2
    <3> QED
      BY <3>1, <3>2, <3>4, <3>5
  <2> QED
    BY <2>1, <2>2
<1>5. Grown
  BY <1>1, <1>3, GrownSame DEF engineVars
<1>6. \/ UNCHANGED <<pc, ctx>>
      \/ \E r \in Requests : \E p \in {"idle", "read", "explain"}, c \in LocalRec :
           /\ Moves(r, p, c)
           /\ p = "explain" => c.todo # <<>>
           /\ \A i \in 1..Len(c.todo) : c.todo[i] \in 1..Len(verdicts)
  <2>1. CASE OnTopic
    BY <2>1, TopicFrame
  <2>2. ASSUME NEW r \in Requests, Drain(r)
        PROVE  Moves(r, "read", ctx[r])
    BY <1>1, <2>2, GotoMoves DEF Drain
  <2>3. ASSUME NEW r \in Requests, Swap(r)
        PROVE  \/ Moves(r, "idle", Idle)
               \/ received # <<>> /\ Moves(r, "explain", [ctx[r] EXCEPT !.todo = received])
    BY <2>3, FinishMoves DEF Swap, Moves, Goto
  <2>4. \A r \in Requests :
          /\ ctx[r] \in LocalRec /\ [ctx[r] EXCEPT !.todo = received] \in LocalRec
          /\ [ctx[r] EXCEPT !.todo = received].todo = received
          /\ \A i \in 1..Len(ctx[r].todo) : ctx[r].todo[i] \in 1..Len(verdicts)
    BY <1>1, HandFacts DEF LocalRec
  <2>5. Idle \in LocalRec /\ \A i \in 1..Len(Idle.todo) : Idle.todo[i] \in 1..Len(verdicts)
    BY IdleTyped
  <2>6. ASSUME NEW r \in Requests, Drain(r) \/ Swap(r)
        PROVE  \E p \in {"idle", "read", "explain"}, c \in LocalRec :
                 /\ Moves(r, p, c)
                 /\ p = "explain" => c.todo # <<>>
                 /\ \A i \in 1..Len(c.todo) : c.todo[i] \in 1..Len(verdicts)
    <3>1. CASE Moves(r, "read", ctx[r])
      BY <2>4, <3>1
    <3>2. CASE Moves(r, "idle", Idle)
      BY <2>5, <3>2
    <3>3. CASE received # <<>> /\ Moves(r, "explain", [ctx[r] EXCEPT !.todo = received])
      <4> DEFINE c == [ctx[r] EXCEPT !.todo = received]
      <4>1. /\ c \in LocalRec /\ c.todo = received /\ c.todo # <<>>
            /\ Moves(r, "explain", c)
        BY <2>4, <3>3
      <4> HIDE DEF c
      <4> QED
        BY <1>1, <4>1
    <3> QED
      BY <2>2, <2>3, <2>6, <3>1, <3>2, <3>3
  <2> QED
    BY <2>1, <2>6
<1>7. pc' \in [Requests -> Places] /\ ctx' \in [Requests -> LocalRec]
  <2>1. pc \in [Requests -> Places] /\ ctx \in [Requests -> LocalRec]
    BY <1>1 DEF TypeOK
  <2> QED
    BY <1>1, <1>6, <2>1, MoveEffect DEF Places
<1>8. TypeOK'
  BY <1>1, <1>3, <1>4, <1>7 DEF TypeOK, engineVars, NamesJobs
<1>9. HandsOK'
  <2>1. CASE UNCHANGED <<pc, ctx>>
    BY <1>3, <2>1 DEF HandsOK, TypeInv, engineVars
  <2>2. ASSUME NEW r \in Requests, NEW p \in {"idle", "read", "explain"}, NEW c \in LocalRec,
               Moves(r, p, c), p = "explain" => c.todo # <<>>,
               \A i \in 1..Len(c.todo) : c.todo[i] \in 1..Len(verdicts)
        PROVE  HandsOK'
    BY <1>1, <1>3, <1>5, <1>8, <2>2, HandsMove DEF TypeInv, Places, Handling
  <2> QED
    BY <1>6, <2>1, <2>2
<1>10. EventWindows' /\ JobsName'
  BY <1>3, <1>4 DEF EventWindows, JobsName, TypeInv, NamesJobs
<1> QED
  BY <1>8, <1>9, <1>10 DEF TypeInv

\* The rest of a drain's list.
LEMMA NextJobMoves ==
  ASSUME TypeInv, NEW r \in Requests, pc[r] = "explain", NextJob(r)
  PROVE  \/ /\ Len(ctx[r].todo) = 1
            /\ Moves(r, "idle", Idle)
         \/ /\ Len(ctx[r].todo) > 1
            /\ Moves(r, "explain", [ctx[r] EXCEPT !.todo = Tail(ctx[r].todo)])
            /\ [ctx[r] EXCEPT !.todo = Tail(ctx[r].todo)] \in LocalRec
            /\ [ctx[r] EXCEPT !.todo = Tail(ctx[r].todo)].todo = Tail(ctx[r].todo)
            /\ [ctx[r] EXCEPT !.todo = Tail(ctx[r].todo)].verdict = ctx[r].verdict
            /\ Tail(ctx[r].todo) \in Seq(Nat)
            /\ Len(Tail(ctx[r].todo)) = Len(ctx[r].todo) - 1
            /\ \A i \in 1..Len(Tail(ctx[r].todo)) :
                 Tail(ctx[r].todo)[i] = ctx[r].todo[i + 1]
<1> DEFINE t == ctx[r].todo
<1>1. t \in Seq(Nat) /\ ctx[r] \in LocalRec /\ t # <<>>
  BY HandFacts DEF TypeInv, HandsOK
<1>2. Len(t) \in Nat \ {0}
  BY <1>1, EmptySeq
<1>3. CASE Len(t) = 1
  BY <1>3, FinishMoves DEF NextJob
<1>4. CASE Len(t) # 1
  <2>1. /\ Tail(t) \in Seq(Nat) /\ Len(Tail(t)) = Len(t) - 1
        /\ \A i \in 1..Len(Tail(t)) : Tail(t)[i] = t[i + 1]
    BY <1>1, HeadTailProperties
  <2> DEFINE c == [ctx[r] EXCEPT !.todo = Tail(t)]
  <2>2. c \in LocalRec /\ c.todo = Tail(t) /\ c.verdict = ctx[r].verdict
    BY <1>1, <2>1 DEF LocalRec
  <2>3. Moves(r, "explain", c)
    <3>1. pc \in [Requests -> Places]
      BY DEF TypeInv, TypeOK
    <3>2. ctx' = [ctx EXCEPT ![r] = c] /\ pc' = pc
      BY <1>4 DEF NextJob
    <3> QED
      BY <3>1, <3>2 DEF Moves
  <2>4. Len(t) > 1
    <3> HIDE DEF t
    <3>1. \A n \in Nat \ {0} : n # 1 => n > 1
      OBVIOUS
    <3> QED
      BY <1>2, <1>4, <3>1
  <2> QED
    BY <2>1, <2>2, <2>3, <2>4, Zenon
<1> QED
  BY <1>3, <1>4

\* An explanation adds a rebuilt verdict and its entry.
LEMMA ExplainEffect ==
  ASSUME TypeInv, NEW r \in Requests, Explain(r)
  PROVE  \E w \in VerdictRec, e \in EntryRec :
           /\ w.role = "rebuilt"
           /\ Head(ctx[r].todo) \in 1..Len(verdicts)
           /\ w.tier = verdicts[Head(ctx[r].todo)].tier
           /\ w.window = verdicts[Head(ctx[r].todo)].window
           /\ w.covers = verdicts[Head(ctx[r].todo)].covers
           /\ verdicts' = Append(verdicts, w)
           /\ e.type = "explanation" /\ e.ref = Len(verdicts) + 1
           /\ e.about = Head(ctx[r].todo)
           /\ Logged(e)
<1> DEFINE job == Head(ctx[r].todo)
           w == [verdicts[job] EXCEPT !.role = "rebuilt", !.ip = NoIP]
           e == [Entry("explanation", Len(verdicts) + 1) EXCEPT !.about = job]
<1>1. /\ ctx[r].todo \in Seq(Nat) /\ ctx[r].todo # <<>>
      /\ \A i \in 1..Len(ctx[r].todo) : ctx[r].todo[i] \in 1..Len(verdicts)
      /\ Len(verdicts) \in Nat /\ verdicts \in Seq(VerdictRec)
  BY HandFacts, Lengths, VerdictsTyped DEF TypeInv, HandsOK, Explain, At
<1>2. job \in 1..Len(verdicts) /\ job \in Nat
  <2> HIDE DEF w, e
  <2>1. job \in 1..Len(verdicts)
    BY <1>1, TailNames
  <2> HIDE DEF job
  <2> QED
    BY <1>1, <2>1
<1>3. verdicts[job] \in VerdictRec
  BY <1>1, <1>2, ElementOfSeq
<1>4. verdicts' = Append(verdicts, w) /\ Logged(e)
  BY DEF Explain
<1> HIDE DEF job
<1>5. /\ w \in VerdictRec /\ w.role = "rebuilt" /\ w.tier = verdicts[job].tier
      /\ w.window = verdicts[job].window /\ w.covers = verdicts[job].covers
  BY <1>3 DEF VerdictRec
<1>6. Len(verdicts) + 1 \in Nat
  BY <1>1
<1>7. /\ e \in EntryRec /\ e.type = "explanation" /\ e.ref = Len(verdicts) + 1
      /\ e.about = job
  BY <1>2, <1>6 DEF Entry, EntryRec
<1> HIDE DEF w, e
<1> QED
  BY <1>2, <1>4, <1>5, <1>7 DEF job

LEMMA ExplainTyped ==
  ASSUME TypeInv, NEW r \in Requests, Explain(r)
  PROVE  TypeInv'
<1>1. PICK w \in VerdictRec, e \in EntryRec :
        /\ Head(ctx[r].todo) \in 1..Len(verdicts)
        /\ w.tier = verdicts[Head(ctx[r].todo)].tier
        /\ w.window = verdicts[Head(ctx[r].todo)].window
        /\ verdicts' = Append(verdicts, w)
        /\ Logged(e)
  BY ExplainEffect
<1>2. /\ TypeOK /\ pc[r] = "explain"
      /\ UNCHANGED <<env, engineVars, buffer, jobVars, drift, faultVars>>
  BY DEF Explain, At, TypeInv
<1>3. /\ verdicts' \in Seq(VerdictRec)
      /\ Len(verdicts) \in Nat /\ Len(verdicts') = Len(verdicts) + 1
      /\ \A i \in 1..Len(verdicts) : verdicts'[i] = verdicts[i]
      /\ verdicts'[Len(verdicts) + 1] = w
  BY <1>1, <1>2, NewVerdict
<1>4. log' \in Seq(EntryRec)
  BY <1>1, <1>2, NewEntry
<1>5. PICK p \in {"idle", "explain"}, c \in LocalRec :
        /\ Moves(r, p, c)
        /\ p = "explain" => c.todo # <<>>
        /\ \A i \in 1..Len(c.todo) : c.todo[i] \in 1..Len(verdicts)
  <2>1. NextJob(r)
    BY DEF Explain
  <2>2. CASE Moves(r, "idle", Idle)
    BY <2>2, IdleTyped
  <2> DEFINE c == [ctx[r] EXCEPT !.todo = Tail(ctx[r].todo)]
  <2>3. CASE /\ Len(ctx[r].todo) > 1 /\ Moves(r, "explain", c)
             /\ c \in LocalRec /\ c.todo = Tail(ctx[r].todo)
             /\ Len(Tail(ctx[r].todo)) = Len(ctx[r].todo) - 1
    <3> HIDE DEF c
    <3>1. /\ ctx[r].todo \in Seq(Nat)
          /\ \A i \in 1..Len(ctx[r].todo) : ctx[r].todo[i] \in 1..Len(verdicts)
      BY HandFacts
    <3>2. ctx[r].todo # <<>> /\ Len(ctx[r].todo) \in Nat
      BY <1>2, <3>1 DEF TypeInv, HandsOK
    <3>3. \A i \in 1..Len(c.todo) : c.todo[i] \in 1..Len(verdicts)
      BY <1>3, <2>3, <3>1, <3>2, TailNames
    <3>4. c.todo # <<>>
      <4>1. Len(c.todo) = Len(ctx[r].todo) - 1 /\ Len(ctx[r].todo) > 1
        BY <2>3
      <4>2. \A n \in Nat : n > 1 => n - 1 # 0
        OBVIOUS
      <4>3. Len(c.todo) # 0
        BY <3>2, <4>1, <4>2
      <4> QED
        BY <4>3
    <3> QED
      BY <2>3, <3>3, <3>4
  <2> QED
    BY <1>2, <2>1, <2>2, <2>3, NextJobMoves
<1>6. TypeOK'
  BY <1>2, <1>3, <1>4, <1>5, MoveEffect DEF TypeOK, engineVars, jobVars, faultVars, Places
<1>7. Grown
  <2>1. Len(decisions) \in Nat /\ decisions' = decisions
    BY <1>2 DEF TypeOK, engineVars
  <2> QED
    BY <1>3, <2>1 DEF Grown
<1>8. HandsOK'
  <2>1. \A i \in 1..Len(c.todo) : c.todo[i] \in 1..Len(verdicts')
    BY <1>3, <1>5
  <2> QED
    BY <1>2, <1>5, <1>6, <1>7, <2>1, HandsMove DEF TypeInv, Places, Handling
<1>9. EventWindows' /\ JobsName'
  <2>1. w.tier = "bouncer" => w.window \in Events
    BY <1>1 DEF TypeInv, EventWindows
  <2> QED
    BY <1>2, <1>3, <1>6, <1>7, <2>1, OthersKept DEF jobVars
<1> QED
  BY <1>6, <1>8, <1>9 DEF TypeInv

LEMMA PassOverTyped ==
  ASSUME TypeInv, NEW r \in Requests, PassOver(r)
  PROVE  TypeInv'
<1>1. /\ TypeOK /\ pc[r] = "explain" /\ NextJob(r)
      /\ UNCHANGED <<env, verdicts, engineVars, buffer, log, jobVars, drift, faultVars>>
  BY DEF PassOver, At, TypeInv
<1>2. /\ ctx[r].todo \in Seq(Nat) /\ ctx[r].todo # <<>> /\ Len(ctx[r].todo) \in Nat
      /\ Len(verdicts) \in Nat
      /\ \A i \in 1..Len(ctx[r].todo) : ctx[r].todo[i] \in 1..Len(verdicts)
  BY <1>1, HandFacts, Lengths DEF TypeInv, HandsOK
<1>3. /\ log \in Seq(EntryRec) /\ buffer \subseteq Events
      /\ drift \in [corrections : Nat, sessions : Nat]
      /\ lost \subseteq Nat /\ dropped \subseteq Nat /\ again \subseteq Nat /\ born \in Nat
  BY <1>1 DEF TypeOK
<1>4. CASE Moves(r, "idle", Idle)
  BY <1>1, <1>3, <1>4, IdleTyped, MovesTyped DEF Places, Handling, jobVars, faultVars
<1> DEFINE c == [ctx[r] EXCEPT !.todo = Tail(ctx[r].todo)]
<1>5. CASE /\ Len(ctx[r].todo) > 1 /\ Moves(r, "explain", c)
           /\ c \in LocalRec /\ c.todo = Tail(ctx[r].todo)
           /\ Len(Tail(ctx[r].todo)) = Len(ctx[r].todo) - 1
  <2> HIDE DEF c
  <2>1. \A i \in 1..Len(c.todo) : c.todo[i] \in 1..Len(verdicts)
    BY <1>2, <1>5, TailNames
  <2>2. c.todo # <<>>
    <3>1. Len(c.todo) # 0
      BY <1>2, <1>5
    <3> QED
      BY <3>1
  <2> QED
    BY <1>1, <1>3, <1>5, <2>1, <2>2, MovesTyped DEF Places, Handling, jobVars, faultVars
<1> QED
  BY <1>1, <1>4, <1>5, NextJobMoves

\* What a failure writes.
LEMMA FailTyped ==
  ASSUME TypeInv, NEW r \in Requests, Fail(r)
  PROVE  TypeInv'
<1>1. /\ TypeOK /\ Moves(r, "idle", Idle)
      /\ UNCHANGED <<env, verdicts, engineVars, buffer, log, jobVars, drift, again, born>>
  BY FinishMoves DEF Fail, TypeInv
<1>2. /\ log \in Seq(EntryRec) /\ buffer \subseteq Events
      /\ drift \in [corrections : Nat, sessions : Nat]
      /\ lost \subseteq Nat /\ dropped \subseteq Nat /\ again \subseteq Nat /\ born \in Nat
  BY <1>1 DEF TypeOK
<1>3. lost' \subseteq Nat /\ dropped' \subseteq Nat
  <2>1. ctx[r].verdict \in Nat /\ ctx[r].todo \in Seq(Nat)
    BY HandFacts
  <2>2. Range(ctx[r].todo) \subseteq Nat
    BY <2>1, RangeOfSeq
  <2> QED
    BY <1>2, <2>1, <2>2 DEF Fail
<1> QED
  BY <1>1, <1>2, <1>3, IdleTyped, MovesTyped DEF Places, Handling, jobVars

LEMMA RestartTyped ==
  ASSUME TypeInv, Restart
  PROVE  TypeInv'
<1>1. TypeOK /\ <<>> \in Seq(Nat)
  BY DEF TypeInv
<1>2. UNCHANGED <<env, verdicts, decisions, log, uncommitted, committed, again>>
  BY DEF Restart
<1>3. pc' \in [Requests -> Places] /\ ctx' \in [Requests -> LocalRec]
  BY IdleTyped DEF Restart, Places
<1>4. blocks' \in [IPs -> BlockRec]
  <2>1. NoBlock \in BlockRec
    BY DEF NoBlock, BlockRec
  <2> QED
    BY <2>1 DEF Restart
<1>5. last' \in [IPs -> Nat]
  BY DEF Restart
<1>6. /\ resolved' \subseteq Windows /\ buffer' \subseteq Events
      /\ queue' \in {queue, <<>>} /\ received' = <<>>
      /\ drift' \in [corrections : Nat, sessions : Nat]
  BY DEF Restart
<1>7. worker' \in BOOLEAN
  BY <1>1, SystemAssumption DEF Restart, TypeOK
<1>8. lost' \subseteq Nat
  <2>1. \A q \in Requests : ctx[q].verdict \in Nat
    BY HandFacts
  <2>2. lost \subseteq Nat /\ Len(verdicts) \in Nat
    BY <1>1 DEF TypeOK
  <2> QED
    BY <2>1, <2>2 DEF Restart
<1>9. dropped' \subseteq Nat
  <2>1. \A q \in Requests : Range(ctx[q].todo) \subseteq Nat
    BY HandFacts, RangeOfSeq
  <2>2. dropped \subseteq Nat /\ Range(queue) \subseteq Nat /\ Range(received) \subseteq Nat
    BY <1>1, RangeOfSeq DEF TypeOK
  <2> QED
    BY <2>1, <2>2 DEF Restart
<1>10. born' \in Nat
  BY <1>1 DEF Restart, TypeOK
<1>11. TypeOK'
  BY <1>1, <1>2, <1>3, <1>4, <1>5, <1>6, <1>7, <1>8, <1>9, <1>10 DEF TypeOK
<1>12. HandsOK'
  <2>1. \A q \in Requests : pc'[q] = "idle" /\ ctx'[q].todo = <<>>
    BY IdleTyped DEF Restart
  <2>2. Len(<<>>) = 0
    OBVIOUS
  <2> QED
    BY <2>1, <2>2 DEF HandsOK, Handling
<1>13. EventWindows' /\ JobsName'
  BY <1>2, <1>6 DEF EventWindows, JobsName, TypeInv
<1> QED
  BY <1>11, <1>12, <1>13 DEF TypeInv

LEMMA InitTyped == Init => TypeInv
<1> SUFFICES ASSUME Init PROVE TypeInv
  OBVIOUS
<1>1. pc \in [Requests -> Places] /\ ctx \in [Requests -> LocalRec]
  BY IdleTyped DEF Init, Places
<1>2. blocks \in [IPs -> BlockRec] /\ last \in [IPs -> Nat]
  BY DEF Init, NoBlock, BlockRec
<1>3. worker \in BOOLEAN /\ env \in Environments
  BY SystemAssumption DEF Init
<1>4. TypeOK
  <2>1. /\ verdicts \in Seq(VerdictRec) /\ decisions \in Seq(DecisionRec)
        /\ log \in Seq(EntryRec)
    BY DEF Init
  <2>2. queue \in Seq(Nat) /\ uncommitted \in Seq(Nat) /\ received \in Seq(Nat)
    BY DEF Init
  <2>3. /\ resolved \subseteq Windows /\ buffer \subseteq Events
        /\ lost \subseteq Nat /\ dropped \subseteq Nat /\ again \subseteq Nat
        /\ committed \in BOOLEAN /\ born \in Nat
        /\ drift \in [corrections : Nat, sessions : Nat]
    BY DEF Init
  <2> QED
    BY <1>1, <1>2, <1>3, <2>1, <2>2, <2>3 DEF TypeOK
<1>5. HandsOK
  <2>1. \A q \in Requests : pc[q] = "idle" /\ ctx[q].todo = <<>>
    BY IdleTyped DEF Init
  <2>2. Len(<<>>) = 0
    OBVIOUS
  <2> QED
    BY <2>1, <2>2 DEF HandsOK, Handling
<1> QED
  BY <1>4, <1>5 DEF TypeInv, EventWindows, JobsName, Init

LEMMA TypeStep == TypeInv /\ [Next]_vars => TypeInv'
<1> SUFFICES ASSUME TypeInv, [Next]_vars PROVE TypeInv'
  OBVIOUS
<1>1. CASE \E r \in Requests, e \in Events, v \in env.verdicts : IngestEvent(r, e, v)
  BY <1>1, IngestTyped
<1>2. CASE \E r \in Requests, ip \in IPs : HandleDecoySession(r, ip)
  BY <1>2, DecoyTyped
<1>3. CASE \E r \in Requests, v \in env.verdicts : DeepLaneCloses(r, v)
  BY <1>3, ClosesTyped
<1>4. CASE \E v \in env.verdicts : FlushGraphWindow(v)
  BY <1>4, FlushTyped
<1>5. CASE \E r \in Requests : \/ LogDetection(r) \/ Reject(r) \/ LogDecision(r)
                               \/ LogEnforcement(r) \/ LogCorrection(r) \/ ReadAll(r)
                               \/ DeepLaneBuffers(r)
  BY <1>5, LogsTyped
<1>6. CASE \E r \in Requests : Decide(r)
  BY <1>6, DecideTyped
<1>7. CASE \E r \in Requests : LogRejection(r) \/ Enqueue(r)
  BY <1>7, ReturnTyped
<1>8. CASE \E r \in Requests, ip \in IPs, fp \in BOOLEAN : RecordCorrection(r, ip, fp)
  BY <1>8, RecordTyped
<1>9. CASE OnTopic \/ \E r \in Requests : Drain(r) \/ Swap(r)
  BY <1>9, JobsTyped
<1>10. CASE \E r \in Requests : Explain(r)
  BY <1>10, ExplainTyped
<1>11. CASE \E r \in Requests : PassOver(r)
  BY <1>11, PassOverTyped
<1>12. CASE \E r \in Requests : Fail(r)
  BY <1>12, FailTyped
<1>13. CASE Restart
  BY <1>13, RestartTyped
<1>14. CASE UNCHANGED vars
  <2>1. UNCHANGED <<env, pc, ctx, verdicts, decisions, resolved, blocks, last, buffer, log,
                    queue, uncommitted, committed, worker, received, drift, lost, dropped,
                    again, born>>
    BY <1>14 DEF vars, coroutineVars, engineVars, jobVars, faultVars
  <2> QED
    BY <2>1 DEF TypeInv, TypeOK, HandsOK, EventWindows, JobsName
<1> QED
  BY <1>1, <1>2, <1>3, <1>4, <1>5, <1>6, <1>7, <1>8, <1>9, <1>10, <1>11, <1>12, <1>13,
     <1>14, Zenon DEF Next

\* Whatever the coroutines do, the state is well formed: a coroutine that handles
\* holds a verdict there is, one at the deep lane a fast lane's, and every job that
\* waits names a verdict (kronus_system.py:100-269).
THEOREM TypesHold == Spec => []TypeInv
<1>1. Init => TypeInv
  BY InitTyped
<1>2. TypeInv /\ [Next]_vars => TypeInv'
  BY TypeStep
<1> QED
  BY <1>1, <1>2, PTL DEF Spec

-----------------------------------------------------------------------------
(* The audit trail *)

\* A verdict is in one pair of hands at most, in none that do not handle, and it is
\* one that somebody was to handle.
HandsApart ==
  /\ \A r \in Requests : pc[r] \notin Handling => ctx[r].verdict = 0
  /\ \A r \in Requests : pc[r] \in Handling => verdicts[ctx[r].verdict].role = "handled"
  /\ \A q, r \in Requests : ctx[q].verdict = ctx[r].verdict /\ ctx[r].verdict # 0 => q = r

\* A decision is about a verdict that was to be handled, and no other is.
DecisionsApart ==
  /\ \A d \in 1..Len(decisions) :
       /\ decisions[d].verdict \in 1..Len(verdicts)
       /\ verdicts[decisions[d].verdict].role = "handled"
  /\ \A c, d \in 1..Len(decisions) : decisions[c].verdict = decisions[d].verdict => c = d
  /\ born <= Len(decisions)

\* The entries of the log name what there is.
EntriesName ==
  \A i \in 1..Len(log) : LET e == log[i] IN
    /\ e.type \in {"detection", "rejection", "explanation"} => e.ref \in 1..Len(verdicts)
    /\ e.type \in {"decision", "enforcement", "correction"} => e.ref \in 1..Len(decisions)

Undecided(v) == \A d \in 1..Len(decisions) : decisions[d].verdict # v

\* Decision d has the entries that it orders.
Carried(d) ==
  /\ IsLogged("decision", d)
  /\ Acts(decisions[d]) => IsLogged("enforcement", d)

\* Verdict v has every entry that it will have.
Settled(v) ==
  /\ IsLogged("detection", v)
  /\ IsLogged("rejection", v) \/ ~Undecided(v)
  /\ \A d \in 1..Len(decisions) : decisions[d].verdict = v => Carried(d)

\* What the log has of the verdict that coroutine r is at work on.
Trail(r) ==
  LET v == ctx[r].verdict
      d == ctx[r].decision IN
  /\ pc[r] = "detection" => ~IsLogged("detection", v)
  /\ pc[r] \in {"decide", "rejection", "decision", "enforcement", "enqueue"} =>
       IsLogged("detection", v)
  /\ pc[r] \in {"detection", "decide", "rejection"} =>
       Undecided(v) /\ ~IsLogged("rejection", v)
  /\ pc[r] \in {"decision", "enforcement", "enqueue"} =>
       d \in 1..Len(decisions) /\ decisions[d].verdict = v
  /\ pc[r] = "decision" => ~IsLogged("decision", d)
  /\ pc[r] \in {"decision", "enforcement"} => ~IsLogged("enforcement", d)
  /\ pc[r] = "enforcement" => IsLogged("decision", d) /\ Acts(decisions[d])
  /\ pc[r] = "enqueue" => Carried(d)
  /\ pc[r] = "deep" => Settled(v)

\* A verdict out of hand that no failure hit is settled.
AllSettled ==
  \A v \in 1..Len(verdicts) :
    verdicts[v].role = "handled" /\ v \notin lost /\ ~InHand(v) => Settled(v)

\* A drain has read no more of the log than there is.
SnapshotsPast == \A r \in Requests : ctx[r].snapshot <= Len(log)

\* _last_decision_id_by_ip holds the last decision on an address, and a correction
\* names a decision.
LastInv ==
  /\ \A ip \in IPs :
       /\ last[ip] \in 0..Len(decisions)
       /\ last[ip] # 0 => /\ decisions[last[ip]].ip = ip
                          /\ \A d \in 1..Len(decisions) : d > last[ip] => decisions[d].ip # ip
  /\ \A r \in Requests : pc[r] = "correction" => ctx[r].decision \in 1..Len(decisions)

AuditInv ==
  /\ HandsApart /\ DecisionsApart /\ EntriesName /\ SnapshotsPast
  /\ \A r \in Requests : Trail(r)
  /\ AllSettled
  /\ AuditOrder

\* A decision of this process that acted holds its window, and it alone.
WindowsHeld ==
  /\ \A d \in 1..Len(decisions) : d > born /\ Acts(decisions[d]) =>
       verdicts[decisions[d].verdict].window \in resolved
  /\ \A c, d \in 1..Len(decisions) :
       /\ c > born /\ Acts(decisions[c]) /\ d > born /\ Acts(decisions[d])
       /\ verdicts[decisions[c].verdict].window = verdicts[decisions[d].verdict].window
       => c = d

\* A step that writes nothing about verdict v.
Untouched(v) ==
  /\ IsLogged("detection", v)' <=> IsLogged("detection", v)
  /\ IsLogged("rejection", v)' <=> IsLogged("rejection", v)
  /\ \A d \in 1..Len(decisions') : decisions'[d].verdict = v =>
       /\ d \in 1..Len(decisions)
       /\ IsLogged("decision", d)' <=> IsLogged("decision", d)
       /\ IsLogged("enforcement", d)' <=> IsLogged("enforcement", d)

LEMMA LoggedAfter ==
  ASSUME TypeOK, NEW e \in EntryRec, Logged(e)
  PROVE  /\ \A t, x : IsLogged(t, x)' <=> IsLogged(t, x) \/ (e.type = t /\ e.ref = x)
         /\ \A i \in 1..Len(log) : \A t, x : LoggedBefore(i, t, x)' <=> LoggedBefore(i, t, x)
         /\ \A i, t, x : i = Len(log) + 1 => (LoggedBefore(i, t, x)' <=> IsLogged(t, x))
<1>1. /\ Len(log) \in Nat /\ Len(log') = Len(log) + 1
      /\ \A i \in 1..Len(log) : log'[i] = log[i]
      /\ log'[Len(log) + 1] = e
  BY NewEntry
<1>2. ASSUME NEW t, NEW x
      PROVE  IsLogged(t, x)' <=> IsLogged(t, x) \/ (e.type = t /\ e.ref = x)
  <2>1. 1..Len(log') = 1..Len(log) \cup {Len(log) + 1}
    BY <1>1
  <2> QED
    BY <1>1, <2>1 DEF IsLogged
<1>3. ASSUME NEW i \in 1..(Len(log) + 1), NEW t, NEW x
      PROVE  LoggedBefore(i, t, x)' <=>
               \E j \in 1..(i - 1) : log[j].type = t /\ log[j].ref = x
  <2>1. 1..(i - 1) \subseteq 1..Len(log)
    BY <1>1
  <2> QED
    BY <1>1, <2>1 DEF LoggedBefore
<1>4. ASSUME NEW i \in 1..Len(log), NEW t, NEW x
      PROVE  LoggedBefore(i, t, x)' <=> LoggedBefore(i, t, x)
  <2>1. i \in 1..(Len(log) + 1)
    BY <1>1
  <2> QED
    BY <1>3, <2>1 DEF LoggedBefore
<1>5. ASSUME NEW i, NEW t, NEW x, i = Len(log) + 1
      PROVE  LoggedBefore(i, t, x)' <=> IsLogged(t, x)
  <2>1. i \in 1..(Len(log) + 1) /\ i - 1 = Len(log)
    BY <1>1, <1>5
  <2> QED
    BY <1>3, <2>1 DEF IsLogged
<1> QED
  BY <1>2, <1>4, <1>5

LEMMA LoggedSame ==
  ASSUME UNCHANGED log
  PROVE  /\ \A t, x : IsLogged(t, x)' <=> IsLogged(t, x)
         /\ \A i, t, x : LoggedBefore(i, t, x)' <=> LoggedBefore(i, t, x)
BY DEF IsLogged, LoggedBefore

\* What is not written about is as it was.
LEMMA SettledStays ==
  ASSUME TypeInv, Grown, NEW v, Untouched(v), Settled(v)
  PROVE  Settled(v)'
<1>1. IsLogged("detection", v)'
  BY DEF Settled, Untouched
<1>2. (IsLogged("rejection", v) \/ ~Undecided(v))'
  <2>1. Len(decisions) \in Nat /\ Len(decisions') >= Len(decisions)
    BY DEF TypeInv, TypeOK, Grown
  <2> QED
    BY <2>1 DEF Settled, Untouched, Undecided, Grown
<1>3. ASSUME NEW d \in 1..Len(decisions'), decisions'[d].verdict = v
      PROVE  Carried(d)'
  <2>1. /\ d \in 1..Len(decisions) /\ decisions'[d] = decisions[d]
        /\ IsLogged("decision", d)' <=> IsLogged("decision", d)
        /\ IsLogged("enforcement", d)' <=> IsLogged("enforcement", d)
    BY <1>3 DEF Untouched, Grown
  <2> QED
    BY <1>3, <2>1 DEF Settled, Carried, Acts
<1> QED
  BY <1>1, <1>2, <1>3 DEF Settled

LEMMA TrailStays ==
  ASSUME TypeInv, Grown, NEW q \in Requests, pc'[q] = pc[q], ctx'[q] = ctx[q],
         pc[q] \in Handling => Untouched(ctx[q].verdict), Trail(q)
  PROVE  Trail(q)'
<1> SUFFICES ASSUME pc[q] \in Handling PROVE Trail(q)'
  BY DEF Trail, Handling
<1> DEFINE v == ctx[q].verdict
           d == ctx[q].decision
<1>1. /\ v' = v /\ d' = d /\ Len(decisions) \in Nat /\ Len(decisions') >= Len(decisions)
  BY DEF TypeInv, TypeOK, Grown
<1>2. PICK w, n : w = v /\ n = d
  OBVIOUS
<1>3. /\ IsLogged("detection", w)' <=> IsLogged("detection", w)
      /\ IsLogged("rejection", w)' <=> IsLogged("rejection", w)
      /\ Undecided(w)' <=> Undecided(w)
  BY <1>1, <1>2 DEF Untouched, Undecided, Grown
<1>4. ASSUME n \in 1..Len(decisions), decisions[n].verdict = w
      PROVE  /\ n \in 1..Len(decisions') /\ decisions'[n] = decisions[n]
             /\ IsLogged("decision", n)' <=> IsLogged("decision", n)
             /\ IsLogged("enforcement", n)' <=> IsLogged("enforcement", n)
  BY <1>1, <1>2, <1>4 DEF Untouched, Grown
<1>5. pc[q] = "deep" => Settled(w)'
  BY <1>2, SettledStays DEF Trail
<1>6. \/ pc[q] \in {"detection", "decide", "rejection"}
      \/ pc[q] \in {"decision", "enforcement", "enqueue"}
      \/ pc[q] = "deep"
  BY DEF Handling
<1>7. CASE pc[q] \in {"detection", "decide", "rejection"}
  BY <1>1, <1>2, <1>3, <1>7 DEF Trail
<1>8. CASE pc[q] \in {"decision", "enforcement", "enqueue"}
  <2>1. n \in 1..Len(decisions) /\ decisions[n].verdict = w
    BY <1>2, <1>8 DEF Trail
  <2> QED
    BY <1>1, <1>2, <1>3, <1>4, <1>8, <2>1 DEF Trail, Carried, Acts
<1>9. CASE pc[q] = "deep"
  BY <1>1, <1>2, <1>5, <1>9 DEF Trail
<1> QED
  BY <1>6, <1>7, <1>8, <1>9

\* A step of coroutine r that goes to p with c, and lets go of the verdict it held
\* only when that is settled or hit by a failure.
LEMMA CoroutineStep ==
  ASSUME TypeInv, TypeInv', HandsApart, \A q \in Requests : Trail(q), AllSettled,
         Grown, lost \subseteq lost',
         NEW r \in Requests, NEW p \in Places, NEW c \in LocalRec, Moves(r, p, c),
         c.verdict \in {0, ctx[r].verdict, Len(verdicts) + 1},
         p \notin Handling => c.verdict = 0,
         p \in Handling => verdicts'[c.verdict].role = "handled",
         Trail(r)',
         NEW own, own = ctx[r].verdict,
         \A v \in 1..Len(verdicts) : v # own => Untouched(v),
         \A v \in 1..Len(verdicts') : v > Len(verdicts) =>
           verdicts'[v].role # "handled" \/ c.verdict = v,
         own # 0 => c.verdict = own \/ own \in lost' \/ Settled(own)'
  PROVE  HandsApart' /\ (\A q \in Requests : Trail(q)') /\ AllSettled'
<1>1. /\ pc'[r] = p /\ ctx'[r] = c
      /\ \A q \in Requests \ {r} : pc'[q] = pc[q] /\ ctx'[q] = ctx[q]
  BY MoveEffect DEF TypeInv
<1>2. /\ Len(verdicts) \in Nat /\ Len(verdicts') \in Nat /\ Len(verdicts) <= Len(verdicts')
      /\ \A v \in 1..Len(verdicts) : verdicts'[v] = verdicts[v]
  BY Lengths, NextLengths DEF TypeInv, Grown
<1>3. \A q \in Requests : /\ pc[q] \in Handling => ctx[q].verdict \in 1..Len(verdicts)
                          /\ pc[q] \notin Handling => ctx[q].verdict = 0
  BY DEF TypeInv, HandsOK, HandsApart
<1>4. \A q \in Requests \ {r} : pc[q] \in Handling => ctx[q].verdict # own
  BY <1>2, <1>3 DEF HandsApart
<1>5. HandsApart'
  <2>1. ASSUME NEW q \in Requests
        PROVE  /\ pc'[q] \notin Handling => ctx'[q].verdict = 0
               /\ pc'[q] \in Handling => verdicts'[ctx'[q].verdict].role = "handled"
    <3>1. CASE q = r
      BY <1>1, <3>1
    <3>2. CASE q # r
      BY <1>1, <1>2, <1>3, <3>2 DEF HandsApart
    <3> QED
      BY <3>1, <3>2
  <2>2. \A q \in Requests : ctx[q].verdict # Len(verdicts) + 1
    BY <1>2, <1>3
  <2>3. ASSUME NEW k \in Requests, NEW q \in Requests,
               ctx'[k].verdict = ctx'[q].verdict, ctx'[q].verdict # 0
        PROVE  k = q
    <3>1. CASE k # r /\ q # r
      BY <1>1, <2>3, <3>1 DEF HandsApart
    <3>2. CASE k = r /\ q # r
      BY <1>1, <2>2, <2>3, <3>2 DEF HandsApart
    <3>3. CASE k # r /\ q = r
      BY <1>1, <2>2, <2>3, <3>3 DEF HandsApart
    <3> QED
      BY <3>1, <3>2, <3>3
  <2> QED
    BY <2>1, <2>3 DEF HandsApart
<1>6. ASSUME NEW q \in Requests PROVE Trail(q)'
  <2>1. CASE q = r
    BY <2>1
  <2>2. CASE q # r
    <3>1. pc[q] \in Handling => Untouched(ctx[q].verdict)
      BY <1>3, <1>4, <2>2
    <3> QED
      BY <1>1, <2>2, <3>1, TrailStays
  <2> QED
    BY <2>1, <2>2
<1>7. ASSUME NEW v \in 1..Len(verdicts'),
             verdicts'[v].role = "handled", v \notin lost', ~InHand(v)'
      PROVE  Settled(v)'
  <2>1. c.verdict # v /\ \A q \in Requests \ {r} : ctx[q].verdict # v
    BY <1>1, <1>7 DEF InHand
  <2>2. v \in 1..Len(verdicts)
    BY <1>2, <1>7, <2>1
  <2>3. CASE v = own
    BY <1>7, <2>1, <2>2, <2>3
  <2>4. CASE v # own
    <3>1. ~InHand(v)
      BY <2>1, <2>4 DEF InHand
    <3>2. Settled(v)
      BY <1>2, <1>7, <2>2, <3>1 DEF AllSettled
    <3> QED
      BY <2>2, <2>4, <3>2, SettledStays
  <2> QED
    BY <2>3, <2>4
<1> QED
  BY <1>5, <1>6, <1>7 DEF AllSettled

\* An entry in its place keeps the order of the trail.
LEMMA OrderKept ==
  ASSUME TypeInv, TypeInv', EntriesName, AuditOrder, Grown, NEW e \in EntryRec, Logged(e),
         e.type \in {"detection", "rejection", "explanation"} => e.ref \in 1..Len(verdicts'),
         e.type \in {"decision", "enforcement", "correction"} => e.ref \in 1..Len(decisions),
         e.type = "decision" => IsLogged("detection", decisions[e.ref].verdict),
         e.type = "rejection" => IsLogged("detection", e.ref),
         e.type = "enforcement" => IsLogged("decision", e.ref) /\ Acts(decisions[e.ref]),
         e.type = "explanation" => IsLogged("detection", e.about),
         e.type # "correction" => ~IsLogged(e.type, e.ref)
  PROVE  EntriesName' /\ AuditOrder'
<1> DEFINE n == Len(log) + 1
<1>1. /\ Len(log) \in Nat /\ Len(log') = n
      /\ \A i \in 1..Len(log) : log'[i] = log[i]
      /\ log'[n] = e
  BY NewEntry DEF TypeInv
<1>2. /\ \A i \in 1..Len(log) : \A t, x : LoggedBefore(i, t, x)' <=> LoggedBefore(i, t, x)
      /\ \A i, t, x : i = n => (LoggedBefore(i, t, x)' <=> IsLogged(t, x))
  BY LoggedAfter DEF TypeInv
<1>3. /\ Len(verdicts) \in Nat /\ Len(verdicts') \in Nat /\ Len(verdicts) <= Len(verdicts')
      /\ Len(decisions) \in Nat /\ Len(decisions') \in Nat
      /\ Len(decisions) <= Len(decisions')
      /\ \A d \in 1..Len(decisions) : decisions'[d] = decisions[d]
  BY Lengths, NextLengths DEF TypeInv, Grown
<1>4. \A i \in 1..Len(log') : i \in 1..Len(log) \/ i = n
  BY <1>1
<1> HIDE DEF n
<1>5. EntriesName'
  <2>1. ASSUME NEW i \in 1..Len(log')
        PROVE  /\ log'[i].type \in {"detection", "rejection", "explanation"} =>
                    log'[i].ref \in 1..Len(verdicts')
               /\ log'[i].type \in {"decision", "enforcement", "correction"} =>
                    log'[i].ref \in 1..Len(decisions')
    <3>1. CASE i \in 1..Len(log)
      BY <1>1, <1>3, <3>1 DEF EntriesName
    <3>2. CASE i = n
      BY <1>1, <1>3, <3>2
    <3> QED
      BY <1>4, <3>1, <3>2
  <2> QED
    BY <2>1 DEF EntriesName
<1>6. ASSUME NEW i \in 1..Len(log'), NEW f, f = log'[i]
      PROVE  /\ f.type = "decision" =>
                  LoggedBefore(i, "detection", decisions[f.ref].verdict)'
             /\ f.type = "rejection" => LoggedBefore(i, "detection", f.ref)'
             /\ f.type = "enforcement" =>
                  LoggedBefore(i, "decision", f.ref)' /\ Acts(decisions[f.ref])'
             /\ f.type = "explanation" => LoggedBefore(i, "detection", f.about)'
             /\ f.type # "correction" => ~LoggedBefore(i, f.type, f.ref)'
  <2>1. CASE i \in 1..Len(log)
    <3>1. /\ f.type = "decision" => LoggedBefore(i, "detection", decisions[f.ref].verdict)
          /\ f.type = "rejection" => LoggedBefore(i, "detection", f.ref)
          /\ f.type = "enforcement" =>
               LoggedBefore(i, "decision", f.ref) /\ Acts(decisions[f.ref])
          /\ f.type = "explanation" => LoggedBefore(i, "detection", f.about)
          /\ f.type # "correction" => ~LoggedBefore(i, f.type, f.ref)
          /\ f.type \in {"decision", "enforcement"} => f.ref \in 1..Len(decisions)
      BY <1>1, <1>6, <2>1 DEF AuditOrder, EntriesName
    <3>2. f.type \in {"decision", "enforcement"} => decisions'[f.ref] = decisions[f.ref]
      BY <1>3, <3>1
    <3> QED
      BY <1>2, <2>1, <3>1, <3>2 DEF Acts
  <2>2. CASE i = n
    <3>1. f = e
      BY <1>1, <1>6, <2>2
    <3>2. f.type \in {"decision", "enforcement"} => decisions'[f.ref] = decisions[f.ref]
      BY <1>3, <3>1
    <3> QED
      BY <1>2, <2>2, <3>1, <3>2 DEF Acts
  <2> QED
    BY <1>4, <2>1, <2>2
<1>7. AuditOrder'
  BY <1>6 DEF AuditOrder
<1> QED
  BY <1>5, <1>7

\* A step that writes no entry keeps it too.
LEMMA OrderSame ==
  ASSUME TypeInv, TypeInv', EntriesName, AuditOrder, Grown, UNCHANGED log
  PROVE  EntriesName' /\ AuditOrder'
<1>1. /\ Len(verdicts) \in Nat /\ Len(verdicts') \in Nat /\ Len(verdicts) <= Len(verdicts')
      /\ Len(decisions) \in Nat /\ Len(decisions') \in Nat
      /\ Len(decisions) <= Len(decisions')
      /\ \A d \in 1..Len(decisions) : decisions'[d] = decisions[d]
  BY Lengths, NextLengths DEF TypeInv, Grown
<1>2. \A i, t, x : LoggedBefore(i, t, x)' <=> LoggedBefore(i, t, x)
  BY LoggedSame
<1>3. EntriesName'
  BY <1>1 DEF EntriesName
<1>4. AuditOrder'
  <2> SUFFICES ASSUME NEW i \in 1..Len(log)
               PROVE  (LET e == log[i] IN
                       /\ e.type = "decision" =>
                            LoggedBefore(i, "detection", decisions[e.ref].verdict)
                       /\ e.type = "rejection" => LoggedBefore(i, "detection", e.ref)
                       /\ e.type = "enforcement" =>
                            LoggedBefore(i, "decision", e.ref) /\ Acts(decisions[e.ref])
                       /\ e.type = "explanation" => LoggedBefore(i, "detection", e.about)
                       /\ e.type # "correction" => ~LoggedBefore(i, e.type, e.ref))'
    BY DEF AuditOrder
  <2>1. log[i].type \in {"decision", "enforcement"} => decisions'[log[i].ref] = decisions[log[i].ref]
    BY <1>1 DEF EntriesName
  <2> QED
    BY <1>2, <2>1 DEF AuditOrder
<1> QED
  BY <1>3, <1>4

\* Nothing is written about the verdicts when an entry is about another.
LEMMA NothingWritten ==
  ASSUME UNCHANGED <<log, decisions>>, NEW v
  PROVE  Untouched(v)
BY LoggedSame DEF Untouched

LEMMA EntryElsewhere ==
  ASSUME TypeInv, NEW e \in EntryRec, Logged(e), UNCHANGED decisions, NEW v,
         e.type \in {"detection", "rejection"} => e.ref # v,
         e.type \in {"decision", "enforcement"} => decisions[e.ref].verdict # v
  PROVE  Untouched(v)
<1>1. \A t, x : IsLogged(t, x)' <=> IsLogged(t, x) \/ (e.type = t /\ e.ref = x)
  BY LoggedAfter DEF TypeInv
<1> QED
  BY <1>1 DEF Untouched

LEMMA DecisionElsewhere ==
  ASSUME TypeInv, UNCHANGED log, NEW d \in DecisionRec, decisions' = Append(decisions, d),
         NEW v, d.verdict # v
  PROVE  Untouched(v)
<1>1. /\ Len(decisions) \in Nat /\ Len(decisions') = Len(decisions) + 1
      /\ decisions'[Len(decisions) + 1] = d
  BY NewDecision DEF TypeInv
<1>2. \A n \in 1..Len(decisions') : n \in 1..Len(decisions) \/ n = Len(decisions) + 1
  BY <1>1
<1> QED
  BY <1>1, <1>2, LoggedSame DEF Untouched

LEMMA DecisionsSame ==
  ASSUME TypeInv, DecisionsApart, Grown, UNCHANGED <<decisions, born>>
  PROVE  DecisionsApart'
<1>1. /\ Len(verdicts) \in Nat /\ Len(verdicts') \in Int /\ Len(verdicts) <= Len(verdicts')
      /\ \A v \in 1..Len(verdicts) : verdicts'[v] = verdicts[v]
  <2>1. Len(verdicts) \in Nat
    BY DEF TypeInv, TypeOK
  <2> QED
    BY <2>1 DEF Grown
<1> QED
  BY <1>1 DEF DecisionsApart

LEMMA SnapshotsMove ==
  ASSUME TypeInv, TypeInv', SnapshotsPast, Len(log) <= Len(log'),
         NEW r \in Requests, NEW p \in Places, NEW c \in LocalRec, Moves(r, p, c),
         c.snapshot <= Len(log')
  PROVE  SnapshotsPast'
<1>1. /\ Len(log) \in Nat /\ Len(log') \in Nat
      /\ \A q \in Requests : ctx[q].snapshot \in Nat
  <2>1. log \in Seq(EntryRec) /\ log' \in Seq(EntryRec) /\ ctx \in [Requests -> LocalRec]
    BY DEF TypeInv, TypeOK
  <2>2. Len(log) \in Nat /\ Len(log') \in Nat
    BY <2>1
  <2> QED
    BY <2>1, <2>2, LocalTyped
<1>2. ctx'[r] = c /\ \A q \in Requests \ {r} : ctx'[q] = ctx[q]
  BY MoveEffect DEF TypeInv
<1> QED
  BY <1>1, <1>2 DEF SnapshotsPast

\* A step that nobody who handles a verdict takes.
LEMMA QuietStep ==
  ASSUME TypeInv, TypeInv', HandsApart, \A q \in Requests : Trail(q), AllSettled,
         Grown, lost \subseteq lost', \A v : Untouched(v),
         \A q \in Requests :
           /\ ctx'[q].verdict = ctx[q].verdict
           /\ \/ pc[q] \notin Handling /\ pc'[q] \notin Handling
              \/ pc'[q] = pc[q] /\ ctx'[q] = ctx[q],
         \A v \in 1..Len(verdicts') : v > Len(verdicts) => verdicts'[v].role # "handled"
  PROVE  HandsApart' /\ (\A q \in Requests : Trail(q)') /\ AllSettled'
<1>1. /\ Len(verdicts) \in Nat /\ Len(verdicts') \in Nat /\ Len(verdicts) <= Len(verdicts')
      /\ \A v \in 1..Len(verdicts) : verdicts'[v] = verdicts[v]
  BY Lengths, NextLengths DEF TypeInv, Grown
<1>2. \A q \in Requests : pc[q] \in Handling => ctx[q].verdict \in 1..Len(verdicts)
  BY DEF TypeInv, HandsOK
<1>3. HandsApart'
  BY <1>1, <1>2 DEF HandsApart
<1>4. ASSUME NEW q \in Requests PROVE Trail(q)'
  <2>1. CASE pc'[q] \notin Handling
    BY <2>1 DEF Trail, Handling
  <2>2. CASE pc'[q] = pc[q] /\ ctx'[q] = ctx[q]
    BY <2>2, TrailStays
  <2> QED
    BY <2>1, <2>2
<1>5. ASSUME NEW v \in 1..Len(verdicts'),
             verdicts'[v].role = "handled", v \notin lost', ~InHand(v)'
      PROVE  Settled(v)'
  <2>1. v \in 1..Len(verdicts) /\ verdicts[v].role = "handled" /\ v \notin lost
    BY <1>1, <1>5
  <2>2. ~InHand(v)
    BY <1>5 DEF InHand
  <2>3. Settled(v)
    BY <2>1, <2>2 DEF AllSettled
  <2> QED
    BY <2>3, SettledStays
<1> QED
  BY <1>3, <1>4, <1>5 DEF AllSettled

LEMMA BeginsAudit ==
  ASSUME TypeInv, TypeInv', AuditInv, NEW r \in Requests, NEW w \in VerdictRec,
         w.role = "handled", Handle(r, w), pc[r] \in {"idle", "deep"},
         UNCHANGED <<decisions, log, lost, born>>
  PROVE  AuditInv'
<1> DEFINE c == [Idle EXCEPT !.verdict = Len(verdicts) + 1]
<1>1. /\ Moves(r, "detection", c) /\ c \in LocalRec
      /\ c.verdict = Len(verdicts) + 1 /\ c.snapshot = 0
      /\ verdicts' = Append(verdicts, w)
  BY HandleEffect DEF TypeInv, Idle
<1> HIDE DEF c
<1>2. /\ Len(verdicts) \in Nat /\ Len(verdicts') = Len(verdicts) + 1
      /\ \A i \in 1..Len(verdicts) : verdicts'[i] = verdicts[i]
      /\ verdicts'[Len(verdicts) + 1] = w
      /\ Len(decisions) \in Nat /\ Len(log) \in Nat
  BY <1>1, NewVerdict, Lengths DEF TypeInv
<1>3. Grown
  BY <1>2 DEF Grown
<1>4. pc'[r] = "detection" /\ ctx'[r] = c
  BY <1>1, MoveEffect DEF TypeInv, Places, Handling
<1>5. \A v : Untouched(v)
  BY NothingWritten
<1>6. Trail(r)'
  <2>0. PICK n : n = Len(verdicts) + 1
    OBVIOUS
  <2>1. n \notin 1..Len(verdicts)
    BY <1>2, <2>0
  <2>2. ~IsLogged("detection", n) /\ ~IsLogged("rejection", n)
    BY <2>1 DEF IsLogged, AuditInv, EntriesName
  <2>3. Undecided(n)
    BY <2>1 DEF Undecided, AuditInv, DecisionsApart
  <2>4. /\ ~IsLogged("detection", n)' /\ ~IsLogged("rejection", n)'
        /\ Undecided(n)'
    BY <2>2, <2>3, LoggedSame DEF Undecided
  <2>5. ctx'[r].verdict = n
    BY <1>1, <1>4, <2>0
  <2> QED
    BY <1>4, <2>4, <2>5 DEF Trail
<1>7. PICK own : own = ctx[r].verdict
  OBVIOUS
<1>8. own # 0 => Settled(own)'
  <2>1. own # 0 => Settled(own)
    BY <1>7 DEF AuditInv, HandsApart, Trail, Handling
  <2> QED
    BY <1>3, <1>5, <2>1, SettledStays
<1>9. HandsApart' /\ (\A q \in Requests : Trail(q)') /\ AllSettled'
  <2>1. c.verdict = Len(verdicts) + 1 /\ verdicts'[c.verdict].role = "handled"
    BY <1>1, <1>2
  <2>2. \A v \in 1..Len(verdicts') : v > Len(verdicts) => c.verdict = v
    BY <1>1, <1>2
  <2> QED
    BY <1>1, <1>3, <1>5, <1>6, <1>7, <1>8, <2>1, <2>2, CoroutineStep
    DEF AuditInv, Places, Handling
<1>10. EntriesName' /\ AuditOrder'
  BY <1>3, OrderSame DEF AuditInv
<1>11. DecisionsApart'
  BY <1>3, DecisionsSame DEF AuditInv
<1>12. SnapshotsPast'
  BY <1>1, <1>2, SnapshotsMove DEF AuditInv, Places, Handling
<1> QED
  BY <1>9, <1>10, <1>11, <1>12 DEF AuditInv

LEMMA FlushAudit ==
  ASSUME TypeInv, TypeInv', AuditInv, NEW v \in env.verdicts, FlushGraphWindow(v)
  PROVE  AuditInv'
<1> DEFINE w == Verdict("flushed", "detective", v, FreshWindow, NoIP, buffer)
<1>1. w.role = "flushed" /\ verdicts' = Append(verdicts, w)
  BY DEF FlushGraphWindow, Verdict
<1> HIDE DEF w
<1>2. UNCHANGED <<pc, ctx, decisions, log, lost, born>>
  BY DEF FlushGraphWindow, coroutineVars, engineVars, faultVars
<1>3. /\ Len(verdicts) \in Nat /\ Len(verdicts') = Len(verdicts) + 1
      /\ \A i \in 1..Len(verdicts) : verdicts'[i] = verdicts[i]
      /\ verdicts'[Len(verdicts) + 1] = w
      /\ Len(decisions) \in Nat
  BY <1>1, NewVerdict, Lengths DEF TypeInv
<1>4. Grown
  BY <1>2, <1>3 DEF Grown
<1>5. \A u : Untouched(u)
  BY <1>2, NothingWritten
<1>6. \A u \in 1..Len(verdicts') : u > Len(verdicts) => verdicts'[u].role # "handled"
  <2>1. \A u \in 1..Len(verdicts') : u > Len(verdicts) => u = Len(verdicts) + 1
    BY <1>3
  <2> QED
    BY <1>1, <1>3, <2>1
<1>7. HandsApart' /\ (\A q \in Requests : Trail(q)') /\ AllSettled'
  BY <1>2, <1>4, <1>5, <1>6, QuietStep DEF AuditInv
<1>8. EntriesName' /\ AuditOrder'
  BY <1>2, <1>4, OrderSame DEF AuditInv
<1>9. DecisionsApart'
  BY <1>2, <1>4, DecisionsSame DEF AuditInv
<1>10. SnapshotsPast'
  BY <1>2 DEF SnapshotsPast, AuditInv
<1> QED
  BY <1>7, <1>8, <1>9, <1>10 DEF AuditInv

\* A step of _handle_verdict that writes entry e.
LEMMA EntryAudit ==
  ASSUME TypeInv, TypeInv', AuditInv,
         UNCHANGED <<verdicts, decisions, lost, born>>,
         NEW r \in Requests, pc[r] \in Handling, NEW own, own = ctx[r].verdict,
         NEW p \in Places, NEW c \in LocalRec, Moves(r, p, c),
         \/ p \in Handling /\ c = ctx[r]
         \/ p = "idle" /\ c = Idle /\ Settled(own)',
         NEW e \in EntryRec, Logged(e),
         \/ e.type \in {"detection", "rejection"} /\ e.ref = own
         \/ /\ e.type \in {"decision", "enforcement"}
            /\ e.ref = ctx[r].decision /\ e.ref \in 1..Len(decisions)
            /\ decisions[e.ref].verdict = own,
         e.type = "decision" => IsLogged("detection", own),
         e.type = "rejection" => IsLogged("detection", own),
         e.type = "enforcement" => IsLogged("decision", e.ref) /\ Acts(decisions[e.ref]),
         ~IsLogged(e.type, e.ref),
         Trail(r)'
  PROVE  AuditInv'
<1>1. Grown
  BY GrownSame DEF TypeInv
<1>2. /\ Len(verdicts) \in Nat /\ own \in 1..Len(verdicts)
      /\ verdicts[own].role = "handled" /\ verdicts' = verdicts
  BY DEF TypeInv, TypeOK, HandsOK, AuditInv, HandsApart
<1>3. \A v \in 1..Len(verdicts) : v # own => Untouched(v)
  BY EntryElsewhere
<1>4. c.verdict \in {0, own} /\ (p \notin Handling => c.verdict = 0)
      /\ (p \in Handling => c.verdict = own)
  BY IdleTyped DEF Handling
<1>5. HandsApart' /\ (\A q \in Requests : Trail(q)') /\ AllSettled'
  BY <1>1, <1>2, <1>3, <1>4, CoroutineStep DEF AuditInv
<1>6. EntriesName' /\ AuditOrder'
  BY <1>1, <1>2, OrderKept DEF AuditInv
<1>7. DecisionsApart'
  BY <1>1, DecisionsSame DEF AuditInv
<1>8. SnapshotsPast'
  <2>1. Len(log) \in Nat /\ Len(log') = Len(log) + 1
    BY NewEntry DEF TypeInv
  <2>2. c.snapshot <= Len(log)
    BY <2>1, IdleTyped DEF AuditInv, SnapshotsPast
  <2>3. c.snapshot \in Nat
    BY LocalTyped
  <2>4. c.snapshot <= Len(log')
    BY <2>1, <2>2, <2>3
  <2> QED
    BY <2>1, <2>4, SnapshotsMove DEF AuditInv
<1> QED
  BY <1>5, <1>6, <1>7, <1>8 DEF AuditInv

LEMMA LogDetectionAudit ==
  ASSUME TypeInv, TypeInv', AuditInv, NEW r \in Requests, LogDetection(r)
  PROVE  AuditInv'
<1>1. PICK own : own = ctx[r].verdict
  OBVIOUS
<1> DEFINE e == Entry("detection", own)
<1>2. /\ pc[r] = "detection" /\ pc[r] \in Handling /\ own \in Nat /\ own \in 1..Len(verdicts)
      /\ ctx[r] \in LocalRec
  BY <1>1, HandFacts DEF LogDetection, At, Handling
<1>3. /\ Moves(r, "decide", ctx[r])
      /\ UNCHANGED <<ctx, verdicts, decisions, lost, born>> /\ Logged(e)
  BY <1>1, GotoMoves DEF LogDetection, engineVars, faultVars, TypeInv
<1>4. e \in EntryRec /\ e.type = "detection" /\ e.ref = own
  BY <1>2, EntryTyped DEF Entry
<1> HIDE DEF e
<1>5. /\ ~IsLogged("detection", own) /\ ~IsLogged("rejection", own) /\ Undecided(own)
  BY <1>1, <1>2 DEF AuditInv, Trail
<1>6. Trail(r)'
  <2>1. pc'[r] = "decide" /\ ctx'[r].verdict = own
    BY <1>1, <1>2, <1>3, MoveEffect DEF TypeInv, Places, Handling
  <2>2. IsLogged("detection", own)' /\ ~IsLogged("rejection", own)' /\ Undecided(own)'
    BY <1>3, <1>4, <1>5, LoggedAfter DEF TypeInv, Undecided
  <2> QED
    BY <2>1, <2>2 DEF Trail
<1> QED
  BY <1>1, <1>2, <1>3, <1>4, <1>5, <1>6, EntryAudit DEF Places, Handling

LEMMA LogDecisionAudit ==
  ASSUME TypeInv, TypeInv', AuditInv, NEW r \in Requests, LogDecision(r)
  PROVE  AuditInv'
<1>1. PICK own, d : own = ctx[r].verdict /\ d = ctx[r].decision
  OBVIOUS
<1> DEFINE e == Entry("decision", d)
<1>2. /\ pc[r] = "decision" /\ pc[r] \in Handling /\ own \in 1..Len(verdicts)
      /\ ctx[r] \in LocalRec /\ d \in Nat
  BY <1>1, HandFacts DEF LogDecision, At, Handling
<1>3. PICK p \in {"enforcement", "enqueue"} :
        /\ Moves(r, p, ctx[r])
        /\ p = "enforcement" <=> Acts(decisions[d])
  <2>1. Goto(r, AfterDecision(decisions[d])) /\ UNCHANGED ctx
    BY <1>1 DEF LogDecision
  <2>2. Moves(r, AfterDecision(decisions[d]), ctx[r])
    BY <2>1, GotoMoves DEF TypeInv
  <2> QED
    BY <2>2 DEF AfterDecision
<1>4. UNCHANGED <<ctx, verdicts, decisions, lost, born>> /\ Logged(e)
  BY <1>1 DEF LogDecision, engineVars, faultVars
<1>5. e \in EntryRec /\ e.type = "decision" /\ e.ref = d
  BY <1>2, EntryTyped DEF Entry
<1> HIDE DEF e
<1>6. /\ IsLogged("detection", own) /\ ~IsLogged("decision", d)
      /\ ~IsLogged("enforcement", d)
      /\ d \in 1..Len(decisions) /\ decisions[d].verdict = own
  BY <1>1, <1>2 DEF AuditInv, Trail
<1>7. Trail(r)'
  <2>1. pc'[r] = p /\ ctx'[r].verdict = own /\ ctx'[r].decision = d
    BY <1>1, <1>2, <1>3, MoveEffect DEF TypeInv, Places, Handling
  <2>2. /\ IsLogged("detection", own)' /\ IsLogged("decision", d)'
        /\ ~IsLogged("enforcement", d)'
    BY <1>5, <1>4, <1>6, LoggedAfter DEF TypeInv
  <2>3. d \in 1..Len(decisions') /\ decisions'[d] = decisions[d]
    BY <1>4, <1>6
  <2>4. p = "enqueue" => Carried(d)'
    BY <1>3, <1>4, <2>2 DEF Carried
  <2> QED
    BY <1>3, <1>4, <1>6, <2>1, <2>2, <2>3, <2>4 DEF Trail
<1> QED
  BY <1>1, <1>2, <1>3, <1>4, <1>5, <1>6, <1>7, EntryAudit DEF Places, Handling

LEMMA LogEnforcementAudit ==
  ASSUME TypeInv, TypeInv', AuditInv, NEW r \in Requests, LogEnforcement(r)
  PROVE  AuditInv'
<1>1. PICK own, d : own = ctx[r].verdict /\ d = ctx[r].decision
  OBVIOUS
<1> DEFINE e == Entry("enforcement", d)
<1>2. /\ pc[r] = "enforcement" /\ pc[r] \in Handling /\ own \in 1..Len(verdicts)
      /\ ctx[r] \in LocalRec /\ d \in Nat
  BY <1>1, HandFacts DEF LogEnforcement, At, Handling
<1>3. /\ Moves(r, "enqueue", ctx[r])
      /\ UNCHANGED <<ctx, verdicts, decisions, lost, born>> /\ Logged(e)
  BY <1>1, GotoMoves DEF LogEnforcement, engineVars, faultVars, TypeInv
<1>4. e \in EntryRec /\ e.type = "enforcement" /\ e.ref = d
  BY <1>2, EntryTyped DEF Entry
<1> HIDE DEF e
<1>5. /\ IsLogged("detection", own) /\ IsLogged("decision", d)
      /\ ~IsLogged("enforcement", d) /\ Acts(decisions[d])
      /\ d \in 1..Len(decisions) /\ decisions[d].verdict = own
  BY <1>1, <1>2 DEF AuditInv, Trail
<1>6. Trail(r)'
  <2>1. pc'[r] = "enqueue" /\ ctx'[r].verdict = own /\ ctx'[r].decision = d
    BY <1>1, <1>2, <1>3, MoveEffect DEF TypeInv, Places, Handling
  <2>2. /\ IsLogged("detection", own)' /\ IsLogged("decision", d)'
        /\ IsLogged("enforcement", d)'
    BY <1>3, <1>4, <1>5, LoggedAfter DEF TypeInv
  <2> QED
    BY <1>3, <1>5, <2>1, <2>2 DEF Trail, Carried
<1> QED
  BY <1>1, <1>2, <1>3, <1>4, <1>5, <1>6, EntryAudit DEF Places, Handling

LEMMA LogRejectionAudit ==
  ASSUME TypeInv, TypeInv', AuditInv, NEW r \in Requests, LogRejection(r)
  PROVE  AuditInv'
<1>1. PICK own : own = ctx[r].verdict
  OBVIOUS
<1> DEFINE e == Entry("rejection", own)
<1>2. /\ pc[r] = "rejection" /\ pc[r] \in Handling /\ own \in Nat /\ own \in 1..Len(verdicts)
      /\ ctx[r] \in LocalRec
  BY <1>1, HandFacts DEF LogRejection, At, Handling
<1>3. /\ UNCHANGED <<verdicts, decisions, lost, born>> /\ Logged(e) /\ Return(r)
  BY <1>1 DEF LogRejection, engineVars, faultVars
<1>4. Moves(r, "deep", ctx[r]) \/ Moves(r, "idle", Idle)
  BY <1>2, <1>3, ReturnMoves
<1>5. e \in EntryRec /\ e.type = "rejection" /\ e.ref = own
  BY <1>2, EntryTyped DEF Entry
<1> HIDE DEF e
<1>6. /\ IsLogged("detection", own) /\ ~IsLogged("rejection", own) /\ Undecided(own)
  BY <1>1, <1>2 DEF AuditInv, Trail
<1>7. Settled(own)'
  <2>1. IsLogged("detection", own)' /\ IsLogged("rejection", own)' /\ Undecided(own)'
    BY <1>3, <1>5, <1>6, LoggedAfter DEF TypeInv, Undecided
  <2> QED
    BY <2>1 DEF Settled, Undecided
<1>8. PICK p \in {"deep", "idle"}, c \in LocalRec :
        /\ Moves(r, p, c)
        /\ p = "deep" => c = ctx[r]
        /\ p = "idle" => c = Idle
  BY <1>2, <1>4, IdleTyped
<1>9. Trail(r)'
  <2>1. pc'[r] = p /\ ctx'[r] = c
    BY <1>8, MoveEffect DEF TypeInv, Places, Handling
  <2>2. p = "deep" => ctx'[r].verdict = own
    BY <1>1, <1>8, <2>1
  <2> QED
    BY <1>7, <2>1, <2>2 DEF Trail
<1> QED
  BY <1>1, <1>2, <1>3, <1>5, <1>6, <1>7, <1>8, <1>9, EntryAudit DEF Places, Handling

\* A step of _handle_verdict that writes no entry.
LEMMA SilentAudit ==
  ASSUME TypeInv, TypeInv', AuditInv, Grown, UNCHANGED <<verdicts, log, lost, born>>,
         NEW r \in Requests, pc[r] \in Handling, NEW own, own = ctx[r].verdict,
         \A v : v # own => Untouched(v), DecisionsApart',
         NEW p \in Places, NEW c \in LocalRec, Moves(r, p, c), Trail(r)',
         \/ p \in Handling /\ c.verdict = own /\ c.snapshot = ctx[r].snapshot
         \/ p = "idle" /\ c = Idle /\ Settled(own)'
  PROVE  AuditInv'
<1>1. /\ Len(verdicts) \in Nat /\ own \in 1..Len(verdicts)
      /\ verdicts[own].role = "handled" /\ verdicts' = verdicts
  BY DEF TypeInv, TypeOK, HandsOK, AuditInv, HandsApart
<1>2. c.verdict \in {0, own} /\ (p \notin Handling => c.verdict = 0)
      /\ (p \in Handling => c.verdict = own)
  BY IdleTyped DEF Handling
<1>3. HandsApart' /\ (\A q \in Requests : Trail(q)') /\ AllSettled'
  BY <1>1, <1>2, CoroutineStep DEF AuditInv
<1>4. EntriesName' /\ AuditOrder'
  BY OrderSame DEF AuditInv
<1>5. SnapshotsPast'
  <2>1. Len(log) \in Nat
    BY DEF TypeInv, TypeOK
  <2>2. c.snapshot <= Len(log)
    BY <2>1, IdleTyped DEF AuditInv, SnapshotsPast
  <2> QED
    BY <2>1, <2>2, SnapshotsMove DEF AuditInv
<1> QED
  BY <1>3, <1>4, <1>5 DEF AuditInv

LEMMA EnqueueAudit ==
  ASSUME TypeInv, TypeInv', AuditInv, NEW r \in Requests, Enqueue(r)
  PROVE  AuditInv'
<1>1. PICK own, d : own = ctx[r].verdict /\ d = ctx[r].decision
  OBVIOUS
<1>2. /\ pc[r] = "enqueue" /\ pc[r] \in Handling /\ ctx[r] \in LocalRec
  BY HandFacts DEF Enqueue, At, Handling
<1>3. UNCHANGED <<verdicts, decisions, log, lost, born>> /\ Return(r)
  BY DEF Enqueue, engineVars, faultVars
<1>4. Moves(r, "deep", ctx[r]) \/ Moves(r, "idle", Idle)
  BY <1>2, <1>3, ReturnMoves
<1>5. Grown /\ \A v : Untouched(v)
  BY <1>3, GrownSame, NothingWritten DEF TypeInv
<1>6. Settled(own)
  <2>1. /\ IsLogged("detection", own) /\ Carried(d)
        /\ d \in 1..Len(decisions) /\ decisions[d].verdict = own
    BY <1>1, <1>2 DEF AuditInv, Trail
  <2>2. \A n \in 1..Len(decisions) : decisions[n].verdict = own => n = d
    BY <2>1 DEF AuditInv, DecisionsApart
  <2> QED
    BY <2>1, <2>2 DEF Settled, Undecided
<1>7. Settled(own)'
  BY <1>5, <1>6, SettledStays
<1>8. PICK p \in {"deep", "idle"}, c \in LocalRec :
        /\ Moves(r, p, c)
        /\ p = "deep" => c = ctx[r]
        /\ p = "idle" => c = Idle
  BY <1>2, <1>4, IdleTyped
<1>9. Trail(r)'
  <2>1. pc'[r] = p /\ ctx'[r] = c
    BY <1>8, MoveEffect DEF TypeInv, Places, Handling
  <2>2. p = "deep" => ctx'[r].verdict = own
    BY <1>1, <1>8, <2>1
  <2> QED
    BY <1>7, <2>1, <2>2 DEF Trail
<1>10. DecisionsApart'
  BY <1>3, <1>5, DecisionsSame DEF AuditInv
<1> QED
  BY <1>1, <1>2, <1>3, <1>5, <1>7, <1>8, <1>9, <1>10, SilentAudit DEF Places, Handling

LEMMA RejectAudit ==
  ASSUME TypeInv, TypeInv', AuditInv, NEW r \in Requests, Reject(r)
  PROVE  AuditInv'
<1>1. PICK own : own = ctx[r].verdict
  OBVIOUS
<1>2. /\ pc[r] = "decide" /\ pc[r] \in Handling /\ ctx[r] \in LocalRec
  BY HandFacts DEF Reject, At, Handling
<1>3. UNCHANGED <<ctx, verdicts, decisions, log, lost, born>>
  BY DEF Reject, engineVars, faultVars
<1>4. Moves(r, "rejection", ctx[r])
  BY <1>2, GotoMoves DEF TypeInv, Reject
<1>5. Grown /\ \A v : Untouched(v)
  BY <1>3, GrownSame, NothingWritten DEF TypeInv
<1>6. Trail(r)'
  <2>1. pc'[r] = "rejection" /\ ctx'[r].verdict = own
    BY <1>1, <1>2, <1>4, MoveEffect DEF TypeInv, Places, Handling
  <2>2. /\ IsLogged("detection", own) /\ ~IsLogged("rejection", own) /\ Undecided(own)
    BY <1>1, <1>2 DEF AuditInv, Trail
  <2>3. (IsLogged("detection", own) /\ ~IsLogged("rejection", own) /\ Undecided(own))'
    BY <1>3, <2>2, LoggedSame DEF Undecided
  <2> QED
    BY <2>1, <2>3 DEF Trail
<1>7. DecisionsApart'
  BY <1>3, <1>5, DecisionsSame DEF AuditInv
<1> QED
  BY <1>1, <1>2, <1>3, <1>4, <1>5, <1>6, <1>7, SilentAudit DEF Places, Handling

LEMMA BuffersAudit ==
  ASSUME TypeInv, TypeInv', AuditInv, NEW r \in Requests, DeepLaneBuffers(r)
  PROVE  AuditInv'
<1>1. PICK own : own = ctx[r].verdict
  OBVIOUS
<1>2. /\ pc[r] = "deep" /\ pc[r] \in Handling /\ Moves(r, "idle", Idle)
      /\ UNCHANGED <<verdicts, decisions, log, lost, born>>
  BY FinishMoves DEF DeepLaneBuffers, At, Handling, engineVars, faultVars
<1>3. Grown /\ \A v : Untouched(v)
  BY <1>2, GrownSame, NothingWritten DEF TypeInv
<1>4. Settled(own)'
  BY <1>1, <1>2, <1>3, SettledStays DEF AuditInv, Trail
<1>5. Trail(r)'
  BY <1>2, IdleTyped, MoveEffect DEF TypeInv, Places, Trail
<1>6. DecisionsApart'
  BY <1>2, <1>3, DecisionsSame DEF AuditInv
<1> QED
  BY <1>1, <1>2, <1>3, <1>4, <1>5, <1>6, IdleTyped, SilentAudit DEF Places

LEMMA DecideAudit ==
  ASSUME TypeInv, TypeInv', AuditInv, NEW r \in Requests, Decide(r)
  PROVE  AuditInv'
<1> DEFINE c == [ctx[r] EXCEPT !.decision = Len(decisions) + 1]
<1>1. PICK own, n : own = ctx[r].verdict /\ n = Len(decisions) + 1
  OBVIOUS
<1>2. /\ pc[r] = "decide" /\ pc[r] \in Handling
      /\ Moves(r, "decision", c) /\ c \in LocalRec
      /\ c.verdict = own /\ c.decision = n
      /\ UNCHANGED <<verdicts, log, lost, born>>
  BY <1>1, DecideEffect DEF Handling, faultVars
<1>3. c.snapshot = ctx[r].snapshot /\ own \in 1..Len(verdicts) /\ own \in Nat
  BY <1>1, <1>2, HandFacts DEF LocalRec
<1> HIDE DEF c
<1>4. PICK d \in DecisionRec : d.verdict = own /\ decisions' = Append(decisions, d)
  <2>1. Mine(r).ip \in IPs \cup {NoIP}
    BY <1>2, HandFacts DEF VerdictRec
  <2>2. PICK a \in Actions :
          decisions' = Append(decisions, [verdict |-> own, ip |-> Mine(r).ip, action |-> a])
    BY <1>1, DecideEffect, Zenon
  <2> DEFINE d == [verdict |-> own, ip |-> Mine(r).ip, action |-> a]
  <2>3. d \in DecisionRec /\ d.verdict = own
    BY <1>3, <2>1 DEF DecisionRec
  <2> QED
    BY <2>2, <2>3
<1>5. /\ Len(decisions) \in Nat /\ Len(decisions') = n
      /\ \A i \in 1..Len(decisions) : decisions'[i] = decisions[i]
      /\ decisions'[n] = d
  BY <1>1, <1>4, NewDecision DEF TypeInv
<1>6. Grown /\ Len(verdicts) \in Nat
  <2>1. Len(verdicts) \in Nat
    BY DEF TypeInv, TypeOK
  <2> QED
    BY <1>1, <1>2, <1>5, <2>1 DEF Grown
<1>7. \A v : v # own => Untouched(v)
  BY <1>2, <1>4, DecisionElsewhere
<1>8. /\ IsLogged("detection", own) /\ ~IsLogged("rejection", own) /\ Undecided(own)
  BY <1>1, <1>2 DEF AuditInv, Trail
<1>9. \A i \in 1..Len(decisions') : i \in 1..Len(decisions) \/ i = n
  BY <1>1, <1>5
<1>10. DecisionsApart'
  <2>1. \A i \in 1..Len(decisions') : /\ decisions'[i].verdict \in 1..Len(verdicts')
                                      /\ verdicts'[decisions'[i].verdict].role = "handled"
    <3>1. verdicts[own].role = "handled" /\ verdicts' = verdicts
      BY <1>1, <1>2 DEF AuditInv, HandsApart
    <3> QED
      BY <1>3, <1>4, <1>5, <1>9, <3>1 DEF AuditInv, DecisionsApart
  <2>2. ASSUME NEW i \in 1..Len(decisions'), NEW j \in 1..Len(decisions'),
               decisions'[i].verdict = decisions'[j].verdict
        PROVE  i = j
    BY <1>4, <1>5, <1>8, <1>9, <2>2 DEF AuditInv, DecisionsApart, Undecided
  <2>3. born' <= Len(decisions')
    BY <1>1, <1>2, <1>5 DEF AuditInv, DecisionsApart, TypeInv, TypeOK
  <2> QED
    BY <2>1, <2>2, <2>3 DEF DecisionsApart
<1>11. Trail(r)'
  <2>1. pc'[r] = "decision" /\ ctx'[r].verdict = own /\ ctx'[r].decision = n
    BY <1>2, MoveEffect DEF TypeInv, Places, Handling
  <2>2. n \notin 1..Len(decisions) /\ n \in 1..Len(decisions')
    BY <1>1, <1>5
  <2>3. ~IsLogged("decision", n) /\ ~IsLogged("enforcement", n)
    BY <2>2 DEF IsLogged, AuditInv, EntriesName
  <2>4. ~IsLogged("decision", n)' /\ ~IsLogged("enforcement", n)' /\ IsLogged("detection", own)'
    BY <1>2, <1>8, <2>3, LoggedSame
  <2> QED
    BY <1>4, <1>5, <2>1, <2>2, <2>4 DEF Trail
<1> QED
  BY <1>1, <1>2, <1>3, <1>6, <1>7, <1>10, <1>11, SilentAudit DEF Places, Handling

LEMMA QuietMoves ==
  ASSUME TypeInv, HandsApart, NEW r \in Requests, pc[r] \notin Handling,
         NEW p \in Places \ Handling, NEW c \in LocalRec, Moves(r, p, c), c.verdict = 0
  PROVE  \A q \in Requests :
           /\ ctx'[q].verdict = ctx[q].verdict
           /\ \/ pc[q] \notin Handling /\ pc'[q] \notin Handling
              \/ pc'[q] = pc[q] /\ ctx'[q] = ctx[q]
<1>1. /\ pc'[r] = p /\ ctx'[r] = c /\ ctx[r].verdict = 0
      /\ \A q \in Requests \ {r} : pc'[q] = pc[q] /\ ctx'[q] = ctx[q]
  BY MoveEffect DEF TypeInv, HandsApart
<1> QED
  BY <1>1

\* The steps on the topic, of a drain up to its list, and of a correction up to its
\* entry.
LEMMA QuietAudit ==
  ASSUME TypeInv, TypeInv', AuditInv,
         \/ OnTopic
         \/ \E r \in Requests : Drain(r) \/ ReadAll(r) \/ Swap(r) \/ PassOver(r)
         \/ \E r \in Requests, ip \in IPs, fp \in BOOLEAN : RecordCorrection(r, ip, fp)
  PROVE  AuditInv'
<1>1. UNCHANGED <<verdicts, decisions, log, lost, born>>
  BY TopicFrame DEF Drain, ReadAll, Swap, PassOver, RecordCorrection, engineVars, faultVars
<1>2. Grown /\ (\A v : Untouched(v)) /\ Len(verdicts) \in Nat /\ Len(log) \in Nat
  <2>1. verdicts \in Seq(VerdictRec) /\ log \in Seq(EntryRec)
    BY DEF TypeInv, TypeOK
  <2>2. Len(verdicts) \in Nat /\ Len(log) \in Nat
    BY <2>1
  <2>3. Grown
    BY <1>1, GrownSame DEF TypeInv
  <2>4. \A v : Untouched(v)
    BY <1>1, NothingWritten
  <2> QED
    BY <2>2, <2>3, <2>4
<1>3. \/ UNCHANGED <<pc, ctx>>
      \/ \E r \in Requests, p \in Places \ Handling, c \in LocalRec :
           /\ Moves(r, p, c) /\ pc[r] \notin Handling
           /\ c.verdict = 0 /\ c.snapshot <= Len(log)
  <2> DEFINE G(r) == \E p \in Places \ Handling, c \in LocalRec :
                       /\ Moves(r, p, c) /\ pc[r] \notin Handling
                       /\ c.verdict = 0 /\ c.snapshot <= Len(log)
  <2>1. \A r \in Requests : /\ ctx[r] \in LocalRec /\ ctx[r].snapshot <= Len(log)
                            /\ pc[r] \notin Handling => ctx[r].verdict = 0
    BY HandFacts DEF AuditInv, SnapshotsPast, HandsApart
  <2>2. Idle \in LocalRec /\ Idle.verdict = 0 /\ Idle.snapshot <= Len(log)
    BY <1>2, IdleTyped
  <2>3. ASSUME NEW r \in Requests, Drain(r) PROVE G(r)
    <3>1. pc[r] = "idle" /\ Moves(r, "read", ctx[r])
      BY <2>3, GotoMoves DEF Drain, At, TypeInv
    <3> QED
      BY <2>1, <3>1 DEF Places, Handling
  <2>4. ASSUME NEW r \in Requests, ReadAll(r) PROVE G(r)
    <3> DEFINE c == [ctx[r] EXCEPT !.snapshot = Len(log)]
    <3>1. pc[r] = "read" /\ Moves(r, "swap", c)
      BY <2>4 DEF ReadAll, At, Moves, Goto
    <3>2. c \in LocalRec /\ c.verdict = ctx[r].verdict /\ c.snapshot <= Len(log)
      BY <1>2, <2>1 DEF LocalRec
    <3> HIDE DEF c
    <3> QED
      BY <2>1, <3>1, <3>2 DEF Places, Handling
  <2>5. ASSUME NEW r \in Requests, Swap(r) PROVE G(r)
    <3>1. pc[r] = "swap"
      BY <2>5 DEF Swap, At
    <3>2. CASE received = <<>>
      BY <2>2, <2>5, <3>1, <3>2, FinishMoves DEF Swap, Places, Handling
    <3>3. CASE received # <<>>
      <4> DEFINE c == [ctx[r] EXCEPT !.todo = received]
      <4>1. received \in Seq(Nat)
        BY DEF TypeInv, TypeOK
      <4>2. c \in LocalRec /\ c.verdict = ctx[r].verdict /\ c.snapshot = ctx[r].snapshot
        BY <2>1, <4>1 DEF LocalRec
      <4>3. Moves(r, "explain", c)
        BY <2>5, <3>3 DEF Swap, Moves, Goto
      <4> HIDE DEF c
      <4> QED
        BY <2>1, <3>1, <4>2, <4>3 DEF Places, Handling
    <3> QED
      BY <3>2, <3>3
  <2>6. ASSUME NEW r \in Requests, PassOver(r) PROVE G(r)
    <3>1. pc[r] = "explain" /\ NextJob(r)
      BY <2>6 DEF PassOver, At
    <3>2. CASE Moves(r, "idle", Idle)
      BY <2>2, <3>1, <3>2 DEF Places, Handling
    <3> DEFINE c == [ctx[r] EXCEPT !.todo = Tail(ctx[r].todo)]
    <3>3. CASE Moves(r, "explain", c) /\ c \in LocalRec
      <4>1. c.verdict = ctx[r].verdict /\ c.snapshot = ctx[r].snapshot
        BY <2>1 DEF LocalRec
      <4> HIDE DEF c
      <4> QED
        BY <2>1, <3>1, <3>3, <4>1 DEF Places, Handling
    <3> QED
      BY <3>1, <3>2, <3>3, NextJobMoves
  <2>7. ASSUME NEW r \in Requests, NEW ip \in IPs, NEW fp \in BOOLEAN,
               RecordCorrection(r, ip, fp)
        PROVE  G(r)
    <3> DEFINE c == [Idle EXCEPT !.decision = last[ip]]
    <3>1. pc[r] = "idle" /\ Moves(r, "correction", c)
      BY <2>7 DEF RecordCorrection, At, Moves, Goto
    <3>2. last[ip] \in Nat
      BY DEF TypeInv, TypeOK
    <3>3. c \in LocalRec /\ c.verdict = 0 /\ c.snapshot <= Len(log)
      BY <1>2, <3>2, IdleTyped
    <3> HIDE DEF c
    <3> QED
      BY <3>1, <3>3 DEF Places, Handling
  <2>8. CASE OnTopic
    BY <2>8, TopicFrame
  <2> HIDE DEF G
  <2>9. CASE \E r \in Requests : G(r)
    BY <2>9 DEF G
  <2> QED
    BY <2>3, <2>4, <2>5, <2>6, <2>7, <2>8, <2>9
<1>4. \A q \in Requests :
        /\ ctx'[q].verdict = ctx[q].verdict
        /\ \/ pc[q] \notin Handling /\ pc'[q] \notin Handling
           \/ pc'[q] = pc[q] /\ ctx'[q] = ctx[q]
  BY <1>3, QuietMoves DEF AuditInv
<1>5. HandsApart' /\ (\A q \in Requests : Trail(q)') /\ AllSettled'
  <2>1. \A v \in 1..Len(verdicts') : v > Len(verdicts) => verdicts'[v].role # "handled"
    BY <1>1, <1>2
  <2> QED
    BY <1>1, <1>2, <1>4, <2>1, QuietStep DEF AuditInv
<1>6. EntriesName' /\ AuditOrder'
  BY <1>1, <1>2, OrderSame DEF AuditInv
<1>7. DecisionsApart'
  BY <1>1, <1>2, DecisionsSame DEF AuditInv
<1>8. SnapshotsPast'
  <2>1. CASE UNCHANGED <<pc, ctx>>
    BY <1>1, <2>1 DEF AuditInv, SnapshotsPast
  <2>2. ASSUME NEW r \in Requests, NEW p \in Places, NEW c \in LocalRec,
               Moves(r, p, c), c.snapshot <= Len(log)
        PROVE  SnapshotsPast'
    BY <1>1, <1>2, <2>2, SnapshotsMove DEF AuditInv
  <2> QED
    BY <1>3, <2>1, <2>2
<1> QED
  BY <1>5, <1>6, <1>7, <1>8 DEF AuditInv

LEMMA LogCorrectionAudit ==
  ASSUME TypeInv, TypeInv', AuditInv, NEW r \in Requests, LogCorrection(r),
         ctx[r].decision \in 1..Len(decisions)
  PROVE  AuditInv'
<1> DEFINE e == Entry("correction", ctx[r].decision)
<1>1. /\ pc[r] = "correction" /\ Moves(r, "idle", Idle) /\ Logged(e)
      /\ UNCHANGED <<verdicts, decisions, lost, born>>
  BY FinishMoves DEF LogCorrection, At, engineVars, faultVars
<1>2. e \in EntryRec /\ e.type = "correction" /\ e.ref = ctx[r].decision
  BY HandFacts, EntryTyped DEF Entry
<1> HIDE DEF e
<1>3. Grown /\ Len(verdicts) \in Nat
  <2>1. verdicts \in Seq(VerdictRec) /\ Grown
    BY <1>1, GrownSame DEF TypeInv, TypeOK
  <2> QED
    BY <2>1
<1>4. \A v : Untouched(v)
  BY <1>1, <1>2, EntryElsewhere
<1>5. \A q \in Requests :
        /\ ctx'[q].verdict = ctx[q].verdict
        /\ \/ pc[q] \notin Handling /\ pc'[q] \notin Handling
           \/ pc'[q] = pc[q] /\ ctx'[q] = ctx[q]
  BY <1>1, IdleTyped, QuietMoves DEF AuditInv, Places, Handling
<1>6. HandsApart' /\ (\A q \in Requests : Trail(q)') /\ AllSettled'
  <2>1. \A v \in 1..Len(verdicts') : v > Len(verdicts) => verdicts'[v].role # "handled"
    BY <1>1, <1>3
  <2> QED
    BY <1>1, <1>3, <1>4, <1>5, <2>1, QuietStep DEF AuditInv
<1>7. EntriesName' /\ AuditOrder'
  BY <1>1, <1>2, <1>3, OrderKept DEF AuditInv
<1>8. DecisionsApart'
  BY <1>1, <1>3, DecisionsSame DEF AuditInv
<1>9. SnapshotsPast'
  <2>1. Len(log) \in Nat /\ Len(log') = Len(log) + 1
    BY <1>1, <1>2, NewEntry DEF TypeInv
  <2>2. Idle.snapshot <= Len(log') /\ Len(log) <= Len(log')
    BY <2>1, IdleTyped
  <2> QED
    BY <1>1, <2>2, IdleTyped, SnapshotsMove DEF AuditInv, Places
<1> QED
  BY <1>6, <1>7, <1>8, <1>9 DEF AuditInv

-----------------------------------------------------------------------------
(* The last decision on an address *)

\* A step in which nobody comes to a correction keeps LastInv.
LEMMA LastSame ==
  ASSUME TypeInv, LastInv, UNCHANGED <<last, decisions>>,
         \/ UNCHANGED <<pc, ctx>>
         \/ \E r \in Requests, p \in Places \ {"correction"}, c \in LocalRec : Moves(r, p, c)
  PROVE  LastInv'
<1>1. ASSUME NEW q \in Requests, pc'[q] = "correction"
      PROVE  pc[q] = "correction" /\ ctx'[q] = ctx[q]
  <2>1. CASE UNCHANGED <<pc, ctx>>
    BY <1>1, <2>1
  <2>2. ASSUME NEW r \in Requests, NEW p \in Places \ {"correction"}, NEW c \in LocalRec,
               Moves(r, p, c)
        PROVE  pc[q] = "correction" /\ ctx'[q] = ctx[q]
    BY <1>1, <2>2, MoveEffect DEF TypeInv
  <2> QED
    BY <2>1, <2>2
<1> QED
  BY <1>1 DEF LastInv

\* Every step but those that begin a correction.
LEMMA ActionMoves ==
  ASSUME TypeInv,
         NEW r \in Requests,
         \/ \E w : Handle(r, w)
         \/ DeepLaneBuffers(r) \/ LogDetection(r) \/ Decide(r) \/ Reject(r) \/ LogDecision(r)
         \/ LogEnforcement(r) \/ LogRejection(r) \/ Enqueue(r) \/ LogCorrection(r)
         \/ Drain(r) \/ ReadAll(r) \/ Swap(r) \/ Explain(r) \/ PassOver(r) \/ Fail(r)
  PROVE  \E p \in Places \ {"correction"}, c \in LocalRec :
           Moves(r, p, c) /\ (p = "decision" => Decide(r))
<1> DEFINE G == \E p \in Places \ {"correction"}, c \in LocalRec :
                  Moves(r, p, c) /\ (p = "decision" => Decide(r))
<1>1. ctx[r] \in LocalRec /\ Idle \in LocalRec /\ Len(log) \in Nat /\ received \in Seq(Nat)
  BY HandFacts, IdleTyped DEF TypeInv, TypeOK
<1>2. ASSUME NEW w, Handle(r, w) PROVE G
  BY <1>2, HandleEffect DEF TypeInv, Places, Handling
<1>2a. ASSUME NEW p \in Places \ {"correction", "decision"}, NEW c \in LocalRec, Moves(r, p, c)
      PROVE  G
  BY <1>2a
<1>3. CASE DeepLaneBuffers(r) \/ LogCorrection(r) \/ Fail(r)
  <2>1. Moves(r, "idle", Idle)
    BY <1>3, FinishMoves DEF DeepLaneBuffers, LogCorrection, Fail
  <2> QED
    BY <1>2a, <1>1, <2>1 DEF Places
<1>4. CASE LogDetection(r) \/ Reject(r) \/ LogEnforcement(r) \/ Drain(r)
  BY <1>1, <1>4, GotoMoves
  DEF LogDetection, Reject, LogEnforcement, Drain, TypeInv, Places, Handling
<1>5. CASE LogDecision(r)
  <2>1. \E p \in {"enforcement", "enqueue"} : Goto(r, p) /\ UNCHANGED ctx
    BY <1>5 DEF LogDecision, AfterDecision
  <2> QED
    BY <1>1, <2>1, GotoMoves DEF TypeInv, Places, Handling
<1>6. CASE LogRejection(r) \/ Enqueue(r)
  <2>1. pc[r] \in Handling /\ Return(r)
    BY <1>6 DEF LogRejection, Enqueue, At, Handling
  <2> QED
    BY <1>1, <2>1, ReturnMoves DEF Places, Handling
<1>7. CASE Decide(r)
  BY <1>7, DecideEffect DEF Places, Handling
<1>8. CASE ReadAll(r)
  <2> DEFINE c == [ctx[r] EXCEPT !.snapshot = Len(log)]
  <2>1. Moves(r, "swap", c)
    BY <1>8 DEF ReadAll, Moves, Goto
  <2>2. c \in LocalRec
    BY <1>1, LocalTyped
  <2> HIDE DEF c
  <2> QED
    BY <2>1, <2>2 DEF Places
<1>9. CASE Swap(r)
  <2> DEFINE c == [ctx[r] EXCEPT !.todo = received]
  <2>1. Moves(r, "explain", c) \/ Moves(r, "idle", Idle)
    BY <1>9, FinishMoves DEF Swap, Moves, Goto
  <2>2. c \in LocalRec
    BY <1>1, LocalTyped
  <2> HIDE DEF c
  <2> QED
    BY <1>2a, <1>1, <2>1, <2>2 DEF Places
<1>10. CASE Explain(r) \/ PassOver(r)
  <2> DEFINE c == [ctx[r] EXCEPT !.todo = Tail(ctx[r].todo)]
  <2>1. pc[r] = "explain" /\ NextJob(r)
    BY <1>10 DEF Explain, PassOver, At
  <2>2. Moves(r, "idle", Idle) \/ (Moves(r, "explain", c) /\ c \in LocalRec)
    BY <2>1, NextJobMoves
  <2> HIDE DEF c
  <2> QED
    BY <1>2a, <1>1, <2>2 DEF Places
<1> QED
  BY <1>2, <1>3, <1>4, <1>5, <1>6, <1>7, <1>8, <1>9, <1>10

LEMMA LastDecide ==
  ASSUME TypeInv, LastInv, NEW r \in Requests, Decide(r)
  PROVE  LastInv'
<1> DEFINE n == Len(decisions) + 1
<1>1. Mine(r).ip \in IPs \cup {NoIP} /\ ctx[r].verdict \in Nat
  <2>1. pc[r] \in Handling
    BY DecideEffect DEF Handling
  <2> QED
    BY <2>1, HandFacts DEF VerdictRec
<1>2. PICK d \in DecisionRec : /\ d.ip = Mine(r).ip
                               /\ decisions' = Append(decisions, d)
                               /\ last' = [last EXCEPT ![Mine(r).ip] = n]
  <2>1. PICK a \in Actions :
          /\ decisions' = Append(decisions, [verdict |-> ctx[r].verdict, ip |-> Mine(r).ip,
                                             action |-> a])
          /\ last' = [last EXCEPT ![Mine(r).ip] = n]
    BY DecideEffect, Zenon
  <2> DEFINE d == [verdict |-> ctx[r].verdict, ip |-> Mine(r).ip, action |-> a]
  <2>2. d \in DecisionRec /\ d.ip = Mine(r).ip
    BY <1>1 DEF DecisionRec
  <2> QED
    BY <2>1, <2>2
<1>3. /\ Len(decisions) \in Nat /\ Len(decisions') = n
      /\ \A i \in 1..Len(decisions) : decisions'[i] = decisions[i]
      /\ decisions'[n] = d
  BY <1>2, NewDecision DEF TypeInv
<1>4. \A i \in 1..Len(decisions') : i \in 1..Len(decisions) \/ i = n
  BY <1>3
<1>5. last \in [IPs -> Nat] /\ n \in Nat
  BY <1>3 DEF TypeInv, TypeOK
<1>6. \A q \in Requests : pc'[q] = "correction" => pc[q] = "correction" /\ ctx'[q] = ctx[q]
  <2> DEFINE c == [ctx[r] EXCEPT !.decision = Len(decisions) + 1]
  <2>1. Moves(r, "decision", c) /\ c \in LocalRec
    BY DecideEffect
  <2> HIDE DEF c
  <2>2. /\ pc'[r] = "decision"
        /\ \A q \in Requests \ {r} : pc'[q] = pc[q] /\ ctx'[q] = ctx[q]
    BY <2>1, MoveEffect DEF TypeInv, Places, Handling
  <2> QED
    BY <2>2
<1>7. n > Len(decisions)
  BY <1>3
<1> HIDE DEF n
<1>8. ASSUME NEW ip \in IPs
      PROVE  /\ last'[ip] \in 0..n
             /\ last'[ip] # 0 => /\ decisions'[last'[ip]].ip = ip
                                 /\ \A i \in 1..n : i > last'[ip] => decisions'[i].ip # ip
  <2>1. CASE ip = Mine(r).ip
    <3>1. last'[ip] = n
      BY <1>2, <1>5, <2>1
    <3>2. \A i \in 1..n : ~(i > n)
      BY <1>5
    <3> QED
      BY <1>2, <1>3, <1>5, <2>1, <3>1, <3>2
  <2>2. CASE ip # Mine(r).ip
    <3>1. last'[ip] = last[ip]
      BY <1>2, <1>5, <2>2
    <3>2. last[ip] \in 0..Len(decisions) /\ last[ip] \in 0..n
      BY <1>3, <1>5, <1>7 DEF LastInv
    <3>3. ASSUME last[ip] # 0, NEW i \in 1..n, i > last[ip]
          PROVE  decisions'[i].ip # ip
      <4>1. CASE i \in 1..Len(decisions)
        BY <1>3, <3>3, <4>1 DEF LastInv
      <4>2. CASE i = n
        BY <1>2, <1>3, <2>2, <4>2
      <4> QED
        BY <1>3, <1>4, <4>1, <4>2
    <3>4. last[ip] # 0 => decisions'[last[ip]].ip = ip
      <4>1. last[ip] # 0 => last[ip] \in 1..Len(decisions)
        BY <1>3, <3>2
      <4> QED
        BY <1>3, <4>1 DEF LastInv
    <3> QED
      BY <3>1, <3>2, <3>3, <3>4
  <2> QED
    BY <2>1, <2>2
<1>9. ASSUME NEW q \in Requests, pc'[q] = "correction"
      PROVE  ctx'[q].decision \in 1..n
  BY <1>3, <1>5, <1>6, <1>7, <1>9 DEF LastInv
<1> QED
  BY <1>3, <1>8, <1>9 DEF LastInv

LEMMA LastRecord ==
  ASSUME TypeInv, LastInv, NEW r \in Requests, NEW ip \in IPs, NEW fp \in BOOLEAN,
         RecordCorrection(r, ip, fp)
  PROVE  LastInv'
<1> DEFINE c == [Idle EXCEPT !.decision = last[ip]]
<1>1. last[ip] \in Nat /\ last[ip] \in 1..Len(decisions)
  <2>1. last[ip] \in Nat /\ Len(decisions) \in Nat
    BY DEF TypeInv, TypeOK
  <2>2. last[ip] \in 0..Len(decisions) /\ last[ip] # 0
    BY DEF LastInv, RecordCorrection
  <2> QED
    BY <2>1, <2>2
<1>2. c \in LocalRec /\ c.decision = last[ip]
  BY <1>1, IdleTyped
<1>3. Moves(r, "correction", c)
  BY DEF RecordCorrection, Moves, Goto
<1> HIDE DEF c
<1>4. /\ ctx'[r] = c
      /\ \A q \in Requests \ {r} : pc'[q] = pc[q] /\ ctx'[q] = ctx[q]
  BY <1>2, <1>3, MoveEffect DEF TypeInv, Places
<1>5. UNCHANGED <<last, decisions>>
  BY DEF RecordCorrection
<1> QED
  BY <1>1, <1>2, <1>4, <1>5 DEF LastInv

LEMMA LastStep == TypeInv /\ LastInv /\ [Next]_vars => LastInv'
<1> SUFFICES ASSUME TypeInv, LastInv, [Next]_vars PROVE LastInv'
  OBVIOUS
<1>1. ASSUME NEW r \in Requests,
             \/ \E e \in Events, v \in env.verdicts : IngestEvent(r, e, v)
             \/ \E ip \in IPs : HandleDecoySession(r, ip)
             \/ \E v \in env.verdicts : DeepLaneCloses(r, v)
      PROVE  LastInv'
  <2>1. UNCHANGED <<last, decisions>> /\ \E w : Handle(r, w)
    BY <1>1 DEF IngestEvent, HandleDecoySession, DeepLaneCloses, engineVars
  <2> QED
    BY <2>1, ActionMoves, LastSame
<1>2. ASSUME NEW r \in Requests,
             \/ DeepLaneBuffers(r) \/ LogDetection(r) \/ Reject(r) \/ LogDecision(r)
             \/ LogEnforcement(r) \/ LogRejection(r) \/ Enqueue(r) \/ LogCorrection(r)
             \/ Drain(r) \/ ReadAll(r) \/ Swap(r) \/ Explain(r) \/ PassOver(r) \/ Fail(r)
      PROVE  LastInv'
  <2>1. UNCHANGED <<last, decisions>>
    BY <1>2 DEF DeepLaneBuffers, LogDetection, Reject, LogDecision, LogEnforcement,
                LogRejection, Enqueue, LogCorrection, Drain, ReadAll, Swap, Explain,
                PassOver, Fail, engineVars
  <2> QED
    BY <1>2, <2>1, ActionMoves, LastSame
<1>3. CASE \E r \in Requests : Decide(r)
  BY <1>3, LastDecide
<1>4. CASE \E r \in Requests, ip \in IPs, fp \in BOOLEAN : RecordCorrection(r, ip, fp)
  BY <1>4, LastRecord
<1>5. CASE Restart
  <2>1. /\ \A ip \in IPs : last'[ip] = 0
        /\ \A q \in Requests : pc'[q] # "correction"
        /\ decisions' = decisions /\ Len(decisions) \in Nat
    BY <1>5 DEF Restart, TypeInv, TypeOK
  <2> QED
    BY <2>1 DEF LastInv
<1>6. CASE \/ \E v \in env.verdicts : FlushGraphWindow(v)
           \/ OnTopic \/ UNCHANGED vars
  <2>1. UNCHANGED <<last, decisions, pc, ctx>>
    BY <1>6, TopicFrame DEF FlushGraphWindow, vars, coroutineVars, engineVars
  <2> QED
    BY <2>1, LastSame
<1> QED
  BY <1>1, <1>2, <1>3, <1>4, <1>5, <1>6, Zenon DEF Next

LEMMA InitLast == Init => LastInv
<1> SUFFICES ASSUME Init PROVE LastInv
  OBVIOUS
<1>1. /\ \A ip \in IPs : last[ip] = 0
      /\ \A q \in Requests : pc[q] # "correction"
      /\ decisions = <<>>
  BY DEF Init
<1> QED
  BY <1>1 DEF LastInv

LEMMA ExplainAudit ==
  ASSUME TypeInv, TypeInv', AuditInv, NEW r \in Requests, Explain(r)
  PROVE  AuditInv'
<1>1. PICK w \in VerdictRec, e \in EntryRec :
        /\ w.role = "rebuilt"
        /\ verdicts' = Append(verdicts, w)
        /\ e.type = "explanation" /\ e.ref = Len(verdicts) + 1
        /\ e.about = Head(ctx[r].todo)
        /\ Logged(e)
  BY ExplainEffect
<1>2. /\ Len(verdicts) \in Nat /\ Len(verdicts') = Len(verdicts) + 1
      /\ \A i \in 1..Len(verdicts) : verdicts'[i] = verdicts[i]
      /\ verdicts'[Len(verdicts) + 1] = w
  BY <1>1, NewVerdict DEF TypeInv
<1>3. /\ pc[r] = "explain" /\ NextJob(r) /\ Found(r)
      /\ UNCHANGED <<decisions, lost, born>>
  BY DEF Explain, At, engineVars, faultVars
<1>4. Grown
  BY <1>2, <1>3, NewVerdict DEF Grown, TypeInv
<1>5. \A v : Untouched(v)
  BY <1>1, <1>3, EntryElsewhere
<1>6. PICK p \in Places \ Handling, c \in LocalRec :
        Moves(r, p, c) /\ c.verdict = 0 /\ c.snapshot <= Len(log)
  <2>1. ctx[r].verdict = 0 /\ ctx[r].snapshot <= Len(log)
    BY <1>3 DEF AuditInv, HandsApart, SnapshotsPast, Handling
  <2>2. CASE Moves(r, "idle", Idle)
    <3>1. Idle.snapshot <= Len(log)
      BY DEF Idle, TypeInv, TypeOK
    <3> QED
      BY <2>2, <3>1, IdleTyped DEF Places, Handling
  <2>3. CASE /\ Moves(r, "explain", [ctx[r] EXCEPT !.todo = Tail(ctx[r].todo)])
             /\ [ctx[r] EXCEPT !.todo = Tail(ctx[r].todo)] \in LocalRec
             /\ [ctx[r] EXCEPT !.todo = Tail(ctx[r].todo)].verdict = ctx[r].verdict
    <3>1. [ctx[r] EXCEPT !.todo = Tail(ctx[r].todo)].snapshot = ctx[r].snapshot
      BY HandFacts DEF LocalRec
    <3> QED
      BY <2>1, <2>3, <3>1 DEF Places, Handling
  <2> QED
    BY <1>3, <2>2, <2>3, NextJobMoves
<1>7. HandsApart' /\ (\A q \in Requests : Trail(q)') /\ AllSettled'
  <2>1. \A q \in Requests :
          /\ ctx'[q].verdict = ctx[q].verdict
          /\ \/ pc[q] \notin Handling /\ pc'[q] \notin Handling
             \/ pc'[q] = pc[q] /\ ctx'[q] = ctx[q]
    BY <1>3, <1>6, QuietMoves DEF AuditInv, Handling
  <2>2. \A v \in 1..Len(verdicts') : v > Len(verdicts) => verdicts'[v].role # "handled"
    BY <1>1, <1>2
  <2>3. HandsApart /\ (\A q \in Requests : Trail(q)) /\ AllSettled /\ lost \subseteq lost'
    BY <1>3 DEF AuditInv
  <2> QED
    BY <1>4, <1>5, <2>1, <2>2, <2>3, QuietStep
<1>8. EntriesName' /\ AuditOrder'
  <2>1. IsLogged("detection", e.about)
    <3>1. ctx[r].snapshot <= Len(log) /\ ctx[r].snapshot \in Nat /\ Len(log) \in Nat
      <4>1. ctx[r] \in LocalRec
        BY HandFacts
      <4>2. Len(log) \in Nat
        BY DEF TypeInv, TypeOK
      <4> QED
        BY <4>1, <4>2, LocalTyped DEF AuditInv, SnapshotsPast
    <3>2. PICK i \in 1..ctx[r].snapshot : Entry("detection", Head(ctx[r].todo)) = log[i]
      BY <1>3 DEF Found
    <3>3. i \in 1..Len(log) /\ log[i].type = "detection" /\ log[i].ref = Head(ctx[r].todo)
      BY <3>1, <3>2 DEF Entry
    <3> QED
      BY <1>1, <3>3 DEF IsLogged
  <2>2. ~IsLogged("explanation", e.ref)
    <3>1. e.ref \notin 1..Len(verdicts)
      BY <1>1, <1>2
    <3> QED
      BY <3>1 DEF IsLogged, AuditInv, EntriesName
  <2>3. e.ref \in 1..Len(verdicts')
    BY <1>1, <1>2
  <2> QED
    BY <1>1, <1>4, <2>1, <2>2, <2>3, OrderKept DEF AuditInv
<1>9. DecisionsApart'
  BY <1>3, <1>4, DecisionsSame DEF AuditInv
<1>10. SnapshotsPast'
  <2>1. Len(log) \in Nat /\ Len(log') = Len(log) + 1
    BY <1>1, NewEntry DEF TypeInv
  <2>2. c.snapshot \in Nat
    BY <1>6 DEF LocalRec
  <2> QED
    BY <1>6, <2>1, <2>2, SnapshotsMove DEF AuditInv
<1> QED
  BY <1>7, <1>8, <1>9, <1>10 DEF AuditInv

LEMMA FailAudit ==
  ASSUME TypeInv, TypeInv', AuditInv, NEW r \in Requests, Fail(r)
  PROVE  AuditInv'
<1>1. /\ Moves(r, "idle", Idle)
      /\ UNCHANGED <<verdicts, decisions, log, born>>
      /\ lost' = lost \cup {ctx[r].verdict}
  BY FinishMoves DEF Fail, engineVars
<1>2. Grown
  BY <1>1, GrownSame DEF TypeInv
<1>3. \A v : Untouched(v)
  BY <1>1, NothingWritten
<1>4. HandsApart' /\ (\A q \in Requests : Trail(q)') /\ AllSettled'
  <2>1. PICK own : own = ctx[r].verdict
    OBVIOUS
  <2>2. pc'[r] = "idle"
    BY <1>1, IdleTyped, MoveEffect DEF TypeInv, Places
  <2>3. Trail(r)'
    BY <2>2 DEF Trail
  <2>4. \A v \in 1..Len(verdicts') : ~(v > Len(verdicts))
    BY <1>1 DEF TypeInv, TypeOK
  <2>5. HandsApart /\ (\A q \in Requests : Trail(q)) /\ AllSettled
    BY DEF AuditInv
  <2>6. "idle" \in Places /\ "idle" \notin Handling
    BY DEF Places, Handling
  <2>7. own \in lost' /\ lost \subseteq lost'
    BY <1>1, <2>1
  <2>8. Idle \in LocalRec /\ Idle.verdict = 0
    BY IdleTyped
  <2> HIDE DEF Idle
  <2> QED
    BY <1>1, <1>2, <1>3, <2>1, <2>3, <2>4, <2>5, <2>6, <2>7, <2>8, CoroutineStep
<1>5. EntriesName' /\ AuditOrder'
  BY <1>1, <1>2, OrderSame DEF AuditInv
<1>6. DecisionsApart'
  BY <1>1, <1>2, DecisionsSame DEF AuditInv
<1>7. SnapshotsPast'
  <2>1. Idle.snapshot <= Len(log') /\ Len(log) <= Len(log')
    BY <1>1 DEF Idle, TypeInv, TypeOK
  <2> QED
    BY <1>1, <2>1, IdleTyped, SnapshotsMove DEF AuditInv, Places
<1> QED
  BY <1>4, <1>5, <1>6, <1>7 DEF AuditInv

LEMMA RestartAudit ==
  ASSUME TypeInv, TypeInv', AuditInv, Restart
  PROVE  AuditInv'
<1>1. /\ \A q \in Requests : pc'[q] = "idle" /\ ctx'[q] = Idle
      /\ UNCHANGED <<verdicts, decisions, log>>
      /\ \A q \in Requests : ctx[q].verdict \in lost'
      /\ lost \subseteq lost'
      /\ born' = Len(decisions)
  BY DEF Restart
<1>2. /\ \A q \in Requests : ctx'[q].verdict = 0 /\ ctx'[q].snapshot = 0
      /\ Len(log) \in Nat /\ Len(decisions) \in Nat
  BY <1>1 DEF Idle, TypeInv, TypeOK
<1>3. Grown
  BY <1>1, GrownSame DEF TypeInv
<1>4. HandsApart'
  BY <1>1, <1>2 DEF HandsApart, Handling
<1>5. \A q \in Requests : Trail(q)'
  BY <1>1 DEF Trail
<1>6. AllSettled'
  <2> SUFFICES ASSUME NEW v \in 1..Len(verdicts), verdicts[v].role = "handled", v \notin lost'
               PROVE  Settled(v)'
    BY <1>1 DEF AllSettled
  <2>1. ~InHand(v) /\ v \notin lost
    BY <1>1 DEF InHand
  <2>2. Settled(v)
    BY <2>1 DEF AuditInv, AllSettled
  <2>3. Untouched(v)
    BY <1>1, NothingWritten
  <2> QED
    BY <1>3, <2>2, <2>3, SettledStays
<1>7. EntriesName' /\ AuditOrder'
  BY <1>1, <1>3, OrderSame DEF AuditInv
<1>8. DecisionsApart' /\ SnapshotsPast'
  BY <1>1, <1>2 DEF AuditInv, DecisionsApart, SnapshotsPast
<1> QED
  BY <1>4, <1>5, <1>6, <1>7, <1>8 DEF AuditInv

LEMMA InitAudit == Init => AuditInv
<1> SUFFICES ASSUME Init PROVE AuditInv
  OBVIOUS
<1>1. /\ \A q \in Requests : pc[q] = "idle" /\ ctx[q].verdict = 0 /\ ctx[q].snapshot = 0
      /\ Len(verdicts) = 0 /\ Len(decisions) = 0 /\ Len(log) = 0 /\ born = 0
  BY DEF Init, Idle
<1>2. HandsApart /\ DecisionsApart /\ EntriesName /\ SnapshotsPast
  BY <1>1 DEF HandsApart, DecisionsApart, EntriesName, SnapshotsPast, Handling
<1>3. (\A r \in Requests : Trail(r)) /\ AllSettled /\ AuditOrder
  BY <1>1 DEF Trail, AllSettled, AuditOrder
<1> QED
  BY <1>2, <1>3 DEF AuditInv

\* The three ways into _handle_verdict.
LEMMA IngestBegins ==
  ASSUME TypeInv, NEW r \in Requests, NEW e \in Events, NEW v \in env.verdicts,
         IngestEvent(r, e, v)
  PROVE  \E w \in VerdictRec : /\ w.role = "handled" /\ w.tier = "bouncer" /\ w.window = e
                               /\ Handle(r, w) /\ pc[r] = "idle"
<1> DEFINE w == Verdict("handled", "bouncer", v, e, Source[e], {e})
<1>1. w \in VerdictRec /\ w.role = "handled" /\ w.tier = "bouncer" /\ w.window = e
  <2>1. Source[e] \in IPs
    BY SystemAssumption
  <2>2. v.label \in Labels /\ v.confidence \in 0..FullConfidence
    BY ModelVerdict DEF TypeInv
  <2> QED
    BY <2>1, <2>2, VerdictTyped DEF Windows, Tiers
<1>2. Handle(r, w) /\ pc[r] = "idle"
  BY DEF IngestEvent, At
<1> HIDE DEF w
<1> QED
  BY <1>1, <1>2

LEMMA DecoyBegins ==
  ASSUME TypeInv, NEW r \in Requests, NEW ip \in IPs, HandleDecoySession(r, ip)
  PROVE  \E w \in VerdictRec : /\ w.role = "handled" /\ w.tier = "decoy"
                               /\ Handle(r, w) /\ pc[r] = "idle"
<1> DEFINE m == [label |-> "decoy_interaction", confidence |-> FullConfidence]
           w == Verdict("handled", "decoy", m, FreshWindow, ip, {})
<1>1. w \in VerdictRec /\ w.role = "handled" /\ w.tier = "decoy"
  <2>1. m.label \in Labels /\ m.confidence \in 0..FullConfidence
    BY PolicyAssumption DEF Labels
  <2> QED
    BY <2>1, FreshTyped, VerdictTyped DEF Tiers, TypeInv
<1>2. Handle(r, w) /\ pc[r] = "idle"
  BY DEF HandleDecoySession, At
<1> HIDE DEF w
<1> QED
  BY <1>1, <1>2

LEMMA ClosesBegins ==
  ASSUME TypeInv, NEW r \in Requests, NEW v \in env.verdicts, DeepLaneCloses(r, v)
  PROVE  \E w \in VerdictRec : /\ w.role = "handled" /\ w.tier = "detective"
                               /\ w.covers = buffer
                               /\ Handle(r, w) /\ pc[r] = "deep"
<1> DEFINE e == Mine(r).window
<1>1. pc[r] = "deep" /\ e \in Events
  BY HandFacts DEF DeepLaneCloses, At
<1>2. PICK ip \in Targets(v, e) :
        Handle(r, Verdict("handled", "detective", v, FreshWindow, ip, buffer))
  BY DEF DeepLaneCloses
<1> DEFINE w == Verdict("handled", "detective", v, FreshWindow, ip, buffer)
<1>3. w \in VerdictRec /\ w.role = "handled" /\ w.tier = "detective" /\ w.covers = buffer
  <2>1. ip \in IPs
    BY <1>1, TargetTyped DEF DeepLaneCloses, TypeInv
  <2>2. buffer \in SUBSET Events
    BY DEF TypeInv, TypeOK
  <2>3. v.label \in Labels /\ v.confidence \in 0..FullConfidence
    BY ModelVerdict DEF TypeInv
  <2>4. FreshWindow \in Windows
    BY FreshTyped DEF TypeInv
  <2> QED
    BY <2>1, <2>2, <2>3, <2>4, VerdictTyped DEF Tiers
<1>4. Handle(r, w)
  BY <1>2
<1> HIDE DEF w
<1> QED
  BY <1>1, <1>3, <1>4

LEMMA AuditStep == TypeInv /\ TypeInv' /\ LastInv /\ AuditInv /\ [Next]_vars => AuditInv'
<1> SUFFICES ASSUME TypeInv, TypeInv', LastInv, AuditInv, [Next]_vars PROVE AuditInv'
  OBVIOUS
<1>1. ASSUME NEW r \in Requests,
             \/ \E e \in Events, v \in env.verdicts : IngestEvent(r, e, v)
             \/ \E ip \in IPs : HandleDecoySession(r, ip)
             \/ \E v \in env.verdicts : DeepLaneCloses(r, v)
      PROVE  AuditInv'
  <2>1. UNCHANGED <<decisions, log, lost, born>>
    BY <1>1 DEF IngestEvent, HandleDecoySession, DeepLaneCloses, engineVars, faultVars
  <2>2. \E w \in VerdictRec : /\ w.role = "handled" /\ Handle(r, w)
                              /\ pc[r] \in {"idle", "deep"}
    BY <1>1, IngestBegins, DecoyBegins, ClosesBegins, Zenon
  <2> QED
    BY <2>1, <2>2, BeginsAudit
<1>2. CASE \E v \in env.verdicts : FlushGraphWindow(v)
  BY <1>2, FlushAudit
<1>3. CASE \E r \in Requests : \/ DeepLaneBuffers(r) \/ LogDetection(r) \/ Decide(r)
                              \/ Reject(r) \/ LogDecision(r) \/ LogEnforcement(r)
                              \/ LogRejection(r) \/ Enqueue(r)
  BY <1>3, BuffersAudit, LogDetectionAudit, DecideAudit, RejectAudit, LogDecisionAudit,
     LogEnforcementAudit, LogRejectionAudit, EnqueueAudit
<1>4. ASSUME NEW r \in Requests, LogCorrection(r)
      PROVE  AuditInv'
  <2>1. ctx[r].decision \in 1..Len(decisions)
    BY <1>4 DEF LogCorrection, At, LastInv
  <2> QED
    BY <1>4, <2>1, LogCorrectionAudit
<1>5. CASE \/ OnTopic
           \/ \E r \in Requests : Drain(r) \/ ReadAll(r) \/ Swap(r) \/ PassOver(r)
           \/ \E r \in Requests, ip \in IPs, fp \in BOOLEAN : RecordCorrection(r, ip, fp)
  BY <1>5, QuietAudit
<1>6. CASE \E r \in Requests : Explain(r) \/ Fail(r)
  BY <1>6, ExplainAudit, FailAudit
<1>7. CASE Restart
  BY <1>7, RestartAudit
<1>8. CASE UNCHANGED vars
  <2>1. UNCHANGED <<pc, ctx, verdicts, decisions, log, lost, born>>
    BY <1>8 DEF vars, coroutineVars, engineVars, faultVars
  <2>2. Grown
    BY <2>1, GrownSame DEF TypeInv
  <2>3. HandsApart' /\ DecisionsApart' /\ SnapshotsPast' /\ AllSettled'
    BY <2>1 DEF AuditInv, HandsApart, DecisionsApart, SnapshotsPast, AllSettled, InHand,
                Settled, Carried, Undecided, IsLogged, Acts
  <2>4. EntriesName' /\ AuditOrder'
    BY <2>1, <2>2, OrderSame DEF AuditInv
  <2>5. \A q \in Requests : Trail(q)'
    BY <2>1, <2>2, NothingWritten, TrailStays DEF AuditInv
  <2> QED
    BY <2>3, <2>4, <2>5 DEF AuditInv
<1> QED
  BY <1>1, <1>2, <1>3, <1>4, <1>5, <1>6, <1>7, <1>8, Zenon DEF Next

\* Who remembers what: _last_decision_id_by_ip holds the last decision on every
\* address, and a correction under way names one that exists
\* (kronus_system.py:188, 216-226).
THEOREM LastHolds == Spec => []LastInv
<1>1. Init => LastInv
  BY InitLast
<1>2. TypeInv /\ LastInv /\ [Next]_vars => LastInv'
  BY LastStep
<1> QED
  BY <1>1, <1>2, TypesHold, PTL DEF Spec

\* The inductive invariant of the audit trail: what the log has of every verdict in a
\* coroutine's hand, and of every verdict out of hand.
THEOREM AuditHolds == Spec => []AuditInv
<1>1. Init => AuditInv
  BY InitAudit
<1>2. TypeInv /\ TypeInv' /\ LastInv /\ AuditInv /\ [Next]_vars => AuditInv'
  BY AuditStep
<1> QED
  BY <1>1, <1>2, TypesHold, LastHolds, PTL DEF Spec

\* The trail reads forwards: every entry follows the one that it answers, and none is
\* there twice, whatever coroutines overlap, fail or die, for any number of them.
THEOREM AuditOrderHolds == Spec => []AuditOrder
<1>1. AuditInv => AuditOrder
  BY DEF AuditInv
<1> QED
  BY <1>1, AuditHolds, PTL

LEMMA AuditIsComplete == AuditInv => AuditComplete
<1> SUFFICES ASSUME AuditInv PROVE AuditComplete
  OBVIOUS
<1>1. ASSUME NEW v \in (1..Len(verdicts)) \ lost, verdicts[v].role = "handled", ~InHand(v)
      PROVE  /\ IsLogged("detection", v)
             /\ IsLogged("rejection", v) \/
                  \E d \in 1..Len(decisions) :
                    decisions[d].verdict = v /\ IsLogged("decision", d)
  BY <1>1 DEF AuditInv, AllSettled, Settled, Undecided, Carried
<1>2. ASSUME NEW d \in 1..Len(decisions), Acts(decisions[d]),
             ~InHand(decisions[d].verdict), decisions[d].verdict \notin lost
      PROVE  IsLogged("enforcement", d)
  <2>1. /\ decisions[d].verdict \in 1..Len(verdicts)
        /\ verdicts[decisions[d].verdict].role = "handled"
    BY DEF AuditInv, DecisionsApart
  <2> QED
    BY <1>2, <2>1 DEF AuditInv, AllSettled, Settled, Carried
<1> QED
  BY <1>1, <1>2 DEF AuditComplete

\* Nothing the system did is missing from the trail, but for what an exception or a
\* crash hit.
THEOREM AuditCompleteHolds == Spec => []AuditComplete
<1> QED
  BY AuditHolds, AuditIsComplete, PTL

LEMMA FlushEffect ==
  ASSUME TypeInv, NEW v \in env.verdicts, FlushGraphWindow(v)
  PROVE  /\ UNCHANGED decisions
         /\ \E w \in VerdictRec : /\ w.role = "flushed" /\ w.tier = "detective"
                                  /\ w.covers = buffer
                                  /\ verdicts' = Append(verdicts, w)
<1> DEFINE w == Verdict("flushed", "detective", v, FreshWindow, NoIP, buffer)
<1>1. w \in VerdictRec /\ w.role = "flushed" /\ w.tier = "detective" /\ w.covers = buffer
  <2>1. buffer \in SUBSET Events
    BY DEF TypeInv, TypeOK
  <2>2. v.label \in Labels /\ v.confidence \in 0..FullConfidence
    BY ModelVerdict DEF TypeInv
  <2>3. FreshWindow \in Windows
    BY FreshTyped DEF TypeInv
  <2> QED
    BY <2>1, <2>2, <2>3, VerdictTyped DEF Tiers
<1>2. verdicts' = Append(verdicts, w) /\ UNCHANGED decisions
  BY DEF FlushGraphWindow, engineVars
<1> HIDE DEF w
<1> QED
  BY <1>1, <1>2

LEMMA DecideRecord ==
  ASSUME TypeInv, NEW r \in Requests, Decide(r)
  PROVE  /\ UNCHANGED <<verdicts, born>>
         /\ \E d \in DecisionRec : /\ d.verdict = ctx[r].verdict /\ d.ip = Mine(r).ip
                                   /\ decisions' = Append(decisions, d)
                                   /\ last' = [last EXCEPT ![d.ip] = Len(decisions) + 1]
<1>1. PICK a \in Actions :
        /\ decisions' = Append(decisions, [verdict |-> ctx[r].verdict, ip |-> Mine(r).ip,
                                           action |-> a])
        /\ last' = [last EXCEPT ![Mine(r).ip] = Len(decisions) + 1]
  BY DecideEffect, Zenon
<1> DEFINE d == [verdict |-> ctx[r].verdict, ip |-> Mine(r).ip, action |-> a]
<1>2. d \in DecisionRec /\ d.verdict = ctx[r].verdict /\ d.ip = Mine(r).ip
  <2>1. pc[r] \in Handling
    BY DecideEffect DEF Handling
  <2> QED
    BY <2>1, HandFacts DEF DecisionRec, VerdictRec
<1>3. decisions' = Append(decisions, d)
  BY <1>1
<1> HIDE DEF d
<1> QED
  BY <1>1, <1>2, <1>3, DecideEffect DEF faultVars

\* No step takes a verdict or a decision back.
LEMMA GrownStep == TypeInv /\ [Next]_vars => Grown
<1> SUFFICES ASSUME TypeInv, [Next]_vars PROVE Grown
  OBVIOUS
<1>1. ASSUME NEW w \in VerdictRec, verdicts' = Append(verdicts, w), UNCHANGED decisions
      PROVE  Grown
  BY <1>1, NewVerdict DEF Grown, TypeInv, TypeOK
<1>2. ASSUME NEW r \in Requests,
             \/ \E e \in Events, v \in env.verdicts : IngestEvent(r, e, v)
             \/ \E ip \in IPs : HandleDecoySession(r, ip)
             \/ \E v \in env.verdicts : DeepLaneCloses(r, v)
      PROVE  Grown
  <2>1. UNCHANGED decisions
    BY <1>2 DEF IngestEvent, HandleDecoySession, DeepLaneCloses, engineVars
  <2>2. \E w \in VerdictRec : Handle(r, w)
    BY <1>2, IngestBegins, DecoyBegins, ClosesBegins, Zenon
  <2> QED
    BY <1>1, <2>1, <2>2 DEF Handle
<1>3. CASE \E v \in env.verdicts : FlushGraphWindow(v)
  BY <1>1, <1>3, FlushEffect
<1>4. CASE \E r \in Requests : Explain(r)
  <2>1. PICK r \in Requests : Explain(r)
    BY <1>4
  <2>2. UNCHANGED decisions
    BY <2>1 DEF Explain, engineVars
  <2> QED
    BY <1>1, <2>1, <2>2, ExplainEffect
<1>5. CASE \E r \in Requests : Decide(r)
  <2>1. PICK r \in Requests : Decide(r)
    BY <1>5
  <2>2. UNCHANGED verdicts /\ \E d \in DecisionRec : decisions' = Append(decisions, d)
    BY <2>1, DecideRecord
  <2> QED
    BY <2>2, NewDecision DEF Grown, TypeInv, TypeOK
<1>6. CASE \/ \E r \in Requests :
                \/ DeepLaneBuffers(r) \/ LogDetection(r) \/ Reject(r) \/ LogDecision(r)
                \/ LogEnforcement(r) \/ LogRejection(r) \/ Enqueue(r) \/ LogCorrection(r)
                \/ Drain(r) \/ ReadAll(r) \/ Swap(r) \/ PassOver(r) \/ Fail(r)
           \/ \E r \in Requests, ip \in IPs, fp \in BOOLEAN : RecordCorrection(r, ip, fp)
           \/ OnTopic \/ Restart \/ UNCHANGED vars
  <2>1. UNCHANGED <<verdicts, decisions>>
    BY <1>6, TopicFrame
    DEF DeepLaneBuffers, LogDetection, Reject, LogDecision, LogEnforcement,
        LogRejection, Enqueue, LogCorrection, Drain, ReadAll, Swap, PassOver, Fail,
        RecordCorrection, Restart, vars, engineVars
  <2> QED
    BY <2>1, GrownSame DEF TypeInv
<1> QED
  BY <1>2, <1>3, <1>4, <1>5, <1>6, Zenon DEF Next

LEMMA WindowsStep == TypeInv /\ AuditInv /\ WindowsHeld /\ [Next]_vars => WindowsHeld'
<1> SUFFICES ASSUME TypeInv, AuditInv, WindowsHeld, [Next]_vars PROVE WindowsHeld'
  OBVIOUS
<1>1. Grown
  BY GrownStep
<1>2. \A d \in 1..Len(decisions) :
        /\ decisions[d].verdict \in 1..Len(verdicts)
        /\ verdicts'[decisions[d].verdict] = verdicts[decisions[d].verdict]
  BY <1>1 DEF AuditInv, DecisionsApart, Grown
<1>3. ASSUME UNCHANGED <<decisions, resolved, born>>
      PROVE  WindowsHeld'
  BY <1>2, <1>3 DEF WindowsHeld, Acts
<1>4. CASE Restart
  <2>1. decisions' = decisions /\ born' = Len(decisions) /\ Len(decisions) \in Nat
    BY <1>4 DEF Restart, TypeInv, TypeOK
  <2>2. \A d \in 1..Len(decisions') : ~(d > born')
    BY <2>1
  <2> QED
    BY <2>2 DEF WindowsHeld
<1>5. ASSUME NEW r \in Requests, Decide(r)
      PROVE  WindowsHeld'
  <2>1. PICK n : n = Len(decisions) + 1
    OBVIOUS
  <2>2. PICK listed, tripped \in BOOLEAN :
          \E a \in Answers(PolicyInput(Mine(r), listed, tripped)) :
            /\ a.action \in Actions
            /\ decisions' = Append(decisions, [verdict |-> ctx[r].verdict,
                                               ip |-> Mine(r).ip, action |-> a.action])
            /\ resolved' = IF a.action = "dry_run" THEN resolved
                           ELSE resolved \cup {Mine(r).window}
    BY <1>5, DecideEffect, Zenon
  <2>3. PICK a \in Answers(PolicyInput(Mine(r), listed, tripped)) :
            /\ a.action \in Actions
            /\ decisions' = Append(decisions, [verdict |-> ctx[r].verdict,
                                               ip |-> Mine(r).ip, action |-> a.action])
            /\ resolved' = IF a.action = "dry_run" THEN resolved
                           ELSE resolved \cup {Mine(r).window}
    BY <2>2
  <2> DEFINE d == [verdict |-> ctx[r].verdict, ip |-> Mine(r).ip, action |-> a.action]
  <2>4. d \in DecisionRec /\ d.verdict = ctx[r].verdict /\ d.action = a.action
    <3>1. pc[r] \in Handling
      BY <1>5, DecideEffect DEF Handling
    <3> QED
      BY <2>3, <3>1, HandFacts DEF DecisionRec, VerdictRec
  <2>5. decisions' = Append(decisions, d)
    BY <2>3
  <2> HIDE DEF d
  <2>6. /\ Len(decisions) \in Nat /\ Len(decisions') = n
        /\ \A i \in 1..Len(decisions) : decisions'[i] = decisions[i]
        /\ decisions'[n] = d
    BY <2>1, <2>4, <2>5, NewDecision DEF TypeInv
  <2>7. UNCHANGED <<verdicts, born>>
    BY <1>5, DecideEffect DEF faultVars
  <2>8. \A i \in 1..Len(decisions') : i \in 1..Len(decisions) \/ i = n
    BY <2>1, <2>6
  <2>9. Acts(d) => a.action # "dry_run"
    BY <2>4 DEF Acts
  <2>10. a.action # "dry_run" => Mine(r).window \notin resolved
    <3>1. a.action # "dry_run" => PolicyInput(Mine(r), listed, tripped).prior_action = NoAction
      BY ActingAnswer
    <3>2. Mine(r).window \in resolved =>
            PolicyInput(Mine(r), listed, tripped).prior_action = "acted"
      BY DEF PolicyInput
    <3> QED
      BY <3>1, <3>2 DEF NoAction
  <2>11. resolved \subseteq resolved' /\ (a.action # "dry_run" => Mine(r).window \in resolved')
    BY <2>3
  <2>12. verdicts'[decisions'[n].verdict].window = Mine(r).window
    BY <2>4, <2>6, <2>7 DEF Mine
  <2>13. ASSUME NEW i \in 1..Len(decisions'), i > born', Acts(decisions'[i])
         PROVE  /\ verdicts'[decisions'[i].verdict].window \in resolved'
                /\ i # n => /\ i \in 1..Len(decisions)
                            /\ verdicts'[decisions'[i].verdict].window \in resolved
    <3>1. CASE i = n
      BY <2>6, <2>9, <2>11, <2>12, <2>13, <3>1
    <3>2. CASE i \in 1..Len(decisions)
      BY <2>6, <2>7, <2>11, <2>13, <3>2 DEF WindowsHeld
    <3> QED
      BY <2>8, <3>1, <3>2
  <2>14. Acts(decisions'[n]) => verdicts'[decisions'[n].verdict].window \notin resolved
    BY <2>6, <2>9, <2>10, <2>12
  <2>15. ASSUME NEW i \in 1..Len(decisions), NEW j \in 1..Len(decisions),
                i > born', Acts(decisions'[i]), j > born', Acts(decisions'[j]),
                verdicts'[decisions'[i].verdict].window = verdicts'[decisions'[j].verdict].window
         PROVE  i = j
    BY <2>6, <2>7, <2>15 DEF WindowsHeld
  <2> QED
    BY <2>8, <2>13, <2>14, <2>15 DEF WindowsHeld
<1>6. CASE \E r \in Requests : Decide(r)
  BY <1>5, <1>6
<1>7. CASE \/ \E r \in Requests :
                \/ DeepLaneBuffers(r) \/ LogDetection(r) \/ Reject(r) \/ LogDecision(r)
                \/ LogEnforcement(r) \/ LogRejection(r) \/ Enqueue(r) \/ LogCorrection(r)
                \/ Drain(r) \/ ReadAll(r) \/ Swap(r) \/ Explain(r) \/ PassOver(r) \/ Fail(r)
                \/ \E e \in Events, v \in env.verdicts : IngestEvent(r, e, v)
                \/ \E ip \in IPs : HandleDecoySession(r, ip)
                \/ \E v \in env.verdicts : DeepLaneCloses(r, v)
                \/ \E ip \in IPs, fp \in BOOLEAN : RecordCorrection(r, ip, fp)
           \/ \E v \in env.verdicts : FlushGraphWindow(v)
           \/ OnTopic \/ UNCHANGED vars
  <2>1. UNCHANGED <<decisions, resolved, born>>
    <3>1. ASSUME NEW r \in Requests,
                 \/ DeepLaneBuffers(r) \/ LogDetection(r) \/ Reject(r) \/ LogDecision(r)
                 \/ LogEnforcement(r) \/ LogRejection(r) \/ Enqueue(r) \/ LogCorrection(r)
          PROVE  UNCHANGED <<decisions, resolved, born>>
      BY <3>1
      DEF DeepLaneBuffers, LogDetection, Reject, LogDecision, LogEnforcement,
          LogRejection, Enqueue, LogCorrection, engineVars, faultVars
    <3>2. ASSUME NEW r \in Requests,
                 \/ Drain(r) \/ ReadAll(r) \/ Swap(r) \/ Explain(r) \/ PassOver(r) \/ Fail(r)
          PROVE  UNCHANGED <<decisions, resolved, born>>
      BY <3>2 DEF Drain, ReadAll, Swap, Explain, PassOver, Fail, engineVars, faultVars
    <3>3. ASSUME NEW r \in Requests,
                 \/ \E e \in Events, v \in env.verdicts : IngestEvent(r, e, v)
                 \/ \E ip \in IPs : HandleDecoySession(r, ip)
                 \/ \E v \in env.verdicts : DeepLaneCloses(r, v)
                 \/ \E ip \in IPs, fp \in BOOLEAN : RecordCorrection(r, ip, fp)
          PROVE  UNCHANGED <<decisions, resolved, born>>
      BY <3>3 DEF IngestEvent, HandleDecoySession, DeepLaneCloses, RecordCorrection,
                  engineVars, faultVars
    <3>4. CASE \E v \in env.verdicts : FlushGraphWindow(v)
      BY <3>4 DEF FlushGraphWindow, engineVars, faultVars
    <3>5. CASE OnTopic
      BY <3>5, TopicFrame
    <3>6. CASE UNCHANGED vars
      BY <3>6 DEF vars, engineVars, faultVars
    <3> QED
      BY <1>7, <3>1, <3>2, <3>3, <3>4, <3>5, <3>6
  <2> QED
    BY <1>3, <2>1
<1> QED
  BY <1>4, <1>6, <1>7, Zenon DEF Next

LEMMA EnforcedByWindow == AuditInv /\ WindowsHeld => EnforcedOnce
<1> SUFFICES ASSUME AuditInv, WindowsHeld, NEW i \in 1..Len(log), NEW j \in 1..Len(log),
                    log[i].type = "enforcement", log[i].ref > born,
                    log[j].type = "enforcement", log[j].ref > born,
                    verdicts[decisions[log[i].ref].verdict].window
                      = verdicts[decisions[log[j].ref].verdict].window
             PROVE  i = j
  BY DEF EnforcedOnce
<1>1. /\ log[i].ref \in 1..Len(decisions) /\ Acts(decisions[log[i].ref])
      /\ log[j].ref \in 1..Len(decisions) /\ Acts(decisions[log[j].ref])
  BY DEF AuditInv, EntriesName, AuditOrder
<1>2. log[i].ref = log[j].ref
  BY <1>1 DEF WindowsHeld
<1>3. ASSUME NEW a \in 1..Len(log), NEW b \in 1..Len(log), a < b,
             log[a].type = "enforcement", log[b].type = "enforcement", log[a].ref = log[b].ref
      PROVE  FALSE
  <2>1. a \in 1..(b - 1)
    BY <1>3
  <2> QED
    BY <1>3, <2>1 DEF AuditInv, AuditOrder, LoggedBefore
<1>4. i < j \/ j < i \/ i = j
  OBVIOUS
<1> QED
  BY <1>2, <1>3, <1>4

\* One process enforces on a window at most once, however its coroutines overlap: what
\* decide() does between its read of the correlator and its record there is one step.
THEOREM EnforcedOnceHolds == Spec => []EnforcedOnce
<1>1. Init => WindowsHeld
  BY DEF Init, WindowsHeld
<1> QED
  BY <1>1, AuditHolds, TypesHold, WindowsStep, EnforcedByWindow, PTL DEF Spec

-----------------------------------------------------------------------------
(* Both lanes are fed *)

\* Who is in hand after a step of coroutine r.
LEMMA HandsAfter ==
  ASSUME TypeInv, NEW r \in Requests, NEW p \in Places, NEW c \in LocalRec, Moves(r, p, c)
  PROVE  /\ InHand(c.verdict)'
         /\ \A v : InHand(v) => InHand(v)' \/ v = ctx[r].verdict
<1>1. /\ ctx'[r] = c
      /\ \A q \in Requests \ {r} : ctx'[q] = ctx[q]
  BY MoveEffect DEF TypeInv
<1> QED
  BY <1>1 DEF InHand

LEMMA FedStep ==
  ASSUME TypeInv, Grown, BothLanesFed, lost \subseteq lost',
         \A v \in 1..Len(verdicts') :
           v > Len(verdicts) /\ verdicts'[v].tier = "bouncer" /\ verdicts'[v].role = "handled"
             => InHand(v)',
         \A v \in 1..Len(verdicts) :
           verdicts[v].tier = "bouncer" /\ InHand(v) =>
             InHand(v)' \/ v \in lost' \/ verdicts[v].window \in buffer',
         \A v \in 1..Len(verdicts) : verdicts[v].window \in buffer =>
           \/ v \in lost'
           \/ verdicts[v].window \in buffer'
           \/ \E u \in 1..Len(verdicts') :
                u > Len(verdicts) /\ verdicts'[u].tier = "detective"
                /\ verdicts[v].window \in verdicts'[u].covers
  PROVE  BothLanesFed'
<1>1. Len(verdicts) \in Nat /\ Len(verdicts') \in Nat /\ Len(verdicts) <= Len(verdicts')
  BY DEF Grown, TypeInv, TypeOK
<1> SUFFICES ASSUME NEW v \in 1..Len(verdicts'), v \notin lost',
                    verdicts'[v].tier = "bouncer", verdicts'[v].role = "handled"
             PROVE  \/ InHand(v)'
                    \/ verdicts'[v].window \in buffer'
                    \/ \E u \in (v + 1)..Len(verdicts') :
                         verdicts'[u].tier = "detective"
                         /\ verdicts'[v].window \in verdicts'[u].covers
  BY DEF BothLanesFed
<1>2. CASE v > Len(verdicts)
  BY <1>2
<1>3. CASE ~(v > Len(verdicts))
  <2>1. v \in 1..Len(verdicts) /\ verdicts'[v] = verdicts[v] /\ v \notin lost
    BY <1>1, <1>3 DEF Grown
  <2>2. CASE InHand(v)
    BY <2>1, <2>2
  <2>3. CASE verdicts[v].window \in buffer
    <3>1. CASE verdicts[v].window \in buffer'
      BY <2>1, <3>1
    <3>2. CASE \E u \in 1..Len(verdicts') :
                 u > Len(verdicts) /\ verdicts'[u].tier = "detective"
                 /\ verdicts[v].window \in verdicts'[u].covers
      <4>1. PICK u \in 1..Len(verdicts') :
                   u > Len(verdicts) /\ verdicts'[u].tier = "detective"
                   /\ verdicts[v].window \in verdicts'[u].covers
        BY <3>2
      <4>2. u \in (v + 1)..Len(verdicts')
        BY <1>1, <2>1, <4>1
      <4> QED
        BY <2>1, <4>1, <4>2
    <3> QED
      BY <2>1, <2>3, <3>1, <3>2
  <2>4. CASE \E u \in (v + 1)..Len(verdicts) :
               verdicts[u].tier = "detective" /\ verdicts[v].window \in verdicts[u].covers
    <3>1. PICK u \in (v + 1)..Len(verdicts) :
               verdicts[u].tier = "detective" /\ verdicts[v].window \in verdicts[u].covers
      BY <2>4
    <3>2. u \in (v + 1)..Len(verdicts') /\ u \in 1..Len(verdicts)
      BY <1>1, <2>1, <3>1
    <3>3. verdicts'[u] = verdicts[u]
      BY <3>2 DEF Grown
    <3> QED
      BY <2>1, <3>1, <3>2, <3>3
  <2> QED
    BY <2>1, <2>2, <2>3, <2>4 DEF BothLanesFed
<1> QED
  BY <1>2, <1>3

\* A verdict that is begun is in hand.
LEMMA BeginsFed ==
  ASSUME TypeInv, AuditInv, BothLanesFed, Grown, UNCHANGED lost,
         NEW r \in Requests, NEW w \in VerdictRec, Handle(r, w),
         \/ pc[r] = "idle" /\ buffer' = buffer
         \/ pc[r] = "deep" /\ w.tier = "detective" /\ w.covers = buffer
            /\ Mine(r).window \in buffer'
  PROVE  BothLanesFed'
<1> DEFINE c == [Idle EXCEPT !.verdict = Len(verdicts) + 1]
<1>1. /\ Moves(r, "detection", c) /\ c \in LocalRec /\ c.verdict = Len(verdicts) + 1
      /\ verdicts' = Append(verdicts, w)
  BY HandleEffect DEF TypeInv
<1> HIDE DEF c
<1>2. /\ Len(verdicts) \in Nat /\ Len(verdicts') = Len(verdicts) + 1
      /\ verdicts'[Len(verdicts) + 1] = w
  BY <1>1, NewVerdict DEF TypeInv
<1>3. PICK n : n = Len(verdicts) + 1
  OBVIOUS
<1>4. InHand(n)' /\ \A v : InHand(v) => InHand(v)' \/ v = ctx[r].verdict
  <2>1. "detection" \in Places
    BY DEF Places, Handling
  <2>2. ctx'[r] = c
    BY <1>1, <2>1, MoveEffect DEF TypeInv
  <2> QED
    BY <1>1, <1>3, <2>1, <2>2, HandsAfter DEF InHand
<1>5. \A v \in 1..Len(verdicts') : v > Len(verdicts) => InHand(v)'
  <2>1. \A v \in 1..Len(verdicts') : v > Len(verdicts) => v = n
    BY <1>2, <1>3
  <2> QED
    BY <1>4, <2>1
<1>6. CASE pc[r] = "idle" /\ buffer' = buffer
  <2>1. ctx[r].verdict = 0
    BY <1>6 DEF AuditInv, HandsApart, Handling
  <2> QED
    BY <1>4, <1>5, <1>6, <2>1, FedStep
<1>7. CASE pc[r] = "deep" /\ w.tier = "detective" /\ w.covers = buffer
           /\ Mine(r).window \in buffer'
  <2>1. n \in 1..Len(verdicts') /\ n > Len(verdicts) /\ verdicts'[n] = w
    BY <1>2, <1>3
  <2>2. ASSUME NEW v \in 1..Len(verdicts), InHand(v)
        PROVE  InHand(v)' \/ verdicts[v].window \in buffer'
    BY <1>4, <1>7, <2>2 DEF Mine
  <2>3. ASSUME NEW v \in 1..Len(verdicts), verdicts[v].window \in buffer
        PROVE  \E u \in 1..Len(verdicts') :
                u > Len(verdicts) /\ verdicts'[u].tier = "detective"
                /\ verdicts[v].window \in verdicts'[u].covers
    BY <1>7, <2>1, <2>3
  <2> QED
    BY <1>5, <2>2, <2>3, FedStep
<1> QED
  BY <1>6, <1>7

\* A step that begins no verdict and leaves the window open: what goes out of hand is
\* in the window, is not the fast lane's, or was hit.
LEMMA MovesFed ==
  ASSUME TypeInv, BothLanesFed, Grown, lost \subseteq lost', UNCHANGED verdicts,
         buffer \subseteq buffer',
         NEW r \in Requests, NEW p \in Places, NEW c \in LocalRec, Moves(r, p, c),
         \/ c.verdict = ctx[r].verdict
         \/ ctx[r].verdict \notin 1..Len(verdicts)
         \/ ctx[r].verdict \in lost'
         \/ Mine(r).tier # "bouncer"
         \/ Mine(r).window \in buffer'
  PROVE  BothLanesFed'
<1>1. \A v \in 1..Len(verdicts') : ~(v > Len(verdicts))
  BY DEF TypeInv, TypeOK
<1>2. ASSUME NEW v \in 1..Len(verdicts), verdicts[v].tier = "bouncer", InHand(v)
      PROVE  InHand(v)' \/ v \in lost' \/ verdicts[v].window \in buffer'
  <2>1. CASE v = ctx[r].verdict
    <3>1. ctx'[r] = c
      BY MoveEffect DEF TypeInv
    <3> QED
      BY <1>2, <2>1, <3>1 DEF InHand, Mine
  <2>2. CASE v # ctx[r].verdict
    BY <1>2, <2>2, HandsAfter
  <2> QED
    BY <2>1, <2>2
<1> QED
  BY <1>1, <1>2, FedStep

LEMMA FedNext ==
  TypeInv /\ AuditInv /\ BothLanesFed /\ [Next]_vars => BothLanesFed'
<1> SUFFICES ASSUME TypeInv, AuditInv, BothLanesFed, [Next]_vars PROVE BothLanesFed'
  OBVIOUS
<1>1. Grown
  BY GrownStep
<1>2. ASSUME NEW r \in Requests,
             \/ \E e \in Events, v \in env.verdicts : IngestEvent(r, e, v)
             \/ \E ip \in IPs : HandleDecoySession(r, ip)
      PROVE  BothLanesFed'
  <2>1. UNCHANGED <<buffer, lost>>
    BY <1>2 DEF IngestEvent, HandleDecoySession, faultVars
  <2>2. \E w \in VerdictRec : Handle(r, w) /\ pc[r] = "idle"
    BY <1>2, IngestBegins, DecoyBegins, Zenon
  <2> QED
    BY <1>1, <2>1, <2>2, BeginsFed
<1>3. ASSUME NEW r \in Requests, NEW v \in env.verdicts, DeepLaneCloses(r, v)
      PROVE  BothLanesFed'
  <2>1. UNCHANGED lost /\ Mine(r).window \in buffer'
    BY <1>3 DEF DeepLaneCloses, faultVars
  <2>2. PICK w \in VerdictRec : /\ w.tier = "detective" /\ w.covers = buffer
                                /\ Handle(r, w) /\ pc[r] = "deep"
    BY <1>3, ClosesBegins
  <2> QED
    BY <1>1, <2>1, <2>2, BeginsFed
<1>4. ASSUME NEW v \in env.verdicts, FlushGraphWindow(v)
      PROVE  BothLanesFed'
  <2>1. PICK w \in VerdictRec : /\ w.role = "flushed" /\ w.tier = "detective"
                                /\ w.covers = buffer /\ verdicts' = Append(verdicts, w)
    BY <1>4, FlushEffect
  <2>2. /\ Len(verdicts) \in Nat /\ Len(verdicts') = Len(verdicts) + 1
        /\ verdicts'[Len(verdicts) + 1] = w
    BY <2>1, NewVerdict DEF TypeInv
  <2>3. PICK n : n = Len(verdicts) + 1
    OBVIOUS
  <2>4. /\ n \in 1..Len(verdicts') /\ n > Len(verdicts) /\ verdicts'[n] = w
        /\ \A u \in 1..Len(verdicts') : u > Len(verdicts) => u = n
    BY <2>2, <2>3
  <2>5. UNCHANGED <<ctx, lost>>
    BY <1>4 DEF FlushGraphWindow, coroutineVars, faultVars
  <2>6. \A u : InHand(u)' <=> InHand(u)
    BY <2>5 DEF InHand
  <2> QED
    BY <1>1, <2>1, <2>4, <2>5, <2>6, FedStep
<1>5. ASSUME NEW r \in Requests, DeepLaneBuffers(r)
      PROVE  BothLanesFed'
  <2>1. /\ Moves(r, "idle", Idle) /\ UNCHANGED <<verdicts, lost>>
        /\ buffer \subseteq buffer' /\ Mine(r).window \in buffer'
    BY <1>5, FinishMoves DEF DeepLaneBuffers, faultVars
  <2> QED
    BY <1>1, <2>1, IdleTyped, MovesFed DEF Places
<1>6. ASSUME NEW r \in Requests, Fail(r)
      PROVE  BothLanesFed'
  <2>1. /\ Moves(r, "idle", Idle) /\ UNCHANGED <<verdicts, buffer>>
        /\ ctx[r].verdict \in lost' /\ lost \subseteq lost'
    BY <1>6, FinishMoves DEF Fail
  <2> QED
    BY <1>1, <2>1, IdleTyped, MovesFed DEF Places
<1>7. ASSUME NEW r \in Requests,
             \/ LogDetection(r) \/ Reject(r) \/ LogDecision(r) \/ LogEnforcement(r)
             \/ Decide(r) \/ LogRejection(r) \/ Enqueue(r)
      PROVE  BothLanesFed'
  <2>1. UNCHANGED <<verdicts, buffer, lost>>
    BY <1>7 DEF LogDetection, Reject, LogDecision, LogEnforcement, Decide, LogRejection,
                Enqueue, faultVars
  <2>2. ctx[r] \in LocalRec /\ pc[r] \in Handling
    BY <1>7, HandFacts DEF LogDetection, Reject, LogDecision, LogEnforcement, Decide,
                           LogRejection, Enqueue, At, Handling
  <2>3. CASE LogDetection(r) \/ Reject(r) \/ LogDecision(r) \/ LogEnforcement(r)
    <3>1. \E p \in Places : Moves(r, p, ctx[r])
      BY <2>3, GotoMoves DEF LogDetection, Reject, LogDecision, LogEnforcement,
                             AfterDecision, TypeInv, Places, Handling
    <3> QED
      BY <1>1, <2>1, <2>2, <3>1, MovesFed
  <2>4. CASE Decide(r)
    <3> DEFINE c == [ctx[r] EXCEPT !.decision = Len(decisions) + 1]
    <3>1. Moves(r, "decision", c) /\ c \in LocalRec /\ c.verdict = ctx[r].verdict
      BY <2>4, DecideEffect
    <3> HIDE DEF c
    <3> QED
      BY <1>1, <2>1, <3>1, MovesFed DEF Places, Handling
  <2>5. CASE LogRejection(r) \/ Enqueue(r)
    <3>1. Return(r)
      BY <2>5 DEF LogRejection, Enqueue
    <3>2. \/ Moves(r, "deep", ctx[r])
          \/ Moves(r, "idle", Idle) /\ Mine(r).tier # "bouncer"
      BY <2>2, <3>1, ReturnMoves
    <3> QED
      BY <1>1, <2>1, <2>2, <3>2, IdleTyped, MovesFed DEF Places, Handling
  <2> QED
    BY <1>7, <2>3, <2>4, <2>5
<1>8. ASSUME NEW r \in Requests, \/ LogCorrection(r) \/ PassOver(r) \/ Drain(r) \/ ReadAll(r)
                                 \/ Swap(r)
      PROVE  BothLanesFed'
  <2>1. UNCHANGED <<verdicts, buffer, lost>>
    BY <1>8 DEF LogCorrection, PassOver, Drain, ReadAll, Swap, faultVars
  <2>2. pc[r] \notin Handling
    BY <1>8 DEF LogCorrection, PassOver, Drain, ReadAll, Swap, At, Handling
  <2>3. ctx[r].verdict \notin 1..Len(verdicts)
    BY <2>2 DEF AuditInv, HandsApart
  <2>4. \E p \in Places, c \in LocalRec : Moves(r, p, c)
    BY <1>8, ActionMoves
  <2> QED
    BY <1>1, <2>1, <2>3, <2>4, MovesFed
<1>9. ASSUME NEW r \in Requests, NEW ip \in IPs, NEW fp \in BOOLEAN,
             RecordCorrection(r, ip, fp)
      PROVE  BothLanesFed'
  <2>1. UNCHANGED <<verdicts, buffer, lost>> /\ pc[r] \notin Handling
    BY <1>9 DEF RecordCorrection, At, Handling, faultVars
  <2>2. ctx[r].verdict \notin 1..Len(verdicts)
    BY <2>1 DEF AuditInv, HandsApart
  <2> DEFINE c == [Idle EXCEPT !.decision = last[ip]]
  <2>3. Moves(r, "correction", c) /\ c \in LocalRec
    BY <1>9, IdleTyped DEF RecordCorrection, Moves, Goto, TypeInv, TypeOK
  <2> HIDE DEF c
  <2> QED
    BY <1>1, <2>1, <2>2, <2>3, MovesFed DEF Places
<1>10. ASSUME NEW r \in Requests, Explain(r)
      PROVE  BothLanesFed'
  <2>1. UNCHANGED <<buffer, lost>> /\ pc[r] \notin Handling
    BY <1>10 DEF Explain, At, Handling, faultVars
  <2>2. ctx[r].verdict = 0
    BY <2>1 DEF AuditInv, HandsApart
  <2>3. PICK w \in VerdictRec : w.role = "rebuilt" /\ verdicts' = Append(verdicts, w)
    BY <1>10, ExplainEffect
  <2>4. /\ Len(verdicts) \in Nat /\ Len(verdicts') = Len(verdicts) + 1
        /\ verdicts'[Len(verdicts) + 1] = w
    BY <2>3, NewVerdict DEF TypeInv
  <2>5. \A v \in 1..Len(verdicts') : v > Len(verdicts) => verdicts'[v].role = "rebuilt"
    <3>1. \A v \in 1..Len(verdicts') : v > Len(verdicts) => v = Len(verdicts) + 1
      BY <2>4
    <3> QED
      BY <2>3, <2>4, <3>1
  <2>6. \E p \in Places, c \in LocalRec : Moves(r, p, c)
    BY <1>10, ActionMoves
  <2>7. \A v \in 1..Len(verdicts) : InHand(v) => InHand(v)'
    BY <2>2, <2>6, HandsAfter
  <2> QED
    BY <1>1, <2>1, <2>5, <2>7, FedStep
<1>11. CASE Restart
  <2>1. /\ UNCHANGED verdicts /\ lost \subseteq lost'
        /\ \A q \in Requests : ctx[q].verdict \in lost'
        /\ \A v \in 1..Len(verdicts) : verdicts[v].window \in buffer => v \in lost'
    BY <1>11 DEF Restart
  <2>2. \A v \in 1..Len(verdicts') : ~(v > Len(verdicts))
    BY <2>1 DEF TypeInv, TypeOK
  <2>3. \A v \in 1..Len(verdicts) : InHand(v) => v \in lost'
    BY <2>1 DEF InHand
  <2> QED
    BY <1>1, <2>1, <2>2, <2>3, FedStep
<1>12. CASE OnTopic \/ UNCHANGED vars
  <2>1. UNCHANGED <<verdicts, buffer, lost, ctx>>
    BY <1>12, TopicFrame DEF vars, coroutineVars, faultVars
  <2> QED
    BY <2>1 DEF BothLanesFed, InHand
<1> QED
  BY <1>2, <1>3, <1>4, <1>5, <1>6, <1>7, <1>8, <1>9, <1>10, <1>11, <1>12, Zenon DEF Next

\* Both lanes have every event, whoever overlaps and whatever is raised between the two,
\* but for those a failure hit (kronus_system.py:107).
THEOREM BothLanesFedHolds == Spec => []BothLanesFed
<1>1. Init => BothLanesFed
  BY DEF Init, BothLanesFed
<1> QED
  BY <1>1, AuditHolds, TypesHold, FedNext, PTL DEF Spec

-----------------------------------------------------------------------------
(* On the local back ends *)

\* No later decision is on the address of decision d.
Latest(d) == \A c \in 1..Len(decisions) : c > d => decisions[c].ip # decisions[d].ip

\* One coroutine at a time is past its first step, so no decision comes between a
\* decision and its entry, nor between a correction and its own; the log has the
\* decisions in the order they were made.
LocalInv == ~env.interleaved =>
  /\ \A q, r \in Requests : Holding(q) /\ Holding(r) => q = r
  /\ \A r \in Requests : pc[r] = "decision" => ctx[r].decision = Len(decisions)
  /\ \A r \in Requests : pc[r] = "correction" => Latest(ctx[r].decision)
  /\ \A i, j \in 1..Len(log) :
       /\ i < j /\ log[i].type = "decision" /\ log[j].type = "decision"
       => log[i].ref < log[j].ref

LEMMA LostGrows == [Next]_vars => lost \subseteq lost'
BY TopicFrame DEF Next, IngestEvent, HandleDecoySession, DeepLaneBuffers, DeepLaneCloses,
       FlushGraphWindow, LogDetection, Decide, Reject, LogDecision, LogEnforcement,
       LogRejection, Enqueue, RecordCorrection, LogCorrection, Drain, ReadAll, Swap,
       Explain, PassOver, Fail, Restart, vars, faultVars

LEMMA EnvKept == [Next]_vars => env' = env
BY TopicFrame DEF Next, IngestEvent, HandleDecoySession, DeepLaneBuffers, DeepLaneCloses,
       FlushGraphWindow, LogDetection, Decide, Reject, LogDecision, LogEnforcement,
       LogRejection, Enqueue, RecordCorrection, LogCorrection, Drain, ReadAll, Swap,
       Explain, PassOver, Fail, Restart, vars

\* What a step may write.
LEMMA LogStep ==
  ASSUME TypeInv, [Next]_vars
  PROVE  \/ UNCHANGED log
         \/ \E r \in Requests, e \in EntryRec :
              /\ Logged(e)
              /\ e.type = "detection" => LogDetection(r) /\ e = Entry("detection", ctx[r].verdict)
              /\ e.type = "decision" => LogDecision(r) /\ e.ref = ctx[r].decision
              /\ e.type = "correction" => LogCorrection(r) /\ e.ref = ctx[r].decision
              /\ e.type = "rejection" => LogRejection(r) /\ e.ref = ctx[r].verdict
              /\ e.type = "explanation" => Explain(r) /\ e.about = Head(ctx[r].todo)
<1> DEFINE G == \E r \in Requests, e \in EntryRec :
              /\ Logged(e)
              /\ e.type = "detection" => LogDetection(r) /\ e = Entry("detection", ctx[r].verdict)
              /\ e.type = "decision" => LogDecision(r) /\ e.ref = ctx[r].decision
              /\ e.type = "correction" => LogCorrection(r) /\ e.ref = ctx[r].decision
              /\ e.type = "rejection" => LogRejection(r) /\ e.ref = ctx[r].verdict
              /\ e.type = "explanation" => Explain(r) /\ e.about = Head(ctx[r].todo)
<1>1. ASSUME NEW r \in Requests, LogDetection(r) PROVE G
  <2> DEFINE e == Entry("detection", ctx[r].verdict)
  <2>1. e \in EntryRec /\ e.type = "detection"
    BY HandFacts, EntryTyped DEF Entry
  <2>2. Logged(e)
    BY <1>1 DEF LogDetection
  <2>3. e = Entry("detection", ctx[r].verdict)
    OBVIOUS
  <2> HIDE DEF e
  <2> QED
    BY <1>1, <2>1, <2>2, <2>3
<1>2. ASSUME NEW r \in Requests, LogDecision(r) PROVE G
  <2> DEFINE e == Entry("decision", ctx[r].decision)
  <2>1. e \in EntryRec /\ e.type = "decision" /\ e.ref = ctx[r].decision
    BY HandFacts, EntryTyped DEF Entry
  <2>2. Logged(e)
    BY <1>2 DEF LogDecision
  <2> HIDE DEF e
  <2> QED
    BY <1>2, <2>1, <2>2
<1>3. ASSUME NEW r \in Requests, LogEnforcement(r) PROVE G
  <2> DEFINE e == Entry("enforcement", ctx[r].decision)
  <2>1. e \in EntryRec /\ e.type = "enforcement"
    BY HandFacts, EntryTyped DEF Entry
  <2>2. Logged(e)
    BY <1>3 DEF LogEnforcement
  <2> HIDE DEF e
  <2> QED
    BY <1>3, <2>1, <2>2
<1>4. ASSUME NEW r \in Requests, LogRejection(r) PROVE G
  <2> DEFINE e == Entry("rejection", ctx[r].verdict)
  <2>1. e \in EntryRec /\ e.type = "rejection" /\ e.ref = ctx[r].verdict
    BY HandFacts, EntryTyped DEF Entry
  <2>2. Logged(e)
    BY <1>4 DEF LogRejection
  <2> HIDE DEF e
  <2> QED
    BY <1>4, <2>1, <2>2
<1>5. ASSUME NEW r \in Requests, LogCorrection(r) PROVE G
  <2> DEFINE e == Entry("correction", ctx[r].decision)
  <2>1. e \in EntryRec /\ e.type = "correction" /\ e.ref = ctx[r].decision
    BY HandFacts, EntryTyped DEF Entry
  <2>2. Logged(e)
    BY <1>5 DEF LogCorrection
  <2> HIDE DEF e
  <2> QED
    BY <1>5, <2>1, <2>2
<1>6. ASSUME NEW r \in Requests, Explain(r) PROVE G
  <2>1. PICK e \in EntryRec : /\ e.type = "explanation" /\ e.about = Head(ctx[r].todo)
                              /\ Logged(e)
    BY <1>6, ExplainEffect
  <2> QED
    BY <1>6, <2>1
<1>7. ASSUME \/ \E r \in Requests :
                  \/ DeepLaneBuffers(r) \/ Decide(r) \/ Reject(r) \/ Enqueue(r) \/ Drain(r)
                  \/ ReadAll(r) \/ Swap(r) \/ PassOver(r) \/ Fail(r)
                  \/ \E e \in Events, v \in env.verdicts : IngestEvent(r, e, v)
                  \/ \E ip \in IPs : HandleDecoySession(r, ip)
                  \/ \E v \in env.verdicts : DeepLaneCloses(r, v)
                  \/ \E ip \in IPs, fp \in BOOLEAN : RecordCorrection(r, ip, fp)
             \/ \E v \in env.verdicts : FlushGraphWindow(v)
             \/ OnTopic \/ Restart \/ UNCHANGED vars
      PROVE  UNCHANGED log
  BY <1>7, TopicFrame
  DEF DeepLaneBuffers, Decide, Reject, Enqueue, Drain, ReadAll, Swap, PassOver, Fail,
      IngestEvent, HandleDecoySession, DeepLaneCloses, RecordCorrection, FlushGraphWindow,
      Restart, vars
<1> HIDE DEF G
<1>8. G \/ UNCHANGED log
  BY <1>1, <1>2, <1>3, <1>4, <1>5, <1>6, <1>7, Zenon DEF Next
<1> QED
  BY <1>8 DEF G

\* Who moves in a step, and when: a coroutine at its turn, all of them as they die, or
\* none.
LEMMA WhoMoves ==
  ASSUME TypeInv, [Next]_vars
  PROVE  \/ UNCHANGED <<pc, ctx>> /\ UNCHANGED decisions
         \/ /\ \A q \in Requests : pc'[q] = "idle" /\ ctx'[q] = Idle
            /\ UNCHANGED decisions
         \/ \E r \in Requests, p \in Places, c \in LocalRec :
              /\ Turn(r) /\ Moves(r, p, c)
              /\ p = "decision" <=> Decide(r)
              /\ p = "correction" => /\ UNCHANGED decisions
                                     /\ \E ip \in IPs : last[ip] # 0 /\ c.decision = last[ip]
              /\ ~Decide(r) => UNCHANGED decisions
<1>1. ASSUME NEW r \in Requests,
             \/ \E w : Handle(r, w) /\ Turn(r)
             \/ DeepLaneBuffers(r) \/ LogDetection(r) \/ Reject(r) \/ LogDecision(r)
             \/ LogEnforcement(r) \/ LogRejection(r) \/ Enqueue(r) \/ LogCorrection(r)
             \/ Drain(r) \/ ReadAll(r) \/ Swap(r) \/ Explain(r) \/ PassOver(r) \/ Fail(r),
             UNCHANGED decisions
      PROVE  \E p \in Places, c \in LocalRec :
              /\ Turn(r) /\ Moves(r, p, c)
              /\ p = "decision" <=> Decide(r)
              /\ p # "correction" /\ UNCHANGED decisions
  <2>1. PICK p \in Places \ {"correction"}, c \in LocalRec :
           Moves(r, p, c) /\ (p = "decision" => Decide(r))
    BY <1>1, ActionMoves
  <2>2. Turn(r)
    BY <1>1 DEF DeepLaneBuffers, LogDetection, Reject, LogDecision, LogEnforcement,
                LogRejection, Enqueue, LogCorrection, Drain, ReadAll, Swap, Explain, PassOver,
                Fail, At
  <2>3. ~Decide(r)
    <3>1. ASSUME Decide(r) PROVE FALSE
      <4>1. \E d \in DecisionRec : decisions' = Append(decisions, d)
        BY <3>1, DecideRecord
      <4>2. Len(decisions) \in Nat /\ Len(decisions') = Len(decisions) + 1
        BY <4>1, NewDecision DEF TypeInv
      <4> QED
        BY <1>1, <4>2
    <3> QED
      BY <3>1
  <2> QED
    BY <1>1, <2>1, <2>2, <2>3
<1>2. ASSUME NEW r \in Requests,
             \/ \E e \in Events, v \in env.verdicts : IngestEvent(r, e, v)
             \/ \E ip \in IPs : HandleDecoySession(r, ip)
             \/ \E v \in env.verdicts : DeepLaneCloses(r, v)
      PROVE  (\E w : Handle(r, w) /\ Turn(r)) /\ UNCHANGED decisions
  BY <1>2 DEF IngestEvent, HandleDecoySession, DeepLaneCloses, At, engineVars
<1>3. ASSUME NEW r \in Requests,
             \/ DeepLaneBuffers(r) \/ LogDetection(r) \/ Reject(r) \/ LogDecision(r)
             \/ LogEnforcement(r) \/ LogRejection(r) \/ Enqueue(r) \/ LogCorrection(r)
             \/ Drain(r) \/ ReadAll(r) \/ Swap(r) \/ Explain(r) \/ PassOver(r) \/ Fail(r)
      PROVE  UNCHANGED decisions
  BY <1>3 DEF DeepLaneBuffers, LogDetection, Reject, LogDecision, LogEnforcement,
              LogRejection, Enqueue, LogCorrection, Drain, ReadAll, Swap, Explain, PassOver,
              Fail, engineVars
<1>4. ASSUME NEW r \in Requests, Decide(r)
      PROVE  \E p \in Places, c \in LocalRec :
              Turn(r) /\ Moves(r, p, c) /\ p = "decision"
  <2> DEFINE c == [ctx[r] EXCEPT !.decision = Len(decisions) + 1]
  <2>1. Moves(r, "decision", c) /\ c \in LocalRec
    BY <1>4, DecideEffect
  <2>2. Turn(r)
    BY <1>4 DEF Decide, At
  <2> HIDE DEF c
  <2> QED
    BY <2>1, <2>2 DEF Places, Handling
<1>5. ASSUME NEW r \in Requests, NEW ip \in IPs, NEW fp \in BOOLEAN,
             RecordCorrection(r, ip, fp)
      PROVE  \E p \in Places, c \in LocalRec :
              /\ Turn(r) /\ Moves(r, p, c) /\ p = "correction"
              /\ ~Decide(r) /\ UNCHANGED decisions
              /\ last[ip] # 0 /\ c.decision = last[ip]
  <2> DEFINE c == [Idle EXCEPT !.decision = last[ip]]
  <2>1. Moves(r, "correction", c) /\ c \in LocalRec
    BY <1>5, IdleTyped DEF RecordCorrection, Moves, Goto, TypeInv, TypeOK
  <2>2. c.decision = last[ip]
    BY DEF Idle
  <2>3. Turn(r) /\ UNCHANGED decisions /\ last[ip] # 0 /\ pc[r] = "idle"
    BY <1>5 DEF RecordCorrection, At
  <2>4. ~Decide(r)
    BY <2>3 DEF Decide, At
  <2> HIDE DEF c
  <2> QED
    BY <2>1, <2>2, <2>3, <2>4 DEF Places
<1>6. CASE \E r \in Requests :
             \/ \E e \in Events, v \in env.verdicts : IngestEvent(r, e, v)
             \/ \E ip \in IPs : HandleDecoySession(r, ip)
             \/ \E v \in env.verdicts : DeepLaneCloses(r, v)
             \/ DeepLaneBuffers(r) \/ LogDetection(r) \/ Reject(r) \/ LogDecision(r)
             \/ LogEnforcement(r) \/ LogRejection(r) \/ Enqueue(r) \/ LogCorrection(r)
             \/ Drain(r) \/ ReadAll(r) \/ Swap(r) \/ Explain(r) \/ PassOver(r) \/ Fail(r)
  <2>1. PICK r \in Requests :
             \/ \E e \in Events, v \in env.verdicts : IngestEvent(r, e, v)
             \/ \E ip \in IPs : HandleDecoySession(r, ip)
             \/ \E v \in env.verdicts : DeepLaneCloses(r, v)
             \/ DeepLaneBuffers(r) \/ LogDetection(r) \/ Reject(r) \/ LogDecision(r)
             \/ LogEnforcement(r) \/ LogRejection(r) \/ Enqueue(r) \/ LogCorrection(r)
             \/ Drain(r) \/ ReadAll(r) \/ Swap(r) \/ Explain(r) \/ PassOver(r) \/ Fail(r)
    BY <1>6
  <2>2. \E p \in Places, c \in LocalRec :
              /\ Turn(r) /\ Moves(r, p, c)
              /\ p = "decision" <=> Decide(r)
              /\ p # "correction" /\ UNCHANGED decisions
    BY <1>1, <1>2, <1>3, <2>1, Zenon
  <2> QED
    BY <2>2, Zenon
<1>7. CASE \E r \in Requests : Decide(r)
  <2>1. PICK r \in Requests : Decide(r)
    BY <1>7
  <2>2. PICK p \in Places, c \in LocalRec : Turn(r) /\ Moves(r, p, c) /\ p = "decision"
    BY <1>4, <2>1
  <2>3. p # "correction"
    BY <2>2
  <2> QED
    BY <2>1, <2>2, <2>3, Zenon
<1>8. CASE \E r \in Requests, ip \in IPs, fp \in BOOLEAN : RecordCorrection(r, ip, fp)
  <2>1. PICK r \in Requests, ip \in IPs, fp \in BOOLEAN : RecordCorrection(r, ip, fp)
    BY <1>8
  <2>2. PICK p \in Places, c \in LocalRec :
              /\ Turn(r) /\ Moves(r, p, c) /\ p = "correction"
              /\ ~Decide(r) /\ UNCHANGED decisions
              /\ last[ip] # 0 /\ c.decision = last[ip]
    BY <1>5, <2>1
  <2>3. p # "decision"
    BY <2>2
  <2> QED
    BY <2>2, <2>3, Zenon
<1>9. CASE Restart
  BY <1>9 DEF Restart
<1>10. CASE \/ \E v \in env.verdicts : FlushGraphWindow(v)
            \/ OnTopic \/ UNCHANGED vars
  BY <1>10, TopicFrame DEF FlushGraphWindow, vars, coroutineVars, engineVars
<1> QED
  BY <1>6, <1>7, <1>8, <1>9, <1>10, Zenon DEF Next

\* Nobody else is under way when a coroutine takes a step, on the local back ends.
LEMMA Alone ==
  ASSUME TypeInv, ~env.interleaved, NEW r \in Requests, Turn(r),
         NEW p \in Places, NEW c \in LocalRec, Moves(r, p, c)
  PROVE  /\ pc'[r] = p /\ ctx'[r] = c
         /\ \A q \in Requests : q # r => ~Holding(q) /\ pc'[q] = pc[q] /\ ctx'[q] = ctx[q]
         /\ \A q \in Requests : Holding(q)' => q = r
<1>1. /\ pc'[r] = p /\ ctx'[r] = c
      /\ \A q \in Requests \ {r} : pc'[q] = pc[q] /\ ctx'[q] = ctx[q]
  BY MoveEffect DEF TypeInv
<1>2. \A q \in Requests \ {r} : ~Holding(q)
  BY DEF Turn
<1> QED
  BY <1>1, <1>2 DEF Holding

LEMMA LocalStep ==
  TypeInv /\ TypeInv' /\ LastInv /\ AuditInv /\ LocalInv /\ [Next]_vars => LocalInv'
<1> SUFFICES ASSUME TypeInv, TypeInv', LastInv, AuditInv, LocalInv, [Next]_vars,
                    ~env.interleaved
             PROVE  LocalInv'
  BY EnvKept DEF LocalInv
<1>1. /\ \A q, r \in Requests : Holding(q) /\ Holding(r) => q = r
      /\ \A r \in Requests : pc[r] = "decision" => ctx[r].decision = Len(decisions)
      /\ \A r \in Requests : pc[r] = "correction" => Latest(ctx[r].decision)
      /\ \A i, j \in 1..Len(log) :
           /\ i < j /\ log[i].type = "decision" /\ log[j].type = "decision"
           => log[i].ref < log[j].ref
  BY DEF LocalInv
<1>2. /\ \A q, r \in Requests : Holding(q)' /\ Holding(r)' => q = r
      /\ \A r \in Requests : pc'[r] = "decision" => ctx'[r].decision = Len(decisions')
      /\ \A r \in Requests : pc'[r] = "correction" => Latest(ctx[r].decision)'
  <2>1. CASE UNCHANGED <<pc, ctx>> /\ UNCHANGED decisions
    BY <1>1, <2>1 DEF Holding, Latest
  <2>2. CASE \A q \in Requests : pc'[q] = "idle"
    BY <2>2 DEF Holding
  <2>3. ASSUME NEW r \in Requests, NEW p \in Places, NEW c \in LocalRec,
               Turn(r), Moves(r, p, c),
               p = "decision" => Decide(r),
               p = "correction" => /\ UNCHANGED decisions
                                   /\ \E ip \in IPs : last[ip] # 0 /\ c.decision = last[ip]
        PROVE  /\ \A q, s \in Requests : Holding(q)' /\ Holding(s)' => q = s
               /\ \A q \in Requests : pc'[q] = "decision" => ctx'[q].decision = Len(decisions')
               /\ \A q \in Requests : pc'[q] = "correction" => Latest(ctx[q].decision)'
    <3>1. /\ pc'[r] = p /\ ctx'[r] = c
          /\ \A q \in Requests : Holding(q)' => q = r
      BY <2>3, Alone
    <3>2. \A q \in Requests : pc'[q] \in {"decision", "correction"} => q = r
      BY <3>1 DEF Holding
    <3>3. ASSUME p = "decision"
          PROVE  ctx'[r].decision = Len(decisions')
      <4> DEFINE k == [ctx[r] EXCEPT !.decision = Len(decisions) + 1]
      <4>1. /\ Moves(r, "decision", k) /\ k \in LocalRec /\ k.decision = Len(decisions) + 1
            /\ \E d \in DecisionRec : decisions' = Append(decisions, d)
        BY <2>3, <3>3, DecideEffect, DecideRecord
      <4> HIDE DEF k
      <4>2. ctx'[r] = k
        BY <4>1, MoveEffect DEF TypeInv, Places, Handling
      <4>3. Len(decisions') = Len(decisions) + 1
        BY <4>1, NewDecision DEF TypeInv
      <4> QED
        BY <4>1, <4>2, <4>3
    <3>4. ASSUME p = "correction"
          PROVE  Latest(ctx[r].decision)'
      <4>1. PICK ip \in IPs : last[ip] # 0 /\ c.decision = last[ip]
        BY <2>3, <3>4
      <4>2. UNCHANGED decisions
        BY <2>3, <3>4
      <4>3. /\ decisions[last[ip]].ip = ip
            /\ \A d \in 1..Len(decisions) : d > last[ip] => decisions[d].ip # ip
        BY <4>1 DEF LastInv
      <4> QED
        BY <3>1, <4>1, <4>2, <4>3 DEF Latest
    <3> QED
      BY <3>1, <3>2, <3>3, <3>4
  <2> QED
    BY <2>1, <2>2, <2>3, WhoMoves, Zenon
<1>3. \A i, j \in 1..Len(log') :
        /\ i < j /\ log'[i].type = "decision" /\ log'[j].type = "decision"
        => log'[i].ref < log'[j].ref
  <2>1. CASE UNCHANGED log
    BY <1>1, <2>1
  <2>2. ASSUME NEW r \in Requests, NEW e \in EntryRec, Logged(e),
               e.type = "decision" => LogDecision(r) /\ e.ref = ctx[r].decision
        PROVE  \A i, j \in 1..Len(log') :
                 /\ i < j /\ log'[i].type = "decision" /\ log'[j].type = "decision"
                 => log'[i].ref < log'[j].ref
    <3>1. /\ Len(log) \in Nat /\ Len(log') = Len(log) + 1
          /\ \A i \in 1..Len(log) : log'[i] = log[i]
          /\ log'[Len(log) + 1] = e
      BY <2>2, NewEntry DEF TypeInv
    <3>2. ASSUME e.type = "decision", NEW i \in 1..Len(log), log[i].type = "decision"
          PROVE  log[i].ref < e.ref
      <4>1. pc[r] = "decision" /\ e.ref = ctx[r].decision
        BY <2>2, <3>2 DEF LogDecision, At
      <4>2. e.ref = Len(decisions)
        BY <1>1, <4>1
      <4>3. log[i].ref \in 1..Len(decisions) /\ Len(decisions) \in Nat
        BY <3>2, Lengths DEF AuditInv, EntriesName, TypeInv
      <4>4. ~IsLogged("decision", e.ref)
        BY <4>1 DEF AuditInv, Trail
      <4>5. log[i].ref # e.ref
        BY <3>2, <4>4 DEF IsLogged
      <4> QED
        BY <4>2, <4>3, <4>5
    <3> SUFFICES ASSUME NEW i \in 1..Len(log'), NEW j \in 1..Len(log'), i < j,
                        log'[i].type = "decision", log'[j].type = "decision"
                 PROVE  log'[i].ref < log'[j].ref
      OBVIOUS
    <3>3. i \in 1..Len(log) /\ (j \in 1..Len(log) \/ j = Len(log) + 1)
      BY <3>1
    <3>4. CASE j \in 1..Len(log)
      BY <1>1, <3>1, <3>3, <3>4
    <3>5. CASE j = Len(log) + 1
      BY <3>1, <3>2, <3>3, <3>5
    <3> QED
      BY <3>3, <3>4, <3>5
  <2> QED
    BY <2>1, <2>2, LogStep
<1> QED
  BY <1>2, <1>3 DEF LocalInv

LEMMA InitLocal == Init => LocalInv
<1> SUFFICES ASSUME Init PROVE LocalInv
  OBVIOUS
<1>1. (\A r \in Requests : pc[r] = "idle") /\ Len(log) = 0
  BY DEF Init
<1> QED
  BY <1>1 DEF LocalInv, Holding

\* On the local back ends one coroutine is under way at a time, however many are called,
\* and the log has the decisions in the order they were made.
THEOREM LocalHolds == Spec => []LocalInv
<1> QED
  BY InitLocal, LocalStep, TypesHold, LastHolds, AuditHolds, PTL DEF Spec

\* A decision that is the last one on its address, and in nobody's hand, is the last one
\* on it in the log.
LEMMA LatestIsLast ==
  ASSUME TypeInv, AuditInv, LocalInv, ~env.interleaved,
         NEW d \in 1..Len(decisions), Latest(d),
         decisions[d].verdict \notin lost, ~InHand(decisions[d].verdict)
  PROVE  LET own == DecisionsOn(decisions[d].ip, Len(log))
         IN  own # {} /\ log[Max(own)].ref = d
<1> DEFINE own == DecisionsOn(decisions[d].ip, Len(log))
<1>1. IsLogged("decision", d)
  <2>1. /\ decisions[d].verdict \in 1..Len(verdicts)
        /\ verdicts[decisions[d].verdict].role = "handled"
    BY DEF AuditInv, DecisionsApart
  <2> QED
    BY <2>1 DEF AuditInv, AllSettled, Settled, Carried
<1>2. PICK k \in 1..Len(log) : log[k].type = "decision" /\ log[k].ref = d
  BY <1>1 DEF IsLogged
<1>3. k \in own
  BY <1>2 DEF DecisionsOn
<1>4. ASSUME NEW j \in own
      PROVE  k >= j
  <2>1. /\ j \in 1..Len(log) /\ log[j].type = "decision"
        /\ decisions[log[j].ref].ip = decisions[d].ip
    BY DEF DecisionsOn
  <2>2. log[j].ref \in 1..Len(decisions) /\ Len(decisions) \in Nat /\ Len(log) \in Nat
    BY <2>1, Lengths DEF AuditInv, EntriesName, TypeInv
  <2>3. ~(log[j].ref > d)
    BY <2>1, <2>2 DEF Latest
  <2>4. k < j => d < log[j].ref
    BY <1>2, <2>1 DEF LocalInv
  <2> QED
    BY <2>1, <2>2, <2>3, <2>4
<1>5. Max(own) \in own /\ \A j \in own : Max(own) >= j
  BY <1>3, <1>4 DEF Max
<1>6. own \subseteq 1..Len(log)
  BY DEF DecisionsOn
<1>7. Max(own) = k
  <2>1. Len(log) \in Nat
    BY DEF TypeInv, TypeOK
  <2>2. \A m, n \in 1..Len(log) : m >= n /\ n >= m => m = n
    BY <2>1
  <2>3. k \in 1..Len(log) /\ Max(own) \in 1..Len(log) /\ k >= Max(own) /\ Max(own) >= k
    BY <1>2, <1>3, <1>4, <1>5, <1>6
  <2> HIDE DEF own
  <2> QED
    BY <2>2, <2>3
<1> QED
  BY <1>2, <1>3, <1>7

\* The decision that entry i names is the last one on its address before it, or was hit.
NamesLatest(i) ==
  LET own == DecisionsOn(decisions[log[i].ref].ip, i - 1) IN
  \/ own # {} /\ log[Max(own)].ref = log[i].ref
  \/ decisions[log[i].ref].verdict \in lost

\* What an entry names does not change any more.
LEMMA NamesStay ==
  ASSUME TypeInv, AuditInv, Grown, lost \subseteq lost',
         Len(log) <= Len(log'), \A j \in 1..Len(log) : log'[j] = log[j],
         NEW i \in 1..Len(log), log[i].type = "correction", NamesLatest(i)
  PROVE  NamesLatest(i)'
<1>1. \A j \in 1..Len(log) :
        /\ log'[j] = log[j]
        /\ log[j].type \in {"decision", "correction"} =>
             log[j].ref \in 1..Len(decisions) /\ decisions'[log[j].ref] = decisions[log[j].ref]
  BY DEF AuditInv, EntriesName, Grown
<1>2. PICK x : x = decisions[log[i].ref].ip
  OBVIOUS
<1>3. decisions'[log'[i].ref] = decisions[log[i].ref] /\ log'[i] = log[i]
  BY <1>1
<1>4. 1..(i - 1) \subseteq 1..Len(log)
  BY DEF TypeInv, TypeOK
<1>5. DecisionsOn(x, i - 1)' = DecisionsOn(x, i - 1)
  BY <1>1, <1>4 DEF DecisionsOn
<1>6. PICK own : own = DecisionsOn(x, i - 1)
  OBVIOUS
<1>7. ASSUME own # {}, log[Max(own)].ref = log[i].ref, Max(own) \in own
      PROVE  log'[Max(own)].ref = log'[i].ref
  <2>1. Max(own) \in 1..Len(log)
    BY <1>4, <1>6, <1>7 DEF DecisionsOn
  <2> QED
    BY <1>1, <1>7, <2>1
<1>8. own # {} => Max(own) \in own
  <2>1. own \subseteq 1..(i - 1)
    BY <1>6 DEF DecisionsOn
  <2>2. own \subseteq Nat /\ i - 1 \in Nat /\ \A j \in own : j <= i - 1
    <3>1. Len(log) \in Nat
      BY DEF TypeInv, TypeOK
    <3> QED
      BY <2>1, <3>1
  <2> QED
    BY <2>2, MaxIsIn
<1> QED
  BY <1>2, <1>3, <1>5, <1>6, <1>7, <1>8 DEF NamesLatest

LEMMA CorrectionStep ==
  TypeInv /\ LastInv /\ AuditInv /\ LocalInv /\ CorrectionNamesLatest /\ [Next]_vars
    => CorrectionNamesLatest'
<1> SUFFICES ASSUME TypeInv, LastInv, AuditInv, LocalInv, CorrectionNamesLatest, [Next]_vars,
                    ~env.interleaved, NEW i \in 1..Len(log'), log'[i].type = "correction"
             PROVE  NamesLatest(i)'
  BY EnvKept DEF CorrectionNamesLatest, NamesLatest
<1>1. Grown
  BY GrownStep
<1>2. lost \subseteq lost'
  BY LostGrows
<1>3. ASSUME NEW k \in 1..Len(log), log[k].type = "correction"
      PROVE  NamesLatest(k)
  BY <1>3 DEF CorrectionNamesLatest, NamesLatest
<1>4. CASE UNCHANGED log
  <2>1. Len(log) <= Len(log')
    BY <1>4 DEF TypeInv, TypeOK
  <2> QED
    BY <1>1, <1>2, <1>3, <1>4, <2>1, NamesStay
<1>5. ASSUME NEW r \in Requests, NEW e \in EntryRec, Logged(e),
             e.type = "correction" => LogCorrection(r) /\ e.ref = ctx[r].decision
      PROVE  NamesLatest(i)'
  <2>1. /\ Len(log) \in Nat /\ Len(log') = Len(log) + 1
        /\ \A j \in 1..Len(log) : log'[j] = log[j]
        /\ log'[Len(log) + 1] = e
    BY <1>5, NewEntry DEF TypeInv
  <2>2. CASE i \in 1..Len(log)
    <3>1. Len(log) <= Len(log') /\ log[i].type = "correction"
      BY <2>1, <2>2
    <3> QED
      BY <1>1, <1>2, <1>3, <2>1, <2>2, <3>1, NamesStay
  <2>3. CASE i = Len(log) + 1
    <3>1. LogCorrection(r) /\ e.ref = ctx[r].decision /\ log'[i] = e
      BY <1>5, <2>1, <2>3
    <3>2. pc[r] = "correction" /\ Turn(r) /\ UNCHANGED <<decisions, lost>>
      BY <3>1 DEF LogCorrection, At, engineVars, faultVars
    <3>3. PICK d \in 1..Len(decisions) : d = ctx[r].decision
      BY <3>2 DEF LastInv
    <3>4. Latest(d)
      BY <3>2, <3>3 DEF LocalInv
    <3>5. decisions[d].verdict \in 1..Len(verdicts)
      BY DEF AuditInv, DecisionsApart
    <3>6. ~InHand(decisions[d].verdict)
      <4>1. ASSUME NEW q \in Requests
            PROVE  ctx[q].verdict = 0
        <5>1. CASE q = r
          BY <3>2, <5>1 DEF AuditInv, HandsApart, Handling
        <5>2. CASE q # r
          BY <3>2, <5>2 DEF Turn, Holding, AuditInv, HandsApart, Handling
        <5> QED
          BY <5>1, <5>2
      <4> QED
        BY <3>5, <4>1 DEF InHand
    <3>7. CASE decisions[d].verdict \in lost
      BY <3>1, <3>2, <3>3, <3>7 DEF NamesLatest
    <3>8. CASE decisions[d].verdict \notin lost
      <4>1. PICK x : x = decisions[d].ip
        OBVIOUS
      <4>2. PICK own : own = DecisionsOn(x, Len(log))
        OBVIOUS
      <4>3. own # {} /\ log[Max(own)].ref = d
        BY <3>4, <3>6, <3>8, <4>1, <4>2, LatestIsLast
      <4>4. own \subseteq 1..Len(log) /\ \A j \in own : j \in Nat /\ j <= Len(log)
        BY <2>1, <4>2 DEF DecisionsOn
      <4>5. Max(own) \in 1..Len(log)
        BY <2>1, <4>3, <4>4, MaxIsIn
      <4>6. i - 1 = Len(log)
        BY <2>1, <2>3
      <4>7. DecisionsOn(x, i - 1)' = own
        BY <2>1, <3>2, <4>2, <4>6 DEF DecisionsOn
      <4>8. log'[Max(own)].ref = log'[i].ref
        BY <2>1, <3>1, <3>3, <4>3, <4>5
      <4>9. decisions'[log'[i].ref].ip = x
        BY <3>1, <3>2, <3>3, <4>1
      <4> QED
        BY <4>3, <4>7, <4>8, <4>9 DEF NamesLatest
    <3> QED
      BY <3>7, <3>8
  <2> QED
    BY <2>1, <2>2, <2>3
<1> QED
  BY <1>4, <1>5, LogStep

\* A correction names the last decision on its address that the trail shows.
THEOREM CorrectionNamesLatestHolds == Spec => []CorrectionNamesLatest
<1>1. Init => CorrectionNamesLatest
  BY DEF Init, CorrectionNamesLatest
<1> QED
  BY <1>1, TypesHold, LastHolds, AuditHolds, LocalHolds, CorrectionStep, PTL DEF Spec

-----------------------------------------------------------------------------
(* The explanation jobs *)

\* Every job of sequence s is there once, but for those of g, which came again.
Once(s, g) == \A i, j \in 1..Len(s) : s[i] = s[j] => i = j \/ s[i] \in g

\* The jobs that the drains are at work on.
Todos == [r \in Requests |-> ctx[r].todo]

\* The verdicts explained.
Explained == {log[i].about : i \in {k \in 1..Len(log) : log[k].type = "explanation"}}

\* A job is in queue q, in the worker's list s, with a drain of t, or done, in d.
Somewhere(v, q, s, t, d) ==
  \/ v \in Range(q) \cup Range(s) \cup d
  \/ \E r \in Requests : v \in Range(t[r])

\* No job but those of g is in two places.
NowhereTwice(q, s, t, d, g) ==
  /\ Once(q, g) /\ Once(s, g) /\ \A r \in Requests : Once(t[r], g)
  /\ Range(q) \cap Range(s) \subseteq g
  /\ (Range(q) \cup Range(s)) \cap d \subseteq g
  /\ \A r \in Requests : Range(t[r]) \cap (Range(q) \cup Range(s) \cup d) \subseteq g
  /\ \A a, b \in Requests : a # b => Range(t[a]) \cap Range(t[b]) \subseteq g

\* The job of verdict v is on its way, or done.
Placed(v) == Somewhere(v, queue, received, Todos, Explained)

\* A job is published once, after the detection of its verdict is logged, and comes
\* again only from a broker; only a drain that explains holds some.
JobsInv ==
  /\ NowhereTwice(queue, received, Todos, Explained, again)
  /\ \A i, j \in 1..Len(log) :
       /\ log[i].type = "explanation" /\ log[j].type = "explanation"
       /\ log[i].about = log[j].about
       => i = j \/ log[i].about \in again
  /\ ~env.broker => again = {}
  /\ Explained \subseteq 1..Len(verdicts)
  /\ \A i \in 1..Len(log) :
       log[i].type = "detection" => log[i] = Entry("detection", log[i].ref)
  /\ \A r \in Requests : pc[r] \in Handling \ {"deep"} =>
       ~Placed(ctx[r].verdict) \/ ctx[r].verdict \in again
  /\ \A r \in Requests : pc[r] # "explain" => ctx[r].todo = <<>>

\* The first n entries have the detection of verdict v.
DetectedIn(n, v) == Entry("detection", v) \in {log[i] : i \in 1..n}

\* On the local back ends a drain has read the detections of all its jobs, and no job
\* gets lost but with a failure.
JobsKept == ~env.interleaved =>
  /\ \A v \in Range(queue) \cup Range(received) : DetectedIn(Len(log), v)
  /\ \A r \in Requests : pc[r] = "swap" => ctx[r].snapshot = Len(log)
  /\ \A r \in Requests : \A v \in Range(ctx[r].todo) : DetectedIn(ctx[r].snapshot, v)
  /\ \A v \in (1..Len(verdicts)) \ (lost \cup dropped) :
       /\ verdicts[v].role = "handled" /\ verdicts[v].label # "benign"
       /\ ~IsLogged("rejection", v)
       /\ \A r \in Requests : ctx[r].verdict = v => pc[r] = "deep"
       => Placed(v)

LEMMA NothingOnce == (\A g : Once(<<>>, g)) /\ Range(<<>>) = {}
BY DEF Once, Range

LEMMA RangeIs ==
  ASSUME NEW s \in Seq(Nat)
  PROVE  /\ Range(s) = {s[i] : i \in 1..Len(s)}
         /\ Len(s) \in Nat /\ \A i \in 1..Len(s) : s[i] \in Nat
BY DEF Range

LEMMA AppendOnce ==
  ASSUME NEW s \in Seq(Nat), NEW x \in Nat, NEW g
  PROVE  /\ Range(Append(s, x)) = Range(s) \cup {x}
         /\ Once(s, g) /\ (x \notin Range(s) \/ x \in g) => Once(Append(s, x), g)
<1>1. /\ Append(s, x) \in Seq(Nat) /\ Len(s) \in Nat /\ Len(Append(s, x)) = Len(s) + 1
      /\ \A i \in 1..Len(s) : Append(s, x)[i] = s[i]
      /\ Append(s, x)[Len(s) + 1] = x
  OBVIOUS
<1>2. 1..(Len(s) + 1) = 1..Len(s) \cup {Len(s) + 1}
  BY <1>1
<1> DEFINE t == Append(s, x)
<1> HIDE DEF t
<1>3. Range(t) = Range(s) \cup {x}
  <2>1. t \in Seq(Nat) /\ Len(t) = Len(s) + 1
    BY <1>1 DEF t
  <2>2. Range(t) = {t[i] : i \in 1..(Len(s) + 1)} /\ Range(s) = {s[i] : i \in 1..Len(s)}
    BY <2>1, RangeIs
  <2>3. (\A i \in 1..Len(s) : t[i] = s[i]) /\ t[Len(s) + 1] = x
    BY <1>1 DEF t
  <2> QED
    BY <1>2, <2>2, <2>3
<1>4. ASSUME Once(s, g), x \notin Range(s) \/ x \in g,
             NEW i \in 1..Len(t), NEW j \in 1..Len(t), t[i] = t[j]
      PROVE  i = j \/ t[i] \in g
  <2>1. Range(s) = {s[k] : k \in 1..Len(s)}
    BY RangeIs
  <2> QED
    BY <1>1, <1>2, <1>4, <2>1 DEF Once, t
<1> QED
  BY <1>3, <1>4 DEF Once, t

LEMMA ConcatOnce ==
  ASSUME NEW s \in Seq(Nat), NEW u \in Seq(Nat), NEW g
  PROVE  /\ Range(s \o u) = Range(s) \cup Range(u)
         /\ Once(s, g) /\ Once(u, g) /\ Range(s) \cap Range(u) \subseteq g => Once(s \o u, g)
<1>1. /\ s \o u \in Seq(Nat) /\ Len(s) \in Nat /\ Len(u) \in Nat
      /\ Len(s \o u) = Len(s) + Len(u)
      /\ \A i \in 1..Len(s) : (s \o u)[i] = s[i]
      /\ \A i \in (Len(s) + 1)..(Len(s) + Len(u)) : (s \o u)[i] = u[i - Len(s)]
  OBVIOUS
<1> DEFINE t == s \o u
           m == Len(s)
           n == Len(u)
<1>2. /\ t \in Seq(Nat) /\ Len(t) = m + n /\ m \in Nat /\ n \in Nat
      /\ \A i \in 1..m : t[i] = s[i]
      /\ \A i \in (m + 1)..(m + n) : t[i] = u[i - m]
  BY <1>1
<1>3. /\ Range(t) = {t[i] : i \in 1..(m + n)} /\ Range(s) = {s[i] : i \in 1..m}
      /\ Range(u) = {u[i] : i \in 1..n}
  <2> HIDE DEF t
  <2> QED
    BY <1>2, RangeIs
<1> HIDE DEF t, m, n
<1>4. /\ \A i \in 1..(m + n) : i \in 1..m \/ (i \in (m + 1)..(m + n) /\ i - m \in 1..n)
      /\ \A j \in 1..n : j + m \in (m + 1)..(m + n) /\ (j + m) - m = j
      /\ \A i \in 1..m : i \in 1..(m + n)
      /\ \A i \in (m + 1)..(m + n) : i \in 1..(m + n)
      /\ \A i, j \in (m + 1)..(m + n) : i - m = j - m => i = j
  BY <1>2
<1>5. Range(t) \subseteq Range(s) \cup Range(u)
  <2> SUFFICES ASSUME NEW i \in 1..(m + n) PROVE t[i] \in Range(s) \cup Range(u)
    BY <1>3
  <2>1. CASE i \in 1..m
    BY <1>2, <1>3, <2>1
  <2>2. CASE i \in (m + 1)..(m + n) /\ i - m \in 1..n
    BY <1>2, <1>3, <2>2
  <2> QED
    BY <1>4, <2>1, <2>2
<1>6. Range(s) \subseteq Range(t)
  BY <1>2, <1>3, <1>4
<1>7. Range(u) \subseteq Range(t)
  <2> SUFFICES ASSUME NEW j \in 1..n PROVE u[j] \in Range(t)
    BY <1>3
  <2>1. t[j + m] = u[j]
    BY <1>2, <1>4
  <2> QED
    BY <1>3, <1>4, <2>1
<1>8. ASSUME Once(s, g), Once(u, g), Range(s) \cap Range(u) \subseteq g,
             NEW i \in 1..Len(t), NEW j \in 1..Len(t), t[i] = t[j]
      PROVE  i = j \/ t[i] \in g
  <2>1. /\ \A a, b \in 1..m : s[a] = s[b] => a = b \/ s[a] \in g
        /\ \A a, b \in 1..n : u[a] = u[b] => a = b \/ u[a] \in g
    BY <1>8 DEF Once, m, n
  <2>2. \A a \in 1..m, b \in 1..n : s[a] = u[b] => s[a] \in g
    BY <1>3, <1>8
  <2>3. i \in 1..(m + n) /\ j \in 1..(m + n)
    BY <1>2
  <2>4. CASE i \in 1..m /\ j \in 1..m
    BY <1>2, <1>8, <2>1, <2>4
  <2>5. CASE i \in (m + 1)..(m + n) /\ j \in (m + 1)..(m + n) /\ i - m \in 1..n /\ j - m \in 1..n
    <3>1. t[i] = u[i - m] /\ t[j] = u[j - m]
      BY <1>2, <2>5
    <3>2. i - m = j - m \/ u[i - m] \in g
      BY <1>8, <2>1, <2>5, <3>1
    <3> QED
      BY <1>4, <2>5, <3>1, <3>2
  <2>6. CASE i \in 1..m /\ j \in (m + 1)..(m + n) /\ j - m \in 1..n
    BY <1>2, <1>8, <2>2, <2>6
  <2>7. CASE j \in 1..m /\ i \in (m + 1)..(m + n) /\ i - m \in 1..n
    BY <1>2, <1>8, <2>2, <2>7
  <2> QED
    BY <1>4, <2>3, <2>4, <2>5, <2>6, <2>7
<1> QED
  BY <1>5, <1>6, <1>7, <1>8 DEF Once, t

LEMMA TailOnce ==
  ASSUME NEW s \in Seq(Nat), s # <<>>, NEW g, Once(s, g)
  PROVE  /\ Tail(s) \in Seq(Nat) /\ Once(Tail(s), g)
         /\ Head(s) \in Range(s) /\ Range(s) = Range(Tail(s)) \cup {Head(s)}
         /\ Head(s) \in Range(Tail(s)) => Head(s) \in g
<1> DEFINE t == Tail(s)
           n == Len(s)
<1>1. /\ t \in Seq(Nat) /\ n \in Nat /\ n > 0 /\ Len(t) = n - 1
      /\ \A i \in 1..(n - 1) : t[i] = s[i + 1]
      /\ Head(s) = s[1]
  OBVIOUS
<1>2. /\ Range(t) = {t[i] : i \in 1..(n - 1)} /\ Range(s) = {s[i] : i \in 1..n}
  <2> HIDE DEF t
  <2> QED
    BY <1>1, RangeIs
<1>3. \A i, j \in 1..n : s[i] = s[j] => i = j \/ s[i] \in g
  BY DEF Once
<1> HIDE DEF t, n
<1>4. /\ \A i \in 1..(n - 1) : i + 1 \in 1..n /\ i + 1 # 1
      /\ \A i, j \in 1..(n - 1) : i + 1 = j + 1 => i = j
      /\ \A i \in 1..n : i = 1 \/ (i - 1 \in 1..(n - 1) /\ (i - 1) + 1 = i)
      /\ 1 \in 1..n
  BY <1>1
<1>5. Once(t, g)
  <2> SUFFICES ASSUME NEW i \in 1..(n - 1), NEW j \in 1..(n - 1), t[i] = t[j]
               PROVE  i = j \/ t[i] \in g
    BY <1>1 DEF Once
  <2>1. t[i] = s[i + 1] /\ t[j] = s[j + 1]
    BY <1>1
  <2>2. i + 1 = j + 1 \/ s[i + 1] \in g
    BY <1>3, <1>4, <2>1
  <2> QED
    BY <1>4, <2>1, <2>2
<1>6. Range(t) \cup {s[1]} \subseteq Range(s) /\ (s[1] \in Range(t) => s[1] \in g)
  <2> SUFFICES /\ s[1] \in Range(s)
               /\ \A i \in 1..(n - 1) : t[i] \in Range(s) /\ (t[i] = s[1] => s[1] \in g)
    BY <1>2
  <2>1. s[1] \in Range(s)
    BY <1>2, <1>4
  <2>2. ASSUME NEW i \in 1..(n - 1)
        PROVE  t[i] \in Range(s) /\ (t[i] = s[1] => s[1] \in g)
    <3>1. i + 1 \in 1..n /\ i + 1 # 1 /\ t[i] = s[i + 1]
      BY <1>1, <1>4
    <3> QED
      BY <1>2, <1>3, <1>4, <3>1
  <2> QED
    BY <2>1, <2>2
<1>7. Range(s) \subseteq Range(t) \cup {s[1]}
  <2> SUFFICES ASSUME NEW i \in 1..n, s[i] # s[1] PROVE s[i] \in Range(t)
    BY <1>2
  <2>1. i - 1 \in 1..(n - 1) /\ t[i - 1] = s[i]
    BY <1>1, <1>4
  <2> QED
    BY <1>2, <2>1
<1> QED
  BY <1>1, <1>2, <1>4, <1>5, <1>6, <1>7 DEF t

LEMMA PublishOnce ==
  ASSUME NEW q \in Seq(Nat), NEW s \in Seq(Nat), NEW t, NEW d, NEW x \in Nat, NEW g,
         NowhereTwice(q, s, t, d, g), ~Somewhere(x, q, s, t, d) \/ x \in g
  PROVE  /\ NowhereTwice(Append(q, x), s, t, d, g)
         /\ \A v : Somewhere(v, Append(q, x), s, t, d) <=> Somewhere(v, q, s, t, d) \/ v = x
<1>1. /\ Range(Append(q, x)) = Range(q) \cup {x}
      /\ Once(q, g) /\ (x \notin Range(q) \/ x \in g) => Once(Append(q, x), g)
  BY AppendOnce
<1>2. /\ Once(q, g)
      /\ \/ x \in g
         \/ /\ x \notin Range(q) /\ x \notin Range(s) /\ x \notin d
            /\ \A r \in Requests : x \notin Range(t[r])
  BY DEF NowhereTwice, Somewhere
<1>3. PICK a : a = Append(q, x)
  OBVIOUS
<1>4. Range(a) = Range(q) \cup {x} /\ Once(a, g)
  BY <1>1, <1>2, <1>3
<1>5. NowhereTwice(a, s, t, d, g)
  BY <1>2, <1>4 DEF NowhereTwice
<1>6. \A v : Somewhere(v, a, s, t, d) <=> Somewhere(v, q, s, t, d) \/ v = x
  BY <1>4 DEF Somewhere
<1> QED
  BY <1>3, <1>5, <1>6

LEMMA ConsumeOnce ==
  ASSUME NEW q \in Seq(Nat), NEW s \in Seq(Nat), NEW t, NEW d, NEW g,
         NowhereTwice(q, s, t, d, g)
  PROVE  /\ NowhereTwice(<<>>, s \o q, t, d, g)
         /\ \A v : Somewhere(v, <<>>, s \o q, t, d) <=> Somewhere(v, q, s, t, d)
<1>1. PICK a : a = s \o q
  OBVIOUS
<1>2. Range(a) = Range(s) \cup Range(q) /\ Once(a, g)
  <2>1. Once(s, g) /\ Once(q, g) /\ Range(s) \cap Range(q) \subseteq g
    BY DEF NowhereTwice
  <2> QED
    BY <1>1, <2>1, ConcatOnce
<1>3. PICK n : n = <<>> /\ Once(n, g) /\ Range(n) = {}
  BY NothingOnce
<1>4. NowhereTwice(n, a, t, d, g)
  BY <1>2, <1>3 DEF NowhereTwice
<1>5. \A v : Somewhere(v, n, a, t, d) <=> Somewhere(v, q, s, t, d)
  BY <1>2, <1>3 DEF Somewhere
<1> QED
  BY <1>1, <1>3, <1>4, <1>5

\* One job goes from the queue to the worker's list.
LEMMA YieldOnce ==
  ASSUME NEW q \in Seq(Nat), q # <<>>, NEW s \in Seq(Nat), NEW t, NEW d, NEW g,
         NowhereTwice(q, s, t, d, g)
  PROVE  /\ NowhereTwice(Tail(q), Append(s, Head(q)), t, d, g)
         /\ \A v : Somewhere(v, Tail(q), Append(s, Head(q)), t, d) <=> Somewhere(v, q, s, t, d)
<1>1. Once(q, g) /\ Once(s, g) /\ Range(q) \cap Range(s) \subseteq g
  BY DEF NowhereTwice
<1>2. PICK h, a : h = Head(q) /\ a = Tail(q)
  OBVIOUS
<1>3. /\ Once(a, g) /\ h \in Range(q) /\ Range(q) = Range(a) \cup {h}
      /\ h \in Range(a) => h \in g
  BY <1>1, <1>2, TailOnce
<1>4. h \in Nat
  <2>1. Range(q) = {q[i] : i \in 1..Len(q)} /\ \A i \in 1..Len(q) : q[i] \in Nat
    BY RangeIs
  <2> QED
    BY <1>3, <2>1
<1>5. PICK b : b = Append(s, h)
  OBVIOUS
<1>6. Range(b) = Range(s) \cup {h} /\ Once(b, g)
  <2>1. h \notin Range(s) \/ h \in g
    BY <1>1, <1>3
  <2> QED
    BY <1>1, <1>4, <1>5, <2>1, AppendOnce
<1>7. NowhereTwice(a, b, t, d, g)
  BY <1>3, <1>6 DEF NowhereTwice
<1>8. \A v : Somewhere(v, a, b, t, d) <=> Somewhere(v, q, s, t, d)
  BY <1>3, <1>6 DEF Somewhere
<1> QED
  BY <1>2, <1>5, <1>7, <1>8

\* The jobs of u come again, before those of the queue.
LEMMA ReplayOnce ==
  ASSUME NEW u \in Seq(Nat), NEW q \in Seq(Nat), NEW s, NEW t, NEW d, NEW g,
         NowhereTwice(q, s, t, d, g)
  PROVE  /\ NowhereTwice(u \o q, s, t, d, g \cup Range(u))
         /\ \A v : Somewhere(v, u \o q, s, t, d) => Somewhere(v, q, s, t, d) \/ v \in Range(u)
<1>1. PICK a, k : a = u \o q /\ k = g \cup Range(u)
  OBVIOUS
<1>2. \A x : Once(x, g) => Once(x, k)
  BY <1>1 DEF Once
<1>3. Once(u, k)
  BY <1>1, RangeIs DEF Once
<1>4. Range(a) = Range(u) \cup Range(q) /\ Once(a, k)
  <2>1. Once(q, k) /\ Range(u) \cap Range(q) \subseteq k
    BY <1>1, <1>2 DEF NowhereTwice
  <2> QED
    BY <1>1, <1>3, <2>1, ConcatOnce
<1>5. NowhereTwice(a, s, t, d, k)
  <2>1. Once(s, k) /\ \A r \in Requests : Once(t[r], k)
    BY <1>2 DEF NowhereTwice
  <2>2. /\ Range(a) \cap Range(s) \subseteq k /\ (Range(a) \cup Range(s)) \cap d \subseteq k
        /\ \A r \in Requests : Range(t[r]) \cap (Range(a) \cup Range(s) \cup d) \subseteq k
        /\ \A b, c \in Requests : b # c => Range(t[b]) \cap Range(t[c]) \subseteq k
    BY <1>1, <1>4 DEF NowhereTwice
  <2> QED
    BY <1>4, <2>1, <2>2 DEF NowhereTwice
<1>6. \A v : Somewhere(v, a, s, t, d) => Somewhere(v, q, s, t, d) \/ v \in Range(u)
  BY <1>4 DEF Somewhere
<1> QED
  BY <1>1, <1>5, <1>6

LEMMA TakeOnce ==
  ASSUME NEW q, NEW s \in Seq(Nat), NEW t \in [Requests -> Seq(Nat)], NEW d,
         NEW r \in Requests, t[r] = <<>>, NEW g, NowhereTwice(q, s, t, d, g)
  PROVE  /\ NowhereTwice(q, <<>>, [t EXCEPT ![r] = s], d, g)
         /\ \A v : Somewhere(v, q, <<>>, [t EXCEPT ![r] = s], d) <=> Somewhere(v, q, s, t, d)
<1>1. PICK u : u = [t EXCEPT ![r] = s]
  OBVIOUS
<1>2. u[r] = s /\ \A b \in Requests : b # r => u[b] = t[b]
  BY <1>1
<1>3. PICK n : n = <<>> /\ Once(n, g) /\ Range(n) = {}
  BY NothingOnce
<1>4. Range(t[r]) = {}
  BY <1>3
<1>5. NowhereTwice(q, n, u, d, g)
  <2>1. /\ Once(q, g) /\ Once(s, g) /\ \A b \in Requests : Once(t[b], g)
        /\ Range(q) \cap Range(s) \subseteq g /\ Range(q) \cap d \subseteq g /\ Range(s) \cap d \subseteq g
        /\ \A b \in Requests : /\ Range(t[b]) \cap Range(q) \subseteq g
                               /\ Range(t[b]) \cap Range(s) \subseteq g
                               /\ Range(t[b]) \cap d \subseteq g
        /\ \A a, b \in Requests : a # b => Range(t[a]) \cap Range(t[b]) \subseteq g
    BY DEF NowhereTwice
  <2>2. \A b \in Requests : /\ Once(u[b], g) /\ Range(u[b]) \cap Range(q) \subseteq g
                            /\ Range(u[b]) \cap d \subseteq g
    BY <1>2, <2>1
  <2>3. \A a, b \in Requests : a # b => Range(u[a]) \cap Range(u[b]) \subseteq g
    BY <1>2, <2>1
  <2> QED
    BY <1>3, <2>1, <2>2, <2>3 DEF NowhereTwice
<1>6. \A v : Somewhere(v, q, n, u, d) <=> Somewhere(v, q, s, t, d)
  BY <1>2, <1>3, <1>4 DEF Somewhere
<1> QED
  BY <1>1, <1>3, <1>5, <1>6

\* The drain of r keeps the jobs u of those in t and is done with x: the others are dropped.
Lets(r, u, x, t, d, w, k, g) ==
  /\ t \in [Requests -> Seq(Nat)] /\ r \in Requests
  /\ Once(u, g) /\ Range(u) \subseteq Range(t[r])
  /\ x \subseteq Range(t[r]) /\ x \cap Range(u) \subseteq g
  /\ w[r] = u /\ \A b \in Requests : b # r => w[b] = t[b]
  /\ k = d \cup x

LEMMA LeaveOnce ==
  ASSUME NEW q, NEW s, NEW t, NEW d, NEW r, NEW u, NEW x, NEW w, NEW k, NEW g,
         Lets(r, u, x, t, d, w, k, g), NowhereTwice(q, s, t, d, g)
  PROVE  /\ NowhereTwice(q, s, w, k, g)
         /\ \A v : Somewhere(v, q, s, w, k) => Somewhere(v, q, s, t, d)
         /\ \A v : Somewhere(v, q, s, t, d) =>
              Somewhere(v, q, s, w, k) \/ v \in Range(t[r]) \ (Range(u) \cup x)
<1> USE DEF Lets
<1>1. w[r] = u /\ \A b \in Requests : b # r => w[b] = t[b]
  OBVIOUS
<1>2. \A b \in Requests : Range(w[b]) \subseteq Range(t[b])
  BY <1>1
<1>3. /\ Once(q, g) /\ Once(s, g) /\ \A b \in Requests : Once(t[b], g)
      /\ Range(q) \cap Range(s) \subseteq g /\ Range(q) \cap d \subseteq g /\ Range(s) \cap d \subseteq g
      /\ \A b \in Requests : /\ Range(t[b]) \cap Range(q) \subseteq g
                             /\ Range(t[b]) \cap Range(s) \subseteq g
                             /\ Range(t[b]) \cap d \subseteq g
      /\ \A a, b \in Requests : a # b => Range(t[a]) \cap Range(t[b]) \subseteq g
  BY DEF NowhereTwice
<1>4. \A b \in Requests : /\ Once(w[b], g) /\ Range(w[b]) \cap Range(q) \subseteq g
                          /\ Range(w[b]) \cap Range(s) \subseteq g /\ Range(w[b]) \cap (d \cup x) \subseteq g
  <2> SUFFICES ASSUME NEW b \in Requests
               PROVE  /\ Once(w[b], g) /\ Range(w[b]) \cap Range(q) \subseteq g
                      /\ Range(w[b]) \cap Range(s) \subseteq g /\ Range(w[b]) \cap (d \cup x) \subseteq g
    OBVIOUS
  <2>1. CASE b = r
    BY <1>1, <1>2, <1>3, <2>1
  <2>2. CASE b # r
    BY <1>1, <1>3, <2>2
  <2> QED
    BY <2>1, <2>2
<1>5. \A a, b \in Requests : a # b => Range(w[a]) \cap Range(w[b]) \subseteq g
  BY <1>2, <1>3
<1>6. Range(q) \cap (d \cup x) \subseteq g /\ Range(s) \cap (d \cup x) \subseteq g
  BY <1>3
<1>7. NowhereTwice(q, s, w, d \cup x, g)
  BY <1>3, <1>4, <1>5, <1>6 DEF NowhereTwice
<1>8. \A v : Somewhere(v, q, s, w, d \cup x) => Somewhere(v, q, s, t, d)
  BY <1>2 DEF Somewhere
<1>9. \A v : Somewhere(v, q, s, t, d) =>
              Somewhere(v, q, s, w, d \cup x) \/ v \in Range(t[r]) \ (Range(u) \cup x)
  BY <1>1 DEF Somewhere
<1> QED
  BY <1>7, <1>8, <1>9

\* A broker is a networked back end.
LEMMA BrokerSuspends ==
  ASSUME TypeInv, ~env.interleaved
  PROVE  ~env.broker
BY SystemAssumption DEF TypeInv, TypeOK

LEMMA TodosTyped ==
  ASSUME TypeInv
  PROVE  /\ Todos \in [Requests -> Seq(Nat)] /\ queue \in Seq(Nat) /\ received \in Seq(Nat)
         /\ \A r \in Requests : Todos[r] = ctx[r].todo
<1>1. \A r \in Requests : ctx[r].todo \in Seq(Nat)
  BY HandFacts
<1> QED
  BY <1>1 DEF Todos, TypeInv, TypeOK

LEMMA TodosMove ==
  ASSUME TypeInv, NEW r \in Requests, NEW p \in Places, NEW c \in LocalRec, Moves(r, p, c)
  PROVE  Todos' = [Todos EXCEPT ![r] = c.todo]
<1>1. ctx'[r] = c /\ \A q \in Requests \ {r} : ctx'[q] = ctx[q]
  BY MoveEffect DEF TypeInv
<1> QED
  BY <1>1 DEF Todos

LEMMA ExplainedAfter ==
  ASSUME TypeInv, NEW e \in EntryRec, Logged(e)
  PROVE  Explained' = Explained \cup (IF e.type = "explanation" THEN {e.about} ELSE {})
<1>1. /\ Len(log) \in Nat /\ Len(log') = Len(log) + 1
      /\ \A i \in 1..Len(log) : log'[i] = log[i]
      /\ log'[Len(log) + 1] = e
  BY NewEntry DEF TypeInv
<1>2. 1..Len(log') = 1..Len(log) \cup {Len(log) + 1}
  BY <1>1
<1>3. \A x : x \in Explained' <=> \E i \in 1..Len(log') : log'[i].type = "explanation"
                                                       /\ log'[i].about = x
  BY DEF Explained
<1>4. \A x : x \in Explained <=> \E i \in 1..Len(log) : log[i].type = "explanation"
                                                     /\ log[i].about = x
  BY DEF Explained
<1>5. \A x : x \in Explained' <=> x \in Explained \/ (e.type = "explanation" /\ e.about = x)
  BY <1>1, <1>2, <1>3, <1>4
<1> QED
  BY <1>5

LEMMA PlacedNamed ==
  ASSUME TypeInv, JobsInv, NEW v, Placed(v)
  PROVE  v \in 1..Len(verdicts)
<1>1. CASE v \in Range(queue) \cup Range(received)
  <2>1. /\ Range(queue) = {queue[i] : i \in 1..Len(queue)}
        /\ Range(received) = {received[i] : i \in 1..Len(received)}
    BY TodosTyped, RangeIs
  <2> QED
    BY <1>1, <2>1 DEF TypeInv, JobsName
<1>2. CASE v \in Explained
  BY <1>2 DEF JobsInv
<1>3. CASE \E r \in Requests : v \in Range(Todos[r])
  <2>1. PICK r \in Requests : v \in Range(ctx[r].todo)
    BY <1>3, TodosTyped
  <2>2. ctx[r].todo \in Seq(Nat) /\ \A i \in 1..Len(ctx[r].todo) : ctx[r].todo[i] \in 1..Len(verdicts)
    BY HandFacts
  <2>3. Range(ctx[r].todo) = {ctx[r].todo[i] : i \in 1..Len(ctx[r].todo)}
    BY <2>2, RangeIs
  <2> QED
    BY <2>1, <2>2, <2>3
<1> QED
  BY <1>1, <1>2, <1>3 DEF Placed, Somewhere

\* A step of coroutine r that publishes at most job x.
LEMMA JobsMove ==
  ASSUME TypeInv, TypeInv', AuditInv, JobsInv, Grown,
         NEW r \in Requests, NEW p \in Places, NEW c \in LocalRec, Moves(r, p, c),
         env' = env, again' = again,
         NowhereTwice(queue, received, Todos, Explained, again)',
         NEW new, new \in {0, ctx[r].verdict}, \A v : Placed(v)' => Placed(v) \/ v = new,
         \/ UNCHANGED log
         \/ \E e \in EntryRec :
              /\ Logged(e)
              /\ e.type = "detection" => e = Entry("detection", e.ref)
              /\ e.type = "explanation" =>
                   e.about \in 1..Len(verdicts) /\ (e.about \notin Explained \/ e.about \in again),
         p # "explain" => c.todo = <<>>,
         p \in Handling \ {"deep"} =>
           \/ c.verdict = Len(verdicts) + 1
           \/ pc[r] \in Handling \ {"deep"} /\ c.verdict = ctx[r].verdict /\ new = 0
  PROVE  JobsInv'
<1>1. /\ pc'[r] = p /\ ctx'[r] = c
      /\ \A q \in Requests \ {r} : pc'[q] = pc[q] /\ ctx'[q] = ctx[q]
  BY MoveEffect DEF TypeInv
<1>2. Len(verdicts) \in Nat /\ Len(verdicts') \in Nat /\ Len(verdicts) <= Len(verdicts')
  BY Lengths, NextLengths DEF Grown, TypeInv
<1>3. /\ \A i, j \in 1..Len(log') :
           /\ log'[i].type = "explanation" /\ log'[j].type = "explanation"
           /\ log'[i].about = log'[j].about
           => i = j \/ log'[i].about \in again
      /\ Explained' \subseteq 1..Len(verdicts')
      /\ \A i \in 1..Len(log') :
           log'[i].type = "detection" => log'[i] = Entry("detection", log'[i].ref)
  <2>1. /\ \A i, j \in 1..Len(log) :
             /\ log[i].type = "explanation" /\ log[j].type = "explanation"
             /\ log[i].about = log[j].about
             => i = j \/ log[i].about \in again
        /\ Explained \subseteq 1..Len(verdicts)
        /\ \A i \in 1..Len(log) :
             log[i].type = "detection" => log[i] = Entry("detection", log[i].ref)
    BY DEF JobsInv
  <2>2. 1..Len(verdicts) \subseteq 1..Len(verdicts')
    BY <1>2
  <2>3. CASE UNCHANGED log
    <3>1. Explained' = Explained
      BY <2>3 DEF Explained
    <3> QED
      BY <2>1, <2>2, <2>3, <3>1
  <2>4. ASSUME NEW e \in EntryRec, Logged(e),
               e.type = "detection" => e = Entry("detection", e.ref),
               e.type = "explanation" =>
                 e.about \in 1..Len(verdicts) /\ (e.about \notin Explained \/ e.about \in again)
        PROVE  /\ \A i, j \in 1..Len(log') :
                    /\ log'[i].type = "explanation" /\ log'[j].type = "explanation"
                    /\ log'[i].about = log'[j].about
                    => i = j \/ log'[i].about \in again
               /\ Explained' \subseteq 1..Len(verdicts')
               /\ \A i \in 1..Len(log') :
                    log'[i].type = "detection" => log'[i] = Entry("detection", log'[i].ref)
    <3>1. /\ Len(log) \in Nat /\ Len(log') = Len(log) + 1
          /\ \A i \in 1..Len(log) : log'[i] = log[i]
          /\ log'[Len(log) + 1] = e
      BY <2>4, NewEntry DEF TypeInv
    <3>2. 1..Len(log') = 1..Len(log) \cup {Len(log) + 1}
      BY <3>1
    <3>3. Explained' \subseteq 1..Len(verdicts')
      <4>1. Explained' = Explained \cup (IF e.type = "explanation" THEN {e.about} ELSE {})
        BY <2>4, ExplainedAfter
      <4>2. \A x \in Explained' : x \in 1..Len(verdicts)
        BY <2>1, <2>4, <4>1
      <4> QED
        BY <2>2, <4>2
    <3>4. \A i \in 1..Len(log') :
             log'[i].type = "detection" => log'[i] = Entry("detection", log'[i].ref)
      BY <2>1, <2>4, <3>1, <3>2
    <3>5. ASSUME e.type = "explanation", NEW i \in 1..Len(log), log[i].type = "explanation"
          PROVE  log[i].about # e.about \/ e.about \in again
      <4>1. log[i].about \in Explained
        BY <3>5 DEF Explained
      <4> QED
        BY <2>4, <3>5, <4>1
    <3>6. \A i, j \in 1..Len(log') :
             /\ log'[i].type = "explanation" /\ log'[j].type = "explanation"
             /\ log'[i].about = log'[j].about
             => i = j \/ log'[i].about \in again
      BY <2>1, <3>1, <3>2, <3>5
    <3> QED
      BY <3>3, <3>4, <3>6
  <2> QED
    BY <2>3, <2>4
<1>4. ASSUME NEW q \in Requests, pc'[q] \in Handling \ {"deep"}
      PROVE  ~Placed(ctx[q].verdict)' \/ ctx'[q].verdict \in again
  <2>1. CASE q # r
    <3>1. PICK v : v = ctx[q].verdict
      OBVIOUS
    <3>2. pc[q] \in Handling \ {"deep"} /\ ctx'[q].verdict = v
      BY <1>1, <1>4, <2>1, <3>1
    <3>3. ~Placed(v) \/ v \in again
      BY <3>1, <3>2 DEF JobsInv
    <3>4. v # new
      BY <2>1, <3>1, <3>2, HandFacts DEF AuditInv, HandsApart
    <3> QED
      BY <3>2, <3>3, <3>4
  <2>2. CASE q = r /\ c.verdict = Len(verdicts) + 1
    <3>1. PICK n : n = Len(verdicts) + 1
      OBVIOUS
    <3>2. n \notin 1..Len(verdicts) /\ n # 0
      BY <1>2, <3>1
    <3>3. n # ctx[r].verdict
      BY <3>2, HandFacts DEF AuditInv, HandsApart
    <3>4. ~Placed(n)
      BY <3>2, PlacedNamed
    <3> QED
      BY <1>1, <2>2, <3>1, <3>2, <3>3, <3>4
  <2>3. CASE q = r /\ pc[r] \in Handling \ {"deep"} /\ c.verdict = ctx[r].verdict /\ new = 0
    <3>1. PICK v : v = ctx[r].verdict
      OBVIOUS
    <3>2. (~Placed(v) \/ v \in again) /\ v # 0
      BY <2>3, <3>1, HandFacts DEF JobsInv
    <3> QED
      BY <1>1, <2>3, <3>1, <3>2
  <2> QED
    BY <1>1, <1>4, <2>1, <2>2, <2>3
<1>5. ASSUME NEW q \in Requests, pc'[q] # "explain"
      PROVE  ctx'[q].todo = <<>>
  BY <1>1, <1>5 DEF JobsInv
<1> QED
  BY <1>3, <1>4, <1>5 DEF JobsInv

LEMMA DetectedStays ==
  ASSUME TypeInv, TypeInv', Len(log) <= Len(log'), \A i \in 1..Len(log) : log'[i] = log[i]
  PROVE  /\ \A n \in 0..Len(log) : \A v : DetectedIn(n, v) => DetectedIn(n, v)'
         /\ \A v : DetectedIn(Len(log), v) => DetectedIn(Len(log), v)'
<1>1. Len(log) \in Nat /\ Len(log') \in Nat
  BY Lengths, NextLengths DEF TypeInv
<1>2. \A n \in 0..Len(log) : \A i \in 1..n : i \in 1..Len(log) /\ i \in 1..Len(log')
  BY <1>1
<1>3. \A n \in 0..Len(log) : \A v : DetectedIn(n, v) => DetectedIn(n, v)'
  BY <1>2 DEF DetectedIn
<1>4. \A v : DetectedIn(Len(log), v) => DetectedIn(Len(log), v)'
  BY <1>1, <1>2 DEF DetectedIn
<1> QED
  BY <1>3, <1>4

\* A step of coroutine r, on the local back ends: jobs come with their detections in the
\* log, and none goes but with a failure.
LEMMA KeptMove ==
  ASSUME TypeInv, TypeInv', AuditInv, JobsInv, JobsKept, Grown, ~env.interleaved,
         lost \subseteq lost', dropped \subseteq dropped',
         NEW r \in Requests, NEW p \in Places, NEW c \in LocalRec, Moves(r, p, c), Turn(r),
         Len(log) <= Len(log'), \A i \in 1..Len(log) : log'[i] = log[i],
         \A v \in Range(queue') \cup Range(received') :
           v \in Range(queue) \cup Range(received) \/ DetectedIn(Len(log), v),
         p = "swap" => c.snapshot = Len(log'),
         \A v \in Range(c.todo) : c.snapshot \in 0..Len(log) /\ DetectedIn(c.snapshot, v),
         \A v : Placed(v) => Placed(v)' \/ v \in dropped',
         NEW own \in {ctx[r].verdict},
         own # 0 /\ pc[r] # "deep" =>
           \/ c.verdict = own /\ p # "deep"
           \/ Placed(own)' \/ own \in lost' \/ IsLogged("rejection", own)'
           \/ verdicts[own].label = "benign",
         \A v \in 1..Len(verdicts') : v > Len(verdicts) =>
           verdicts'[v].role # "handled" \/ (c.verdict = v /\ p # "deep")
  PROVE  JobsKept'
<1>1. /\ pc'[r] = p /\ ctx'[r] = c
      /\ \A q \in Requests : q # r => ~Holding(q) /\ pc'[q] = pc[q] /\ ctx'[q] = ctx[q]
  BY Alone
<1>2. /\ \A v \in Range(queue) \cup Range(received) : DetectedIn(Len(log), v)
      /\ \A v \in (1..Len(verdicts)) \ (lost \cup dropped) :
           /\ verdicts[v].role = "handled" /\ verdicts[v].label # "benign"
           /\ ~IsLogged("rejection", v)
           /\ \A q \in Requests : ctx[q].verdict = v => pc[q] = "deep"
           => Placed(v)
  BY DEF JobsKept
<1>3. \A v \in Range(queue') \cup Range(received') : DetectedIn(Len(log), v)'
  BY <1>2, DetectedStays
<1>4. ASSUME NEW q \in Requests, pc'[q] = "swap"
      PROVE  ctx'[q].snapshot = Len(log')
  BY <1>1, <1>4 DEF Holding
<1>5. ASSUME NEW q \in Requests, NEW v \in Range(ctx'[q].todo)
      PROVE  DetectedIn(ctx[q].snapshot, v)'
  <2>1. CASE q = r
    <3>1. PICK n \in 0..Len(log) : n = c.snapshot /\ DetectedIn(n, v)
      BY <1>1, <1>5, <2>1
    <3>2. DetectedIn(n, v)'
      BY <3>1, DetectedStays
    <3> QED
      BY <1>1, <2>1, <3>1, <3>2
  <2>2. CASE q # r
    <3>1. ctx'[q].todo = <<>>
      BY <1>1, <2>2 DEF Holding, JobsInv
    <3> QED
      BY <1>5, <3>1, NothingOnce
  <2> QED
    BY <2>1, <2>2
<1>6. ASSUME NEW v \in (1..Len(verdicts')) \ (lost' \cup dropped'),
             verdicts'[v].role = "handled", verdicts'[v].label # "benign",
             ~IsLogged("rejection", v)',
             \A q \in Requests : ctx'[q].verdict = v => pc'[q] = "deep"
      PROVE  Placed(v)'
  <2>1. Len(verdicts) \in Nat /\ Len(verdicts') \in Nat
    BY Lengths, NextLengths DEF TypeInv
  <2>2. ~(v > Len(verdicts))
    BY <1>1, <1>6
  <2>3. v \in 1..Len(verdicts) /\ verdicts'[v] = verdicts[v]
    BY <2>1, <2>2 DEF Grown
  <2>4. ~IsLogged("rejection", v)
    <3>1. 1..Len(log) \subseteq 1..Len(log')
      BY Lengths, NextLengths DEF TypeInv
    <3> QED
      BY <1>6, <3>1 DEF IsLogged
  <2>5. CASE \A q \in Requests : ctx[q].verdict = v => pc[q] = "deep"
    <3>1. Placed(v)
      BY <1>2, <1>6, <2>3, <2>4, <2>5
    <3> QED
      BY <1>6, <3>1
  <2>6. ASSUME NEW q \in Requests, ctx[q].verdict = v, pc[q] # "deep"
        PROVE  Placed(v)'
    <3>1. CASE q = r
      <4>1. own = v /\ own # 0
        BY <2>3, <2>6, <3>1
      <4>2. ~(c.verdict = own /\ p # "deep")
        BY <1>1, <1>6, <4>1
      <4> QED
        BY <1>6, <2>3, <2>6, <3>1, <4>1, <4>2
    <3>2. CASE q # r
      <4>1. ctx[q].verdict = 0
        BY <1>1, <3>2 DEF Holding, Handling, AuditInv, HandsApart
      <4> QED
        BY <2>3, <2>6, <4>1
    <3> QED
      BY <3>1, <3>2
  <2> QED
    BY <2>5, <2>6
<1> QED
  BY <1>3, <1>4, <1>5, <1>6 DEF JobsKept

\* A step of coroutine r that moves no job.
LEMMA JobsQuiet ==
  ASSUME TypeInv, TypeInv', AuditInv, JobsInv, JobsKept, Grown, env' = env,
         lost \subseteq lost', dropped \subseteq dropped', UNCHANGED <<queue, received, again>>,
         NEW r \in Requests, NEW p \in Places, NEW c \in LocalRec, Moves(r, p, c), Turn(r),
         pc[r] # "explain", p # "explain", c.todo = <<>>,
         \/ UNCHANGED log
         \/ \E e \in EntryRec :
              /\ Logged(e) /\ e.type # "explanation"
              /\ e.type = "detection" => e = Entry("detection", e.ref),
         p \in Handling \ {"deep"} =>
           \/ c.verdict = Len(verdicts) + 1
           \/ pc[r] \in Handling \ {"deep"} /\ c.verdict = ctx[r].verdict,
         p = "swap" => c.snapshot = Len(log'),
         NEW own \in {ctx[r].verdict},
         own # 0 /\ pc[r] # "deep" =>
           \/ c.verdict = own /\ p # "deep"
           \/ own \in lost' \/ IsLogged("rejection", own)' \/ verdicts[own].label = "benign",
         \A v \in 1..Len(verdicts') : v > Len(verdicts) =>
           verdicts'[v].role # "handled" \/ (c.verdict = v /\ p # "deep")
  PROVE  JobsInv' /\ JobsKept'
<1>1. Todos' = Todos
  <2>1. Todos' = [Todos EXCEPT ![r] = c.todo]
    BY TodosMove
  <2>2. Todos[r] = c.todo
    BY TodosTyped DEF JobsInv
  <2> QED
    BY <2>1, <2>2, TodosTyped
<1>2. /\ Explained' = Explained /\ Len(log) <= Len(log')
      /\ \A i \in 1..Len(log) : log'[i] = log[i]
  <2>1. CASE UNCHANGED log
    BY <2>1 DEF Explained, TypeInv, TypeOK
  <2>2. ASSUME NEW e \in EntryRec, Logged(e), e.type # "explanation"
        PROVE  /\ Explained' = Explained /\ Len(log) <= Len(log')
               /\ \A i \in 1..Len(log) : log'[i] = log[i]
    <3>1. Explained' = Explained
      BY <2>2, ExplainedAfter
    <3>2. /\ Len(log) \in Nat /\ Len(log') = Len(log) + 1
          /\ \A i \in 1..Len(log) : log'[i] = log[i]
      BY <2>2, NewEntry DEF TypeInv
    <3> QED
      BY <3>1, <3>2
  <2> QED
    BY <2>1, <2>2
<1>3. NowhereTwice(queue, received, Todos, Explained, again)'
  BY <1>1, <1>2 DEF JobsInv, NowhereTwice
<1>4. \A v : Placed(v)' <=> Placed(v)
  BY <1>1, <1>2 DEF Placed, Somewhere
<1>5. JobsInv'
  <2>1. 0 \in {0, ctx[r].verdict} /\ \A v : Placed(v)' => Placed(v) \/ v = 0
    BY <1>4
  <2>2. \/ UNCHANGED log
        \/ \E e \in EntryRec :
             /\ Logged(e)
             /\ e.type = "detection" => e = Entry("detection", e.ref)
             /\ e.type = "explanation" =>
                  e.about \in 1..Len(verdicts) /\ (e.about \notin Explained \/ e.about \in again)
    OBVIOUS
  <2> QED
    BY <1>3, <2>1, <2>2, JobsMove
<1>6. CASE env.interleaved
  BY <1>5, <1>6 DEF JobsKept
<1>7. CASE ~env.interleaved
  <2>1. \A v \in Range(queue') \cup Range(received') :
           v \in Range(queue) \cup Range(received) \/ DetectedIn(Len(log), v)
    OBVIOUS
  <2>2. \A v \in Range(c.todo) : c.snapshot \in 0..Len(log) /\ DetectedIn(c.snapshot, v)
    BY NothingOnce
  <2>3. \A v : Placed(v) => Placed(v)' \/ v \in dropped'
    BY <1>4
  <2> QED
    BY <1>2, <1>5, <1>7, <2>1, <2>2, <2>3, KeptMove
<1> QED
  BY <1>6, <1>7

LEMMA BeginsJobs ==
  ASSUME TypeInv, TypeInv', AuditInv, JobsInv, JobsKept, Grown,
         NEW r \in Requests, NEW w \in VerdictRec, Handle(r, w), Turn(r),
         pc[r] \in {"idle", "deep"}, UNCHANGED <<env, log, queue, received, lost, dropped, again>>
  PROVE  JobsInv' /\ JobsKept'
<1> DEFINE c == [Idle EXCEPT !.verdict = Len(verdicts) + 1]
<1>1. /\ Moves(r, "detection", c) /\ c \in LocalRec /\ c.verdict = Len(verdicts) + 1
      /\ c.todo = <<>> /\ verdicts' = Append(verdicts, w)
  BY HandleEffect DEF TypeInv
<1> HIDE DEF c
<1>2. \A v \in 1..Len(verdicts') : v > Len(verdicts) => c.verdict = v
  <2>1. Len(verdicts) \in Nat /\ Len(verdicts') = Len(verdicts) + 1
    BY <1>1, NewVerdict DEF TypeInv
  <2> QED
    BY <1>1, <2>1
<1>3. PICK own \in {ctx[r].verdict} : own = ctx[r].verdict
  OBVIOUS
<1>4. pc[r] # "deep" => own = 0
  BY <1>3 DEF AuditInv, HandsApart, Handling
<1>5. "detection" \in Places /\ "detection" \notin {"explain", "swap", "deep"}
  BY DEF Places, Handling
<1>6. pc[r] # "explain"
  OBVIOUS
<1> QED
  BY <1>1, <1>2, <1>3, <1>4, <1>5, <1>6, JobsQuiet

\* The verdict in hand stays there, before the deep lane.
LEMMA StaysJobs ==
  ASSUME TypeInv, TypeInv', AuditInv, JobsInv, JobsKept,
         NEW r \in Requests, \/ LogDetection(r) \/ Decide(r) \/ Reject(r) \/ LogDecision(r)
                             \/ LogEnforcement(r)
  PROVE  JobsInv' /\ JobsKept'
<1>1. /\ pc[r] \in Handling \ {"deep"} /\ Turn(r)
      /\ UNCHANGED <<env, verdicts, queue, received, lost, dropped, again>>
  BY DEF LogDetection, Decide, Reject, LogDecision, LogEnforcement, At, Handling, jobVars,
         faultVars
<1>2. ctx[r] \in LocalRec /\ ctx[r].todo = <<>>
  BY <1>1, HandFacts DEF JobsInv, Handling
<1>3. PICK p \in Handling \ {"deep"}, c \in LocalRec :
        Moves(r, p, c) /\ c.verdict = ctx[r].verdict /\ c.todo = <<>>
  <2>1. CASE LogDetection(r) \/ Reject(r) \/ LogDecision(r) \/ LogEnforcement(r)
    <3>1. \E p \in Handling \ {"deep"} : Moves(r, p, ctx[r])
      BY <2>1, GotoMoves DEF LogDetection, Reject, LogDecision, LogEnforcement,
                             AfterDecision, TypeInv, Handling
    <3> QED
      BY <1>2, <3>1
  <2>2. CASE Decide(r)
    <3> DEFINE c == [ctx[r] EXCEPT !.decision = Len(decisions) + 1]
    <3>1. /\ Moves(r, "decision", c) /\ c \in LocalRec /\ c.verdict = ctx[r].verdict
          /\ c.todo = ctx[r].todo
      BY <2>2, DecideEffect
    <3> HIDE DEF c
    <3> QED
      BY <1>2, <3>1 DEF Handling
  <2> QED
    BY <2>1, <2>2
<1>4. Grown
  <2>1. [Next]_vars
    BY DEF Next
  <2> QED
    BY <2>1, GrownStep
<1>5. \/ UNCHANGED log
      \/ \E e \in EntryRec :
           /\ Logged(e) /\ e.type # "explanation"
           /\ e.type = "detection" => e = Entry("detection", e.ref)
  <2>1. CASE Decide(r) \/ Reject(r)
    BY <2>1 DEF Decide, Reject
  <2>2. CASE LogDetection(r)
    <3> DEFINE e == Entry("detection", ctx[r].verdict)
    <3>1. e \in EntryRec /\ Logged(e) /\ e.type = "detection" /\ e = Entry("detection", e.ref)
      BY <2>2, HandFacts, EntryTyped DEF LogDetection, Entry
    <3> HIDE DEF e
    <3> QED
      BY <3>1
  <2>3. CASE LogDecision(r) \/ LogEnforcement(r)
    <3>1. PICK t \in {"decision", "enforcement"} : Logged(Entry(t, ctx[r].decision))
      BY <2>3 DEF LogDecision, LogEnforcement
    <3> DEFINE e == Entry(t, ctx[r].decision)
    <3>2. e \in EntryRec /\ Logged(e) /\ e.type = t
      BY <3>1, HandFacts, EntryTyped DEF Entry
    <3> HIDE DEF e
    <3> QED
      BY <3>1, <3>2
  <2> QED
    BY <2>1, <2>2, <2>3
<1>6. PICK own \in {ctx[r].verdict} : own = ctx[r].verdict
  OBVIOUS
<1>7. \A v \in 1..Len(verdicts') : ~(v > Len(verdicts))
  BY <1>1 DEF TypeInv, TypeOK
<1>8. p \in Places /\ p # "explain" /\ p # "swap" /\ p # "deep" /\ pc[r] # "explain"
  BY <1>1, <1>3 DEF Places, Handling
<1> QED
  BY <1>1, <1>3, <1>4, <1>5, <1>6, <1>7, <1>8, JobsQuiet

\* A coroutine ends that the deep lane, or an operator, has had the work of.
LEMMA EndsJobs ==
  ASSUME TypeInv, TypeInv', AuditInv, JobsInv, JobsKept,
         NEW r \in Requests, \/ DeepLaneBuffers(r) \/ LogCorrection(r)
                             \/ Fail(r) /\ pc[r] # "explain"
  PROVE  JobsInv' /\ JobsKept'
<1>1. /\ Turn(r) /\ pc[r] # "explain" /\ Moves(r, "idle", Idle)
      /\ UNCHANGED <<env, verdicts, queue, received, again>>
      /\ lost \subseteq lost' /\ dropped \subseteq dropped'
  BY FinishMoves DEF DeepLaneBuffers, LogCorrection, Fail, At, jobVars, faultVars
<1>2. PICK own \in {ctx[r].verdict} : own = ctx[r].verdict
  OBVIOUS
<1>3. own = 0 \/ pc[r] = "deep" \/ own \in lost'
  <2>1. CASE DeepLaneBuffers(r)
    BY <2>1 DEF DeepLaneBuffers, At
  <2>2. CASE LogCorrection(r)
    BY <1>2, <2>2 DEF LogCorrection, At, AuditInv, HandsApart, Handling
  <2>3. CASE Fail(r)
    BY <1>2, <2>3 DEF Fail
  <2> QED
    BY <2>1, <2>2, <2>3
<1>4. Grown
  BY <1>1, GrownStep DEF Next
<1>5. \/ UNCHANGED log
      \/ \E e \in EntryRec :
           /\ Logged(e) /\ e.type # "explanation"
           /\ e.type = "detection" => e = Entry("detection", e.ref)
  <2>1. CASE DeepLaneBuffers(r) \/ Fail(r)
    BY <2>1 DEF DeepLaneBuffers, Fail
  <2>2. CASE LogCorrection(r)
    <3> DEFINE e == Entry("correction", ctx[r].decision)
    <3>1. e \in EntryRec /\ Logged(e) /\ e.type = "correction"
      BY <2>2, HandFacts, EntryTyped DEF LogCorrection, Entry
    <3> HIDE DEF e
    <3> QED
      BY <3>1
  <2> QED
    BY <2>1, <2>2
<1>6. \A v \in 1..Len(verdicts') : ~(v > Len(verdicts))
  BY <1>1 DEF TypeInv, TypeOK
<1>7. /\ "idle" \in Places /\ "idle" \notin Handling /\ "idle" # "explain" /\ "idle" # "swap"
      /\ Idle \in LocalRec /\ Idle.todo = <<>>
  BY IdleTyped DEF Places, Handling
<1> HIDE DEF Idle
<1> QED
  BY <1>1, <1>2, <1>3, <1>4, <1>5, <1>6, <1>7, JobsQuiet

\* The caller of _handle_verdict goes on: the verdict is rejected, or benign.
LEMMA ReturnsJobs ==
  ASSUME TypeInv, TypeInv', AuditInv, JobsInv, JobsKept,
         NEW r \in Requests, LogRejection(r) \/ (Enqueue(r) /\ Mine(r).label = "benign")
  PROVE  JobsInv' /\ JobsKept'
<1>1. /\ pc[r] \in Handling /\ pc[r] # "explain" /\ Turn(r) /\ Return(r)
      /\ UNCHANGED <<env, verdicts, queue, received, lost, dropped, again>>
  BY DEF LogRejection, Enqueue, At, Handling, jobVars, faultVars
<1>2. ctx[r] \in LocalRec /\ ctx[r].todo = <<>>
  BY <1>1, HandFacts DEF JobsInv
<1>3. PICK p \in {"deep", "idle"}, c \in LocalRec : Moves(r, p, c) /\ c.todo = <<>>
  BY <1>1, <1>2, ReturnMoves, IdleTyped
<1>4. Grown
  BY GrownStep DEF Next
<1>5. PICK own \in {ctx[r].verdict} : own = ctx[r].verdict
  OBVIOUS
<1>6. /\ \/ UNCHANGED log
         \/ \E e \in EntryRec :
              /\ Logged(e) /\ e.type # "explanation"
              /\ e.type = "detection" => e = Entry("detection", e.ref)
      /\ IsLogged("rejection", own)' \/ verdicts[own].label = "benign"
  <2>1. CASE Enqueue(r) /\ Mine(r).label = "benign"
    BY <1>5, <2>1 DEF Enqueue, Mine
  <2>2. CASE LogRejection(r)
    <3> DEFINE e == Entry("rejection", own)
    <3>1. e \in EntryRec /\ Logged(e) /\ e.type = "rejection" /\ e.ref = own
      BY <1>5, <2>2, HandFacts, EntryTyped DEF LogRejection, Entry
    <3> HIDE DEF e
    <3>2. IsLogged("rejection", own)'
      BY <3>1, LoggedAfter DEF TypeInv
    <3> QED
      BY <3>1, <3>2
  <2> QED
    BY <2>1, <2>2
<1>7. \A v \in 1..Len(verdicts') : ~(v > Len(verdicts))
  BY <1>1 DEF TypeInv, TypeOK
<1>8. p \in Places /\ p # "explain" /\ p # "swap" /\ p \notin Handling \ {"deep"}
  BY <1>3 DEF Places, Handling
<1> QED
  BY <1>1, <1>3, <1>4, <1>5, <1>6, <1>7, <1>8, JobsQuiet

\* The job is published, after the detection.
LEMMA EnqueueJobs ==
  ASSUME TypeInv, TypeInv', AuditInv, JobsInv, JobsKept,
         NEW r \in Requests, Enqueue(r), Mine(r).label # "benign"
  PROVE  JobsInv' /\ JobsKept'
<1>1. /\ pc[r] = "enqueue" /\ Turn(r) /\ Return(r)
      /\ UNCHANGED <<env, verdicts, log, received, lost, dropped, again>>
      /\ queue' = Append(queue, ctx[r].verdict)
  BY DEF Enqueue, At, Handling, faultVars
<1>2. /\ ctx[r] \in LocalRec /\ ctx[r].todo = <<>> /\ ctx[r].verdict \in 1..Len(verdicts)
      /\ ctx[r].verdict \in Nat /\ pc[r] \in Handling \ {"deep"}
  BY <1>1, HandFacts DEF JobsInv, Handling
<1>3. PICK p \in {"deep", "idle"}, c \in LocalRec : Moves(r, p, c) /\ c.todo = <<>>
  BY <1>1, <1>2, ReturnMoves, IdleTyped
<1>4. Grown
  BY GrownStep DEF Next
<1>5. PICK own \in {ctx[r].verdict} : own = ctx[r].verdict /\ own \in Nat
  BY <1>2
<1>6. Todos' = Todos /\ Explained' = Explained
  <2>1. Todos' = [Todos EXCEPT ![r] = c.todo]
    BY <1>3, TodosMove DEF Places, Handling
  <2>2. Todos[r] = c.todo
    BY <1>2, <1>3, TodosTyped
  <2> QED
    BY <1>1, <2>1, <2>2, TodosTyped DEF Explained
<1>7. ~Placed(own) \/ own \in again
  BY <1>2, <1>5 DEF JobsInv
<1>8. /\ NowhereTwice(queue', received', Todos', Explained', again')
      /\ \A v : Somewhere(v, queue', received', Todos', Explained')
                  <=> Somewhere(v, queue, received, Todos, Explained) \/ v = own
  BY <1>1, <1>5, <1>6, <1>7, TodosTyped, PublishOnce DEF Placed, JobsInv
<1>9. NowhereTwice(queue, received, Todos, Explained, again)' /\ \A v : Placed(v)' <=> Placed(v) \/ v = own
  BY <1>8 DEF Placed
<1>10. p \in Places /\ p # "explain" /\ p # "swap" /\ p \notin Handling \ {"deep"}
  BY <1>3 DEF Places, Handling
<1>11. JobsInv'
  BY <1>1, <1>3, <1>4, <1>5, <1>9, <1>10, JobsMove
<1>12. CASE env.interleaved
  BY <1>1, <1>11, <1>12 DEF JobsKept
<1>13. CASE ~env.interleaved
  <2>1. DetectedIn(Len(log), own)
    <3>1. IsLogged("detection", own)
      BY <1>1, <1>5 DEF AuditInv, Trail
    <3>2. PICK i \in 1..Len(log) : log[i].type = "detection" /\ log[i].ref = own
      BY <3>1 DEF IsLogged
    <3>3. log[i] = Entry("detection", own)
      BY <3>2 DEF JobsInv
    <3> QED
      BY <3>3 DEF DetectedIn
  <2>2. \A v \in Range(queue') \cup Range(received') :
           v \in Range(queue) \cup Range(received) \/ DetectedIn(Len(log), v)
    <3>1. Range(queue') = Range(queue) \cup {own}
      BY <1>1, <1>5, TodosTyped, AppendOnce
    <3> QED
      BY <1>1, <2>1, <3>1
  <2>3. \A v \in Range(c.todo) : c.snapshot \in 0..Len(log) /\ DetectedIn(c.snapshot, v)
    BY <1>3, NothingOnce
  <2>4. \A v \in 1..Len(verdicts') : ~(v > Len(verdicts))
    BY <1>1 DEF TypeInv, TypeOK
  <2>5. Len(log) <= Len(log') /\ \A i \in 1..Len(log) : log'[i] = log[i]
    BY <1>1 DEF TypeInv, TypeOK
  <2>6. Placed(own)' /\ \A v : Placed(v) => Placed(v)'
    BY <1>9
  <2>7. lost \subseteq lost' /\ dropped \subseteq dropped'
    BY <1>1
  <2> QED
    BY <1>1, <1>3, <1>4, <1>5, <1>10, <1>11, <1>13, <2>2, <2>3, <2>4, <2>5, <2>6, <2>7,
       KeptMove
<1> QED
  BY <1>11, <1>12, <1>13

LEMMA RecordJobs ==
  ASSUME TypeInv, TypeInv', AuditInv, JobsInv, JobsKept,
         NEW r \in Requests, NEW ip \in IPs, NEW fp \in BOOLEAN, RecordCorrection(r, ip, fp)
  PROVE  JobsInv' /\ JobsKept'
<1> DEFINE c == [Idle EXCEPT !.decision = last[ip]]
<1>1. /\ pc[r] = "idle" /\ Turn(r) /\ Moves(r, "correction", c)
      /\ UNCHANGED <<env, verdicts, log, queue, received, lost, dropped, again>>
  BY DEF RecordCorrection, At, Moves, Goto, jobVars, faultVars
<1>2. c \in LocalRec /\ c.todo = <<>>
  BY IdleTyped DEF TypeInv, TypeOK
<1> HIDE DEF c
<1>3. PICK own \in {ctx[r].verdict} : own = ctx[r].verdict
  OBVIOUS
<1>4. own = 0
  BY <1>1, <1>3 DEF AuditInv, HandsApart, Handling
<1>5. Grown
  BY <1>1, GrownSame DEF RecordCorrection, TypeInv
<1>6. \A v \in 1..Len(verdicts') : ~(v > Len(verdicts))
  BY <1>1 DEF TypeInv, TypeOK
<1>7. /\ "correction" \in Places /\ "correction" \notin Handling /\ "correction" # "explain"
      /\ "correction" # "swap"
  BY DEF Places, Handling
<1>8. /\ lost \subseteq lost' /\ dropped \subseteq dropped' /\ pc[r] # "explain"
      /\ env' = env /\ UNCHANGED <<queue, received, again>> /\ UNCHANGED log /\ Turn(r)
      /\ Moves(r, "correction", c)
  BY <1>1
<1> QED
  BY <1>2, <1>3, <1>4, <1>5, <1>6, <1>7, <1>8, JobsQuiet

LEMMA ReadJobs ==
  ASSUME TypeInv, TypeInv', AuditInv, JobsInv, JobsKept, NEW r \in Requests, ReadAll(r)
  PROVE  JobsInv' /\ JobsKept'
<1>0. PICK c : c = [ctx[r] EXCEPT !.snapshot = Len(log)]
  OBVIOUS
<1>1. /\ pc[r] = "read" /\ Turn(r) /\ Moves(r, "swap", c)
      /\ UNCHANGED <<env, verdicts, decisions, log, queue, received, lost, dropped,
                    again>>
  BY <1>0 DEF ReadAll, At, Moves, Goto, jobVars, faultVars, engineVars
<1>2. c \in LocalRec /\ c.todo = <<>> /\ c.snapshot = Len(log)
  <2>1. ctx[r] \in LocalRec /\ log \in Seq(EntryRec)
    BY HandFacts DEF TypeInv, TypeOK
  <2>2. Len(log) \in Nat
    BY <2>1
  <2>3. ctx[r].todo = <<>>
    BY <1>1 DEF JobsInv
  <2> QED
    BY <1>0, <2>1, <2>2, <2>3, LocalTyped DEF LocalRec
<1>3. PICK own \in {ctx[r].verdict} : own = ctx[r].verdict
  OBVIOUS
<1>4. own = 0
  BY <1>1, <1>3 DEF AuditInv, HandsApart, Handling
<1>5. Grown
  BY <1>1, GrownSame DEF TypeInv
<1>6. \A v \in 1..Len(verdicts') : ~(v > Len(verdicts))
  BY <1>1 DEF TypeInv, TypeOK
<1>7. /\ "swap" \in Places /\ "swap" \notin Handling /\ "swap" # "explain"
  BY DEF Places, Handling
<1>8. /\ lost \subseteq lost' /\ dropped \subseteq dropped' /\ pc[r] # "explain"
      /\ env' = env /\ UNCHANGED <<queue, received, again>> /\ UNCHANGED log /\ Turn(r)
      /\ Moves(r, "swap", c) /\ c.snapshot = Len(log')
  BY <1>1, <1>2
<1> QED
  BY <1>2, <1>3, <1>4, <1>5, <1>6, <1>7, <1>8, JobsQuiet

\* The worker takes what is queued, on its own or in a drain's sleeps.
LEMMA ConsumeKeeps ==
  ASSUME TypeInv, JobsInv, received' = received \o queue, queue' = <<>>,
         Todos' = Todos, Explained' = Explained, again' = again
  PROVE  /\ NowhereTwice(queue, received, Todos, Explained, again)'
         /\ \A v : Placed(v)' <=> Placed(v)
         /\ Range(queue') \cup Range(received') = Range(queue) \cup Range(received)
<1>1. /\ NowhereTwice(<<>>, received \o queue, Todos, Explained, again)
      /\ \A v : Somewhere(v, <<>>, received \o queue, Todos, Explained)
                  <=> Somewhere(v, queue, received, Todos, Explained)
  BY TodosTyped, ConsumeOnce DEF JobsInv
<1>2. Range(received \o queue) = Range(received) \cup Range(queue)
  BY TodosTyped, ConcatOnce
<1>3. NowhereTwice(queue', received', Todos', Explained', again')
  BY <1>1
<1>4. \A v : Somewhere(v, queue', received', Todos', Explained')
                  <=> Somewhere(v, queue, received, Todos, Explained)
  BY <1>1
<1> QED
  BY <1>2, <1>3, <1>4, NothingOnce DEF Placed

LEMMA DrainJobs ==
  ASSUME TypeInv, TypeInv', AuditInv, JobsInv, JobsKept, NEW r \in Requests, Drain(r)
  PROVE  JobsInv' /\ JobsKept'
<1>1. /\ pc[r] = "idle" /\ Turn(r) /\ Goto(r, "read") /\ UNCHANGED ctx
      /\ UNCHANGED <<env, verdicts, decisions, log, lost, dropped, again>>
      /\ IF worker /\ ~env.broker THEN received' = received \o queue /\ queue' = <<>>
                   ELSE received' = received /\ queue' = queue
  BY DEF Drain, At, faultVars, engineVars
<1>2. PICK c \in LocalRec : c = ctx[r] /\ Moves(r, "read", c) /\ c.todo = <<>>
  BY <1>1, GotoMoves DEF TypeInv, JobsInv
<1>3. PICK own \in {ctx[r].verdict} : own = ctx[r].verdict
  OBVIOUS
<1>4. own = 0
  BY <1>1, <1>3 DEF AuditInv, HandsApart, Handling
<1>5. Grown
  BY <1>1, GrownSame DEF TypeInv
<1>6. \A v \in 1..Len(verdicts') : ~(v > Len(verdicts))
  BY <1>1 DEF TypeInv, TypeOK
<1>7. /\ "read" \in Places /\ "read" \notin Handling /\ "read" # "explain" /\ "read" # "swap"
  BY DEF Places, Handling
<1>8. lost \subseteq lost' /\ dropped \subseteq dropped' /\ pc[r] # "explain"
  BY <1>1
<1>9. CASE ~(worker /\ ~env.broker)
  BY <1>1, <1>2, <1>3, <1>4, <1>5, <1>6, <1>7, <1>8, <1>9, JobsQuiet
<1>10. CASE worker /\ ~env.broker
  <2>1. Todos' = Todos /\ Explained' = Explained
    BY <1>1 DEF Todos, Explained
  <2>2. /\ NowhereTwice(queue, received, Todos, Explained, again)'
        /\ \A v : Placed(v)' <=> Placed(v)
        /\ Range(queue') \cup Range(received') = Range(queue) \cup Range(received)
    BY <1>1, <1>10, <2>1, ConsumeKeeps
  <2>3. JobsInv'
    <3>1. PICK new : new = 0
      OBVIOUS
    <3>2. new \in {0, ctx[r].verdict} /\ \A v : Placed(v)' => Placed(v) \/ v = new
      BY <2>2, <3>1
    <3> QED
      BY <1>1, <1>2, <1>5, <1>7, <2>2, <3>2, JobsMove
  <2>4. CASE env.interleaved
    BY <1>1, <2>3, <2>4 DEF JobsKept
  <2>5. CASE ~env.interleaved
    <3>1. \A v \in Range(c.todo) : c.snapshot \in 0..Len(log) /\ DetectedIn(c.snapshot, v)
      BY <1>2, NothingOnce
    <3>2. Len(log) <= Len(log') /\ \A i \in 1..Len(log) : log'[i] = log[i]
      BY <1>1 DEF TypeInv, TypeOK
    <3>3. \A v \in Range(queue') \cup Range(received') :
             v \in Range(queue) \cup Range(received) \/ DetectedIn(Len(log), v)
      BY <2>2
    <3>4. \A v : Placed(v) => Placed(v)' \/ v \in dropped'
      BY <2>2
    <3>5. Turn(r) /\ "read" \in Places /\ Moves(r, "read", c)
      BY <1>1, <1>2, <1>7
    <3> QED
      BY <1>2, <1>3, <1>4, <1>5, <1>6, <1>7, <1>8, <2>3, <2>5, <3>1, <3>2, <3>3, <3>4, <3>5,
         KeptMove
  <2> QED
    BY <2>3, <2>4, <2>5
<1> QED
  BY <1>9, <1>10

\* The list received becomes the drain's.
LEMMA SwapJobs ==
  ASSUME TypeInv, TypeInv', AuditInv, JobsInv, JobsKept, NEW r \in Requests, Swap(r)
  PROVE  JobsInv' /\ JobsKept'
<1>1. /\ pc[r] = "swap" /\ Turn(r) /\ env' = env /\ UNCHANGED <<verdicts, decisions>>
      /\ UNCHANGED log /\ queue' = queue /\ lost \subseteq lost' /\ dropped \subseteq dropped'
      /\ received' = <<>> /\ pc[r] # "explain" /\ again' = again
  BY DEF Swap, At, faultVars, engineVars
<1>2. PICK own \in {ctx[r].verdict} : own = ctx[r].verdict
  OBVIOUS
<1>3. own = 0
  BY <1>1, <1>2 DEF AuditInv, HandsApart, Handling
<1>4. Grown
  BY <1>1, GrownSame DEF TypeInv
<1>5. \A v \in 1..Len(verdicts') : ~(v > Len(verdicts))
  BY <1>1 DEF TypeInv, TypeOK
<1>6. CASE received = <<>>
  <2>1. UNCHANGED <<queue, received, again>> /\ Moves(r, "idle", Idle)
    BY <1>1, <1>6, FinishMoves DEF Swap
  <2>2. /\ "idle" \in Places /\ "idle" \notin Handling /\ "idle" # "explain" /\ "idle" # "swap"
        /\ Idle \in LocalRec /\ Idle.todo = <<>>
    BY IdleTyped DEF Places, Handling
  <2>3. PICK c : c = Idle
    OBVIOUS
  <2> HIDE DEF Idle
  <2> QED
    BY <1>1, <1>2, <1>3, <1>4, <1>5, <2>1, <2>2, <2>3, JobsQuiet
<1>7. CASE received # <<>>
  <2>1. PICK c : c = [ctx[r] EXCEPT !.todo = received]
    OBVIOUS
  <2>2. /\ ctx[r] \in LocalRec /\ ctx[r].todo = <<>> /\ received \in Seq(Nat)
        /\ Todos \in [Requests -> Seq(Nat)] /\ Todos[r] = <<>>
    BY <1>1, HandFacts, TodosTyped DEF JobsInv
  <2>3. c \in LocalRec /\ c.todo = received /\ c.snapshot = ctx[r].snapshot
    BY <2>1, <2>2, LocalTyped DEF LocalRec
  <2>4. Moves(r, "explain", c) /\ "explain" \in Places
    BY <1>7, <2>1 DEF Swap, Moves, Goto, Places
  <2>5. Todos' = [Todos EXCEPT ![r] = received] /\ Explained' = Explained
    BY <1>1, <2>3, <2>4, TodosMove DEF Explained
  <2>6. /\ NowhereTwice(queue', received', Todos', Explained', again')
        /\ \A v : Somewhere(v, queue', received', Todos', Explained')
                    <=> Somewhere(v, queue, received, Todos, Explained)
    <3>1. PICK t, d : t = Todos /\ d = Explained
      OBVIOUS
    <3>2. /\ NowhereTwice(queue, <<>>, [t EXCEPT ![r] = received], d, again)
          /\ \A v : Somewhere(v, queue, <<>>, [t EXCEPT ![r] = received], d)
                      <=> Somewhere(v, queue, received, t, d)
      BY <2>2, <3>1, TakeOnce DEF JobsInv
    <3> QED
      BY <1>1, <2>5, <3>1, <3>2
  <2>7. NowhereTwice(queue, received, Todos, Explained, again)' /\ \A v : Placed(v)' <=> Placed(v)
    BY <2>6 DEF Placed
  <2>8. JobsInv'
    <3>1. PICK new : new = 0
      OBVIOUS
    <3>2. new \in {0, ctx[r].verdict} /\ \A v : Placed(v)' => Placed(v) \/ v = new
      BY <2>7, <3>1
    <3>3. "explain" \notin Handling
      BY DEF Handling
    <3> QED
      BY <1>1, <1>4, <2>3, <2>4, <2>7, <3>2, <3>3, JobsMove
  <2>9. CASE env.interleaved
    BY <1>1, <2>8, <2>9 DEF JobsKept
  <2>10. CASE ~env.interleaved
    <3>1. \A v \in Range(c.todo) : c.snapshot \in 0..Len(log) /\ DetectedIn(c.snapshot, v)
      <4>1. c.snapshot = Len(log)
        BY <1>1, <2>3, <2>10 DEF JobsKept
      <4>2. \A v \in Range(received) : DetectedIn(Len(log), v)
        BY <2>10 DEF JobsKept
      <4>3. Len(log) \in 0..Len(log)
        BY DEF TypeInv, TypeOK
      <4> QED
        BY <2>3, <4>1, <4>2, <4>3
    <3>2. \A v \in Range(queue') \cup Range(received') :
             v \in Range(queue) \cup Range(received) \/ DetectedIn(Len(log), v)
      BY <1>1, NothingOnce
    <3>3. Len(log) <= Len(log') /\ \A i \in 1..Len(log) : log'[i] = log[i]
      BY <1>1 DEF TypeInv, TypeOK
    <3>4. \A v : Placed(v) => Placed(v)' \/ v \in dropped'
      BY <2>7
    <3> QED
      BY <1>1, <1>2, <1>3, <1>4, <1>5, <2>3, <2>4, <2>8, <2>10, <3>1, <3>2, <3>3, <3>4, KeptMove
  <2> QED
    BY <2>9, <2>10
<1> QED
  BY <1>6, <1>7

\* A drain that explains goes on to its next job, or ends.
LEMMA NextJobHands ==
  ASSUME TypeInv, JobsInv, NEW r \in Requests, pc[r] = "explain", NextJob(r)
  PROVE  /\ Head(ctx[r].todo) \in Range(ctx[r].todo)
         /\ \E p \in {"idle", "explain"}, c \in LocalRec :
              /\ Moves(r, p, c) /\ Once(c.todo, again)
              /\ Range(ctx[r].todo) = Range(c.todo) \cup {Head(ctx[r].todo)}
              /\ Head(ctx[r].todo) \in Range(c.todo) => Head(ctx[r].todo) \in again
              /\ p = "idle" => c.todo = <<>>
              /\ c.snapshot = ctx[r].snapshot \/ c.todo = <<>>
<1>1. ctx[r] \in LocalRec /\ ctx[r].todo \in Seq(Nat) /\ ctx[r].todo # <<>>
      /\ Once(ctx[r].todo, again)
  <2>1. Once(Todos[r], again)
    BY DEF JobsInv, NowhereTwice
  <2> QED
    BY <2>1, HandFacts, TodosTyped DEF TypeInv, HandsOK
<1>2. PICK h, t : t = Tail(ctx[r].todo) /\ h = Head(ctx[r].todo)
  OBVIOUS
<1>3. /\ Once(t, again) /\ Range(ctx[r].todo) = Range(t) \cup {h} /\ h \in Range(ctx[r].todo)
      /\ h \in Range(t) => h \in again
  BY <1>1, <1>2, TailOnce
<1>4. CASE Len(ctx[r].todo) = 1 /\ Moves(r, "idle", Idle)
  <2>1. t \in Seq(Nat) /\ Len(t) = 0
    <3>1. Tail(ctx[r].todo) \in Seq(Nat) /\ Len(Tail(ctx[r].todo)) = Len(ctx[r].todo) - 1
      BY <1>1, HeadTailProperties
    <3> QED
      BY <1>2, <1>4, <3>1
  <2>2. t = <<>>
    BY <2>1, EmptySeq
  <2>3. Idle \in LocalRec /\ Idle.todo = t
    BY <2>2, IdleTyped
  <2> HIDE DEF Idle
  <2> QED
    BY <1>2, <1>3, <1>4, <2>2, <2>3
<1>5. CASE Moves(r, "explain", [ctx[r] EXCEPT !.todo = Tail(ctx[r].todo)])
  <2>1. PICK c : c = [ctx[r] EXCEPT !.todo = Tail(ctx[r].todo)]
    OBVIOUS
  <2>2. c \in LocalRec /\ c.todo = t /\ c.snapshot = ctx[r].snapshot
    <3>1. t \in Seq(Nat)
      BY <1>1, <1>2, TailOnce
    <3> QED
      BY <1>1, <1>2, <2>1, <3>1, LocalTyped DEF LocalRec
  <2> QED
    BY <1>2, <1>3, <1>5, <2>1, <2>2
<1> QED
  BY <1>4, <1>5, NextJobMoves

\* What is left where, then.
LEMMA LeavePlaces ==
  ASSUME TypeInv, JobsInv, NEW r \in Requests, NEW u, NEW x,
         Once(u, again), Range(u) \subseteq Range(ctx[r].todo),
         x \subseteq Range(ctx[r].todo), x \cap Range(u) \subseteq again,
         queue' = queue, received' = received, again' = again,
         Todos' = [Todos EXCEPT ![r] = u], Explained' = Explained \cup x
  PROVE  /\ NowhereTwice(queue, received, Todos, Explained, again)'
         /\ \A v : Placed(v)' => Placed(v)
         /\ \A v : Placed(v) => Placed(v)' \/ v \in Range(ctx[r].todo) \ (Range(u) \cup x)
<1>1. PICK t, d : t = Todos /\ d = Explained
  OBVIOUS
<1>2. PICK w, k : w = Todos' /\ k = Explained'
  OBVIOUS
<1>3. t \in [Requests -> Seq(Nat)] /\ t[r] = ctx[r].todo /\ NowhereTwice(queue, received, t, d, again)
  BY <1>1, TodosTyped DEF JobsInv
<1>4. /\ NowhereTwice(queue, received, w, k, again)
      /\ \A v : Somewhere(v, queue, received, w, k) => Somewhere(v, queue, received, t, d)
      /\ \A v : Somewhere(v, queue, received, t, d) =>
             Somewhere(v, queue, received, w, k) \/ v \in Range(t[r]) \ (Range(u) \cup x)
  <2>1. Range(u) \subseteq Range(t[r]) /\ x \subseteq Range(t[r])
    BY <1>3
  <2>2. w[r] = u /\ \A b \in Requests : b # r => w[b] = t[b]
    BY <1>1, <1>2, <1>3
  <2>3. k = d \cup x
    BY <1>1, <1>2
  <2>4. Lets(r, u, x, t, d, w, k, again)
    BY <1>3, <2>1, <2>2, <2>3 DEF Lets
  <2> QED
    BY <1>3, <2>4, LeaveOnce
<1>5. /\ NowhereTwice(queue', received', Todos', Explained', again')
      /\ \A v : Somewhere(v, queue', received', Todos', Explained')
                  => Somewhere(v, queue, received, Todos, Explained)
      /\ \A v : Somewhere(v, queue, received, Todos, Explained) =>
              \/ Somewhere(v, queue', received', Todos', Explained')
              \/ v \in Range(ctx[r].todo) \ (Range(u) \cup x)
  BY <1>1, <1>2, <1>3, <1>4
<1> QED
  BY <1>5 DEF Placed

\* A drain lets go of some of its jobs: those of x are explained.
LEMMA LeavesJobs ==
  ASSUME TypeInv, TypeInv', AuditInv, JobsInv, JobsKept, Grown, env' = env,
         lost \subseteq lost', dropped \subseteq dropped', UNCHANGED <<queue, received, again>>,
         NEW r \in Requests, NEW p \in {"idle", "explain"}, NEW c \in LocalRec,
         Moves(r, p, c), Turn(r), pc[r] = "explain",
         Once(c.todo, again), Range(c.todo) \subseteq Range(ctx[r].todo),
         p = "idle" => c.todo = <<>>,
         c.snapshot = ctx[r].snapshot \/ c.todo = <<>>,
         NEW x, x \subseteq Range(ctx[r].todo), x \cap Range(c.todo) \subseteq again,
         \/ UNCHANGED log /\ x = {}
         \/ \E e \in EntryRec : Logged(e) /\ e.type = "explanation" /\ x = {e.about},
         ~env.interleaved => Range(ctx[r].todo) \ (Range(c.todo) \cup x) \subseteq dropped',
         \A v \in 1..Len(verdicts') : v > Len(verdicts) => verdicts'[v].role # "handled"
  PROVE  JobsInv' /\ JobsKept'
<1>1. PICK t, d, u : t = Todos /\ d = Explained /\ u = c.todo
  OBVIOUS
<1>2. t \in [Requests -> Seq(Nat)] /\ t[r] = ctx[r].todo /\ NowhereTwice(queue, received, t, d, again)
  BY <1>1, TodosTyped DEF JobsInv
<1>3. p \in Places /\ p # "swap" /\ p # "deep" /\ p \notin Handling
  BY DEF Places, Handling
<1>4. Todos' = [t EXCEPT ![r] = u]
  BY <1>1, <1>3, TodosMove
<1>5. /\ Explained' = d \cup x
      /\ Len(log) <= Len(log') /\ \A i \in 1..Len(log) : log'[i] = log[i]
      /\ \/ UNCHANGED log
         \/ \E e \in EntryRec : Logged(e) /\ e.type = "explanation" /\ x = {e.about}
  <2>1. CASE UNCHANGED log /\ x = {}
    BY <1>1, <2>1 DEF Explained, TypeInv, TypeOK
  <2>2. ASSUME NEW e \in EntryRec, Logged(e), e.type = "explanation", x = {e.about}
        PROVE  /\ Explained' = d \cup x
               /\ Len(log) <= Len(log') /\ \A i \in 1..Len(log) : log'[i] = log[i]
    <3>1. Explained' = d \cup x
      BY <1>1, <2>2, ExplainedAfter
    <3>2. /\ Len(log) \in Nat /\ Len(log') = Len(log) + 1
          /\ \A i \in 1..Len(log) : log'[i] = log[i]
      BY <2>2, NewEntry DEF TypeInv
    <3> QED
      BY <3>1, <3>2
  <2> QED
    BY <2>1, <2>2
<1>8. /\ NowhereTwice(queue, received, Todos, Explained, again)'
      /\ \A v : Placed(v)' => Placed(v)
      /\ \A v : Placed(v) => Placed(v)' \/ v \in Range(ctx[r].todo) \ (Range(c.todo) \cup x)
  <2>1. Todos' = [Todos EXCEPT ![r] = u] /\ Explained' = Explained \cup x
    BY <1>1, <1>4, <1>5
  <2>2. /\ Once(u, again) /\ Range(u) \subseteq Range(ctx[r].todo)
        /\ x \subseteq Range(ctx[r].todo) /\ x \cap Range(u) \subseteq again
    BY <1>1
  <2> QED
    BY <1>1, <2>1, <2>2, LeavePlaces
<1>9. \A v \in Range(ctx[r].todo) :
        v \in 1..Len(verdicts) /\ (v \notin Explained \/ v \in again)
  <2>1. Range(t[r]) \cap d \subseteq again
    BY <1>2 DEF NowhereTwice
  <2>2. \A v \in Range(t[r]) : Placed(v)
    BY <1>1 DEF Placed, Somewhere
  <2> QED
    BY <1>1, <1>2, <2>1, <2>2, PlacedNamed
<1>10. JobsInv'
  <2>1. PICK new : new = 0
    OBVIOUS
  <2>2. new \in {0, ctx[r].verdict} /\ \A v : Placed(v)' => Placed(v) \/ v = new
    BY <1>8, <2>1
  <2>3. \/ UNCHANGED log
        \/ \E e \in EntryRec :
             /\ Logged(e)
             /\ e.type = "detection" => e = Entry("detection", e.ref)
             /\ e.type = "explanation" =>
                  e.about \in 1..Len(verdicts) /\ (e.about \notin Explained \/ e.about \in again)
    BY <1>5, <1>9
  <2> QED
    BY <1>3, <1>8, <2>2, <2>3, JobsMove
<1>11. CASE env.interleaved
  BY <1>10, <1>11 DEF JobsKept
<1>12. CASE ~env.interleaved
  <2>1. PICK own \in {ctx[r].verdict} : own = ctx[r].verdict
    OBVIOUS
  <2>2. own = 0
    BY <2>1 DEF AuditInv, HandsApart, Handling
  <2>3. \A v \in Range(c.todo) : c.snapshot \in 0..Len(log) /\ DetectedIn(c.snapshot, v)
    <3>1. CASE c.todo = <<>>
      BY <3>1, NothingOnce
    <3>2. CASE c.snapshot = ctx[r].snapshot
      <4>1. \A v \in Range(c.todo) : DetectedIn(c.snapshot, v)
        BY <1>12, <3>2 DEF JobsKept
      <4>2. c.snapshot <= Len(log)
        BY <3>2 DEF AuditInv, SnapshotsPast
      <4>3. c.snapshot \in Nat
        BY <3>2, LocalTyped DEF TypeInv
      <4>4. Len(log) \in Nat
        BY Lengths DEF TypeInv
      <4> QED
        BY <4>1, <4>2, <4>3, <4>4
    <3> QED
      BY <3>1, <3>2
  <2>4. \A v : Placed(v) => Placed(v)' \/ v \in dropped'
    BY <1>8, <1>12
  <2>5. \A v \in Range(queue') \cup Range(received') :
           v \in Range(queue) \cup Range(received) \/ DetectedIn(Len(log), v)
    OBVIOUS
  <2> QED
    BY <1>3, <1>5, <1>10, <1>12, <2>1, <2>2, <2>3, <2>4, <2>5, KeptMove
<1> QED
  BY <1>11, <1>12

LEMMA ExplainJobs ==
  ASSUME TypeInv, TypeInv', AuditInv, JobsInv, JobsKept, NEW r \in Requests, Explain(r)
  PROVE  JobsInv' /\ JobsKept'
<1>1. /\ pc[r] = "explain" /\ Turn(r) /\ NextJob(r) /\ env' = env
      /\ UNCHANGED <<queue, received, again>> /\ lost \subseteq lost' /\ dropped \subseteq dropped'
  BY DEF Explain, At, jobVars, faultVars
<1>2. PICK w \in VerdictRec, e \in EntryRec :
        /\ w.role = "rebuilt" /\ verdicts' = Append(verdicts, w)
        /\ e.type = "explanation" /\ e.about = Head(ctx[r].todo)
        /\ Logged(e)
  BY ExplainEffect
<1>3. /\ Head(ctx[r].todo) \in Range(ctx[r].todo)
      /\ \E p \in {"idle", "explain"}, c \in LocalRec :
           /\ Moves(r, p, c) /\ Once(c.todo, again)
           /\ Range(ctx[r].todo) = Range(c.todo) \cup {Head(ctx[r].todo)}
           /\ Head(ctx[r].todo) \in Range(c.todo) => Head(ctx[r].todo) \in again
           /\ p = "idle" => c.todo = <<>>
           /\ c.snapshot = ctx[r].snapshot \/ c.todo = <<>>
  BY <1>1, NextJobHands
<1>4. PICK p \in {"idle", "explain"}, c \in LocalRec :
        /\ Moves(r, p, c) /\ Once(c.todo, again)
        /\ Range(ctx[r].todo) = Range(c.todo) \cup {e.about}
        /\ e.about \in Range(c.todo) => e.about \in again
        /\ p = "idle" => c.todo = <<>>
        /\ c.snapshot = ctx[r].snapshot \/ c.todo = <<>>
  BY <1>2, <1>3
<1>5. PICK x : x = {e.about}
  OBVIOUS
<1>6. /\ x \subseteq Range(ctx[r].todo) /\ x \cap Range(c.todo) \subseteq again
      /\ Range(c.todo) \subseteq Range(ctx[r].todo)
  BY <1>2, <1>3, <1>4, <1>5
<1>7. Range(ctx[r].todo) \ (Range(c.todo) \cup x) \subseteq dropped'
  BY <1>4, <1>5
<1>8. \A v \in 1..Len(verdicts') : v > Len(verdicts) => verdicts'[v].role # "handled"
  <2>1. /\ Len(verdicts) \in Nat /\ Len(verdicts') = Len(verdicts) + 1
        /\ verdicts'[Len(verdicts) + 1] = w
    BY <1>2, NewVerdict DEF TypeInv
  <2>2. w.role # "handled"
    BY <1>2
  <2> QED
    BY <2>1, <2>2
<1>9. Grown
  BY GrownStep DEF Next
<1>10. \/ UNCHANGED log /\ x = {}
       \/ \E f \in EntryRec : Logged(f) /\ f.type = "explanation" /\ x = {f.about}
  BY <1>2, <1>5
<1>11. /\ Moves(r, p, c) /\ Once(c.todo, again)
       /\ p = "idle" => c.todo = <<>>
       /\ c.snapshot = ctx[r].snapshot \/ c.todo = <<>>
  BY <1>4
<1>12. ~env.interleaved => Range(ctx[r].todo) \ (Range(c.todo) \cup x) \subseteq dropped'
  BY <1>7
<1> QED
  BY <1>1, <1>6, <1>8, <1>9, <1>10, <1>11, <1>12, LeavesJobs

LEMMA PassOverJobs ==
  ASSUME TypeInv, TypeInv', AuditInv, JobsInv, JobsKept, NEW r \in Requests, PassOver(r)
  PROVE  JobsInv' /\ JobsKept'
<1>1. /\ pc[r] = "explain" /\ Turn(r) /\ NextJob(r) /\ ~Found(r) /\ env' = env /\ UNCHANGED log
      /\ UNCHANGED verdicts
      /\ UNCHANGED <<queue, received, again>> /\ lost \subseteq lost' /\ dropped \subseteq dropped'
  BY DEF PassOver, At, jobVars, faultVars
<1>2. /\ Head(ctx[r].todo) \in Range(ctx[r].todo)
      /\ \E p \in {"idle", "explain"}, c \in LocalRec :
           /\ Moves(r, p, c) /\ Once(c.todo, again)
           /\ Range(ctx[r].todo) = Range(c.todo) \cup {Head(ctx[r].todo)}
           /\ Head(ctx[r].todo) \in Range(c.todo) => Head(ctx[r].todo) \in again
           /\ p = "idle" => c.todo = <<>>
           /\ c.snapshot = ctx[r].snapshot \/ c.todo = <<>>
  BY <1>1, NextJobHands
<1>3. PICK p \in {"idle", "explain"}, c \in LocalRec :
        /\ Moves(r, p, c) /\ Once(c.todo, again)
        /\ Range(ctx[r].todo) = Range(c.todo) \cup {Head(ctx[r].todo)}
        /\ p = "idle" => c.todo = <<>>
        /\ c.snapshot = ctx[r].snapshot \/ c.todo = <<>>
  BY <1>2
<1>4. PICK x : x = {}
  OBVIOUS
<1>5. /\ x \subseteq Range(ctx[r].todo) /\ x \cap Range(c.todo) \subseteq again
      /\ Range(c.todo) \subseteq Range(ctx[r].todo)
  BY <1>3, <1>4
<1>6. env.interleaved
  <2>1. ASSUME ~env.interleaved PROVE FALSE
    <3>1. DetectedIn(ctx[r].snapshot, Head(ctx[r].todo))
      BY <1>2, <2>1 DEF JobsKept
    <3> QED
      BY <1>1, <3>1 DEF DetectedIn, Found
  <2> QED
    BY <2>1
<1>7. \A v \in 1..Len(verdicts') : ~(v > Len(verdicts))
  BY <1>1 DEF TypeInv, TypeOK
<1>8. Grown
  BY GrownStep DEF Next
<1> QED
  BY <1>1, <1>3, <1>4, <1>5, <1>6, <1>7, <1>8, LeavesJobs

\* A drain that raises lets go of all its jobs.
LEMMA FailJobs ==
  ASSUME TypeInv, TypeInv', AuditInv, JobsInv, JobsKept, NEW r \in Requests, Fail(r),
         pc[r] = "explain"
  PROVE  JobsInv' /\ JobsKept'
<1>1. /\ Turn(r) /\ Moves(r, "idle", Idle) /\ env' = env /\ UNCHANGED log
      /\ UNCHANGED verdicts
      /\ UNCHANGED <<queue, received, again>> /\ lost \subseteq lost' /\ dropped \subseteq dropped'
      /\ Range(ctx[r].todo) \subseteq dropped'
  BY FinishMoves DEF Fail, jobVars
<1>2. PICK c \in LocalRec :
        c = Idle /\ c.todo = <<>> /\ Once(c.todo, again) /\ Range(c.todo) = {}
  BY IdleTyped, NothingOnce
<1>3. PICK x : x = {}
  OBVIOUS
<1>4. /\ x \subseteq Range(ctx[r].todo) /\ x \cap Range(c.todo) \subseteq again
      /\ Range(c.todo) \subseteq Range(ctx[r].todo)
      /\ Range(ctx[r].todo) \ (Range(c.todo) \cup x) \subseteq dropped'
  BY <1>1, <1>2, <1>3
<1>5. \A v \in 1..Len(verdicts') : ~(v > Len(verdicts))
  BY <1>1 DEF TypeInv, TypeOK
<1>6. Grown
  BY GrownStep DEF Next
<1>7. Moves(r, "idle", c)
  BY <1>1, <1>2
<1> QED
  BY <1>1, <1>2, <1>3, <1>4, <1>5, <1>6, <1>7, LeavesJobs

\* The process dies, and with it every job that was not done.
LEMMA RestartJobs ==
  ASSUME TypeInv, TypeInv', AuditInv, JobsInv, JobsKept, Restart
  PROVE  JobsInv' /\ JobsKept'
<1>1. /\ \A r \in Requests : pc'[r] = "idle" /\ ctx'[r] = Idle
      /\ UNCHANGED <<env, verdicts, log, again>> /\ received' = <<>>
      /\ queue' = IF env.broker THEN queue ELSE <<>>
      /\ lost' = lost \cup {ctx[r].verdict : r \in Requests}
                      \cup {v \in 1..Len(verdicts) : verdicts[v].window \in buffer}
      /\ dropped' = dropped \cup (IF env.broker THEN {} ELSE Range(queue)) \cup Range(received)
                      \cup UNION {Range(ctx[r].todo) : r \in Requests}
  BY DEF Restart
<1>2. \A r \in Requests : Todos'[r] = <<>> /\ ctx'[r].todo = <<>>
  <2>1. Idle.todo = <<>>
    BY IdleTyped
  <2> HIDE DEF Idle
  <2> QED
    BY <1>1, <2>1 DEF Todos
<1>3. Explained' = Explained
  BY <1>1 DEF Explained
<1>4. NowhereTwice(queue', received', Todos', Explained', again')
  <2>1. PICK n : n = <<>> /\ Once(n, again) /\ Range(n) = {}
    BY NothingOnce
  <2>2. PICK t, d, q : t = Todos' /\ d = Explained' /\ q = queue'
    OBVIOUS
  <2>3. \A r \in Requests : t[r] = n
    BY <1>2, <2>1, <2>2
  <2>4. Once(q, again) /\ Range(q) \cap d \subseteq again
    <3>1. CASE q = queue
      BY <1>3, <2>2, <3>1 DEF JobsInv, NowhereTwice
    <3>2. CASE q = n
      BY <2>1, <3>2
    <3> QED
      BY <1>1, <2>1, <2>2, <3>1, <3>2
  <2>5. NowhereTwice(q, n, t, d, again)
    BY <2>1, <2>3, <2>4 DEF NowhereTwice
  <2> QED
    BY <1>1, <2>1, <2>2, <2>5
<1>5. ~env.broker => \A v : Placed(v) => v \in Explained \/ v \in dropped'
  <2> SUFFICES ASSUME ~env.broker, NEW v, Placed(v) PROVE v \in Explained \/ v \in dropped'
    OBVIOUS
  <2>1. \/ v \in Range(queue) \/ v \in Range(received) \/ v \in Explained
        \/ \E r \in Requests : v \in Range(ctx[r].todo)
    BY TodosTyped DEF Placed, Somewhere
  <2> QED
    BY <1>1, <2>1
<1>6. \A v \in Explained : Placed(v)'
  BY <1>3 DEF Placed, Somewhere
<1>7. JobsInv'
  <2>1. \A r \in Requests : pc'[r] \notin Handling
    BY <1>1 DEF Handling
  <2> QED
    BY <1>1, <1>2, <1>3, <1>4, <2>1 DEF JobsInv
<1>8. JobsKept'
  <2>0. ~env.interleaved => ~env.broker
    BY BrokerSuspends
  <2>1. ~env.interleaved =>
          \A v \in Range(queue') \cup Range(received') : DetectedIn(Len(log), v)'
    BY <1>1, <2>0, NothingOnce
  <2>2. \A r \in Requests : pc'[r] # "swap"
    BY <1>1
  <2>3. \A r \in Requests : \A v \in Range(ctx'[r].todo) : DetectedIn(ctx[r].snapshot, v)'
    BY <1>2, NothingOnce
  <2>4. ASSUME ~env.interleaved,
               NEW v \in (1..Len(verdicts')) \ (lost' \cup dropped'),
               verdicts'[v].role = "handled", verdicts'[v].label # "benign",
               ~IsLogged("rejection", v)'
        PROVE  Placed(v)'
    <3>1. /\ v \in 1..Len(verdicts) /\ v \notin lost /\ v \notin dropped
          /\ verdicts[v].role = "handled" /\ verdicts[v].label # "benign"
          /\ ~IsLogged("rejection", v)
      BY <1>1, <2>4 DEF IsLogged
    <3>2. \A r \in Requests : ctx[r].verdict # v
      BY <1>1, <2>4
    <3>3. Placed(v)
      BY <2>4, <3>1, <3>2 DEF JobsKept
    <3> QED
      BY <1>5, <1>6, <2>0, <2>4, <3>3
  <2> QED
    BY <1>1, <2>1, <2>2, <2>3, <2>4 DEF JobsKept
<1> QED
  BY <1>7, <1>8

\* Steps that leave the coroutines and the log alone.
LEMMA AsideJobs ==
  ASSUME TypeInv, TypeInv', AuditInv, JobsInv, JobsKept, Grown,
         env' = env, UNCHANGED <<pc, ctx>>, UNCHANGED log, lost' = lost,
         again \subseteq again', ~env.broker => again' = again /\ dropped' = dropped,
         \A v \in 1..Len(verdicts') : v > Len(verdicts) => verdicts'[v].role # "handled",
         NowhereTwice(queue, received, Todos, Explained, again)',
         \A v : Placed(v)' => Placed(v) \/ v \in again',
         ~env.broker => \A v : Placed(v) => Placed(v)',
         ~env.broker =>
           Range(queue') \cup Range(received') \subseteq Range(queue) \cup Range(received)
  PROVE  JobsInv' /\ JobsKept'
<1>1. Todos' = Todos /\ Explained' = Explained
  BY DEF Todos, Explained
<1>2. ~env.interleaved => ~env.broker
  BY BrokerSuspends
<1>3. /\ Len(verdicts) \in Nat /\ Len(verdicts') \in Nat /\ Len(verdicts) <= Len(verdicts')
      /\ \A v \in 1..Len(verdicts) : verdicts'[v] = verdicts[v]
  BY Lengths, NextLengths DEF Grown, TypeInv
<1>4. JobsInv'
  <2>1. Explained' \subseteq 1..Len(verdicts')
    <3>1. 1..Len(verdicts) \subseteq 1..Len(verdicts')
      BY <1>3
    <3> QED
      BY <1>1, <3>1 DEF JobsInv
  <2>2. \A r \in Requests : pc'[r] \in Handling \ {"deep"} =>
          ~Placed(ctx[r].verdict)' \/ ctx'[r].verdict \in again'
    <3> SUFFICES ASSUME NEW r \in Requests, pc'[r] \in Handling \ {"deep"}
                 PROVE  ~Placed(ctx[r].verdict)' \/ ctx'[r].verdict \in again'
      OBVIOUS
    <3>1. PICK own : own = ctx[r].verdict
      OBVIOUS
    <3>2. ctx'[r].verdict = own /\ (~Placed(own) \/ own \in again)
      BY <3>1 DEF JobsInv
    <3> QED
      BY <3>2
  <2>3. /\ \A i, j \in 1..Len(log') :
             /\ log'[i].type = "explanation" /\ log'[j].type = "explanation"
             /\ log'[i].about = log'[j].about
             => i = j \/ log'[i].about \in again'
        /\ \A i \in 1..Len(log') :
             log'[i].type = "detection" => log'[i] = Entry("detection", log'[i].ref)
        /\ \A r \in Requests : pc'[r] # "explain" => ctx'[r].todo = <<>>
        /\ ~env'.broker => again' = {}
    BY DEF JobsInv
  <2> QED
    BY <2>1, <2>2, <2>3 DEF JobsInv
<1>5. JobsKept'
  <2>1. ASSUME ~env.interleaved,
               NEW v \in (1..Len(verdicts')) \ (lost' \cup dropped'),
               verdicts'[v].role = "handled", verdicts'[v].label # "benign",
               ~IsLogged("rejection", v)',
               \A r \in Requests : ctx'[r].verdict = v => pc'[r] = "deep"
        PROVE  Placed(v)'
    <3>1. v \in 1..Len(verdicts)
      <4>1. ~(v > Len(verdicts))
        BY <2>1
      <4> QED
        BY <1>3, <4>1
    <3>2. /\ v \notin lost \cup dropped /\ verdicts[v].role = "handled"
          /\ verdicts[v].label # "benign" /\ ~IsLogged("rejection", v)
          /\ \A r \in Requests : ctx[r].verdict = v => pc[r] = "deep"
      BY <1>2, <1>3, <2>1, <3>1 DEF IsLogged
    <3>3. Placed(v)
      BY <2>1, <3>1, <3>2 DEF JobsKept
    <3> QED
      BY <1>2, <2>1, <3>3
  <2>2. ASSUME ~env.interleaved
        PROVE  /\ \A v \in Range(queue') \cup Range(received') : DetectedIn(Len(log), v)'
               /\ \A r \in Requests : pc'[r] = "swap" => ctx'[r].snapshot = Len(log')
               /\ \A r \in Requests : \A v \in Range(ctx'[r].todo) : DetectedIn(ctx[r].snapshot, v)'
    BY <1>2, <2>2 DEF JobsKept, DetectedIn
  <2> QED
    BY <2>1, <2>2 DEF JobsKept
<1> QED
  BY <1>4, <1>5

\* Steps that are not about jobs.
LEMMA StillJobs ==
  ASSUME TypeInv, JobsInv, UNCHANGED <<queue, received, ctx, log, again>>
  PROVE  /\ NowhereTwice(queue, received, Todos, Explained, again)'
         /\ \A v : Placed(v)' <=> Placed(v)
<1>1. Todos' = Todos /\ Explained' = Explained
  BY DEF Todos, Explained
<1> QED
  BY <1>1 DEF JobsInv, NowhereTwice, Placed, Somewhere

\* What comes to the topic, goes from it, or comes again.
LEMMA TopicPlaces ==
  ASSUME TypeInv, JobsInv, OnTopic
  PROVE  /\ NowhereTwice(queue, received, Todos, Explained, again)'
         /\ again \subseteq again' /\ \A v : Placed(v)' => Placed(v) \/ v \in again'
         /\ ~env.broker =>
              /\ again' = again /\ dropped' = dropped /\ \A v : Placed(v) => Placed(v)'
              /\ Range(queue') \cup Range(received') \subseteq Range(queue) \cup Range(received)
<1> DEFINE G == /\ NowhereTwice(queue', received', Todos', Explained', again')
                /\ again \subseteq again' /\ \A v : Placed(v)' => Placed(v) \/ v \in again'
                /\ ~env.broker =>
                     /\ again' = again /\ dropped' = dropped /\ \A v : Placed(v) => Placed(v)'
                     /\ Range(queue') \cup Range(received') \subseteq Range(queue) \cup Range(received)
<1>1. /\ UNCHANGED <<ctx, log>> /\ Todos' = Todos /\ Explained' = Explained
  BY TopicFrame DEF Todos, Explained
<1>2. /\ NowhereTwice(queue, received, Todos, Explained, again)
      /\ queue \in Seq(Nat) /\ received \in Seq(Nat) /\ uncommitted \in Seq(Nat)
  BY TodosTyped DEF JobsInv, TypeInv, TypeOK
<1>3. PICK t, d : t = Todos /\ d = Explained
  OBVIOUS
<1>4. \A v : /\ Placed(v) <=> Somewhere(v, queue, received, t, d)
             /\ Placed(v)' <=> Somewhere(v, queue', received', t, d)
  BY <1>1, <1>3 DEF Placed
<1>5. CASE UNCHANGED <<queue, received, again, dropped>>
  BY <1>1, <1>5, StillJobs
<1>6. ASSUME NEW r \in Requests, LoseAck(r) PROVE G
  <2>1. PICK x \in Nat : x = ctx[r].verdict
    BY HandFacts
  <2>2. /\ env.broker /\ queue' = Append(queue, x) /\ received' = received
        /\ again' = again \cup {x}
    BY <1>6, <2>1 DEF LoseAck
  <2>3. NowhereTwice(queue, received, t, d, again \cup {x})
    BY <1>2, <1>3 DEF NowhereTwice, Once
  <2>4. /\ NowhereTwice(Append(queue, x), received, t, d, again \cup {x})
        /\ \A v : Somewhere(v, Append(queue, x), received, t, d)
                    <=> Somewhere(v, queue, received, t, d) \/ v = x
    BY <1>2, <2>3, PublishOnce
  <2> QED
    BY <1>1, <1>3, <1>4, <2>2, <2>4
<1>7. ASSUME JobWorker PROVE G
  <2>1. /\ received' = received \o queue /\ queue' = <<>> /\ again' = again /\ dropped' = dropped
    BY <1>7 DEF JobWorker, faultVars
  <2> QED
    BY <1>1, <2>1, ConsumeKeeps
<1>8. ASSUME JobYielded PROVE G
  <2>1. /\ env.broker /\ queue # <<>> /\ received' = Append(received, Head(queue))
        /\ queue' = Tail(queue) /\ again' = again
    BY <1>8 DEF JobYielded, faultVars
  <2>2. /\ NowhereTwice(Tail(queue), Append(received, Head(queue)), t, d, again)
        /\ \A v : Somewhere(v, Tail(queue), Append(received, Head(queue)), t, d)
                    <=> Somewhere(v, queue, received, t, d)
    BY <1>2, <1>3, <2>1, YieldOnce
  <2> QED
    BY <1>1, <1>3, <1>4, <2>1, <2>2
<1>9. ASSUME env.broker, Seek, received' = received PROVE G
  <2>1. CASE committed
    <3>1. queue' = uncommitted \o queue /\ again' = again \cup Range(uncommitted)
      BY <1>9, <2>1 DEF Seek
    <3>2. /\ NowhereTwice(uncommitted \o queue, received, t, d, again \cup Range(uncommitted))
          /\ \A v : Somewhere(v, uncommitted \o queue, received, t, d)
                      => Somewhere(v, queue, received, t, d) \/ v \in Range(uncommitted)
      BY <1>2, <1>3, ReplayOnce
    <3> QED
      BY <1>1, <1>3, <1>4, <1>9, <3>1, <3>2
  <2>2. CASE ~committed
    <3>1. queue' = <<>> /\ again' = again
      BY <1>9, <2>2 DEF Seek
    <3>2. PICK n : n = <<>> /\ Once(n, again) /\ Range(n) = {}
      BY NothingOnce
    <3>3. NowhereTwice(n, received, t, d, again)
      BY <1>2, <1>3, <3>2 DEF NowhereTwice
    <3>4. \A v : Somewhere(v, n, received, t, d) => Somewhere(v, queue, received, t, d)
      BY <3>2 DEF Somewhere
    <3> QED
      BY <1>1, <1>3, <1>4, <1>9, <3>1, <3>2, <3>3, <3>4
  <2> QED
    BY <2>1, <2>2
<1>10. CASE JobYielded \/ JobWorker \/ \E r \in Requests : LoseAck(r)
  BY <1>6, <1>7, <1>8, <1>10
<1>11. CASE AutoCommit \/ Stop
  BY <1>5, <1>11 DEF AutoCommit, Stop, faultVars
<1>12. CASE Start
  <2>1. /\ received' = received
        /\ \/ env.broker /\ Seek
           \/ UNCHANGED <<queue, again, dropped>>
    BY <1>12 DEF Start
  <2> QED
    BY <1>5, <1>9, <2>1
<1> QED
  BY <1>10, <1>11, <1>12 DEF OnTopic

LEMMA InitJobs == Init => JobsInv /\ JobsKept
<1> SUFFICES ASSUME Init PROVE JobsInv /\ JobsKept
  OBVIOUS
<1>1. /\ \A r \in Requests : pc[r] = "idle" /\ ctx[r] = Idle
      /\ log = <<>> /\ queue = <<>> /\ received = <<>> /\ verdicts = <<>> /\ again = {}
  BY DEF Init
<1>2. \A r \in Requests : Todos[r] = <<>> /\ ctx[r].todo = <<>>
  <2>1. Idle.todo = <<>>
    BY IdleTyped
  <2> HIDE DEF Idle
  <2> QED
    BY <1>1, <2>1 DEF Todos
<1>3. Len(log) = 0 /\ Len(verdicts) = 0
  BY <1>1
<1>4. 1..Len(log) = {} /\ 1..Len(verdicts) = {}
  BY <1>3
<1>5. Explained = {}
  BY <1>4 DEF Explained
<1>6. NowhereTwice(queue, received, Todos, Explained, again)
  <2>1. PICK n : n = <<>> /\ Once(n, again) /\ Range(n) = {}
    BY NothingOnce
  <2>2. NowhereTwice(n, n, Todos, Explained, again)
    BY <1>2, <2>1 DEF NowhereTwice
  <2> QED
    BY <1>1, <2>1, <2>2
<1>7. JobsInv
  BY <1>1, <1>2, <1>4, <1>5, <1>6 DEF JobsInv, Handling
<1>8. JobsKept
  BY <1>1, <1>2, <1>4, NothingOnce DEF JobsKept
<1> QED
  BY <1>7, <1>8

LEMMA JobsStep ==
  TypeInv /\ TypeInv' /\ AuditInv /\ JobsInv /\ JobsKept /\ [Next]_vars => JobsInv' /\ JobsKept'
<1> SUFFICES ASSUME TypeInv, TypeInv', AuditInv, JobsInv, JobsKept, [Next]_vars
             PROVE  JobsInv' /\ JobsKept'
  OBVIOUS
<1>1. Grown
  BY GrownStep
<1>2. ASSUME NEW r \in Requests,
             \/ \E e \in Events, v \in env.verdicts : IngestEvent(r, e, v)
             \/ \E ip \in IPs : HandleDecoySession(r, ip)
             \/ \E v \in env.verdicts : DeepLaneCloses(r, v)
      PROVE  JobsInv' /\ JobsKept'
  <2>1. UNCHANGED <<env, log, queue, received, lost, dropped, again>> /\ Turn(r)
    BY <1>2 DEF IngestEvent, HandleDecoySession, DeepLaneCloses, At, jobVars, faultVars
  <2>2. \E w \in VerdictRec : Handle(r, w) /\ pc[r] \in {"idle", "deep"}
    BY <1>2, IngestBegins, DecoyBegins, ClosesBegins, Zenon
  <2> QED
    BY <1>1, <2>1, <2>2, BeginsJobs
<1>3. CASE \E v \in env.verdicts : FlushGraphWindow(v)
  <2>1. PICK v \in env.verdicts : FlushGraphWindow(v)
    BY <1>3
  <2>2. /\ env' = env /\ UNCHANGED <<pc, ctx>> /\ UNCHANGED log /\ lost' = lost
        /\ dropped' = dropped /\ UNCHANGED <<queue, received, again>>
    BY <2>1 DEF FlushGraphWindow, coroutineVars, jobVars, faultVars
  <2>3. PICK w \in VerdictRec : w.role = "flushed" /\ verdicts' = Append(verdicts, w)
    BY <2>1, FlushEffect
  <2>4. \A u \in 1..Len(verdicts') : u > Len(verdicts) => verdicts'[u].role # "handled"
    <3>1. /\ Len(verdicts) \in Nat /\ Len(verdicts') = Len(verdicts) + 1
          /\ verdicts'[Len(verdicts) + 1] = w
      BY <2>3, NewVerdict DEF TypeInv
    <3>2. w.role # "handled"
      BY <2>3
    <3> QED
      BY <3>1, <3>2
  <2> QED
    BY <1>1, <2>2, <2>4, StillJobs, AsideJobs
<1>4. ASSUME NEW r \in Requests,
             \/ LogDetection(r) \/ Decide(r) \/ Reject(r) \/ LogDecision(r)
             \/ LogEnforcement(r)
      PROVE  JobsInv' /\ JobsKept'
  BY <1>4, StaysJobs
<1>5. ASSUME NEW r \in Requests, LogRejection(r) \/ Enqueue(r)
      PROVE  JobsInv' /\ JobsKept'
  BY <1>5, ReturnsJobs, EnqueueJobs
<1>6. ASSUME NEW r \in Requests, DeepLaneBuffers(r) \/ LogCorrection(r) \/ Fail(r)
      PROVE  JobsInv' /\ JobsKept'
  BY <1>6, EndsJobs, FailJobs
<1>7. ASSUME NEW r \in Requests, Drain(r) \/ ReadAll(r) \/ Swap(r) \/ Explain(r) \/ PassOver(r)
      PROVE  JobsInv' /\ JobsKept'
  BY <1>7, DrainJobs, ReadJobs, SwapJobs, ExplainJobs, PassOverJobs
<1>8. ASSUME NEW r \in Requests, NEW ip \in IPs, NEW fp \in BOOLEAN, RecordCorrection(r, ip, fp)
      PROVE  JobsInv' /\ JobsKept'
  BY <1>8, RecordJobs
<1>9. CASE OnTopic
  <2>1. UNCHANGED <<env, pc, ctx, verdicts, log, lost>>
    BY <1>9, TopicFrame
  <2>2. \A u \in 1..Len(verdicts') : ~(u > Len(verdicts))
    BY <2>1 DEF TypeInv, TypeOK
  <2> QED
    BY <1>1, <1>9, <2>1, <2>2, TopicPlaces, AsideJobs
<1>10. CASE Restart
  BY <1>10, RestartJobs
<1>11. CASE UNCHANGED vars
  <2>1. UNCHANGED <<env, pc, ctx, verdicts, log, queue, received, lost, dropped, again>>
    BY <1>11 DEF vars, coroutineVars, jobVars, faultVars
  <2>2. \A u \in 1..Len(verdicts') : ~(u > Len(verdicts))
    BY <2>1 DEF TypeInv, TypeOK
  <2> QED
    BY <1>1, <2>1, <2>2, StillJobs, AsideJobs
<1> QED
  BY <1>2, <1>3, <1>4, <1>5, <1>6, <1>7, <1>8, <1>9, <1>10, <1>11, Zenon DEF Next

\* Where every explanation job is: in one place at most, unless Redpanda stored or gave
\* it more than once, and on the local back ends nowhere only once it is done or died with
\* a failure (kronus_system.py:204-206, 235-269).
THEOREM JobsHold == Spec => [](JobsInv /\ JobsKept)
<1>1. Init => JobsInv /\ JobsKept
  BY InitJobs
<1>2. TypeInv /\ TypeInv' /\ AuditInv /\ (JobsInv /\ JobsKept) /\ [Next]_vars
        => (JobsInv /\ JobsKept)'
  BY JobsStep
<1> QED
  BY <1>1, <1>2, TypesHold, AuditHolds, PTL DEF Spec

\* The places of a value in a sequence that has it once, or not at all.
LEMMA PlaceIn ==
  ASSUME NEW s \in Seq(Nat), NEW g, Once(s, g), NEW tag, NEW v, v \notin g
  PROVE  /\ v \notin Range(s) => {<<tag, i>> : i \in {k \in 1..Len(s) : s[k] = v}} = {}
         /\ v \in Range(s) =>
              \E i : {<<tag, j>> : j \in {k \in 1..Len(s) : s[k] = v}} = {<<tag, i>>}
<1>1. Range(s) = {s[i] : i \in 1..Len(s)}
  BY RangeIs
<1>2. ASSUME v \notin Range(s)
      PROVE  {<<tag, i>> : i \in {k \in 1..Len(s) : s[k] = v}} = {}
  BY <1>1, <1>2
<1>3. ASSUME v \in Range(s)
      PROVE  \E i : {<<tag, j>> : j \in {k \in 1..Len(s) : s[k] = v}} = {<<tag, i>>}
  <2>1. PICK i \in 1..Len(s) : s[i] = v
    BY <1>1, <1>3
  <2>2. {k \in 1..Len(s) : s[k] = v} = {i}
    BY <2>1 DEF Once
  <2> QED
    BY <2>2
<1> QED
  BY <1>2, <1>3

\* A job that did not come again is in the one place it is in; another job is in none.
LEMMA OnePlace ==
  ASSUME TypeInv, JobsInv, NEW v, v \notin again
  PROVE  /\ Placed(v) => \E a : JobPlaces(v) = {a}
         /\ ~Placed(v) => JobPlaces(v) = {}
<1> DEFINE A == {<<"queue", i>> : i \in {k \in 1..Len(queue) : queue[k] = v}}
           B == {<<"received", i>> : i \in {k \in 1..Len(received) : received[k] = v}}
           T(r) == {<<r, i>> : i \in {k \in 1..Len(ctx[r].todo) : ctx[r].todo[k] = v}}
           C == UNION {T(r) : r \in Requests}
           D == {<<"log", i>> : i \in {k \in 1..Len(log) :
                                         log[k].type = "explanation" /\ log[k].about = v}}
<1>1. JobPlaces(v) = A \cup B \cup D \cup C
  BY DEF JobPlaces
<1>2. /\ Once(queue, again) /\ Once(received, again)
      /\ \A r \in Requests : Once(ctx[r].todo, again)
      /\ Range(queue) \cap Range(received) \subseteq again
      /\ (Range(queue) \cup Range(received)) \cap Explained \subseteq again
      /\ \A r \in Requests :
           Range(ctx[r].todo) \cap (Range(queue) \cup Range(received) \cup Explained)
             \subseteq again
      /\ \A q, r \in Requests :
           q # r => Range(ctx[q].todo) \cap Range(ctx[r].todo) \subseteq again
  BY TodosTyped DEF JobsInv, NowhereTwice
<1>3. /\ v \notin Range(queue) => A = {}
      /\ v \in Range(queue) => \E i : A = {<<"queue", i>>}
  BY <1>2, TodosTyped, PlaceIn
<1>4. /\ v \notin Range(received) => B = {}
      /\ v \in Range(received) => \E i : B = {<<"received", i>>}
  BY <1>2, TodosTyped, PlaceIn
<1>5. ASSUME NEW r \in Requests
      PROVE  /\ v \notin Range(ctx[r].todo) => T(r) = {}
             /\ v \in Range(ctx[r].todo) => \E i : T(r) = {<<r, i>>}
  <2>1. PICK s \in Seq(Nat) : s = ctx[r].todo
    BY HandFacts
  <2>2. T(r) = {<<r, i>> : i \in {k \in 1..Len(s) : s[k] = v}}
    BY <2>1
  <2> HIDE DEF T
  <2>3. Once(s, again)
    BY <1>2, <2>1
  <2>4. /\ v \notin Range(s) => T(r) = {}
        /\ v \in Range(s) => \E i : T(r) = {<<r, i>>}
    <3>1. /\ v \notin Range(s) => {<<r, i>> : i \in {k \in 1..Len(s) : s[k] = v}} = {}
          /\ v \in Range(s) =>
               \E i : {<<r, j>> : j \in {k \in 1..Len(s) : s[k] = v}} = {<<r, i>>}
      BY <2>3, PlaceIn
    <3> QED
      BY <2>2, <3>1
  <2> QED
    BY <2>1, <2>4
<1>6. /\ v \notin Explained => D = {}
      /\ v \in Explained => \E i : D = {<<"log", i>>}
  <2>1. ASSUME v \notin Explained PROVE D = {}
    BY <2>1 DEF Explained
  <2>2. ASSUME v \in Explained PROVE \E i : D = {<<"log", i>>}
    <3>1. PICK i \in 1..Len(log) : log[i].type = "explanation" /\ log[i].about = v
      BY <2>2 DEF Explained
    <3>2. {k \in 1..Len(log) : log[k].type = "explanation" /\ log[k].about = v} = {i}
      BY <3>1 DEF JobsInv
    <3> QED
      BY <3>2
  <2> QED
    BY <2>1, <2>2
<1>7. Placed(v) <=> \/ v \in Range(queue) \/ v \in Range(received) \/ v \in Explained
                    \/ \E r \in Requests : v \in Range(ctx[r].todo)
  BY TodosTyped DEF Placed, Somewhere
<1>8. /\ (\A r \in Requests : v \notin Range(ctx[r].todo)) => C = {}
      /\ \A r \in Requests : v \in Range(ctx[r].todo) => \E i : C = {<<r, i>>}
  <2> HIDE DEF T
  <2>1. ASSUME \A r \in Requests : v \notin Range(ctx[r].todo) PROVE C = {}
    <3>1. \A r \in Requests : T(r) = {}
      BY <1>5, <2>1
    <3> QED
      BY <3>1
  <2>2. ASSUME NEW r \in Requests, v \in Range(ctx[r].todo) PROVE \E i : C = {<<r, i>>}
    <3>1. PICK i : T(r) = {<<r, i>>}
      BY <1>5, <2>2
    <3>2. \A q \in Requests : q # r => T(q) = {}
      BY <1>2, <1>5, <2>2
    <3>3. C = T(r)
      BY <3>2
    <3> QED
      BY <3>1, <3>3
  <2> QED
    BY <2>1, <2>2
<1> HIDE DEF A, B, C, D, T
<1>9. CASE ~Placed(v)
  BY <1>1, <1>3, <1>4, <1>6, <1>7, <1>8, <1>9
<1>10. CASE v \in Range(queue)
  BY <1>1, <1>2, <1>3, <1>4, <1>6, <1>7, <1>8, <1>10
<1>11. CASE v \in Range(received)
  BY <1>1, <1>2, <1>3, <1>4, <1>6, <1>7, <1>8, <1>11
<1>12. CASE v \in Explained
  BY <1>1, <1>2, <1>3, <1>4, <1>6, <1>7, <1>8, <1>12
<1>13. CASE \E r \in Requests : v \in Range(ctx[r].todo)
  BY <1>1, <1>2, <1>3, <1>4, <1>6, <1>7, <1>8, <1>13
<1> QED
  BY <1>7, <1>9, <1>10, <1>11, <1>12, <1>13

\* On the in-memory bus no verdict is explained twice, however often drains overlap with
\* the worker and with each other; with Redpanda one is only if its job came again.  On the
\* local back ends every verdict other than benign is explained or its job on the way,
\* unless a failure hit it.
THEOREM JobsAccountedHolds == Spec => []JobsAccounted
<1>1. ASSUME TypeInv, AuditInv, JobsInv, JobsKept
      PROVE  JobsAccounted
  <2>0. ~env.broker => again = {}
    BY <1>1 DEF JobsInv
  <2>1. ASSUME NEW v, v \notin again PROVE Cardinality(JobPlaces(v)) <= 1
    <3>1. CASE Placed(v)
      <4>1. PICK a : JobPlaces(v) = {a}
        BY <1>1, <2>1, <3>1, OnePlace
      <4>2. Cardinality({a}) = 1
        BY FS_Singleton
      <4> QED
        BY <4>1, <4>2
    <3>2. CASE ~Placed(v)
      <4>1. JobPlaces(v) = {}
        BY <1>1, <2>1, <3>2, OnePlace
      <4> QED
        BY <4>1, FS_EmptySet
    <3> QED
      BY <3>1, <3>2
  <2>2. ASSUME ~env.interleaved, NEW v \in (1..Len(verdicts)) \ (lost \cup dropped),
               verdicts[v].role = "handled", verdicts[v].label # "benign",
               ~InHand(v), ~IsLogged("rejection", v)
        PROVE  Cardinality(JobPlaces(v)) = 1
    <3>1. \A r \in Requests : ctx[r].verdict # v
      BY <2>2 DEF InHand
    <3>2. Placed(v)
      BY <1>1, <2>2, <3>1 DEF JobsKept
    <3>3. PICK a : JobPlaces(v) = {a}
      BY <1>1, <2>0, <2>2, <3>2, BrokerSuspends, OnePlace
    <3> QED
      BY <3>3, FS_Singleton
  <2> QED
    BY <2>0, <2>1, <2>2 DEF JobsAccounted, ExplainedOnce, JobsConserved
<1> QED
  BY <1>1, TypesHold, AuditHolds, JobsHold, PTL

=============================================================================
