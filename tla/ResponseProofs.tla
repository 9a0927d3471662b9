--------------------------- MODULE ResponseProofs ---------------------------
(***************************************************************************)
(* What the policy answers, for every input and all thresholds, what an    *)
(* evaluation through opa tells its caller, and what the engine that asks  *)
(* makes of it, for any addresses, windows, verdicts, cap, minute, TTL and *)
(* skew.                                                                   *)
(*                                                                         *)
(* None of the engine's properties is inductive alone.  What carries them  *)
(* is the relation between its state and the history of block decisions:   *)
(*   - the breaker's deque holds the `now's of the most recent blocks, and *)
(*     every block no longer in it is more than a minute old;              *)
(*   - an entry of the block table belongs to one decision of the history, *)
(*     and expires one TTL after that decision's `now';                    *)
(*   - a `now' is behind the instant of its decision by at most the skew.  *)
(***************************************************************************)
EXTENDS PolicyClient, ResponseEngine, FiniteSetTheorems, SequenceTheorems, TLAPS

-----------------------------------------------------------------------------
(* The policy *)

\* Every value the rules define is a well-formed decision.
LEMMA DecisionsTyped ==
  ASSUME NEW i, NEW d \in Decisions(i)
  PROVE  d \in Decision
BY DEF Decisions, ResolvedRule, UncertainRule, BenignRule, BelowGrayRule, GrayRule,
       AllowlistRule, ThrottleRule, BlockRule, Rule, DryRun, Decision, Actions,
       Reasons, NoTTL

\* Only the last rule blocks, so a block answer carries all its conditions.
LEMMA BlockAnswer ==
  ASSUME NEW i, NEW d \in Answers(i), d.action = "block"
  PROVE  /\ Actionable(i)
         /\ i.prior_action = NoAction
         /\ ~i.on_allowlist
         /\ ~i.breaker_tripped
         /\ d.ttl = BlockTTL
<1>1. d \in BlockRule(i)
  BY DEF Answers, Decisions, ResolvedRule, UncertainRule, BenignRule, BelowGrayRule,
         GrayRule, AllowlistRule, ThrottleRule, BlockRule, Rule, DryRun
<1> QED
  BY <1>1 DEF BlockRule, Rule, Actionable, Eligible, AlreadyResolved

\* The policy is total and without conflict on well-formed inputs and silent on
\* all others: opa prints one decision exactly when valid_input holds.
THEOREM PolicyTotal ==
  ASSUME NEW i
  PROVE  IF ValidInput(i) THEN \E d \in Decision : Decisions(i) = {d}
                          ELSE Decisions(i) = {}
<1> USE PolicyAssumption
<1> USE DEF Decisions, ResolvedRule, UncertainRule, BenignRule, BelowGrayRule, GrayRule,
            AllowlistRule, ThrottleRule, BlockRule, Rule
<1>1. CASE ~ValidInput(i)
  BY <1>1 DEF Eligible, Actionable
<1>2. CASE ValidInput(i) /\ AlreadyResolved(i)
  <2>1. Decisions(i) = {DryRun("window_already_resolved")}
    BY <1>2 DEF Eligible, Actionable
  <2> QED
    BY <1>2, <2>1 DEF DryRun, Decision, Actions, Reasons
<1>3. CASE Eligible(i) /\ ~IsConcreteAttackLabel(i.label)
  <2>1. \/ Decisions(i) = {DryRun("gray_zone")}
        \/ Decisions(i) = {DryRun("below_gray_zone")}
    BY <1>3 DEF Eligible, Actionable, IsConcreteAttackLabel
  <2> QED
    BY <1>3, <2>1 DEF DryRun, Decision, Actions, Reasons, Eligible
<1>4. CASE Eligible(i) /\ IsConcreteAttackLabel(i.label)
  <2>1. i.confidence \in Int
    BY <1>4 DEF Eligible, ValidInput
  <2>2. CASE i.confidence < GrayZoneLow
    <3>1. Decisions(i) = {DryRun("below_gray_zone")}
      BY <1>4, <2>1, <2>2 DEF Eligible, Actionable, IsConcreteAttackLabel
    <3> QED
      BY <1>4, <3>1 DEF DryRun, Decision, Actions, Reasons, Eligible
  <2>3. CASE i.confidence >= GrayZoneLow /\ i.confidence < BlockThreshold
    <3>1. Decisions(i) = {DryRun("gray_zone")}
      BY <1>4, <2>1, <2>3 DEF Eligible, Actionable, IsConcreteAttackLabel
    <3> QED
      BY <1>4, <3>1 DEF DryRun, Decision, Actions, Reasons, Eligible
  <2>4. CASE i.confidence >= BlockThreshold
    <3>1. \E d \in Decision : AllowlistRule(i) \cup ThrottleRule(i) \cup BlockRule(i) = {d}
      <4> DEFINE exempt == [action |-> "allowlist_exempt", reason |-> "on_allowlist",
                            ttl |-> NoTTL]
                 throttled == [action |-> "throttled",
                               reason |-> "circuit_breaker_exceeded", ttl |-> NoTTL]
                 block == [action |-> "block", reason |-> "confidence_above_threshold",
                           ttl |-> BlockTTL]
      <4>1. Actionable(i)
        BY <1>4, <2>4 DEF Actionable
      <4>2. exempt \in Decision /\ throttled \in Decision /\ block \in Decision
        BY DEF Decision, Actions, Reasons, NoTTL
      <4>3. \/ AllowlistRule(i) \cup ThrottleRule(i) \cup BlockRule(i) = {exempt}
            \/ AllowlistRule(i) \cup ThrottleRule(i) \cup BlockRule(i) = {throttled}
            \/ AllowlistRule(i) \cup ThrottleRule(i) \cup BlockRule(i) = {block}
        BY <4>1, ZenonT(40)
      <4> QED
        BY <4>2, <4>3, Zenon
    <3>2. /\ ResolvedRule(i) = {} /\ UncertainRule(i) = {} /\ BenignRule(i) = {}
          /\ BelowGrayRule(i) = {} /\ GrayRule(i) = {}
      BY <1>4, <2>1, <2>4 DEF Eligible, IsConcreteAttackLabel
    <3> QED
      BY <1>4, <3>1, <3>2 DEF Eligible
  <2> QED
    BY <2>1, <2>2, <2>3, <2>4
<1> QED
  BY <1>1, <1>2, <1>3, <1>4 DEF Eligible

\* Which rule decides: a resolved window, then the bands of the confidence scale.
LEMMA DecisionBands ==
  ASSUME NEW i, ValidInput(i), IsConcreteAttackLabel(i.label), NEW d \in Decisions(i)
  PROVE  /\ AlreadyResolved(i) => d.reason = "window_already_resolved"
         /\ ~AlreadyResolved(i) /\ i.confidence < GrayZoneLow
              => d.reason = "below_gray_zone"
         /\ ~AlreadyResolved(i) /\ i.confidence >= GrayZoneLow
              /\ i.confidence < BlockThreshold
              => d.reason = "gray_zone"
         /\ ~AlreadyResolved(i) /\ i.confidence >= BlockThreshold
              => d.reason \in {"on_allowlist", "circuit_breaker_exceeded",
                               "confidence_above_threshold"}
<1>0. i.confidence \in Int /\ GrayZoneLow \in Int /\ BlockThreshold \in Int
      /\ GrayZoneLow < BlockThreshold
  BY PolicyAssumption DEF ValidInput
<1> USE DEF ResolvedRule, UncertainRule, BenignRule, BelowGrayRule, GrayRule,
            AllowlistRule, ThrottleRule, BlockRule, Rule
<1>1. \/ d \in ResolvedRule(i) \/ d \in UncertainRule(i) \/ d \in BenignRule(i)
      \/ d \in BelowGrayRule(i) \/ d \in GrayRule(i) \/ d \in AllowlistRule(i)
      \/ d \in ThrottleRule(i) \/ d \in BlockRule(i)
  BY DEF Decisions
<1>2. CASE d \in ResolvedRule(i)
  BY <1>2 DEF DryRun
<1>3. d \notin UncertainRule(i) /\ d \notin BenignRule(i)
  BY DEF IsConcreteAttackLabel
<1>4. CASE d \in BelowGrayRule(i)
  <2>1. Eligible(i) /\ i.confidence < GrayZoneLow /\ d = DryRun("below_gray_zone")
    BY <1>4
  <2> QED
    BY <1>0, <2>1 DEF DryRun, Eligible
<1>5. CASE d \in GrayRule(i)
  <2>1. /\ Eligible(i) /\ i.confidence >= GrayZoneLow /\ i.confidence < BlockThreshold
        /\ d = DryRun("gray_zone")
    BY <1>5
  <2> QED
    BY <1>0, <2>1 DEF DryRun, Eligible
<1>6. CASE d \in AllowlistRule(i) \cup ThrottleRule(i) \cup BlockRule(i)
  <2>1. Actionable(i)
    BY <1>6
  <2>2. Eligible(i) /\ i.confidence >= BlockThreshold
    BY <2>1 DEF Actionable
  <2>3. d.reason \in {"on_allowlist", "circuit_breaker_exceeded",
                      "confidence_above_threshold"}
    BY <1>6
  <2> QED
    BY <1>0, <2>2, <2>3 DEF Eligible
<1> QED
  BY <1>1, <1>2, <1>3, <1>4, <1>5, <1>6

\* Two inputs that differ in their labels at most.
SameButLabel(i, j) ==
  /\ i.tier = j.tier /\ i.confidence = j.confidence
  /\ i.window_id = j.window_id /\ i.verdict_id = j.verdict_id
  /\ i.on_allowlist = j.on_allowlist /\ i.breaker_tripped = j.breaker_tripped
  /\ i.prior_action = j.prior_action

\* In the gray zone a concrete attack is decided on as an uncertain verdict is.
LEMMA GrayInvisible ==
  ASSUME NEW i, NEW j, SameButLabel(i, j), j.label = "uncertain",
         i.label \in Labels \ {"uncertain", "benign"}, i.confidence \in Int,
         i.confidence >= GrayZoneLow, i.confidence < BlockThreshold
  PROVE  Decisions(i) = Decisions(j)
<1> USE DEF Decisions, ResolvedRule, UncertainRule, BenignRule, BelowGrayRule, GrayRule,
            AllowlistRule, ThrottleRule, BlockRule, Rule
<1>1. /\ ValidInput(j) <=> ValidInput(i)
      /\ AlreadyResolved(j) <=> AlreadyResolved(i)
  BY DEF SameButLabel, ValidInput, AlreadyResolved, Labels
<1>2. CASE ~Eligible(i)
  <2>1. ~Eligible(j) /\ ~Actionable(j) /\ ~Actionable(i)
    BY <1>1, <1>2 DEF Eligible, Actionable
  <2>2. ResolvedRule(j) = ResolvedRule(i)
    BY <1>1
  <2> QED
    BY <1>2, <2>1, <2>2
<1>3. CASE Eligible(i)
  <2>1. Decisions(j) = {DryRun("gray_zone")}
    BY <1>1, <1>3 DEF Eligible, Actionable, IsConcreteAttackLabel
  <2>2. Decisions(i) = {DryRun("gray_zone")}
    BY <1>3, PolicyAssumption DEF Eligible, Actionable, IsConcreteAttackLabel
  <2> QED
    BY <2>1, <2>2
<1> QED
  BY <1>2, <1>3

\* A verdict with label l and confidence c, in a given situation of the engine.
Labelled(t, l, c, w, id, listed, tripped, prior) ==
  [tier |-> t, label |-> l, confidence |-> c, window_id |-> w, verdict_id |-> id,
   on_allowlist |-> listed, breaker_tripped |-> tripped, prior_action |-> prior]

\* derive_label changes nothing for the policy: the label a lane derives gets the
\* decision its raw class would have got, in every situation of the engine.
THEOREM DerivationInvisible ==
  ASSUME NEW p \in Labels \ {"uncertain"}, NEW c \in Int, NEW t, NEW w, NEW id,
         NEW listed, NEW tripped, NEW prior
  PROVE  Decisions(Labelled(t, DeriveLabel(p, c), c, w, id, listed, tripped, prior))
           = Decisions(Labelled(t, p, c, w, id, listed, tripped, prior))
<1>1. CASE DeriveLabel(p, c) = p
  BY <1>1, Zenon
<1>2. CASE DeriveLabel(p, c) # p
  <2>1. /\ DeriveLabel(p, c) = "uncertain"
        /\ p # "benign" /\ c >= GrayZoneLow /\ c < BlockThreshold
    BY <1>2, InSyncAssumption DEF DeriveLabel
  <2>2. PICK raw : raw = Labelled(t, p, c, w, id, listed, tripped, prior)
    OBVIOUS
  <2>3. PICK gray : gray = Labelled(t, "uncertain", c, w, id, listed, tripped, prior)
    OBVIOUS
  <2>4. SameButLabel(raw, gray)
    BY <2>2, <2>3 DEF Labelled, SameButLabel
  <2>5. /\ raw.label = p /\ raw.confidence = c /\ gray.label = "uncertain"
        /\ p \in Labels \ {"uncertain", "benign"}
    BY <2>1, <2>2, <2>3 DEF Labelled
  <2>6. Decisions(raw) = Decisions(gray)
    BY <2>1, <2>4, <2>5, GrayInvisible
  <2> QED
    BY <2>1, <2>2, <2>3, <2>6, Zenon
<1> QED
  BY <1>1, <1>2

-----------------------------------------------------------------------------
(* An evaluation *)

\* What the caller is told is an answer to its input.
ClientInv ==
  /\ input \in Inputs
  /\ outcome.kind = "decision" => outcome.decision \in Answers(input)

THEOREM ClientInvariance == ClientSpec => []ClientInv
<1>1. ClientInit => ClientInv
  BY DEF ClientInit, ClientInv, Pending, Answer
<1>2. ClientInv /\ [ClientNext]_clientVars => ClientInv'
  <2> SUFFICES ASSUME ClientInv, [ClientNext]_clientVars PROVE ClientInv'
    OBVIOUS
  <2>1. ASSUME NEW d \in Answers(input), outcome' = Answer("decision", d), input' = input
        PROVE  ClientInv'
    BY <2>1 DEF ClientInv, Answer
  <2>2. CASE LeaveUndefined \/ Fail
    BY <2>2 DEF LeaveUndefined, Fail, Undefined, OpaError, Answer, ClientInv
  <2>3. CASE UNCHANGED clientVars
    BY <2>3 DEF clientVars, ClientInv
  <2> QED
    BY <2>1, <2>2, <2>3 DEF ClientNext, Decide
<1> QED
  BY <1>1, <1>2, PTL DEF ClientSpec

\* Whatever the input and the thresholds, the eight rules neither conflict nor leave a gap
\* (response.rego:31-166).
THEOREM DecisionTotalHolds == ClientSpec => []DecisionTotal
<1>1. DecisionTotal
  <2>1. CASE ValidInput(input)
    <3>1. PICK d \in Decision : Decisions(input) = {d}
      BY <2>1, PolicyTotal
    <3>2. Cardinality({d}) = 1
      BY FS_Singleton
    <3> QED
      BY <2>1, <3>1, <3>2 DEF DecisionTotal
  <2>2. CASE ~ValidInput(input)
    <3>1. Decisions(input) = {}
      BY <2>2, PolicyTotal
    <3> QED
      BY <2>2, <3>1, FS_EmptySet DEF DecisionTotal
  <2> QED
    BY <2>1, <2>2
<1> QED
  BY <1>1, PTL

LEMMA SetLabelAgain ==
  ASSUME NEW i \in Inputs
  PROVE  [i EXCEPT !.label = i.label] = i
BY DEF Inputs

LEMMA MoreConfidence ==
  ASSUME NEW i \in Inputs, NEW c, NEW j, j = [i EXCEPT !.confidence = c]
  PROVE  /\ j.tier = i.tier /\ j.label = i.label /\ j.confidence = c
         /\ j.window_id = i.window_id /\ j.verdict_id = i.verdict_id
         /\ j.on_allowlist = i.on_allowlist /\ j.breaker_tripped = i.breaker_tripped
         /\ j.prior_action = i.prior_action
BY DEF Inputs

LEMMA OtherLabel ==
  ASSUME NEW i \in Inputs, NEW l, NEW j, j = [i EXCEPT !.label = l]
  PROVE  /\ j.tier = i.tier /\ j.label = l /\ j.confidence = i.confidence
         /\ j.window_id = i.window_id /\ j.verdict_id = i.verdict_id
         /\ j.on_allowlist = i.on_allowlist /\ j.breaker_tripped = i.breaker_tripped
         /\ j.prior_action = i.prior_action
BY DEF Inputs

\* More confidence in the same attack never gets a weaker answer, whatever the thresholds
\* (response.rego:100-166).
THEOREM ConfidenceMonotoneHolds == ClientSpec => []ConfidenceMonotone
<1>1. ASSUME ClientInv PROVE ConfidenceMonotone
  <2> SUFFICES ASSUME ValidInput(input), IsConcreteAttackLabel(input.label),
                      NEW c \in Confidences, NEW more,
                      more = [input EXCEPT !.confidence = c],
                      c >= input.confidence, ValidInput(more),
                      NEW d \in Decisions(input), NEW e \in Decisions(more)
               PROVE  Severity(d) <= Severity(e)
    BY DEF ConfidenceMonotone
  <2>1. more.label = input.label /\ more.confidence = c
        /\ more.prior_action = input.prior_action
    BY <1>1, MoreConfidence DEF ClientInv
  <2>2. /\ input.confidence \in Int /\ c \in Int
        /\ GrayZoneLow \in Int /\ BlockThreshold \in Int /\ GrayZoneLow < BlockThreshold
    BY <2>1, PolicyAssumption, ClientAssumption DEF ValidInput
  <2>3. AlreadyResolved(more) <=> AlreadyResolved(input)
    BY <2>1 DEF AlreadyResolved
  <2>4. ASSUME NEW x
        PROVE  /\ x.reason = "below_gray_zone" => Severity(x) = 0
               /\ x.reason = "gray_zone" => Severity(x) = 1
               /\ x.reason \notin {"below_gray_zone", "gray_zone"} => Severity(x) = 2
    <3>1. CASE x.reason = "below_gray_zone"
      BY <3>1 DEF Severity
    <3>2. CASE x.reason = "gray_zone"
      BY <3>2 DEF Severity
    <3>3. CASE x.reason \notin {"below_gray_zone", "gray_zone"}
      BY <3>3 DEF Severity
    <3> QED
      BY <3>1, <3>2, <3>3
  <2>5. Severity(d) \in 0..2 /\ Severity(e) \in 0..2
    BY <2>4
  <2>6. CASE AlreadyResolved(input)
    <3>1. d.reason = "window_already_resolved"
      BY <2>6, DecisionBands
    <3>2. IsConcreteAttackLabel(more.label)
      BY <2>1
    <3>3. e.reason = "window_already_resolved"
      BY <2>3, <2>6, <3>2, DecisionBands
    <3>4. Severity(d) = 2 /\ Severity(e) = 2
      BY <2>4, <3>1, <3>3
    <3> QED
      BY <3>4
  <2>7. CASE ~AlreadyResolved(input) /\ c >= BlockThreshold
    <3>1. Severity(e) = 2
      BY <2>1, <2>3, <2>4, <2>7, DecisionBands
    <3> QED
      BY <2>5, <3>1
  <2>8. CASE ~AlreadyResolved(input) /\ c >= GrayZoneLow /\ c < BlockThreshold
    <3>1. Severity(e) = 1
      BY <2>1, <2>3, <2>4, <2>8, DecisionBands
    <3>2. input.confidence < BlockThreshold
      BY <2>2, <2>8
    <3>3. d.reason = "gray_zone" \/ d.reason = "below_gray_zone"
      <4>1. input.confidence < GrayZoneLow \/ input.confidence >= GrayZoneLow
        BY <2>2
      <4> QED
        BY <2>8, <3>2, <4>1, DecisionBands
    <3> QED
      BY <2>4, <3>1, <3>3
  <2>9. CASE ~AlreadyResolved(input) /\ c < GrayZoneLow
    <3>1. input.confidence < GrayZoneLow
      BY <2>2, <2>9
    <3>2. Severity(d) = 0
      BY <2>4, <2>9, <3>1, DecisionBands
    <3> QED
      BY <2>5, <3>2
  <2>10. c < GrayZoneLow \/ (c >= GrayZoneLow /\ c < BlockThreshold) \/ c >= BlockThreshold
    BY <2>2
  <2> QED
    BY <2>6, <2>7, <2>8, <2>9, <2>10
<1> QED
  BY <1>1, ClientInvariance, PTL

\* The label a lane derives gets the very decision its raw class would have got, in every
\* situation of the engine, while the thresholds of both sides are in sync
\* (libs/verdict.py:14-30).
THEOREM DerivationAgreesHolds == ClientSpec => []DerivationAgrees
<1>1. ASSUME ClientInv PROVE DerivationAgrees
  <2> SUFFICES ASSUME NEW p \in Predicted, NEW raw, raw = [input EXCEPT !.label = p],
                      NEW l, l = DeriveLabel(p, input.confidence),
                      NEW derived, derived = [raw EXCEPT !.label = l]
               PROVE  Decisions(raw) = Decisions(derived)
    BY Zenon DEF DerivationAgrees
  <2>1. p \in Labels \ {"uncertain"} /\ input.confidence \in Int
    BY <1>1, ClientAssumption DEF ClientInv, Inputs
  <2>2. raw \in Inputs /\ SameButLabel(raw, input) /\ raw.label = p
    <3>1. raw \in Inputs
      BY <1>1, <2>1 DEF ClientInv, Inputs
    <3> QED
      BY <1>1, <3>1, OtherLabel DEF ClientInv, SameButLabel
  <2>3. CASE l = p
    <3>1. derived = raw
      BY <2>2, <2>3, SetLabelAgain
    <3> QED
      BY <3>1
  <2>4. CASE l # p
    <3>1. /\ l = "uncertain"
          /\ p # "benign" /\ input.confidence >= GrayZoneLow
          /\ input.confidence < BlockThreshold
      BY <2>4, InSyncAssumption DEF DeriveLabel
    <3>2. SameButLabel(raw, derived) /\ derived.label = "uncertain"
      BY <2>2, <3>1, OtherLabel DEF SameButLabel
    <3>3. raw.confidence = input.confidence
      BY <2>2 DEF SameButLabel
    <3> QED
      BY <2>1, <2>2, <3>1, <3>2, <3>3, GrayInvisible
  <2> QED
    BY <2>3, <2>4
<1> QED
  BY <1>1, ClientInvariance, PTL

\* A block answer is only ever given to a well-formed, concrete attack at or above the
\* threshold, in an open window, with neither switch set (response.rego:155-166).
THEOREM BlockJustifiedHolds == ClientSpec => []BlockJustified
<1>1. ASSUME ClientInv PROVE BlockJustified
  <2> SUFFICES ASSUME outcome.kind = "decision", outcome.decision.action = "block"
               PROVE  /\ input.tier \in Tiers
                      /\ input.label \in Labels \ {"benign", "uncertain"}
                      /\ input.confidence >= DeriveBlockThreshold
                      /\ input.window_id # EmptyId /\ input.prior_action = NoAction
                      /\ ~input.on_allowlist /\ ~input.breaker_tripped
                      /\ outcome.decision.ttl = BlockTTL
    BY DEF BlockJustified
  <2>1. outcome.decision \in Answers(input)
    BY <1>1 DEF ClientInv
  <2>2. /\ Actionable(input) /\ input.prior_action = NoAction
        /\ ~input.on_allowlist /\ ~input.breaker_tripped
        /\ outcome.decision.ttl = BlockTTL
    BY <2>1, BlockAnswer
  <2>3. /\ ValidInput(input) /\ IsConcreteAttackLabel(input.label)
        /\ input.confidence >= BlockThreshold
    BY <2>2 DEF Actionable, Eligible
  <2> QED
    BY <2>2, <2>3, InSyncAssumption DEF ValidInput, IsConcreteAttackLabel
<1> QED
  BY <1>1, ClientInvariance, PTL

-----------------------------------------------------------------------------
(* The engine *)

\* The `now' of every block is at most MaxSkew behind the instant of the block.
StampInv ==
  \A i \in 1..Len(enforced) :
    /\ enforced[i].at <= clock
    /\ enforced[i].now <= enforced[i].at
    /\ enforced[i].at - enforced[i].now <= MaxSkew

\* The deque is the tail of the history; what it has lost is over a minute old.
DequeInv ==
  /\ Len(actionTimes) <= Len(enforced)
  /\ \A j \in 1..Len(actionTimes) :
       actionTimes[j] = enforced[Len(enforced) - Len(actionTimes) + j].now
  /\ \A i \in 1..Len(enforced) :
       i <= Len(enforced) - Len(actionTimes) => Stale(enforced[i].now, clock)

\* An entry of the block table is the effect of one decision of the history.
TableInv ==
  \A ip \in IPs :
    LET b == blocks[ip] IN
    /\ b.decision = 0 => b = NoBlock
    /\ b.decision # 0 =>
         /\ b.decision \in 1..Len(enforced)
         /\ enforced[b.decision].ip = ip
         /\ b.expires = enforced[b.decision].now + BlockTTL

\* Every block decision is still in the table or was overwritten by a later one.
EntryInv ==
  \A i \in 1..Len(enforced) :
    LET b == blocks[enforced[i].ip] IN
    /\ b.decision # 0
    /\ b.expires >= enforced[i].at + BlockTTL - MaxSkew

\* Nothing was decided about an address after it went on the allowlist.
ListedInv ==
  \A ip \in IPs :
    /\ ip \in allowlist <=> listedAt[ip] # Never
    /\ listedAt[ip] <= clock
    /\ listedAt[ip] # Never /\ blocks[ip].decision # 0 =>
         enforced[blocks[ip].decision].at <= listedAt[ip]

IInv ==
  /\ TypeOK
  /\ StampInv
  /\ DequeInv
  /\ TableInv
  /\ EntryInv
  /\ ListedInv
  /\ WindowActedOnce
  /\ RateCap

-----------------------------------------------------------------------------

\* The instants a decide may carry are naturals not after the clock.
LEMMA TimesFacts ==
  ASSUME TypeOK, NEW now \in Times
  PROVE  now \in Nat /\ now <= clock /\ clock - now <= MaxSkew
BY DEF Times, TypeOK

\* The records of the history, one field at a time.
LEMMA HistoryFacts ==
  ASSUME TypeOK, NEW i \in 1..Len(enforced)
  PROVE  /\ enforced[i] \in Enforcement
         /\ enforced[i].ip \in IPs
         /\ enforced[i].window \in Windows
         /\ enforced[i].at \in Nat
         /\ enforced[i].now \in Nat
<1>1. enforced[i] \in Enforcement
  BY DEF TypeOK
<1> QED
  BY <1>1 DEF Enforcement

\* A stamp older than g, set at most s behind its instant: that instant is older
\* than g - s.
LEMMA GapArithmetic ==
  ASSUME NEW c \in Int, NEW a \in Int, NEW t \in Int, NEW g \in Int, NEW s \in Int,
         c - t > g, a - t <= s
  PROVE  c - a > g - s
OBVIOUS

\* What is stale stays stale.
LEMMA StaleLater ==
  ASSUME NEW ts \in Nat, NEW now \in Nat, NEW later \in Nat,
         now <= later, Stale(ts, now)
  PROVE  Stale(ts, later)
BY EngineAssumption DEF Stale

\* An eviction leaves a suffix of the deque, and what it removes is stale.
LEMMA EvictionFacts ==
  ASSUME TypeOK, NEW now \in Times, NEW q \in AfterEviction(now)
  PROVE  \E k \in 0..Len(actionTimes) :
           /\ q \in Seq(Nat)
           /\ Len(q) = Len(actionTimes) - k
           /\ \A j \in 1..Len(q) : q[j] = actionTimes[k + j]
           /\ \A j \in 1..k : Stale(actionTimes[j], now)
<1>1. PICK k \in 0..Len(actionTimes) :
        /\ EvictedCount(actionTimes, now, k)
        /\ q = SubSeq(actionTimes, k + 1, Len(actionTimes))
  BY DEF AfterEviction
<1>2. actionTimes \in Seq(Nat) /\ Len(actionTimes) \in Nat
  BY DEF TypeOK
<1>3. q \in Seq(Nat) /\ Len(q) = Len(actionTimes) - k
  BY <1>1, <1>2
<1>4. \A j \in 1..Len(q) : q[j] = actionTimes[k + j]
  BY <1>1, <1>2, <1>3
<1> QED
  BY <1>1, <1>3, <1>4 DEF EvictedCount

\* After an eviction the deque is still the tail of the history, and what it has
\* lost is still over a minute old.
LEMMA EvictionKeepsDeque ==
  ASSUME TypeOK, StampInv, DequeInv, NEW now \in Times, NEW q \in AfterEviction(now)
  PROVE  /\ q \in Seq(Nat)
         /\ Len(q) <= Len(enforced)
         /\ \A j \in 1..Len(q) : q[j] = enforced[Len(enforced) - Len(q) + j].now
         /\ \A i \in 1..Len(enforced) :
              i <= Len(enforced) - Len(q) => Stale(enforced[i].now, clock)
<1> DEFINE n == Len(enforced)
           m == Len(actionTimes)
<1>1. PICK k \in 0..m :
        /\ q \in Seq(Nat)
        /\ Len(q) = m - k
        /\ \A j \in 1..Len(q) : q[j] = actionTimes[k + j]
        /\ \A j \in 1..k : Stale(actionTimes[j], now)
  BY EvictionFacts
<1>2. n \in Nat /\ m \in Nat /\ m <= n /\ clock \in Nat
  BY DEF TypeOK, DequeInv
<1>3. now \in Nat /\ now <= clock
  BY TimesFacts
<1>4. \A j \in 1..m : actionTimes[j] = enforced[n - m + j].now
  BY DEF DequeInv
<1>5. Len(q) <= n
  BY <1>1, <1>2
<1>6. ASSUME NEW j \in 1..Len(q)
      PROVE  q[j] = enforced[n - Len(q) + j].now
  <2>1. k + j \in 1..m /\ n - m + (k + j) = n - Len(q) + j
    BY <1>1, <1>2
  <2> QED
    BY <1>1, <1>4, <2>1
<1>7. ASSUME NEW i \in 1..n, i <= n - Len(q)
      PROVE  Stale(enforced[i].now, clock)
  <2>1. CASE i <= n - m
    BY <2>1 DEF DequeInv
  <2>2. CASE i > n - m
    <3>1. i - (n - m) \in 1..k /\ i - (n - m) \in 1..m /\ n - m + (i - (n - m)) = i
      BY <1>1, <1>2, <1>7, <2>2
    <3>2. Stale(enforced[i].now, now)
      BY <1>1, <1>4, <3>1
    <3>3. enforced[i].now \in Nat
      BY HistoryFacts
    <3> QED
      BY <1>2, <1>3, <3>2, <3>3, StaleLater
  <2> QED
    BY <1>2, <2>1, <2>2
<1> QED
  BY <1>1, <1>5, <1>6, <1>7

\* What the policy answers is one of its actions.
LEMMA AnswerTyped ==
  ASSUME NEW i, NEW d \in Answers(i)
  PROVE  d.action \in Actions
BY DEF Answers, Decisions, ResolvedRule, UncertainRule, BenignRule, BelowGrayRule,
       GrayRule, AllowlistRule, ThrottleRule, BlockRule, Rule, DryRun, Actions

\* What engine.decide knows when the policy says block.
LEMMA BlockGuards ==
  ASSUME NEW v, NEW w \in Windows, NEW ip, NEW q,
         NEW d \in Answers(PolicyInput(v, w, ip, q)), d.action = "block"
  PROVE  /\ ip \notin allowlist
         /\ resolved[w] = NoAction
         /\ ~(Len(q) >= MaxActions)
         /\ d.ttl = BlockTTL
<1> DEFINE i == PolicyInput(v, w, ip, q)
<1>1. /\ i.prior_action = NoAction /\ ~i.on_allowlist /\ ~i.breaker_tripped
      /\ d.ttl = BlockTTL
  BY BlockAnswer
<1> QED
  BY <1>1 DEF PolicyInput, Tripped

-----------------------------------------------------------------------------
(* The invariant holds initially and is preserved by every action.         *)

LEMMA InitIInv == Init => IInv
<1> SUFFICES ASSUME Init PROVE IInv
  OBVIOUS
<1>1. Len(enforced) = 0 /\ Len(actionTimes) = 0 /\ enforced = <<>> /\ actionTimes = <<>>
  BY DEF Init
<1>2. TypeOK
  BY DEF Init, TypeOK, NoBlock, NoAction, Never
<1>3. StampInv /\ DequeInv /\ EntryInv /\ WindowActedOnce /\ RateCap
  BY <1>1 DEF StampInv, DequeInv, EntryInv, WindowActedOnce, RateCap
<1>4. TableInv
  BY DEF Init, TableInv, NoBlock
<1>5. ListedInv
  BY DEF Init, ListedInv, NoBlock, Never
<1> QED
  BY <1>2, <1>3, <1>4, <1>5 DEF IInv

\* Time passes: what was stale stays stale, and nothing else looks at the clock.
LEMMA TickStep == IInv /\ Tick => IInv'
<1> SUFFICES ASSUME IInv, Tick PROVE IInv'
  OBVIOUS
<1> USE DEF IInv
<1>1. /\ clock \in Nat /\ clock' = clock + 1 /\ clock' \in Nat
      /\ UNCHANGED <<actionTimes, resolved, blocks, allowlist, enforced, listedAt>>
  BY DEF Tick, TypeOK
<1>2. TypeOK'
  BY <1>1 DEF TypeOK, Enforcement
<1>3. StampInv'
  <2> SUFFICES ASSUME NEW i \in 1..Len(enforced)
               PROVE  /\ enforced[i].at <= clock'
                      /\ enforced[i].now <= enforced[i].at
                      /\ enforced[i].at - enforced[i].now <= MaxSkew
    BY <1>1 DEF StampInv
  <2> QED
    BY <1>1, HistoryFacts DEF StampInv
<1>4. DequeInv'
  <2>1. ASSUME NEW i \in 1..Len(enforced), i <= Len(enforced) - Len(actionTimes)
        PROVE  Stale(enforced[i].now, clock')
    <3>1. enforced[i].now \in Nat
      BY HistoryFacts
    <3> QED
      BY <1>1, <2>1, <3>1, StaleLater DEF DequeInv
  <2> QED
    BY <1>1, <2>1 DEF DequeInv
<1>5. TableInv' /\ EntryInv' /\ WindowActedOnce' /\ RateCap'
  BY <1>1 DEF TableInv, EntryInv, WindowActedOnce, RateCap
<1>6. ListedInv'
  <2>1. \A ip \in IPs : listedAt[ip] \in Int
    BY DEF TypeOK, Never
  <2> QED
    BY <1>1, <2>1 DEF ListedInv
<1> QED
  BY <1>2, <1>3, <1>4, <1>5, <1>6

\* decide never changes an action of a window that has one, nor one of a window
\* it is not about.
LEMMA RecordFacts ==
  ASSUME TypeOK, NEW w \in Windows, NEW a \in Actions, RecordAction(w, a)
  PROVE  /\ resolved' \in [Windows -> {NoAction} \cup (Actions \ {"dry_run"})]
         /\ \A u \in Windows : resolved[u] # NoAction => resolved'[u] = resolved[u]
         /\ a = "block" /\ resolved[w] = NoAction => resolved'[w] = "block"
BY DEF TypeOK, RecordAction

\* A decide that does not block shortens the deque and may close a window.
LEMMA OtherStep ==
  ASSUME IInv, NEW v \in Verdicts, NEW w \in Windows, NEW ip \in IPs, NEW now \in Times,
         DecideOther(v, w, ip, now)
  PROVE  IInv'
<1> USE DEF IInv
<1>1. PICK q \in AfterEviction(now) :
        /\ \E d \in Answers(PolicyInput(v, w, ip, q)) :
             d.action # "block" /\ RecordAction(w, d.action)
        /\ actionTimes' = q
        /\ UNCHANGED <<clock, blocks, allowlist, enforced, listedAt>>
  BY DEF DecideOther
<1>2. PICK d \in Answers(PolicyInput(v, w, ip, q)) :
        d.action # "block" /\ RecordAction(w, d.action)
  BY <1>1
<1>3. d.action \in Actions
  BY AnswerTyped
<1>4. /\ resolved' \in [Windows -> {NoAction} \cup (Actions \ {"dry_run"})]
      /\ \A u \in Windows : resolved[u] # NoAction => resolved'[u] = resolved[u]
  BY <1>2, <1>3, RecordFacts
<1>5. /\ q \in Seq(Nat)
      /\ Len(q) <= Len(enforced)
      /\ \A j \in 1..Len(q) : q[j] = enforced[Len(enforced) - Len(q) + j].now
      /\ \A i \in 1..Len(enforced) :
           i <= Len(enforced) - Len(q) => Stale(enforced[i].now, clock)
  BY EvictionKeepsDeque
<1>6. TypeOK'
  BY <1>1, <1>4, <1>5 DEF TypeOK, Enforcement
<1>7. DequeInv'
  BY <1>1, <1>5 DEF DequeInv
<1>8. WindowActedOnce'
  <2>1. \A i \in 1..Len(enforced) : resolved'[enforced[i].window] = "block"
    BY <1>4, HistoryFacts DEF WindowActedOnce, NoAction
  <2> QED
    BY <1>1, <2>1 DEF WindowActedOnce
<1>9. StampInv' /\ TableInv' /\ EntryInv' /\ ListedInv' /\ RateCap'
  BY <1>1 DEF StampInv, TableInv, EntryInv, ListedInv, RateCap
<1> QED
  BY <1>6, <1>7, <1>8, <1>9

\* A decide that raises has still shortened the deque.
LEMMA RaisesStep ==
  ASSUME IInv, NEW now \in Times, DecideRaises(now)
  PROVE  IInv'
<1> USE DEF IInv
<1>1. PICK q \in AfterEviction(now) :
        /\ actionTimes' = q
        /\ UNCHANGED <<clock, resolved, blocks, allowlist, enforced, listedAt>>
  BY DEF DecideRaises
<1>2. /\ q \in Seq(Nat)
      /\ Len(q) <= Len(enforced)
      /\ \A j \in 1..Len(q) : q[j] = enforced[Len(enforced) - Len(q) + j].now
      /\ \A i \in 1..Len(enforced) :
           i <= Len(enforced) - Len(q) => Stale(enforced[i].now, clock)
  BY EvictionKeepsDeque
<1>3. TypeOK'
  BY <1>1, <1>2 DEF TypeOK, Enforcement
<1>4. DequeInv'
  BY <1>1, <1>2 DEF DequeInv
<1>5. StampInv' /\ TableInv' /\ EntryInv' /\ ListedInv' /\ WindowActedOnce' /\ RateCap'
  BY <1>1 DEF StampInv, TableInv, EntryInv, ListedInv, WindowActedOnce, RateCap
<1> QED
  BY <1>3, <1>4, <1>5

\* A reversal only sets a flag the invariant does not read.
LEMMA ReverseStep ==
  ASSUME IInv, NEW ip \in IPs, ReverseBlock(ip)
  PROVE  IInv'
<1> USE DEF IInv
<1>1. /\ blocks[ip] # NoBlock /\ blocks' = [blocks EXCEPT ![ip].reversed = TRUE]
      /\ UNCHANGED <<clock, actionTimes, resolved, allowlist, enforced, listedAt>>
  BY DEF ReverseBlock
<1>2. blocks \in [IPs -> [decision : Nat, expires : Nat, reversed : BOOLEAN]]
  BY DEF TypeOK
<1>3. blocks' \in [IPs -> [decision : Nat, expires : Nat, reversed : BOOLEAN]]
  BY <1>1, <1>2
<1>4. /\ blocks[ip].decision # 0
      /\ \A j \in IPs : /\ blocks'[j].decision = blocks[j].decision
                        /\ blocks'[j].expires = blocks[j].expires
                        /\ j # ip => blocks'[j] = blocks[j]
  BY <1>1, <1>2 DEF TableInv
<1>5. TypeOK'
  BY <1>1, <1>3 DEF TypeOK, Enforcement
<1>6. TableInv'
  BY <1>1, <1>4 DEF TableInv
<1>7. EntryInv'
  BY <1>1, <1>4, HistoryFacts DEF EntryInv
<1>8. ListedInv'
  BY <1>1, <1>4 DEF ListedInv
<1>9. StampInv' /\ DequeInv' /\ WindowActedOnce' /\ RateCap'
  BY <1>1 DEF StampInv, DequeInv, WindowActedOnce, RateCap
<1> QED
  BY <1>5, <1>6, <1>7, <1>8, <1>9

\* An address goes on the allowlist now: every decision about it is older.
LEMMA AllowlistStep ==
  ASSUME IInv, NEW ip \in IPs, AllowlistAdd(ip)
  PROVE  IInv'
<1> USE DEF IInv
<1>1. /\ allowlist' = allowlist \cup {ip}
      /\ listedAt' = IF ip \in allowlist THEN listedAt
                     ELSE [listedAt EXCEPT ![ip] = clock]
      /\ UNCHANGED <<clock, actionTimes, resolved, blocks, enforced>>
  BY DEF AllowlistAdd
<1>2. clock \in Nat /\ listedAt \in [IPs -> Nat \cup {Never}]
  BY DEF TypeOK
<1>3. TypeOK'
  BY <1>1, <1>2 DEF TypeOK, Enforcement
<1>4. ListedInv'
  <2> SUFFICES ASSUME NEW a \in IPs
               PROVE  /\ a \in allowlist' <=> listedAt'[a] # Never
                      /\ listedAt'[a] <= clock
                      /\ listedAt'[a] # Never /\ blocks[a].decision # 0 =>
                           enforced[blocks[a].decision].at <= listedAt'[a]
    BY <1>1 DEF ListedInv
  <2>1. CASE ip \notin allowlist /\ a = ip
    <3>1. listedAt'[a] = clock
      BY <1>1, <1>2, <2>1
    <3>2. blocks[a].decision # 0 => enforced[blocks[a].decision].at <= clock
      BY DEF TableInv, StampInv
    <3> QED
      BY <1>1, <1>2, <2>1, <3>1, <3>2 DEF Never
  <2>2. CASE ip \in allowlist \/ a # ip
    BY <1>1, <1>2, <2>2 DEF ListedInv
  <2> QED
    BY <2>1, <2>2
<1>5. /\ StampInv' /\ DequeInv' /\ TableInv' /\ EntryInv' /\ WindowActedOnce'
      /\ RateCap'
  BY <1>1 DEF StampInv, DequeInv, TableInv, EntryInv, WindowActedOnce, RateCap
<1> QED
  BY <1>3, <1>4, <1>5

\* A block decision: the one step that lengthens the history.
LEMMA BlockStep ==
  ASSUME IInv, NEW v \in Verdicts, NEW w \in Windows, NEW ip \in IPs, NEW now \in Times,
         DecideBlock(v, w, ip, now)
  PROVE  IInv'
<1> USE DEF IInv
<1> DEFINE n == Len(enforced)
           e == [ip |-> ip, window |-> w, at |-> clock, now |-> now]
<1>1. PICK q \in AfterEviction(now) :
        /\ \E d \in Answers(PolicyInput(v, w, ip, q)) :
             /\ d.action = "block"
             /\ RecordAction(w, d.action)
             /\ actionTimes' = Append(q, now)
             /\ blocks' = [blocks EXCEPT ![ip] = NewBlock(now, d.ttl)]
             /\ enforced' = Append(enforced, e)
        /\ UNCHANGED <<clock, allowlist, listedAt>>
  BY DEF DecideBlock
<1>2. PICK d \in Answers(PolicyInput(v, w, ip, q)) :
        /\ d.action = "block"
        /\ RecordAction(w, d.action)
        /\ actionTimes' = Append(q, now)
        /\ blocks' = [blocks EXCEPT ![ip] = NewBlock(now, d.ttl)]
        /\ enforced' = Append(enforced, e)
  BY <1>1
<1>3. /\ ip \notin allowlist /\ resolved[w] = NoAction
      /\ ~(Len(q) >= MaxActions) /\ d.ttl = BlockTTL
  BY <1>2, BlockGuards
<1>4. /\ q \in Seq(Nat)
      /\ Len(q) <= n
      /\ \A j \in 1..Len(q) : q[j] = enforced[n - Len(q) + j].now
      /\ \A i \in 1..n : i <= n - Len(q) => Stale(enforced[i].now, clock)
  BY EvictionKeepsDeque
<1>5. now \in Nat /\ now <= clock /\ clock - now <= MaxSkew
  BY TimesFacts
<1>6. clock \in Nat /\ n \in Nat /\ Len(q) \in Nat /\ enforced \in Seq(Enforcement)
  BY <1>4 DEF TypeOK
<1>7. e \in Enforcement
  BY <1>5, <1>6 DEF Enforcement
<1>8. /\ enforced' \in Seq(Enforcement)
      /\ Len(enforced') = n + 1
      /\ \A i \in 1..n : enforced'[i] = enforced[i]
      /\ enforced'[n + 1] = e
  BY <1>2, <1>6, <1>7
<1>9. /\ actionTimes' \in Seq(Nat)
      /\ Len(actionTimes') = Len(q) + 1
      /\ \A j \in 1..Len(q) : actionTimes'[j] = q[j]
      /\ actionTimes'[Len(q) + 1] = now
  BY <1>2, <1>4, <1>5
<1>10. /\ resolved' \in [Windows -> {NoAction} \cup (Actions \ {"dry_run"})]
       /\ \A u \in Windows : resolved[u] # NoAction => resolved'[u] = resolved[u]
       /\ resolved'[w] = "block"
  BY <1>2, <1>3, RecordFacts DEF Actions
<1>11. NewBlock(now, BlockTTL) =
         [decision |-> n + 1, expires |-> now + BlockTTL, reversed |-> FALSE]
  BY DEF NewBlock, NextDecisionId
<1>12. NewBlock(now, BlockTTL) \in [decision : Nat, expires : Nat, reversed : BOOLEAN]
  BY <1>5, <1>6, <1>11, PolicyAssumption
<1>13. /\ blocks' \in [IPs -> [decision : Nat, expires : Nat, reversed : BOOLEAN]]
       /\ blocks'[ip] = NewBlock(now, BlockTTL)
       /\ \A a \in IPs : a # ip => blocks'[a] = blocks[a]
  BY <1>2, <1>3, <1>12 DEF TypeOK
<1>14. TypeOK'
  BY <1>1, <1>8, <1>9, <1>10, <1>13 DEF TypeOK, Enforcement
<1>15. StampInv'
  BY <1>1, <1>5, <1>6, <1>8 DEF StampInv
<1>16. DequeInv'
  <2>1. Len(actionTimes') <= Len(enforced')
    BY <1>4, <1>6, <1>8, <1>9
  <2>2. ASSUME NEW j \in 1..Len(actionTimes')
        PROVE  actionTimes'[j] = enforced'[Len(enforced') - Len(actionTimes') + j].now
    <3>1. Len(enforced') - Len(actionTimes') + j = n - Len(q) + j
      BY <1>6, <1>8, <1>9
    <3>2. CASE j = Len(q) + 1
      BY <1>6, <1>8, <1>9, <3>1, <3>2
    <3>3. CASE j \in 1..Len(q)
      <4>1. n - Len(q) + j \in 1..n
        BY <1>4, <1>6, <3>3
      <4> QED
        BY <1>4, <1>8, <1>9, <3>1, <3>3, <4>1, ZenonT(40)
    <3> QED
      BY <1>6, <1>9, <3>2, <3>3
  <2>3. ASSUME NEW i \in 1..Len(enforced'), i <= Len(enforced') - Len(actionTimes')
        PROVE  Stale(enforced'[i].now, clock')
    <3>1. i \in 1..n /\ i <= n - Len(q)
      BY <1>6, <1>8, <1>9, <2>3
    <3> QED
      BY <1>1, <1>4, <1>8, <3>1
  <2> QED
    BY <2>1, <2>2, <2>3 DEF DequeInv
<1>17. TableInv'
  <2> SUFFICES ASSUME NEW a \in IPs
               PROVE  /\ blocks'[a].decision = 0 => blocks'[a] = NoBlock
                      /\ blocks'[a].decision # 0 =>
                           /\ blocks'[a].decision \in 1..Len(enforced')
                           /\ enforced'[blocks'[a].decision].ip = a
                           /\ blocks'[a].expires =
                                enforced'[blocks'[a].decision].now + BlockTTL
    BY DEF TableInv
  <2>1. CASE a = ip
    BY <1>6, <1>8, <1>11, <1>13, <2>1
  <2>2. CASE a # ip
    BY <1>6, <1>8, <1>13, <2>2, SMTT(40) DEF TableInv
  <2> QED
    BY <2>1, <2>2
<1>18. EntryInv'
  <2> SUFFICES ASSUME NEW i \in 1..Len(enforced')
               PROVE  /\ blocks'[enforced'[i].ip].decision # 0
                      /\ blocks'[enforced'[i].ip].expires
                           >= enforced'[i].at + BlockTTL - MaxSkew
    BY DEF EntryInv
  <2>1. enforced'[i].at \in Nat /\ enforced'[i].at <= clock
    <3>1. CASE i = n + 1
      BY <1>6, <1>8, <3>1
    <3>2. CASE i \in 1..n
      BY <1>8, <3>2, HistoryFacts DEF StampInv
    <3> QED
      BY <1>6, <1>8, <3>1, <3>2
  <2>2. CASE enforced'[i].ip = ip
    <3>1. blocks'[ip].decision = n + 1 /\ blocks'[ip].expires = now + BlockTTL
      BY <1>11, <1>13
    <3> QED
      BY <1>5, <1>6, <2>1, <2>2, <3>1, PolicyAssumption, EngineAssumption
  <2>3. CASE enforced'[i].ip # ip
    <3>1. i \in 1..n /\ enforced'[i] = enforced[i] /\ enforced[i].ip \in IPs
      BY <1>6, <1>8, <2>3, HistoryFacts
    <3> QED
      BY <1>13, <2>3, <3>1 DEF EntryInv
  <2> QED
    BY <2>2, <2>3
<1>19. ListedInv'
  <2> SUFFICES ASSUME NEW a \in IPs
               PROVE  /\ a \in allowlist <=> listedAt[a] # Never
                      /\ listedAt[a] <= clock
                      /\ listedAt[a] # Never /\ blocks'[a].decision # 0 =>
                           enforced'[blocks'[a].decision].at <= listedAt[a]
    BY <1>1 DEF ListedInv
  <2>1. CASE a = ip
    BY <1>3, <2>1 DEF ListedInv
  <2>2. CASE a # ip
    BY <1>8, <1>13, <2>2 DEF ListedInv, TableInv
  <2> QED
    BY <2>1, <2>2
<1>20. WindowActedOnce'
  <2>1. ASSUME NEW i \in 1..n PROVE enforced[i].window # w /\ enforced[i].window \in Windows
    BY <1>3, HistoryFacts DEF WindowActedOnce, NoAction
  <2>2. ASSUME NEW i \in 1..Len(enforced')
        PROVE  resolved'[enforced'[i].window] = "block"
    <3>1. CASE i = n + 1
      BY <1>8, <1>10, <3>1
    <3>2. CASE i \in 1..n
      BY <1>8, <1>10, <2>1, <3>2 DEF WindowActedOnce, NoAction
    <3> QED
      BY <1>6, <1>8, <3>1, <3>2
  <2>3. ASSUME NEW i \in 1..Len(enforced'), NEW j \in 1..Len(enforced'),
               enforced'[j].window = enforced'[i].window
        PROVE  i = j
    <3>1. CASE i \in 1..n /\ j \in 1..n
      BY <1>8, <2>3, <3>1 DEF WindowActedOnce
    <3>2. CASE i = n + 1 /\ j \in 1..n
      BY <1>8, <2>1, <2>3, <3>2
    <3>3. CASE i \in 1..n /\ j = n + 1
      BY <1>8, <2>1, <2>3, <3>3
    <3> QED
      BY <1>6, <1>8, <3>1, <3>2, <3>3
  <2> QED
    BY <2>2, <2>3 DEF WindowActedOnce
<1>21. RateCap'
  <2> SUFFICES ASSUME NEW i \in 1..Len(enforced'), i + MaxActions <= Len(enforced')
               PROVE  enforced'[i + MaxActions].at - enforced'[i].at > Minute - MaxSkew
    BY DEF RateCap
  <2>1. MaxActions \in Nat /\ MaxActions >= 1 /\ Minute \in Nat /\ MaxSkew \in Nat
    BY EngineAssumption
  <2>2. CASE i + MaxActions <= n
    BY <1>6, <1>8, <2>1, <2>2, SMTT(40) DEF RateCap
  <2>3. CASE i + MaxActions = n + 1
    <3>1. i \in 1..n /\ i <= n - Len(q)
      BY <1>3, <1>6, <1>8, <2>1, <2>3
    <3>2. clock - enforced[i].now > Minute
      BY <1>4, <3>1 DEF Stale
    <3>3. /\ enforced[i].at \in Nat /\ enforced[i].now \in Nat
          /\ enforced[i].at - enforced[i].now <= MaxSkew
      BY <3>1, HistoryFacts DEF StampInv
    <3>4. enforced'[i + MaxActions].at = clock /\ enforced'[i].at = enforced[i].at
      BY <1>8, <2>3, <3>1
    <3>5. clock - enforced[i].at > Minute - MaxSkew
      <4>1. clock \in Int /\ Minute \in Int /\ MaxSkew \in Int
        BY <1>6, <2>1
      <4>2. enforced[i].at \in Int /\ enforced[i].now \in Int
        BY <3>3
      <4> QED
        BY <3>2, <3>3, <4>1, <4>2, GapArithmetic
    <3> QED
      BY <3>4, <3>5
  <2> QED
    BY <1>6, <1>8, <2>1, <2>2, <2>3, SMTT(40)
<1> QED
  BY <1>14, <1>15, <1>16, <1>17, <1>18, <1>19, <1>20, <1>21

-----------------------------------------------------------------------------
(* The theorems.                                                           *)

LEMMA NextIInv == IInv /\ [Next]_vars => IInv'
<1> SUFFICES ASSUME IInv, [Next]_vars PROVE IInv'
  OBVIOUS
<1>1. CASE Tick
  BY <1>1, TickStep
<1>2. CASE \E v \in Verdicts, w \in Windows, ip \in IPs, now \in Times :
             DecideBlock(v, w, ip, now)
  BY <1>2, BlockStep
<1>3. CASE \E v \in Verdicts, w \in Windows, ip \in IPs, now \in Times :
             DecideOther(v, w, ip, now)
  BY <1>3, OtherStep
<1>4. CASE \E now \in Times : DecideRaises(now)
  BY <1>4, RaisesStep
<1>5. CASE \E ip \in IPs : ReverseBlock(ip)
  BY <1>5, ReverseStep
<1>6. CASE \E ip \in IPs : AllowlistAdd(ip)
  BY <1>6, AllowlistStep
<1>7. CASE UNCHANGED vars
  BY <1>7 DEF vars, IInv, TypeOK, Enforcement, StampInv, DequeInv, TableInv, EntryInv,
              ListedInv, WindowActedOnce, RateCap
<1> QED
  BY <1>1, <1>2, <1>3, <1>4, <1>5, <1>6, <1>7 DEF Next

THEOREM Invariance == Spec => []IInv
<1> QED
  BY InitIInv, NextIInv, PTL DEF Spec

\* Type correctness of the engine.
THEOREM TypeCorrect == Spec => []TypeOK
<1>1. IInv => TypeOK
  BY DEF IInv
<1> QED
  BY <1>1, Invariance, PTL

\* NFR-10: for any cap, minute and skew, the breaker bounds the rate of blocks.
THEOREM RateCapHolds == Spec => []RateCap
<1>1. IInv => RateCap
  BY DEF IInv
<1> QED
  BY <1>1, Invariance, PTL

\* FR-12: no window is acted on twice.
THEOREM WindowActedOnceHolds == Spec => []WindowActedOnce
<1>1. IInv => WindowActedOnce
  BY DEF IInv
<1> QED
  BY <1>1, Invariance, PTL

\* NFR-9: a block never outlives the TTL of a decision about its address.
THEOREM BlockBoundedHolds == Spec => []BlockBounded
<1>1. IInv => BlockBounded
  <2> SUFFICES ASSUME IInv, NEW ip \in IPs, IsBlocked(ip, clock)
               PROVE  \E i \in 1..Len(enforced) :
                        enforced[i].ip = ip /\ clock - enforced[i].at < BlockTTL
    BY DEF BlockBounded
  <2> DEFINE k == blocks[ip].decision
  <2>1. k # 0 /\ k \in 1..Len(enforced) /\ enforced[k].ip = ip
        /\ blocks[ip].expires = enforced[k].now + BlockTTL
    BY DEF IInv, TableInv, IsBlocked
  <2>2. /\ clock \in Nat /\ enforced[k].at \in Nat /\ enforced[k].now \in Nat
        /\ enforced[k].now <= enforced[k].at
    BY <2>1, HistoryFacts DEF IInv, TypeOK, StampInv
  <2>3. clock - enforced[k].at < BlockTTL
    BY <2>1, <2>2, PolicyAssumption, SMTT(40) DEF IsBlocked
  <2> QED
    BY <2>1, <2>3
<1> QED
  BY <1>1, Invariance, PTL

\* An enforced block holds until its TTL, less the skew, or a human's reversal.
THEOREM BlockHeldHolds == Spec => []BlockHeld
<1>1. IInv => BlockHeld
  <2> SUFFICES ASSUME IInv, NEW i \in 1..Len(enforced),
                      ~blocks[enforced[i].ip].reversed,
                      clock < enforced[i].at + BlockTTL - MaxSkew
               PROVE  IsBlocked(enforced[i].ip, clock)
    BY DEF BlockHeld
  <2> DEFINE b == blocks[enforced[i].ip]
  <2>1. /\ b.decision # 0 /\ b.expires \in Nat
        /\ b.expires >= enforced[i].at + BlockTTL - MaxSkew
    BY HistoryFacts DEF IInv, TypeOK, EntryInv
  <2>2. clock \in Nat /\ enforced[i].at \in Nat
    BY HistoryFacts DEF IInv, TypeOK
  <2>3. clock < b.expires
    BY <2>1, <2>2, PolicyAssumption, EngineAssumption
  <2>4. b # NoBlock
    BY <2>1 DEF NoBlock
  <2> QED
    BY <2>3, <2>4 DEF IsBlocked
<1> QED
  BY <1>1, Invariance, PTL

\* NFR-9: a block lasts for its TTL.
THEOREM BlockLastsTTLHolds == Spec => []BlockLastsTTL
<1>1. BlockBounded /\ BlockHeld => BlockLastsTTL
  BY DEF BlockLastsTTL
<1> QED
  BY <1>1, BlockBoundedHolds, BlockHeldHolds, PTL

\* One TTL after it was allowlisted, an address is free for good.
THEOREM AllowlistTakesEffectHolds == Spec => []AllowlistTakesEffect
<1>1. IInv => AllowlistTakesEffect
  <2> SUFFICES ASSUME IInv, NEW ip \in IPs, listedAt[ip] # Never,
                      clock >= listedAt[ip] + BlockTTL, IsBlocked(ip, clock)
               PROVE  FALSE
    BY DEF AllowlistTakesEffect
  <2> DEFINE k == blocks[ip].decision
  <2>1. k # 0 /\ k \in 1..Len(enforced) /\ blocks[ip].expires = enforced[k].now + BlockTTL
    BY DEF IInv, TableInv, IsBlocked
  <2>2. enforced[k].at <= listedAt[ip]
    BY <2>1 DEF IInv, ListedInv
  <2>3. /\ clock \in Nat /\ enforced[k].at \in Nat /\ enforced[k].now \in Nat
        /\ enforced[k].now <= enforced[k].at /\ listedAt[ip] \in Nat
    BY <2>1, HistoryFacts DEF IInv, TypeOK, StampInv
  <2> QED
    BY <2>1, <2>2, <2>3, PolicyAssumption, SMTT(40) DEF IsBlocked
<1> QED
  BY <1>1, Invariance, PTL

\* No block comes back by itself: only a decision about an address that is not
\* allowlisted turns it from free to blocked.
THEOREM BlockedOnlyByDecisionHolds == Spec => BlockedOnlyByDecision
<1> DEFINE OnlyByDecision(ip) ==
             IsBlocked(ip, clock)' /\ ~IsBlocked(ip, clock) =>
               /\ Len(enforced') = Len(enforced) + 1
               /\ enforced'[Len(enforced')].ip = ip
               /\ ip \notin allowlist
<1>1. ASSUME IInv, [Next]_vars, NEW ip \in IPs
      PROVE  OnlyByDecision(ip)
  <2> SUFFICES ASSUME IsBlocked(ip, clock)', ~IsBlocked(ip, clock)
               PROVE  /\ Len(enforced') = Len(enforced) + 1
                      /\ enforced'[Len(enforced')].ip = ip
                      /\ ip \notin allowlist
    OBVIOUS
  <2>1. /\ clock \in Nat /\ enforced \in Seq(Enforcement)
        /\ blocks \in [IPs -> [decision : Nat, expires : Nat, reversed : BOOLEAN]]
    BY <1>1 DEF IInv, TypeOK
  <2>2. ASSUME blocks'[ip] = blocks[ip], clock' >= clock, clock' \in Nat
        PROVE  FALSE
    BY <2>1, <2>2 DEF IsBlocked
  <2>3. CASE Tick
    BY <2>1, <2>2, <2>3 DEF Tick
  <2>4. ASSUME NEW v \in Verdicts, NEW w \in Windows, NEW a \in IPs, NEW now \in Times,
               DecideBlock(v, w, a, now)
        PROVE  /\ Len(enforced') = Len(enforced) + 1
               /\ enforced'[Len(enforced')].ip = ip
               /\ ip \notin allowlist
    <3>0. PICK q \in AfterEviction(now) :
            \E d \in Answers(PolicyInput(v, w, a, q)) :
              /\ d.action = "block"
              /\ blocks' = [blocks EXCEPT ![a] = NewBlock(now, d.ttl)]
              /\ enforced' = Append(enforced, [ip |-> a, window |-> w,
                                               at |-> clock, now |-> now])
              /\ clock' = clock
      BY <2>4 DEF DecideBlock
    <3>1. PICK d \in Answers(PolicyInput(v, w, a, q)) :
            /\ d.action = "block"
            /\ blocks' = [blocks EXCEPT ![a] = NewBlock(now, d.ttl)]
            /\ enforced' = Append(enforced, [ip |-> a, window |-> w,
                                             at |-> clock, now |-> now])
            /\ clock' = clock
      BY <3>0
    <3>2. a \notin allowlist
      BY <3>1, BlockGuards
    <3>3. a = ip
      BY <2>1, <2>2, <3>1
    <3>4. [ip |-> a, window |-> w, at |-> clock, now |-> now] \in Enforcement
      BY <1>1, <2>1, TimesFacts DEF IInv, Enforcement
    <3> QED
      BY <2>1, <3>1, <3>2, <3>3, <3>4
  <2>5. ASSUME NEW v \in Verdicts, NEW w \in Windows, NEW a \in IPs, NEW now \in Times,
               DecideOther(v, w, a, now)
        PROVE  FALSE
    BY <2>1, <2>2, <2>5 DEF DecideOther
  <2>6. ASSUME NEW now \in Times, DecideRaises(now)
        PROVE  FALSE
    BY <2>1, <2>2, <2>6 DEF DecideRaises
  <2>7. ASSUME NEW a \in IPs, ReverseBlock(a)
        PROVE  FALSE
    <3>1. CASE a = ip
      BY <2>1, <2>7, <3>1 DEF ReverseBlock, IsBlocked
    <3>2. CASE a # ip
      BY <2>1, <2>2, <2>7, <3>2 DEF ReverseBlock
    <3> QED
      BY <3>1, <3>2
  <2>8. ASSUME NEW a \in IPs, AllowlistAdd(a)
        PROVE  FALSE
    BY <2>1, <2>2, <2>8 DEF AllowlistAdd
  <2>9. CASE UNCHANGED vars
    BY <2>1, <2>2, <2>9 DEF vars
  <2> QED
    BY <1>1, <2>3, <2>4, <2>5, <2>6, <2>7, <2>8, <2>9 DEF Next
<1>2. IInv /\ [Next]_vars => [\A ip \in IPs : OnlyByDecision(ip)]_vars
  BY <1>1
<1> QED
  BY <1>2, Invariance, PTL DEF Spec, BlockedOnlyByDecision

=============================================================================
