------------------------------- MODULE Policy -------------------------------
(***************************************************************************)
(* The decision policy: policy/response.rego, and the label derivation of  *)
(* libs/verdict.py that feeds it.                                          *)
(*                                                                         *)
(* A Rego rule `decision := d if { ... }' defines a value of `decision'    *)
(* whenever its body holds.  Several rules may fire on one input; OPA then *)
(* fails with a conflict unless they agree, and leaves `decision'          *)
(* undefined when none fires.  So the policy is the SET of the decisions   *)
(* its rules define for an input, one disjunct per rule.                   *)
(*                                                                         *)
(* Confidences are naturals up to FullConfidence (the code's 1.0); only    *)
(* their order relative to the thresholds matters.                         *)
(***************************************************************************)
EXTENDS Integers

CONSTANTS
  GrayZoneLow,             \* gray_zone_low of response.rego
  BlockThreshold,          \* block_threshold of response.rego
  BlockTTL,                \* block_ttl_seconds of response.rego
  DeriveGrayLow,           \* GRAY_ZONE_LOW_THRESHOLD of libs/constants.py
  DeriveBlockThreshold,    \* BLOCK_CONFIDENCE_THRESHOLD of libs/constants.py
  FullConfidence           \* the confidence 1.0

ASSUME PolicyAssumption ==
  /\ GrayZoneLow \in Nat /\ BlockThreshold \in Nat /\ FullConfidence \in Nat
  /\ 0 < GrayZoneLow /\ GrayZoneLow < BlockThreshold
  /\ BlockThreshold <= FullConfidence
  /\ BlockTTL \in Nat \ {0}

\* The thresholds are written once in Python and once in Rego and are "kept in
\* sync by hand" (policy/response.rego:20-24).
ASSUME InSyncAssumption ==
  /\ DeriveGrayLow = GrayZoneLow
  /\ DeriveBlockThreshold = BlockThreshold

Tiers == {"bouncer", "detective", "decoy"}
Labels == {"flood", "port_scan", "lateral_movement", "benign", "uncertain",
           "decoy_interaction"}
Actions == {"block", "dry_run", "allowlist_exempt", "throttled"}
Reasons == {"confidence_above_threshold", "on_allowlist", "gray_zone",
            "circuit_breaker_exceeded", "below_gray_zone",
            "window_already_resolved"}

EmptyId == ""        \* an empty window_id or verdict_id
NoTTL == 0           \* ttl_seconds: null
NoAction == "none"   \* prior_action_for_window: null

Decision == [action : Actions, reason : Reasons, ttl : {NoTTL, BlockTTL}]

-----------------------------------------------------------------------------
(* response.rego *)

\* Mutant: the window_id may be empty.
ValidInputAnyWindow(i) ==
  /\ i.tier \in Tiers
  /\ i.label \in Labels
  /\ i.confidence \in 0..FullConfidence
  /\ i.verdict_id # EmptyId
  /\ i.on_allowlist \in BOOLEAN
  /\ i.breaker_tripped \in BOOLEAN

ValidInput(i) ==
  /\ i.tier \in Tiers
  /\ i.label \in Labels
  /\ i.confidence \in 0..FullConfidence
  /\ i.window_id # EmptyId
  /\ i.verdict_id # EmptyId
  /\ i.on_allowlist \in BOOLEAN
  /\ i.breaker_tripped \in BOOLEAN

AlreadyResolved(i) == i.prior_action # NoAction

Eligible(i) == ValidInput(i) /\ ~AlreadyResolved(i)

IsConcreteAttackLabel(label) == label # "uncertain" /\ label # "benign"

\* A concrete attack at or above the block threshold, on an open window.
Actionable(i) ==
  /\ Eligible(i)
  /\ IsConcreteAttackLabel(i.label)
  /\ i.confidence >= BlockThreshold

DryRun(reason) == [action |-> "dry_run", reason |-> reason, ttl |-> NoTTL]

\* The value a rule defines, when its body holds.
Rule(body, d) == IF body THEN {d} ELSE {}

ResolvedRule(i) ==
  Rule(ValidInput(i) /\ AlreadyResolved(i), DryRun("window_already_resolved"))

UncertainRule(i) ==
  Rule(Eligible(i) /\ i.label = "uncertain", DryRun("gray_zone"))

BenignRule(i) ==
  Rule(Eligible(i) /\ i.label = "benign", DryRun("below_gray_zone"))

BelowGrayRule(i) ==
  Rule(/\ Eligible(i)
       /\ IsConcreteAttackLabel(i.label)
       /\ i.confidence < GrayZoneLow,
       DryRun("below_gray_zone"))

\* Mutant: the gray zone includes the block threshold.
GrayRuleClosed(i) ==
  Rule(/\ Eligible(i)
       /\ IsConcreteAttackLabel(i.label)
       /\ i.confidence >= GrayZoneLow
       /\ i.confidence <= BlockThreshold,
       DryRun("gray_zone"))

\* Mutant: the gray zone has no floor.
GrayRuleNoFloor(i) ==
  Rule(/\ Eligible(i)
       /\ IsConcreteAttackLabel(i.label)
       /\ i.confidence < BlockThreshold,
       DryRun("gray_zone"))

GrayRule(i) ==
  Rule(/\ Eligible(i)
       /\ IsConcreteAttackLabel(i.label)
       /\ i.confidence >= GrayZoneLow
       /\ i.confidence < BlockThreshold,
       DryRun("gray_zone"))

AllowlistRule(i) ==
  Rule(Actionable(i) /\ i.on_allowlist,
       [action |-> "allowlist_exempt", reason |-> "on_allowlist", ttl |-> NoTTL])

ThrottleRule(i) ==
  Rule(Actionable(i) /\ ~i.on_allowlist /\ i.breaker_tripped,
       [action |-> "throttled", reason |-> "circuit_breaker_exceeded",
        ttl |-> NoTTL])

BlockRule(i) ==
  Rule(Actionable(i) /\ ~i.on_allowlist /\ ~i.breaker_tripped,
       [action |-> "block", reason |-> "confidence_above_threshold",
        ttl |-> BlockTTL])

\* Every value the rules give to `decision' on input i.
Decisions(i) ==
  ResolvedRule(i) \cup UncertainRule(i) \cup BenignRule(i) \cup BelowGrayRule(i)
  \cup GrayRule(i) \cup AllowlistRule(i) \cup ThrottleRule(i) \cup BlockRule(i)

\* The decision opa prints: a conflict between rules is an error of opa's.
Answers(i) == {d \in Decisions(i) : Decisions(i) = {d}}

-----------------------------------------------------------------------------
(* libs/verdict.py: the label put on a verdict for a model's raw argmax.   *)

\* Mutant: the threshold itself is still uncertain.
DeriveLabelClosed(predicted, confidence) ==
  IF /\ predicted # "benign"
     /\ confidence <= DeriveBlockThreshold
     /\ confidence >= DeriveGrayLow
  THEN "uncertain"
  ELSE predicted

DeriveLabel(predicted, confidence) ==
  IF /\ predicted # "benign"
     /\ confidence < DeriveBlockThreshold
     /\ confidence >= DeriveGrayLow
  THEN "uncertain"
  ELSE predicted

=============================================================================
