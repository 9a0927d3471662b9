---------------------------- MODULE PolicyClient ----------------------------
(***************************************************************************)
(* One evaluation of the policy through the real `opa' binary:             *)
(* services/response_engine/opa_client.py, PolicyClient.evaluate.          *)
(*                                                                         *)
(* The call blocks its caller until the subprocess answers, so an          *)
(* evaluation is one step: a decision, None (the policy left `decision'    *)
(* undefined) or an OPAEvaluationError.                                    *)
(***************************************************************************)
EXTENDS Policy, FiniteSets

CONSTANTS
  Confidences,   \* the confidences a verdict may carry
  Predicted,     \* the raw classes a model predicts (never "uncertain")
  BadTier,       \* a tier outside known_tiers
  BadLabel       \* a label outside known_labels

ASSUME ClientAssumption ==
  /\ Confidences \subseteq Int
  /\ Predicted \subseteq Labels \ {"uncertain"}

VARIABLES
  input,    \* what the caller hands to evaluate
  outcome   \* Pending, a decision, Undefined or OpaError

clientVars == <<input, outcome>>

Answer(kind, d) == [kind |-> kind, decision |-> d]
NoDecision == DryRun("gray_zone")     \* a filler, read only when kind is "decision"
Pending == Answer("pending", NoDecision)
Undefined == Answer("undefined", NoDecision)
OpaError == Answer("error", NoDecision)

Inputs ==
  [tier : Tiers \cup {BadTier}, label : Labels \cup {BadLabel},
   confidence : Confidences, window_id : {EmptyId, "w"}, verdict_id : {"v"},
   on_allowlist : BOOLEAN, breaker_tripped : BOOLEAN,
   prior_action : {NoAction, "block", "throttled"}]

ClientInit ==
  /\ input \in Inputs
  /\ outcome = Pending

\* opa exits 0 with a result: exactly one value of `decision'.
Decide ==
  /\ outcome = Pending
  /\ \E d \in Answers(input) : outcome' = Answer("decision", d)
  /\ UNCHANGED input

\* opa exits 0 with no result: evaluate returns None.
LeaveUndefined ==
  /\ outcome = Pending
  /\ Decisions(input) = {}
  /\ outcome' = Undefined
  /\ UNCHANGED input

\* The binary is missing, times out after 5 s or exits nonzero; two rules that
\* disagree make opa exit nonzero too.
Fail ==
  /\ outcome = Pending
  /\ outcome' = OpaError
  /\ UNCHANGED input

ClientNext == Decide \/ LeaveUndefined \/ Fail

ClientSpec == ClientInit /\ [][ClientNext]_clientVars

-----------------------------------------------------------------------------
(* Properties *)

\* The rules never conflict and leave no gap: a well-formed input has exactly
\* one decision, a malformed one has none (response.rego's fail-closed gate and
\* its eight `decision' rules, which OPA would refuse to reconcile).
DecisionTotal ==
  Cardinality(Decisions(input)) = IF ValidInput(input) THEN 1 ELSE 0

Severity(d) ==
  CASE d.reason = "below_gray_zone" -> 0
    [] d.reason = "gray_zone" -> 1
    [] OTHER -> 2

\* More confidence in the same attack never gets a weaker answer: the bands of
\* response.rego are in order and leave no hole at a threshold.
ConfidenceMonotone ==
  ValidInput(input) /\ IsConcreteAttackLabel(input.label) =>
    \A c \in Confidences :
      LET more == [input EXCEPT !.confidence = c] IN
      c >= input.confidence /\ ValidInput(more) =>
        \A d \in Decisions(input), e \in Decisions(more) : Severity(d) <= Severity(e)

\* derive_label and the policy cut the confidence scale at the same points: the
\* label a lane derives (libs/verdict.py) gets the very decision its raw class
\* would have got, so a lane can neither hide an attack from the policy nor
\* promote a gray one.
DerivationAgrees ==
  \A p \in Predicted :
    LET raw == [input EXCEPT !.label = p] IN
    Decisions(raw) = Decisions([raw EXCEPT !.label = DeriveLabel(p, input.confidence)])

\* A block answer is only ever given to a well-formed, concrete attack at or
\* above the threshold of the Python side, in a window that is not resolved and
\* with neither switch set (engine.py enforces it unchecked).
BlockJustified ==
  outcome.kind = "decision" /\ outcome.decision.action = "block" =>
    /\ input.tier \in Tiers
    /\ input.label \in Labels \ {"benign", "uncertain"}
    /\ input.confidence >= DeriveBlockThreshold
    /\ input.window_id # EmptyId /\ input.prior_action = NoAction
    /\ ~input.on_allowlist /\ ~input.breaker_tripped
    /\ outcome.decision.ttl = BlockTTL

=============================================================================
