----------------------------- MODULE EventTopic -----------------------------
(***************************************************************************)
(* What both event buses of libs/event_bus.py are used with: a topic, its  *)
(* consumer groups, and the coroutines that read for them.                 *)
(***************************************************************************)
EXTENDS Integers, Sequences, FiniteSets

CONSTANTS
  Messages,        \* the messages that may be published
  Groups,          \* consumer groups
  Readers,         \* coroutines that subscribe
  GroupOf,         \* the group a reader subscribes with
  MaxPublished     \* bound on the messages of a run, for TLC

ASSUME TopicAssumption ==
  /\ GroupOf \in [Readers -> Groups]
  /\ MaxPublished \in Nat

=============================================================================
