--------------------------- MODULE ResponseEngine ---------------------------
(***************************************************************************)
(* The enforcement state of services/response_engine: the sliding-window   *)
(* circuit breaker, the window correlator and the table of active blocks,  *)
(* behind ResponseEngine.decide, reverse_block, allowlist_add, is_blocked. *)
(*                                                                         *)
(* decide runs to completion without suspending (the opa subprocess is     *)
(* waited for synchronously), so one call is one step.  What is not atomic *)
(* is the time it is given: the API reads `now' when a request starts      *)
(* (api/main.py:113,128) and passes it to every decide of the request,     *)
(* after the awaits of the bus and of the audit log.  So a decide at       *)
(* instant `clock' may carry any `now' of the last MaxSkew instants, and   *)
(* two decides may carry theirs in the wrong order.                        *)
(***************************************************************************)
EXTENDS Policy, Sequences

CONSTANTS
  IPs,          \* target addresses
  Windows,      \* window_ids of detection windows
  Verdicts,     \* [tier, label, confidence] of the verdicts that may arrive
  MaxActions,   \* CIRCUIT_BREAKER_MAX_ACTIONS_PER_MIN
  Minute,       \* the breaker's timedelta(minutes=1), in clock units
  MaxSkew,      \* how far behind the clock the `now' of a decide may be
  MaxClock      \* bound on the clock, for TLC

ASSUME EngineAssumption ==
  /\ MaxActions \in Nat \ {0} /\ Minute \in Nat \ {0}
  /\ MaxSkew \in Nat /\ MaxClock \in Nat
  /\ EmptyId \notin Windows

VARIABLES
  clock,         \* the wall clock
  actionTimes,   \* CircuitBreaker._action_times
  resolved,      \* WindowCorrelator._resolved, NoAction for an absent key
  blocks,        \* ResponseEngine._active_blocks, NoBlock for an absent key
  allowlist,     \* ResponseEngine._allowlist
  enforced,      \* history: every block decision, oldest first
  listedAt       \* history: when an address was first allowlisted

vars == <<clock, actionTimes, resolved, blocks, allowlist, enforced, listedAt>>

Never == -1                   \* listedAt of an address not on the allowlist
NoBlock == [decision |-> 0, expires |-> 0, reversed |-> FALSE]

-----------------------------------------------------------------------------
(* circuit_breaker.py *)

Stale(ts, now) == now - ts > Minute

\* _evict_stale pops the front while it is stale: k elements go, and what stops
\* it is the first fresh one, whatever is behind it.
EvictedCount(q, now, k) ==
  /\ \A j \in 1..k : Stale(q[j], now)
  /\ k < Len(q) => ~Stale(q[k + 1], now)

\* What is_tripped(now) leaves in the deque (a set of one sequence).
AfterEviction(now) ==
  {SubSeq(actionTimes, k + 1, Len(actionTimes)) :
     k \in {n \in 0..Len(actionTimes) : EvictedCount(actionTimes, now, n)}}

\* Mutant: one action too many.
TrippedLate(q) == Len(q) > MaxActions

Tripped(q) == Len(q) >= MaxActions

-----------------------------------------------------------------------------
(* engine.py *)

\* decision_id: the decisions that block are numbered in order.
NextDecisionId == Len(enforced) + 1

\* Mutant: the allowlist is not passed on.
PolicyInputUnlisted(v, w, ip, q) ==
  [tier |-> v.tier, label |-> v.label, confidence |-> v.confidence,
   window_id |-> w, verdict_id |-> "v",
   on_allowlist |-> FALSE, breaker_tripped |-> Tripped(q),
   prior_action |-> IF w \in Windows THEN resolved[w] ELSE NoAction]

PolicyInput(v, w, ip, q) ==
  [tier |-> v.tier, label |-> v.label, confidence |-> v.confidence,
   window_id |-> w, verdict_id |-> "v",
   on_allowlist |-> ip \in allowlist, breaker_tripped |-> Tripped(q),
   prior_action |-> IF w \in Windows THEN resolved[w] ELSE NoAction]

\* Mutant: a dry run opens the window again.
RecordActionReopens(w, action) ==
  resolved' = IF w \in Windows
              THEN [resolved EXCEPT ![w] = IF action = "dry_run" THEN NoAction ELSE action]
              ELSE resolved

\* WindowCorrelator.record: the first acting action of a window is kept.
RecordAction(w, action) ==
  resolved' = IF w \in Windows /\ action # "dry_run" /\ resolved[w] = NoAction
              THEN [resolved EXCEPT ![w] = action]
              ELSE resolved

\* Mutant: the answer's ttl_seconds is not read (`or 0').
NewBlockNoTTL(now, ttl) ==
  [decision |-> NextDecisionId, expires |-> now, reversed |-> FALSE]

NewBlock(now, ttl) ==
  [decision |-> NextDecisionId, expires |-> now + ttl, reversed |-> FALSE]

Times == {t \in 0..clock : clock - t <= MaxSkew}

\* decide, when the policy says block.
DecideBlock(v, w, ip, now) ==
  \E q \in AfterEviction(now) :
    /\ \E d \in Answers(PolicyInput(v, w, ip, q)) :
         /\ d.action = "block"
         /\ RecordAction(w, d.action)
         /\ actionTimes' = Append(q, now)
         /\ blocks' = [blocks EXCEPT ![ip] = NewBlock(now, d.ttl)]
         /\ enforced' = Append(enforced, [ip |-> ip, window |-> w,
                                          at |-> clock, now |-> now])
    /\ UNCHANGED <<clock, allowlist, listedAt>>

\* decide, when the policy answers anything else than a block.
DecideOther(v, w, ip, now) ==
  \E q \in AfterEviction(now) :
    /\ \E d \in Answers(PolicyInput(v, w, ip, q)) :
         /\ d.action # "block"
         /\ RecordAction(w, d.action)
    /\ actionTimes' = q
    /\ UNCHANGED <<clock, blocks, allowlist, enforced, listedAt>>

\* decide raises: PolicyRejectedError on an undefined decision (a verdict with
\* an empty window_id is well-typed and gets here), OPAEvaluationError when opa
\* itself fails.  The eviction has happened; nothing else has.
DecideRaises(now) ==
  \E q \in AfterEviction(now) :
    /\ actionTimes' = q
    /\ UNCHANGED <<clock, resolved, blocks, allowlist, enforced, listedAt>>

\* Mutant: reversing twice undoes the reversal.
ReverseBlockToggles(ip) ==
  /\ blocks[ip] # NoBlock
  /\ blocks' = [blocks EXCEPT ![ip].reversed = ~@]
  /\ UNCHANGED <<clock, actionTimes, resolved, allowlist, enforced, listedAt>>

\* reverse_block, when it returns True; otherwise it changes nothing.
ReverseBlock(ip) ==
  /\ blocks[ip] # NoBlock
  /\ ~blocks[ip].reversed
  /\ blocks' = [blocks EXCEPT ![ip].reversed = TRUE]
  /\ UNCHANGED <<clock, actionTimes, resolved, allowlist, enforced, listedAt>>

AllowlistAdd(ip) ==
  /\ allowlist' = allowlist \cup {ip}
  /\ listedAt' = IF ip \in allowlist THEN listedAt
                 ELSE [listedAt EXCEPT ![ip] = clock]
  /\ UNCHANGED <<clock, actionTimes, resolved, blocks, enforced>>

IsBlocked(ip, now) ==
  /\ blocks[ip] # NoBlock
  /\ ~blocks[ip].reversed
  /\ now < blocks[ip].expires

Tick ==
  /\ clock < MaxClock
  /\ clock' = clock + 1
  /\ UNCHANGED <<actionTimes, resolved, blocks, allowlist, enforced, listedAt>>

-----------------------------------------------------------------------------

Init ==
  /\ clock = 0
  /\ actionTimes = <<>>
  /\ resolved = [w \in Windows |-> NoAction]
  /\ blocks = [ip \in IPs |-> NoBlock]
  /\ allowlist \in SUBSET IPs
  /\ enforced = <<>>
  /\ listedAt = [ip \in IPs |-> IF ip \in allowlist THEN 0 ELSE Never]

Next ==
  \/ Tick
  \/ \E v \in Verdicts, w \in Windows, ip \in IPs, now \in Times :
       DecideBlock(v, w, ip, now)
  \/ \E v \in Verdicts, w \in Windows, ip \in IPs, now \in Times :
       DecideOther(v, w, ip, now)
  \/ \E now \in Times : DecideRaises(now)
  \/ \E ip \in IPs : ReverseBlock(ip)
  \/ \E ip \in IPs : AllowlistAdd(ip)

Spec == Init /\ [][Next]_vars

-----------------------------------------------------------------------------
(* Properties *)

Enforcement == [ip : IPs, window : Windows, at : Nat, now : Nat]

\* The engine's state has the shape the code gives it.
TypeOK ==
  /\ clock \in Nat
  /\ actionTimes \in Seq(Nat)
  /\ resolved \in [Windows -> {NoAction} \cup (Actions \ {"dry_run"})]
  /\ blocks \in [IPs -> [decision : Nat, expires : Nat, reversed : BOOLEAN]]
  /\ allowlist \in SUBSET IPs
  /\ enforced \in Seq(Enforcement)
  /\ listedAt \in [IPs -> Nat \cup {Never}]

\* NFR-10 (circuit_breaker.py:1): at most MaxActions blocks in any minute, of
\* any verdict source.  The breaker only sees the `now' it is handed, so with
\* requests that carry a `now' up to MaxSkew old the minute is that much shorter.
RateCap ==
  \A i \in 1..Len(enforced) :
    i + MaxActions <= Len(enforced) =>
      enforced[i + MaxActions].at - enforced[i].at > Minute - MaxSkew

\* FR-12 (correlator.py:1): a window is blocked at most once, and a window once
\* resolved another way (exempt, throttled) is never blocked.
WindowActedOnce ==
  \A i \in 1..Len(enforced) :
    /\ resolved[enforced[i].window] = "block"
    /\ \A j \in 1..Len(enforced) : enforced[j].window = enforced[i].window => i = j

\* NFR-9 (engine.py:72-77): a block is reversible but never outlives the TTL of
\* a real block decision on that very address.
BlockBounded ==
  \A ip \in IPs : IsBlocked(ip, clock) =>
    \E i \in 1..Len(enforced) :
      enforced[i].ip = ip /\ clock - enforced[i].at < BlockTTL

\* An enforced block holds for its TTL unless a human lifts it: a later decide
\* that overwrites the entry (engine.py:74), even one with an older `now', does
\* not cut it short by more than the skew.
BlockHeld ==
  \A i \in 1..Len(enforced) :
    LET e == enforced[i] IN
    ~blocks[e.ip].reversed /\ clock < e.at + BlockTTL - MaxSkew
      => IsBlocked(e.ip, clock)

\* A block lasts as long as its TTL says, neither more nor, but for the skew, less.
BlockLastsTTL == BlockBounded /\ BlockHeld

\* An address on the allowlist is free at the latest one TTL after it was put
\* there (engine.py:63,100): whatever verdicts follow, nothing renews its block.
AllowlistTakesEffect ==
  \A ip \in IPs :
    listedAt[ip] # Never /\ clock >= listedAt[ip] + BlockTTL => ~IsBlocked(ip, clock)

\* An address becomes blocked only by a block decision about it: no reversed or
\* expired block comes back by itself (engine.py:85-98).
BlockedOnlyByDecision ==
  [][\A ip \in IPs :
       IsBlocked(ip, clock)' /\ ~IsBlocked(ip, clock) =>
         /\ Len(enforced') = Len(enforced) + 1
         /\ enforced'[Len(enforced')].ip = ip
         /\ ip \notin allowlist]_vars

=============================================================================
