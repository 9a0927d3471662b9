---------------------------- MODULE KronusSystem ----------------------------
(***************************************************************************)
(* pipeline/kronus_system.py: the composition root.  Every event, decoy    *)
(* session, correction and drain is a coroutine of one event loop, and the *)
(* steps below are what runs between two of its awaits: an append to the   *)
(* audit log lands in one step, what the code does next is another.        *)
(*                                                                         *)
(* On the local back ends (SQLite, in-memory bus) an await of the log or   *)
(* of the bus returns without suspending, so a coroutine runs to its end,  *)
(* but for the sleeps of a drain.  On the networked ones it suspends, and  *)
(* any other coroutine may run in between: interleaved.  Log and bus are   *)
(* chosen apart from each other.  The topic of the jobs is in the process, *)
(* or with Redpanda on a broker, where it outlives the process and a job   *)
(* may come again: when an acknowledgement is lost, and when a worker is   *)
(* given the partition and not all that was read before was committed.     *)
(*                                                                         *)
(* api/serve.py starts the system in an event loop that ends before the    *)
(* server's own begins: the job worker has registered its group and is     *)
(* gone when the first request comes.  That is an environment whose worker *)
(* is not started.                                                         *)
(*                                                                         *)
(* The policy is module Policy.  The allowlist and the circuit breaker     *)
(* (module ResponseEngine) are reduced to what the policy is told of them, *)
(* the hash chain (Logbook) to the order of the entries, the job queue     *)
(* (EventBus, Redpanda) to its one topic and group, the open graph window  *)
(* (GraphBuilder) to the set of its events, which closes at any event; a   *)
(* block does not expire.                                                  *)
(***************************************************************************)
EXTENDS Policy, Sequences, FiniteSets, FiniteSetsExt, SequencesExt

CONSTANTS
  Requests,      \* slots for the coroutines in flight
  Events,        \* event_ids; the API takes them from the client, repeats too
  Source, Dest,  \* functions: the addresses of an event
  IPs,           \* addresses, as their ranks in the order of strings
  TopK,          \* top_k_evidence of the Detective
  Environments   \* the environments that are looked at:
                 \*   verdicts: [label, confidence] of the verdicts the models may give
                 \*   calls: the entry points that are called
                 \*   interleaved: the log, the bus or both are networked
                 \*   broker: the bus is Redpanda
                 \*   mayFail: an append, a publish or opa may raise, an acknowledgement
                 \*            of the broker may be lost, once per job
                 \*   mayCrash: the process may be restarted
                 \*   mayReject: the policy bundle may leave an input undefined
                 \*   started: the job worker's task lives when the first call comes
                 \*   maxVerdicts, maxLog: bounds on verdicts made and on the log, for TLC

ASSUME SystemAssumption ==
  /\ Source \in [Events -> IPs] /\ Dest \in [Events -> IPs]
  /\ IPs \subseteq Nat \ {0} /\ IsFiniteSet(IPs)
  /\ TopK \in Nat \ {0}
  /\ \A e \in Environments :
       /\ e.verdicts \subseteq [label : Labels, confidence : 0..FullConfidence]
       /\ e.calls \subseteq {"ingest_event", "handle_decoy_session", "flush_graph_window",
                             "record_correction", "drain_explanation_jobs", "start_stop"}
       /\ {e.interleaved, e.broker, e.mayFail, e.mayCrash, e.mayReject, e.started} \subseteq BOOLEAN
       /\ e.broker => e.interleaved
       /\ {e.maxVerdicts, e.maxLog} \subseteq Nat

VARIABLES
  env,        \* the environment, one of Environments; it never changes
  pc,         \* what each coroutine does next
  ctx,        \* its locals
  verdicts,   \* the verdicts made; a verdict_id is its place here
  decisions,  \* the decisions made; a decision_id is its place here
  resolved,   \* the windows WindowCorrelator holds an action for
  blocks,     \* _active_blocks
  last,       \* _last_decision_id_by_ip
  buffer,     \* the events of the open graph window
  log,        \* the audit log, in the order of its entries
  queue,      \* the job queue's topic: verdict_ids not yet consumed
  uncommitted, \* the broker: those consumed since the group's offset was committed
  committed,  \* the broker: has the group an offset
  worker,     \* is the job worker's task alive, and has it the broker's partition
  received,   \* _received_jobs
  drift,      \* DriftWatcher's two counters
  lost,       \* history: the verdicts a failure hit: their coroutine raised or was
              \* killed, or their event was in a window that died with the process
  dropped,    \* history: the jobs that died with a drain that raised or with the process,
              \* or that a worker was never given
  again,      \* history: the verdicts whose job the broker stored or gave more than once
  born        \* history: how many decisions older processes made

coroutineVars == <<pc, ctx>>
engineVars == <<decisions, resolved, blocks, last>>
jobVars == <<queue, uncommitted, committed, worker, received>>
faultVars == <<lost, dropped, again, born>>
vars == <<env, coroutineVars, verdicts, engineVars, buffer, log, jobVars, drift, faultVars>>

NoIP == 0
NoBlock == [decision |-> 0, reversed |-> FALSE]
Idle == [verdict |-> 0, decision |-> 0, snapshot |-> 0, todo |-> <<>>]

\* A coroutine that waits in the sleeps of a drain lets the others run on any
\* back end; one that waits for a networked back end does so too.
Holding(r) == pc[r] \notin {"idle", "read"}
Turn(r) == env.interleaved \/ \A q \in Requests \ {r} : ~Holding(q)

At(r, place) == pc[r] = place /\ Turn(r)
Goto(r, place) == pc' = [pc EXCEPT ![r] = place]
Finish(r) == Goto(r, "idle") /\ ctx' = [ctx EXCEPT ![r] = Idle]

Room == Len(verdicts) < env.maxVerdicts

-----------------------------------------------------------------------------
(* env.verdicts *)

Verdict(role, tier, v, window, ip, covers) ==
  [role |-> role, tier |-> tier, label |-> v.label, confidence |-> v.confidence,
   window |-> window, ip |-> ip, covers |-> covers]

\* A verdict to be handled by r: its detection is logged next.
Handle(r, verdict) ==
  /\ Room
  /\ verdicts' = Append(verdicts, verdict)
  /\ ctx' = [ctx EXCEPT ![r] = [Idle EXCEPT !.verdict = Len(verdicts) + 1]]
  /\ Goto(r, "detection")

\* A window_id of its own: snapshot.window_id, a decoy event's event_id.
FreshWindow == Len(verdicts) + 1

\* ingest_event, the fast lane.  The topic telemetry-events has no consumer
\* group, so the publish leaves nothing behind.
IngestEvent(r, e, v) ==
  /\ "ingest_event" \in env.calls
  /\ At(r, "idle")
  /\ v.label # "decoy_interaction"
  /\ Handle(r, Verdict("handled", "bouncer", v, e, Source[e], {e}))
  /\ UNCHANGED <<env, engineVars, buffer, log, jobVars, drift, faultVars>>

HandleDecoySession(r, ip) ==
  /\ "handle_decoy_session" \in env.calls
  /\ At(r, "idle")
  /\ Handle(r, Verdict("handled", "decoy",
                       [label |-> "decoy_interaction", confidence |-> FullConfidence],
                       FreshWindow, ip, {}))
  /\ UNCHANGED <<env, engineVars, buffer, log, jobVars, drift, faultVars>>

Edges(events) == {<<Source[e], Dest[e]>> : e \in events}

\* evidence.node_ids of an attack: the endpoints of the TopK edges the model
\* attends to most, whichever these are.
Evidence(events) ==
  LET n == Cardinality(Edges(events)) IN
  {UNION {{g[1], g[2]} : g \in S} :
     S \in kSubset(IF n < TopK THEN n ELSE TopK, Edges(events))}

\* The address a detective verdict is held against: node_ids[0], or that of the
\* event at hand when nothing is wrong.
Targets(v, e) ==
  IF v.label = "benign" THEN {Source[e]}
  ELSE {Min(nodes) : nodes \in Evidence(buffer)}

\* The verdict and the event r is at work on.
Mine(r) == verdicts[ctx[r].verdict]

\* Mutant: the fast lane's block spares the deep lane the event.
DeepLaneBuffersUnblocked(r) ==
  /\ At(r, "deep")
  /\ buffer' = IF Mine(r).window \in resolved THEN buffer
               ELSE buffer \cup {Mine(r).window}
  /\ Finish(r)
  /\ UNCHANGED <<env, verdicts, engineVars, log, jobVars, drift, faultVars>>

\* The deep lane, window still open.
DeepLaneBuffers(r) ==
  /\ At(r, "deep")
  /\ buffer' = buffer \cup {Mine(r).window}
  /\ Finish(r)
  /\ UNCHANGED <<env, verdicts, engineVars, log, jobVars, drift, faultVars>>

\* The deep lane, the event closes the window.
DeepLaneCloses(r, v) ==
  LET e == Mine(r).window IN
  /\ At(r, "deep")
  /\ buffer # {}
  /\ v.label # "decoy_interaction"
  /\ \E ip \in Targets(v, e) :
       Handle(r, Verdict("handled", "detective", v, FreshWindow, ip, buffer))
  /\ buffer' = {e}
  /\ UNCHANGED <<env, engineVars, log, jobVars, drift, faultVars>>

\* flush_graph_window: the verdict goes to the caller and nowhere else.
FlushGraphWindow(v) ==
  /\ "flush_graph_window" \in env.calls
  /\ env.interleaved \/ \A q \in Requests : ~Holding(q)
  /\ Room
  /\ buffer # {}
  /\ v.label # "decoy_interaction"
  /\ verdicts' = Append(verdicts, Verdict("flushed", "detective", v, FreshWindow,
                                          NoIP, buffer))
  /\ buffer' = {}
  /\ UNCHANGED <<env, coroutineVars, engineVars, log, jobVars, drift, faultVars>>

-----------------------------------------------------------------------------
(* _handle_verdict *)

\* `about' is the job an explanation was asked for, which the code does not write.
Entry(type, ref) == [type |-> type, ref |-> ref, about |-> 0]

Logged(entry) ==
  /\ Len(log) < env.maxLog
  /\ log' = Append(log, entry)

LogDetection(r) ==
  /\ At(r, "detection")
  /\ Logged(Entry("detection", ctx[r].verdict))
  /\ Goto(r, "decide")
  /\ UNCHANGED <<env, ctx, verdicts, engineVars, buffer, jobVars, drift, faultVars>>

\* Mutant: what was done about the window before is not passed on.
PolicyInputNoPrior(v, listed, tripped) ==
  [tier |-> v.tier, label |-> v.label, confidence |-> v.confidence,
   window_id |-> "w", verdict_id |-> "v",
   on_allowlist |-> listed, breaker_tripped |-> tripped,
   prior_action |-> NoAction]

PolicyInput(v, listed, tripped) ==
  [tier |-> v.tier, label |-> v.label, confidence |-> v.confidence,
   window_id |-> "w", verdict_id |-> "v",
   on_allowlist |-> listed, breaker_tripped |-> tripped,
   prior_action |-> IF v.window \in resolved THEN "acted" ELSE NoAction]

\* Mutant: only a decision that acts becomes the last one of its address.
RememberActing(d, r, id) ==
  last' = IF d.action = "dry_run" THEN last ELSE [last EXCEPT ![Mine(r).ip] = id]

\* The decision_id is kept for the address, whatever the action.
Remember(d, r, id) == last' = [last EXCEPT ![Mine(r).ip] = id]

\* response_engine.decide and what follows up to the next append.
Decide(r) ==
  LET v == Mine(r)
      id == Len(decisions) + 1 IN
  /\ At(r, "decide")
  /\ \E listed, tripped \in BOOLEAN : \E d \in Answers(PolicyInput(v, listed, tripped)) :
       /\ decisions' = Append(decisions, [verdict |-> ctx[r].verdict, ip |-> v.ip,
                                          action |-> d.action])
       /\ resolved' = IF d.action = "dry_run" THEN resolved
                      ELSE resolved \cup {v.window}
       /\ blocks' = IF d.action # "block" THEN blocks
                    ELSE [blocks EXCEPT ![v.ip] = [decision |-> id, reversed |-> FALSE]]
       /\ Remember(d, r, id)
  /\ ctx' = [ctx EXCEPT ![r].decision = id]
  /\ Goto(r, "decision")
  /\ UNCHANGED <<env, verdicts, buffer, log, jobVars, drift, faultVars>>

\* PolicyRejectedError: the rejection is logged instead of a decision.
Reject(r) ==
  /\ env.mayReject
  /\ At(r, "decide")
  /\ Goto(r, "rejection")
  /\ UNCHANGED <<env, ctx, verdicts, engineVars, buffer, log, jobVars, drift, faultVars>>

Acts(d) == d.action \in {"block", "throttled"}

\* Mutant: a throttled decision skips its enforcement entry.
AfterDecisionBlocksOnly(d) == IF d.action = "block" THEN "enforcement" ELSE "enqueue"

AfterDecision(d) == IF Acts(d) THEN "enforcement" ELSE "enqueue"

\* Mutant: the decision goes to the log after its enforcement.
LogDecisionLate(r) ==
  /\ At(r, "decision")
  /\ IF Acts(decisions[ctx[r].decision])
     THEN Goto(r, "enforcement") /\ UNCHANGED log
     ELSE Logged(Entry("decision", ctx[r].decision)) /\ Goto(r, "enqueue")
  /\ UNCHANGED <<env, ctx, verdicts, engineVars, buffer, jobVars, drift, faultVars>>

LogDecision(r) ==
  /\ At(r, "decision")
  /\ Logged(Entry("decision", ctx[r].decision))
  /\ Goto(r, AfterDecision(decisions[ctx[r].decision]))
  /\ UNCHANGED <<env, ctx, verdicts, engineVars, buffer, jobVars, drift, faultVars>>

LogEnforcement(r) ==
  /\ At(r, "enforcement")
  /\ Logged(Entry("enforcement", ctx[r].decision))
  /\ Goto(r, "enqueue")
  /\ UNCHANGED <<env, ctx, verdicts, engineVars, buffer, jobVars, drift, faultVars>>

\* What the caller of _handle_verdict does after it: a bouncer's verdict goes on
\* to the deep lane, a decoy's is counted.
Return(r) ==
  /\ IF Mine(r).tier = "bouncer" THEN Goto(r, "deep") /\ UNCHANGED ctx ELSE Finish(r)
  /\ drift' = IF Mine(r).tier = "decoy" THEN [drift EXCEPT !.sessions = @ + 1] ELSE drift

LogRejection(r) ==
  /\ At(r, "rejection")
  /\ Logged(Entry("rejection", ctx[r].verdict))
  /\ Return(r)
  /\ UNCHANGED <<env, verdicts, engineVars, buffer, jobVars, faultVars>>

Enqueue(r) ==
  /\ At(r, "enqueue")
  /\ queue' = IF Mine(r).label = "benign" THEN queue ELSE Append(queue, ctx[r].verdict)
  /\ Return(r)
  /\ UNCHANGED <<env, verdicts, engineVars, buffer, log, uncommitted, committed, worker,
                 received, faultVars>>

\* The broker has stored the job, and the producer, not knowing, will send it again:
\* Enqueue is still to come, or the publish raises.
LoseAck(r) ==
  /\ env.broker /\ env.mayFail
  /\ At(r, "enqueue")
  /\ Mine(r).label # "benign"
  /\ ctx[r].verdict \notin again
  /\ queue' = Append(queue, ctx[r].verdict)
  /\ again' = again \cup {ctx[r].verdict}
  /\ UNCHANGED <<env, coroutineVars, verdicts, engineVars, buffer, log, uncommitted, committed,
                 worker, received, drift, lost, dropped, born>>

-----------------------------------------------------------------------------
(* record_correction *)

\* Up to the append: reverse_block comes before the check that the address has a
\* decision, without which the call raises.
RecordCorrection(r, ip, falsePositive) ==
  LET lifts == falsePositive /\ blocks[ip] # NoBlock /\ ~blocks[ip].reversed IN
  /\ "record_correction" \in env.calls
  /\ At(r, "idle")
  /\ last[ip] # 0
  /\ blocks' = IF lifts THEN [blocks EXCEPT ![ip].reversed = TRUE] ELSE blocks
  /\ ctx' = [ctx EXCEPT ![r] = [Idle EXCEPT !.decision = last[ip]]]
  /\ Goto(r, "correction")
  /\ UNCHANGED <<env, verdicts, decisions, resolved, last, buffer, log, jobVars,
                 drift, faultVars>>

LogCorrection(r) ==
  /\ At(r, "correction")
  /\ Logged(Entry("correction", ctx[r].decision))
  /\ drift' = [drift EXCEPT !.corrections = @ + 1]
  /\ Finish(r)
  /\ UNCHANGED <<env, verdicts, engineVars, buffer, jobVars, faultVars>>

-----------------------------------------------------------------------------
(* The explanation jobs *)

\* The worker's loop: it takes what is queued in memory without suspending.
JobWorker ==
  /\ worker
  /\ ~env.broker
  /\ queue # <<>>
  /\ env.interleaved \/ \A q \in Requests : ~Holding(q)
  /\ received' = received \o queue
  /\ queue' = <<>>
  /\ UNCHANGED <<env, coroutineVars, verdicts, engineVars, buffer, log, uncommitted, committed,
                 worker, drift, faultVars>>

\* From a broker it gets a job at a time.
JobYielded ==
  /\ worker
  /\ env.broker
  /\ queue # <<>>
  /\ received' = Append(received, Head(queue))
  /\ queue' = Tail(queue)
  /\ uncommitted' = Append(uncommitted, Head(queue))
  /\ UNCHANGED <<env, coroutineVars, verdicts, engineVars, buffer, log, committed, worker,
                 drift, faultVars>>

\* Every few seconds.
AutoCommit ==
  /\ worker
  /\ env.broker
  /\ uncommitted' = <<>>
  /\ committed' = TRUE
  /\ UNCHANGED <<env, coroutineVars, verdicts, engineVars, buffer, log, queue, worker, received,
                 drift, faultVars>>

\* A worker that is given the partition begins with what was not committed, and before
\* the first commit at the end of the topic.
Seek ==
  /\ queue' = IF committed THEN uncommitted \o queue ELSE <<>>
  /\ uncommitted' = <<>>
  /\ again' = IF committed THEN again \cup Range(uncommitted) ELSE again
  /\ dropped' = IF committed THEN dropped ELSE dropped \cup Range(queue)

\* start; with a broker, its consumer is given the partition, for which start does not
\* wait.  What one process is given again is bounded by maxVerdicts.
Start ==
  /\ "start_stop" \in env.calls \/ (env.broker /\ env.started)
  /\ ~worker
  /\ worker' = TRUE
  /\ IF env.broker THEN Seek /\ Len(received) <= env.maxVerdicts
     ELSE UNCHANGED <<queue, uncommitted, again, dropped>>
  /\ UNCHANGED <<env, coroutineVars, verdicts, engineVars, buffer, log, committed, received,
                 drift, lost, born>>

\* A consumer that stops commits, if it can.
Stop ==
  /\ "start_stop" \in env.calls
  /\ worker
  /\ worker' = FALSE
  /\ \/ UNCHANGED <<uncommitted, committed>>
     \/ env.broker /\ uncommitted' = <<>> /\ committed' = TRUE
  /\ UNCHANGED <<env, coroutineVars, verdicts, engineVars, buffer, log, queue,
                 received, drift, faultVars>>

\* drain_explanation_jobs: a live worker has its turn during the sleeps, so it
\* has received what was queued in memory when the drain was called.  For a broker
\* they are too short.
Drain(r) ==
  /\ "drain_explanation_jobs" \in env.calls
  /\ At(r, "idle")
  /\ received' = IF worker /\ ~env.broker THEN received \o queue ELSE received
  /\ queue' = IF worker /\ ~env.broker THEN <<>> ELSE queue
  /\ Goto(r, "read")
  /\ UNCHANGED <<env, ctx, verdicts, engineVars, buffer, log, uncommitted, committed, worker,
                 drift, faultVars>>

\* read_all: the drain goes on with the entries of this instant.
ReadAll(r) ==
  /\ At(r, "read")
  /\ ctx' = [ctx EXCEPT ![r].snapshot = Len(log)]
  /\ Goto(r, "swap")
  /\ UNCHANGED <<env, verdicts, engineVars, buffer, log, jobVars, drift, faultVars>>

\* Mutant: the list is copied and not emptied.
SwapCopies(r) ==
  /\ At(r, "swap")
  /\ IF received = <<>>
     THEN Finish(r)
     ELSE /\ ctx' = [ctx EXCEPT ![r].todo = received]
          /\ Goto(r, "explain")
  /\ UNCHANGED <<env, verdicts, engineVars, buffer, log, jobVars, drift, faultVars>>

Swap(r) ==
  /\ At(r, "swap")
  /\ IF received = <<>>
     THEN Finish(r)
     ELSE /\ ctx' = [ctx EXCEPT ![r].todo = received]
          /\ Goto(r, "explain")
  /\ received' = <<>>
  /\ UNCHANGED <<env, verdicts, engineVars, buffer, log, queue, uncommitted, committed, worker,
                 drift, faultVars>>

NextJob(r) ==
  IF Len(ctx[r].todo) = 1
  THEN Finish(r)
  ELSE ctx' = [ctx EXCEPT ![r].todo = Tail(@)] /\ UNCHANGED pc

\* Is the detection of the job among the entries read.
Found(r) == Entry("detection", Head(ctx[r].todo)) \in
              {log[i] : i \in 1..ctx[r].snapshot}

\* The verdict explained is rebuilt from the entry, so it has an id of its own,
\* and this is what the explanation is logged under; the job_id is in no other
\* entry.
Explain(r) ==
  LET job == Head(ctx[r].todo) IN
  /\ At(r, "explain")
  /\ Found(r)
  /\ verdicts' = Append(verdicts, [verdicts[job] EXCEPT !.role = "rebuilt", !.ip = NoIP])
  /\ Logged([Entry("explanation", Len(verdicts) + 1) EXCEPT !.about = job])
  /\ NextJob(r)
  /\ UNCHANGED <<env, engineVars, buffer, jobVars, drift, faultVars>>

\* A job whose detection is not among them is passed over.
PassOver(r) ==
  /\ At(r, "explain")
  /\ ~Found(r)
  /\ NextJob(r)
  /\ UNCHANGED <<env, verdicts, engineVars, buffer, log, jobVars, drift, faultVars>>

-----------------------------------------------------------------------------
(* Failures *)

\* An append, a publish, a read of the log or opa raises: the exception goes to
\* the caller, and what the coroutine still had to do is not done.  After LoseAck, a
\* publish that raises has stored its job.
Fail(r) ==
  /\ env.mayFail
  /\ Turn(r)
  /\ pc[r] \notin {"idle", "deep", "swap"}
  /\ pc[r] = "enqueue" => Mine(r).label # "benign"
  /\ Finish(r)
  /\ lost' = lost \cup {ctx[r].verdict}
  /\ dropped' = dropped \cup Range(ctx[r].todo)
  /\ UNCHANGED <<env, verdicts, engineVars, buffer, log, jobVars, drift, again, born>>

\* The process dies and is started again: only the audit log was on disk, and a broker
\* still has its topic and the group's offset.
Restart ==
  /\ env.mayCrash
  /\ pc' = [r \in Requests |-> "idle"]
  /\ ctx' = [r \in Requests |-> Idle]
  /\ resolved' = {}
  /\ blocks' = [ip \in IPs |-> NoBlock]
  /\ last' = [ip \in IPs |-> 0]
  /\ buffer' = {}
  /\ queue' = IF env.broker THEN queue ELSE <<>>
  /\ worker' = (env.started /\ ~env.broker)
  /\ received' = <<>>
  /\ drift' = [corrections |-> 0, sessions |-> 0]
  /\ lost' = lost \cup {ctx[r].verdict : r \in Requests}
                  \cup {v \in 1..Len(verdicts) : verdicts[v].window \in buffer}
  /\ dropped' = dropped \cup (IF env.broker THEN {} ELSE Range(queue)) \cup Range(received)
                  \cup UNION {Range(ctx[r].todo) : r \in Requests}
  /\ born' = Len(decisions)
  /\ UNCHANGED <<env, verdicts, decisions, log, uncommitted, committed, again>>

\* start() has returned before anything is handed to the system, which with a broker does
\* not mean that its worker reads; under serve its worker is gone again.
Init ==
  /\ env \in Environments
  /\ pc = [r \in Requests |-> "idle"]
  /\ ctx = [r \in Requests |-> Idle]
  /\ verdicts = <<>>
  /\ decisions = <<>>
  /\ resolved = {}
  /\ blocks = [ip \in IPs |-> NoBlock]
  /\ last = [ip \in IPs |-> 0]
  /\ buffer = {}
  /\ log = <<>>
  /\ queue = <<>>
  /\ uncommitted = <<>>
  /\ committed = FALSE
  /\ worker = (env.started /\ ~env.broker)
  /\ received = <<>>
  /\ drift = [corrections |-> 0, sessions |-> 0]
  /\ lost = {}
  /\ dropped = {}
  /\ again = {}
  /\ born = 0

\* What happens to the jobs outside of the coroutines.
OnTopic ==
  \/ \E r \in Requests : LoseAck(r)
  \/ JobWorker
  \/ JobYielded
  \/ AutoCommit
  \/ Start
  \/ Stop

Next ==
  \/ \E r \in Requests, e \in Events, v \in env.verdicts : IngestEvent(r, e, v)
  \/ \E r \in Requests, ip \in IPs : HandleDecoySession(r, ip)
  \/ \E r \in Requests : DeepLaneBuffers(r)
  \/ \E r \in Requests, v \in env.verdicts : DeepLaneCloses(r, v)
  \/ \E v \in env.verdicts : FlushGraphWindow(v)
  \/ \E r \in Requests : LogDetection(r)
  \/ \E r \in Requests : Decide(r)
  \/ \E r \in Requests : Reject(r)
  \/ \E r \in Requests : LogDecision(r)
  \/ \E r \in Requests : LogEnforcement(r)
  \/ \E r \in Requests : LogRejection(r)
  \/ \E r \in Requests : Enqueue(r)
  \/ \E r \in Requests, ip \in IPs, fp \in BOOLEAN : RecordCorrection(r, ip, fp)
  \/ \E r \in Requests : LogCorrection(r)
  \/ OnTopic
  \/ \E r \in Requests : Drain(r)
  \/ \E r \in Requests : ReadAll(r)
  \/ \E r \in Requests : Swap(r)
  \/ \E r \in Requests : Explain(r)
  \/ \E r \in Requests : PassOver(r)
  \/ \E r \in Requests : Fail(r)
  \/ Restart

Spec == Init /\ [][Next]_vars

-----------------------------------------------------------------------------
(* Properties *)

\* Is a coroutine still at work on verdict v.
InHand(v) == \E r \in Requests : ctx[r].verdict = v

IsLogged(type, ref) ==
  \E i \in 1..Len(log) : log[i].type = type /\ log[i].ref = ref

LoggedBefore(i, type, ref) ==
  \E j \in 1..(i - 1) : log[j].type = type /\ log[j].ref = ref

\* The audit trail reads forwards, whatever coroutines overlap, fail or die: a
\* decision or a rejection follows the detection it is about, an enforcement the
\* decision that ordered it, an explanation its detection; none is there twice
\* (kronus_system.py:168-206, 235-269).
AuditOrder ==
  \A i \in 1..Len(log) : LET e == log[i] IN
    /\ e.type = "decision" => LoggedBefore(i, "detection", decisions[e.ref].verdict)
    /\ e.type = "rejection" => LoggedBefore(i, "detection", e.ref)
    /\ e.type = "enforcement" =>
         LoggedBefore(i, "decision", e.ref) /\ Acts(decisions[e.ref])
    /\ e.type = "explanation" => LoggedBefore(i, "detection", e.about)
    /\ e.type # "correction" => ~LoggedBefore(i, e.type, e.ref)

\* Nothing the system did is missing from the audit trail (NFR-13): a verdict no
\* longer in hand has its detection and its decision or rejection, a decision
\* that acted its enforcement.  An exception or a crash costs entries of the
\* verdicts it hits and of no others.
AuditComplete ==
  /\ \A v \in (1..Len(verdicts)) \ lost : verdicts[v].role = "handled" /\ ~InHand(v) =>
       /\ IsLogged("detection", v)
       /\ IsLogged("rejection", v) \/
            \E d \in 1..Len(decisions) : decisions[d].verdict = v /\ IsLogged("decision", d)
  /\ \A d \in 1..Len(decisions) :
       /\ Acts(decisions[d])
       /\ ~InHand(decisions[d].verdict) /\ decisions[d].verdict \notin lost
       => IsLogged("enforcement", d)

\* One process enforces on a window at most once, though a client may send an
\* event again, also while the first is being handled (correlator.py:16-28).
EnforcedOnce ==
  \A i, j \in 1..Len(log) :
    /\ log[i].type = "enforcement" /\ log[i].ref > born
    /\ log[j].type = "enforcement" /\ log[j].ref > born
    /\ verdicts[decisions[log[i].ref].verdict].window
         = verdicts[decisions[log[j].ref].verdict].window
    => i = j

\* Where the explanation of verdict v is: queued, received, about to be written
\* by a drain, or written.
JobPlaces(v) ==
  {<<"queue", i>> : i \in {k \in 1..Len(queue) : queue[k] = v}}
  \cup {<<"received", i>> : i \in {k \in 1..Len(received) : received[k] = v}}
  \cup {<<"log", i>> : i \in {k \in 1..Len(log) :
                                log[k].type = "explanation" /\ log[k].about = v}}
  \cup UNION {{<<r, i>> : i \in {k \in 1..Len(ctx[r].todo) : ctx[r].todo[k] = v}} :
                r \in Requests}

\* These verdicts are explained once at most.
ExplainedOnce(vs) == \A v \in vs : Cardinality(JobPlaces(v)) <= 1

\* drain_explanation_jobs "processes every job the background worker task ... has
\* collected so far" (kronus_system.py:236): a verdict other than benign is
\* explained, or its job is on the way, unless an exception hit the verdict or
\* dropped the job.
JobsConserved ==
  \A v \in (1..Len(verdicts)) \ (lost \cup dropped) :
    /\ verdicts[v].role = "handled" /\ verdicts[v].label # "benign"
    /\ ~InHand(v) /\ ~IsLogged("rejection", v)
    => Cardinality(JobPlaces(v)) = 1

\* On the in-memory bus no verdict is explained twice, however often drains overlap
\* with the worker and with each other, raise, or die with the process; with Redpanda
\* one is only if its job came again, since the drain does not look whether it has been
\* explained (kronus_system.py:255-269).  On the local back ends every job is also kept,
\* while workers come and go, and under serve, where the jobs stay in the queue.
JobsAccounted ==
  /\ ExplainedOnce((1..Len(verdicts)) \ (IF env.broker THEN again ELSE {}))
  /\ ~env.interleaved => JobsConserved

DecisionsOn(ip, i) ==
  {j \in 1..i : log[j].type = "decision" /\ decisions[log[j].ref].ip = ip}

\* A correction names the decision on its address that an operator reading the
\* audit trail sees as the last one (kronus_system.py:216-226), or one that is not in
\* the trail because an exception hit it; on the networked back ends it may not be there yet.
CorrectionNamesLatest ==
  ~env.interleaved => \A i \in 1..Len(log) : log[i].type = "correction" =>
      LET own == DecisionsOn(decisions[log[i].ref].ip, i - 1) IN
      \/ own # {} /\ log[Max(own)].ref = log[i].ref
      \/ decisions[log[i].ref].verdict \in lost

\* "features.txt edges 6+7 ...: one event feeds both lanes independently"
\* (kronus_system.py:107): the graph of an open or closed window has every event
\* that the fast lane has seen, but for those a failure hit.
BothLanesFed ==
  \A v \in (1..Len(verdicts)) \ lost :
    verdicts[v].tier = "bouncer" /\ verdicts[v].role = "handled" =>
    \/ InHand(v)
    \/ verdicts[v].window \in buffer
    \/ \E u \in (v + 1)..Len(verdicts) :
         verdicts[u].tier = "detective" /\ verdicts[v].window \in verdicts[u].covers

=============================================================================
