--------------------------- MODULE FlowExtraction ---------------------------
(***************************************************************************)
(* twin/ciciot2023.py: extract_flows reads a capture packet by packet and  *)
(* assembles flows.  A conversation between two endpoints has one flow     *)
(* open; a packet after a pause, or long after the first, opens the next.  *)
(*                                                                         *)
(* A frame is a packet between two endpoints (address and port), one that  *)
(* is of no use (not IPv4, a fragment, malformed), or one that the file    *)
(* breaks off in.  Captures are not sorted: a packet may be up to MaxLate  *)
(* older than an earlier one.  Bytes are added up as packets are, and left *)
(* out; all conversations are of one protocol.                             *)
(***************************************************************************)
EXTENDS EventTime, Sequences, FiniteSets, SequencesExt

CONSTANTS
  Packets,   \* [src, dst], the endpoints of the packets there may be
  Idle,      \* FLOW_IDLE_TIMEOUT_S
  Active,    \* FLOW_ACTIVE_TIMEOUT_S
  MaxFlows,  \* max_flows
  MaxFrames  \* bound on the frames of a capture, for TLC

ASSUME ExtractionAssumption ==
  /\ Idle \in Nat /\ Active \in Nat /\ Idle <= Active
  /\ MaxFlows \in Nat /\ MaxFrames \in Nat

VARIABLES
  extraction,  \* "reading", "extracted" or "raised"
  openFlows,   \* open_flows, in the order of its keys
  finished,    \* finished; when extracted, the rows
  parsed,      \* packets
  dropped,     \* drops
  clock        \* history: the greatest timestamp read

extractionVars == <<extraction, openFlows, finished, parsed, dropped, clock>>

\* _flow_key: both directions of a conversation have the same.
FlowKey(p) == {p.src, p.dst}

\* A flow of a first packet, with `members' to remember its packets by.
NewFlow(p, ts) ==
  [src |-> p.src, dst |-> p.dst, first |-> ts, last |-> ts, fwd |-> 0, bwd |-> 0, members |-> <<>>]

\* _FlowState.add: forward is what comes from where the first packet came from.
Add(flow, p, ts) ==
  [flow EXCEPT !.fwd = IF p.src = flow.src THEN @ + 1 ELSE @,
               !.bwd = IF p.src = flow.src THEN @ ELSE @ + 1,
               !.last = ts,
               !.members = Append(@, [id |-> parsed + 1, packet |-> p, ts |-> ts])]

\* duration_ms
Duration(flow) == IF flow.last < flow.first THEN 0 ELSE flow.last - flow.first

\* Mutant: a pause is measured up to the newest packet of any conversation.
TimedOutByClock(flow, ts) ==
  clock - flow.last > Idle \/ ts - flow.last > Idle \/ ts - flow.first > Active

\* Is an open flow over when a packet of its conversation comes at ts?
TimedOut(flow, ts) == ts - flow.last > Idle \/ ts - flow.first > Active

ReadPacket(p, ts) ==
  LET same == {i \in DOMAIN openFlows : FlowKey(openFlows[i]) = FlowKey(p)}
      live == {i \in same : ~TimedOut(openFlows[i], ts)}
  IN /\ extraction = "reading"
     /\ parsed + dropped < MaxFrames
     /\ ts >= clock - MaxLate
     /\ parsed' = parsed + 1
     /\ clock' = IF ts > clock THEN ts ELSE clock
     /\ finished' = finished \o SetToSeq({openFlows[i] : i \in same \ live})
     /\ IF live = {} /\ Len(openFlows) >= MaxFlows
        THEN extraction' = "raised" /\ UNCHANGED openFlows
        ELSE /\ openFlows' =
                  IF live # {} THEN [i \in DOMAIN openFlows |->
                                       IF i \in live THEN Add(openFlows[i], p, ts) ELSE openFlows[i]]
                  ELSE IF same # {} THEN [i \in DOMAIN openFlows |->
                                            IF i \in same THEN Add(NewFlow(p, ts), p, ts) ELSE openFlows[i]]
                  ELSE Append(openFlows, Add(NewFlow(p, ts), p, ts))
             /\ UNCHANGED extraction
     /\ UNCHANGED dropped

\* A frame that is counted and left out.
DropFrame ==
  /\ extraction = "reading"
  /\ parsed + dropped < MaxFrames
  /\ dropped' = dropped + 1
  /\ UNCHANGED <<extraction, openFlows, finished, parsed, clock>>

\* finished.sort(key=first_ts) is stable: i goes before j, or is j.
Before(flows, i, j) ==
  flows[i].first < flows[j].first \/ (flows[i].first = flows[j].first /\ i <= j)

\* The place of the j-th flow: how many go before it, itself included.
Place(flows, j) == Cardinality({i \in DOMAIN flows : Before(flows, i, j)})

InOrder(flows) ==
  [k \in DOMAIN flows |-> flows[CHOOSE j \in DOMAIN flows : Place(flows, j) = k]]

\* The file ends, perhaps in the middle of a frame.
EndOfCapture ==
  /\ extraction = "reading"
  /\ \/ UNCHANGED dropped
     \/ dropped' = dropped + 1
  /\ extraction' = "extracted"
  /\ finished' = InOrder(finished \o openFlows)
  /\ openFlows' = <<>>
  /\ UNCHANGED <<parsed, clock>>

ExtractionInit ==
  /\ extraction = "reading"
  /\ openFlows = <<>>
  /\ finished = <<>>
  /\ parsed = 0
  /\ dropped = 0
  /\ clock = 0

-----------------------------------------------------------------------------
(* Properties *)

\* Where packet n is: in which flow, and at which place in it.
Holding(n) ==
  {x \in (DOMAIN finished) \X (1..parsed) :
     x[2] \in DOMAIN finished[x[1]].members /\ finished[x[1]].members[x[2]].id = n}

Gap(flow, i) == flow.members[i + 1].ts - flow.members[i].ts

FirstPacket(flow) == flow.members[1].id
LastPacket(flow) == flow.members[Len(flow.members)].id

\* Among the flows s, g goes on with the conversation where f ends: of the packets of
\* that conversation its first is the next, whatever packets of others lie between.
Continues(s, f, g) ==
  /\ FlowKey(f) = FlowKey(g)
  /\ LastPacket(f) < FirstPacket(g)
  /\ \A h \in DOMAIN s :
       FlowKey(s[h]) = FlowKey(f) => ~(LastPacket(f) < FirstPacket(s[h]) /\ FirstPacket(s[h]) < FirstPacket(g))

\* Every packet that could be read is in exactly one flow, and only with packets of
\* its conversation; "no flow outlives either bound" (ciciot2023.py:433-434), and no
\* conversation is cut without need: of two flows of a conversation one is over before
\* the other begins, and where one goes on after another, a bound had passed.  When
\* there are too many flows nothing is returned (ciciot2023.py:332-334).
FlowsCut ==
  extraction = "extracted" =>
    /\ \A n \in 1..parsed : Cardinality(Holding(n)) = 1
    /\ \A i \in DOMAIN finished : LET f == finished[i] IN
         /\ f.fwd + f.bwd = Len(f.members) /\ f.fwd > 0
         /\ \A j \in DOMAIN f.members :
              /\ FlowKey(f.members[j].packet) = FlowKey(f)
              /\ f.first - MaxLate <= f.members[j].ts /\ f.members[j].ts <= f.first + Active
              /\ j < Len(f.members) => Gap(f, j) <= Idle
         /\ Duration(f) <= Active
    /\ \A i, k \in DOMAIN finished : LET f == finished[i]  g == finished[k] IN
         i # k /\ FlowKey(f) = FlowKey(g) =>
           /\ LastPacket(f) < FirstPacket(g) \/ LastPacket(g) < FirstPacket(f)
           /\ Continues(finished, f, g) =>
                g.first - f.members[Len(f.members)].ts > Idle \/ g.first - f.first > Active

=============================================================================
