---------------------------- MODULE ReplicaProofs ----------------------------
(***************************************************************************)
(* What TLAPS proves of the two structures a replica keeps in memory: the  *)
(* latch board (Await), for any number of callers, and the supply of due   *)
(* steps (Supply), for every set of shards, every backlog and every order  *)
(* of the two loops' steps.                                                *)
(***************************************************************************)
EXTENDS Await, Supply, TLAPS

-----------------------------------------------------------------------------
(* The latch board: what a close and a release promise. *)

\* A parked caller's channel is on the board.
ParkedOnBoard == \A c \in Callers : pc[c] = "parked" => c \in waiters

\* As long as the flow has never stopped, nothing anywhere says that it has:
\* no signal, no report of the sweep, no send under way, no wake received.
NothingAnnounced ==
    resumes = 0 /\ flow = "running" =>
        /\ signals = 0
        /\ sweep \in {"idle", "asking"}
        /\ \A by \in Senders : sending[by] = {}
        /\ \A c \in Callers : slot[c] # "status" /\ outcome[c] # "released" /\ pc[c] # "woken"

IInv == TypeOK /\ ParkedOnBoard /\ CloseReachesEveryWaiter /\ NothingAnnounced

\* A call that has not parked, or no longer is.
LEMMA StepCall ==
    ASSUME IInv, NEW c \in Callers,
           \/ FirstRead(c) \/ FirstReadError(c) \/ Latch(c) \/ SecondRead(c) \/ SecondReadError(c)
    PROVE  IInv'
<1>1. TypeOK'
  BY DEF IInv, TypeOK, FirstRead, FirstReadError, Latch, Park, SecondRead, SecondReadError, Answer,
         OutcomeOf, IsStoppedStatus, flowVars, boardVars, sweepVars
<1>2. ParkedOnBoard'
  BY DEF IInv, TypeOK, ParkedOnBoard, FirstRead, FirstReadError, Latch, Park, SecondRead,
         SecondReadError, Answer, flowVars, boardVars, sweepVars
<1>3. CloseReachesEveryWaiter'
  BY DEF IInv, TypeOK, CloseReachesEveryWaiter, FirstRead, FirstReadError, Latch, Park, SecondRead,
         SecondReadError, Answer, flowVars, boardVars, sweepVars
<1>4. NothingAnnounced'
  BY DEF IInv, TypeOK, NothingAnnounced, FirstRead, FirstReadError, Latch, Park, SecondRead,
         SecondReadError, Answer, OutcomeOf, IsStoppedStatus, flowVars, boardVars, sweepVars
<1> QED
  BY <1>1, <1>2, <1>3, <1>4 DEF IInv

\* A parked call wakes, runs out of time, or comes off the board.
LEMMA StepParked ==
    ASSUME IInv, NEW c \in Callers, Wake(c) \/ Expire(c) \/ Unlatch(c)
    PROVE  IInv'
<1>1. TypeOK'
  BY DEF IInv, TypeOK, Wake, Expire, Unlatch, Received, flowVars, boardVars, sweepVars
<1>2. ParkedOnBoard' /\ CloseReachesEveryWaiter'
  BY DEF IInv, TypeOK, ParkedOnBoard, CloseReachesEveryWaiter, Wake, Expire, Unlatch,
         flowVars, boardVars, sweepVars
<1>3. NothingAnnounced'
  <2>1. CASE Wake(c)
    <3>1. slot[c] # "empty" /\ slot[c] # "status" => Received(slot[c]) = "shutdown"
      BY DEF IInv, TypeOK, Received
    <3> QED
      BY <2>1, <3>1 DEF IInv, TypeOK, NothingAnnounced, Wake, flowVars, sweepVars
  <2>2. CASE Expire(c)
    BY <2>2 DEF IInv, TypeOK, NothingAnnounced, Expire, flowVars, boardVars, sweepVars
  <2>3. CASE Unlatch(c)
    BY <2>3 DEF IInv, TypeOK, NothingAnnounced, Unlatch, flowVars, sweepVars
  <2> QED
    BY <2>1, <2>2, <2>3
<1> QED
  BY <1>1, <1>2, <1>3 DEF IInv

\* A send reaches its channel.
LEMMA StepDeliver ==
    ASSUME IInv, NEW c \in Callers, NEW by \in Senders, Deliver(by, c)
    PROVE  IInv'
<1>1. TypeOK'
  BY DEF IInv, TypeOK, Deliver, Offer, flowVars, sweepVars, callVars
<1>2. ParkedOnBoard' /\ CloseReachesEveryWaiter'
  BY DEF IInv, TypeOK, ParkedOnBoard, CloseReachesEveryWaiter, Deliver, Offer,
         flowVars, sweepVars, callVars
<1>3. ~(resumes = 0 /\ flow = "running")
  BY DEF IInv, NothingAnnounced, Deliver
<1>4. NothingAnnounced'
  BY <1>3 DEF NothingAnnounced, Deliver, flowVars
<1> QED
  BY <1>1, <1>2, <1>4 DEF IInv

\* The flow stops, resumes or is deleted.
LEMMA StepFlow ==
    ASSUME IInv, HandleInterrupt \/ Finish \/ Resume \/ Reap
    PROVE  IInv'
<1>1. TypeOK'
  BY DEF IInv, TypeOK, HandleInterrupt, Finish, Resume, Reap, Stop, boardVars, sweepVars, callVars
<1>2. ParkedOnBoard' /\ CloseReachesEveryWaiter'
  BY DEF IInv, ParkedOnBoard, CloseReachesEveryWaiter, HandleInterrupt, Finish, Resume, Reap, Stop,
         boardVars, sweepVars, callVars
<1>3. NothingAnnounced'
  <2>1. CASE HandleInterrupt \/ Finish \/ Reap
    BY <2>1 DEF NothingAnnounced, HandleInterrupt, Finish, Reap, Stop
  <2>2. CASE Resume
    BY <2>2 DEF IInv, TypeOK, NothingAnnounced, Resume
  <2> QED
    BY <2>1, <2>2
<1> QED
  BY <1>1, <1>2, <1>3 DEF IInv

\* The board's owner: a signal, a pass of the detector, the shutdown.
LEMMA StepBoard ==
    ASSUME IInv, SweepStep \/ ResolveError \/ SignalStop \/ StopSweeping \/ Close
    PROVE  IInv'
<1>1. CASE SignalStop \/ SweepRelease
  <2>1. TypeOK'
    BY <1>1 DEF IInv, TypeOK, Senders, SignalStop, SweepRelease, Release, flowVars, sweepVars, callVars
  <2>2. ParkedOnBoard' /\ CloseReachesEveryWaiter'
    BY <1>1 DEF IInv, ParkedOnBoard, CloseReachesEveryWaiter, SignalStop, SweepRelease, Release, callVars
  <2>3. ~(resumes = 0 /\ flow = "running")
    BY <1>1 DEF IInv, NothingAnnounced, SignalStop, SweepRelease
  <2>4. NothingAnnounced'
    BY <1>1, <2>3 DEF NothingAnnounced, SignalStop, SweepRelease, flowVars
  <2> QED
    BY <2>1, <2>2, <2>4 DEF IInv
<1>2. CASE SweepKeys \/ ResolveStoppedFlows \/ ResolveError \/ SweepEnd \/ StopSweeping
  <2>1. TypeOK'
    <3>1. CASE SweepKeys \/ ResolveStoppedFlows \/ SweepEnd
      BY <3>1 DEF IInv, TypeOK, SweepKeys, ResolveStoppedFlows, SweepEnd, flowVars, boardVars, callVars
    <3>2. CASE ResolveError
      BY <3>2 DEF IInv, TypeOK, ResolveError, flowVars, boardVars, callVars
    <3>3. CASE StopSweeping
      BY <3>3 DEF IInv, TypeOK, StopSweeping, flowVars, boardVars, callVars
    <3> QED
      BY <1>2, <3>1, <3>2, <3>3
  <2>2. ParkedOnBoard' /\ CloseReachesEveryWaiter'
    BY <1>2 DEF IInv, ParkedOnBoard, CloseReachesEveryWaiter, SweepKeys, ResolveStoppedFlows,
                ResolveError, SweepEnd, StopSweeping, boardVars, callVars
  <2>3. NothingAnnounced'
    BY <1>2 DEF IInv, NothingAnnounced, SweepKeys, ResolveStoppedFlows, Reported, IsStoppedStatus,
                ResolveError, SweepEnd, StopSweeping, flowVars, boardVars, callVars
  <2> QED
    BY <2>1, <2>2, <2>3 DEF IInv
<1>3. CASE Close
  <2>1. TypeOK'
    BY <1>3 DEF IInv, TypeOK, Close, Offer, flowVars, sweepVars, callVars
  <2>2. ParkedOnBoard' /\ CloseReachesEveryWaiter'
    BY <1>3 DEF IInv, TypeOK, ParkedOnBoard, CloseReachesEveryWaiter, Close, Offer, callVars
  <2>3. NothingAnnounced'
    BY <1>3 DEF IInv, TypeOK, NothingAnnounced, Close, Offer, flowVars, sweepVars, callVars
  <2> QED
    BY <2>1, <2>2, <2>3 DEF IInv
<1> QED
  BY <1>1, <1>2, <1>3 DEF SweepStep

\* The invariant holds throughout.
THEOREM Invariant == Spec => []IInv
<1>1. Init => IInv
  <2> SUFFICES ASSUME Init PROVE IInv
    OBVIOUS
  <2>1. TypeOK
    BY DEF Init, TypeOK
  <2>2. ParkedOnBoard /\ CloseReachesEveryWaiter /\ NothingAnnounced
    BY DEF Init, ParkedOnBoard, CloseReachesEveryWaiter, NothingAnnounced
  <2> QED
    BY <2>1, <2>2 DEF IInv
<1>2. IInv /\ [Next]_vars => IInv'
  <2> SUFFICES ASSUME IInv, [Next]_vars PROVE IInv'
    OBVIOUS
  <2>1. CASE UNCHANGED vars
    BY <2>1 DEF IInv, TypeOK, ParkedOnBoard, CloseReachesEveryWaiter, NothingAnnounced, vars
  <2>2. ASSUME NEW c \in Callers, CallStep(c) PROVE IInv'
    BY <2>2, StepCall, StepParked, StepDeliver DEF CallStep
  <2> QED
    BY <2>1, <2>2, StepFlow, StepBoard DEF Next
<1> QED
  BY <1>1, <1>2, PTL DEF Spec

\* Behind a closed board every parked caller, however many there are, has a
\* wake in its channel.
THEOREM CloseIsComplete == Spec => []CloseReachesEveryWaiter
<1>1. IInv => CloseReachesEveryWaiter
  BY DEF IInv
<1> QED
  BY <1>1, Invariant, PTL

\* Nobody is released for a flow that never stopped.
THEOREM ReleaseMeansStop == Spec => []ReleasedFindsStop
<1>1. IInv => ReleasedFindsStop
  BY DEF IInv, NothingAnnounced, ReleasedFindsStop
<1> QED
  BY <1>1, Invariant, PTL

\* A delivered answer is never replaced by a shutdown.
THEOREM AnswersAreKept == Spec => AnswerSurvivesClose
<1>1. ASSUME IInv, [Next]_vars, NEW c \in Callers, slot[c] = "status"
      PROVE  slot'[c] # "closed"
  <2>1. CASE slot' = slot
    BY <1>1, <2>1
  <2>2. ASSUME NEW d \in Callers, Wake(d) PROVE slot'[c] # "closed"
    BY <1>1, <2>2 DEF IInv, TypeOK, Wake
  <2>3. ASSUME NEW d \in Callers, NEW by \in Senders, Deliver(by, d) PROVE slot'[c] # "closed"
    BY <1>1, <2>3 DEF IInv, TypeOK, Deliver, Offer
  <2>4. CASE Close
    BY <1>1, <2>4 DEF IInv, TypeOK, Close, Offer
  <2> QED
    BY <1>1, <2>1, <2>2, <2>3, <2>4
       DEF Next, vars, CallStep, FirstRead, FirstReadError, Latch, Expire, Unlatch, SecondRead,
           SecondReadError, SweepStep, SweepKeys, ResolveStoppedFlows, SweepRelease, SweepEnd,
           ResolveError, HandleInterrupt, Finish, Stop, Resume, Reap, SignalStop, Release,
           StopSweeping, boardVars
<1>2. ASSUME IInv, [Next]_vars
      PROVE  [\A c \in Callers : slot[c] = "status" => slot'[c] # "closed"]_vars
  BY <1>1, <1>2
<1> QED
  BY <1>2, Invariant, PTL DEF Spec, AnswerSurvivesClose

-----------------------------------------------------------------------------
(* The supply: a piston that idles comes to rest holding nothing.            *)
(*                                                                         *)
(* IdleHoldsNothing is not inductive alone.  A loop in mid-cycle must not  *)
(* look like one at rest, and a cycle that ends must not count as having   *)
(* withdrawn: LoopShape says which records a loop at rest can leave.       *)

\* The two loops of every piston: a loop in mid-cycle has not withdrawn, and one
\* at rest says whether it has.
LoopShape ==
    /\ idle \subseteq Shards
    /\ tally = [s \in Shards |-> tally[s]] /\ supply = [s \in Shards |-> supply[s]]
    /\ items = [s \in Shards |-> items[s]]
    /\ \A s \in Shards :
          /\ tally[s].at = "rest" => tally[s] \in [at : {"rest"}, withdrawn : BOOLEAN]
          /\ supply[s].at = "rest" => supply[s] \in [at : {"rest"}, withdrawn : BOOLEAN]

PistonInv == LoopShape /\ IdleHoldsNothing

\* A report of one shard touches the entry of no other.
LEMMA ReportTouchesOwn ==
    ASSUME NEW s, NEW found, NEW t, t # s, t \in DOMAIN Told(s, found)
    PROVE  t \in DOMAIN reports
  BY DEF Told

\* A withdrawal takes one shard's entry out and touches no other.
LEMMA ClearTakesOwn ==
    ASSUME NEW s, NEW t, t \in DOMAIN Cleared(s)
    PROVE  t \in DOMAIN reports /\ t # s
  BY DEF Cleared

\* What the loop's step leaves behind does not look like a withdrawn loop.
LEMMA MidCycleNotAtRest ==
    /\ \A r : r.at # "rest" => r # AtRest
    /\ \A r : r.withdrawn = FALSE => r # AtRest
  BY DEF AtRest

-----------------------------------------------------------------------------
LEMMA SupplyInitEstablishes == SupplyInit => PistonInv
  BY DEF SupplyInit, PistonInv, LoopShape, IdleHoldsNothing, AtRest

\* The tally loop, of which only its own shard's report and state change.
LEMMA TallyPreserves ==
    ASSUME PistonInv, NEW s \in Shards, TallyLoop(s)
    PROVE  PistonInv'
  <1> USE DEF PistonInv
  <1>1. CASE Scan(s)
    <2>1. PICK r : tally' = [tally EXCEPT ![s] = [at |-> "scanned", withdrawn |-> FALSE, found |-> r]]
      BY <1>1 DEF Scan
    <2>2. QED
      BY <1>1, <2>1, MidCycleNotAtRest DEF Scan, LoopShape, IdleHoldsNothing
  <1>2. CASE Report(s)
    <2>1. LoopShape'
      BY <1>2 DEF Report, LoopShape
    <2>2. tally'[s] # AtRest /\ \A t \in Shards \ {s} : tally'[t] = tally[t]
      BY <1>2, MidCycleNotAtRest DEF Report, LoopShape
    <2>3. \A t \in Shards \ {s} : t \in DOMAIN reports' => t \in DOMAIN reports
      BY <1>2, ReportTouchesOwn DEF Report
    <2>4. QED
      BY <1>2, <2>1, <2>2, <2>3 DEF Report, LoopShape, IdleHoldsNothing
  <1>3. CASE ScanFails(s) \/ TallyIdles(s)
    <2>1. /\ reports' = Cleared(s)
          /\ \E b \in BOOLEAN : tally' = [tally EXCEPT ![s].withdrawn = b]
          /\ tally[s].at = "rest"
          /\ UNCHANGED <<idle, supply, items>>
      BY <1>3 DEF ScanFails, TallyIdles
    <2>2. LoopShape'
      BY <2>1 DEF LoopShape
    <2>3. \A t \in DOMAIN reports' : t \in DOMAIN reports /\ t # s
      BY <2>1, ClearTakesOwn
    <2>4. \A t \in Shards \ {s} : tally'[t] = tally[t]
      BY <2>1 DEF LoopShape
    <2>5. QED
      BY <2>1, <2>2, <2>3, <2>4 DEF LoopShape, IdleHoldsNothing
  <1>4. QED
    BY <1>1, <1>2, <1>3 DEF TallyLoop

\* The supply loop, of which only its own shard's partition and state change.
LEMMA SupplyPreserves ==
    ASSUME PistonInv, NEW s \in Shards, SupplyLoop(s)
    PROVE  PistonInv'
  <1> USE DEF PistonInv
  <1>1. CASE Plan(s)
    <2>1. PICK p \in Plans(reports, s, Capacity) :
             IF p.tallied /\ p.slots # <<>>
             THEN /\ supply' = [supply EXCEPT ![s] = [at |-> "planned", withdrawn |-> FALSE,
                                                      band |-> p.band, slots |-> p.slots]]
                  /\ UNCHANGED items
             ELSE /\ supply' = [supply EXCEPT ![s].withdrawn = FALSE]
                  /\ items' = IF p.tallied THEN [items EXCEPT ![s] = <<>>] ELSE items
      BY <1>1 DEF Plan
    <2>2. LoopShape' /\ supply'[s] # AtRest
      <3>1. CASE p.tallied /\ p.slots # <<>>
        BY <1>1, <2>1, <3>1, MidCycleNotAtRest DEF Plan, LoopShape
      <3>2. CASE ~(p.tallied /\ p.slots # <<>>)
        <4>1. /\ supply' = [supply EXCEPT ![s].withdrawn = FALSE]
              /\ items' = items \/ items' = [items EXCEPT ![s] = <<>>]
              /\ supply[s].at = "rest" /\ UNCHANGED <<idle, tally>>
          BY <1>1, <2>1, <3>2 DEF Plan
        <4>2. supply'[s] = [at |-> "rest", withdrawn |-> FALSE]
          BY <4>1 DEF LoopShape
        <4>3. QED
          BY <4>1, <4>2 DEF LoopShape, AtRest
      <3>3. QED
        BY <3>1, <3>2
    <2>3. \A t \in Shards \ {s} : supply'[t] = supply[t] /\ items'[t] = items[t]
      BY <2>1 DEF LoopShape
    <2>4. QED
      BY <1>1, <2>2, <2>3 DEF Plan, LoopShape, IdleHoldsNothing
  <1>2. CASE Fetch(s)
    <2>1. PICK b : supply' = [supply EXCEPT ![s] = [at |-> "fetched", withdrawn |-> FALSE, batch |-> b]]
      BY <1>2 DEF Fetch
    <2>2. QED
      BY <1>2, <2>1, MidCycleNotAtRest DEF Fetch, LoopShape, IdleHoldsNothing
  <1>3. CASE FetchFails(s)
    BY <1>3, MidCycleNotAtRest DEF FetchFails, LoopShape, IdleHoldsNothing
  <1>4. CASE Push(s)
    BY <1>4, MidCycleNotAtRest DEF Push, LoopShape, IdleHoldsNothing
  <1>5. CASE SupplyIdles(s)
    BY <1>5 DEF SupplyIdles, LoopShape, IdleHoldsNothing
  <1>6. QED
    BY <1>1, <1>2, <1>3, <1>4, <1>5 DEF SupplyLoop

\* The pool policy, the crew, the peers and the database.
LEMMA ReplicaPreserves ==
    ASSUME PistonInv,
           \/ \E s \in Shards : SetIdle(s) \/ SetBusy(s) \/ Take(s) \/ GoesDown(s) \/ ComesBack(s)
           \/ \E st \in Steps : PeerTakes(st) \/ FallsDue(st) \/ Rings(st) \/ AgesOut(st)
    PROVE  PistonInv'
  <1> USE DEF PistonInv
  <1>1. ASSUME NEW s \in Shards, SetIdle(s) PROVE PistonInv'
    <2>1. \A t \in DOMAIN reports' : t \in DOMAIN reports /\ t # s
      BY <1>1, ClearTakesOwn DEF SetIdle
    <2>2. QED
      BY <1>1, <2>1 DEF SetIdle, LoopShape, IdleHoldsNothing
  <1>2. ASSUME NEW s \in Shards, SetBusy(s) PROVE PistonInv'
    BY <1>2 DEF SetBusy, LoopShape, IdleHoldsNothing
  <1>3. ASSUME NEW s \in Shards, Take(s) PROVE PistonInv'
    BY <1>3 DEF Take, LoopShape, IdleHoldsNothing
  <1>4. ASSUME NEW st \in Steps, Rings(st) PROVE PistonInv'
    BY <1>4, SupplyAssumption DEF Rings, LoopShape, IdleHoldsNothing
  <1>5. ASSUME NEW s \in Shards, GoesDown(s) \/ ComesBack(s) PROVE PistonInv'
    BY <1>5 DEF GoesDown, ComesBack, LoopShape, IdleHoldsNothing
  <1>6. ASSUME NEW st \in Steps, PeerTakes(st) \/ FallsDue(st) \/ AgesOut(st) PROVE PistonInv'
    BY <1>6 DEF PeerTakes, FallsDue, AgesOut, LoopShape, IdleHoldsNothing
  <1>7. QED
    BY <1>1, <1>2, <1>3, <1>4, <1>5, <1>6

-----------------------------------------------------------------------------
\* An idle piston comes to rest outside the plan and with an empty partition
\* (SetIdle, runTallier, runSupplier), for every set of shards and steps, every
\* planner outcome and every residue class the replica is told to own.
THEOREM IdlePistonsHoldNothing == SupplySpec => []IdleHoldsNothing
  <1>1. ASSUME PistonInv, [SupplyNext]_supplyVars PROVE PistonInv'
    <2>1. CASE \E s \in Shards : TallyLoop(s) \/ SupplyLoop(s)
      BY <1>1, <2>1, TallyPreserves, SupplyPreserves
    <2>2. CASE \E s \in Shards : SetIdle(s) \/ SetBusy(s) \/ Take(s) \/ GoesDown(s) \/ ComesBack(s)
      BY <1>1, <2>2, ReplicaPreserves
    <2>3. CASE \E st \in Steps : PeerTakes(st) \/ FallsDue(st) \/ Rings(st) \/ AgesOut(st)
      BY <1>1, <2>3, ReplicaPreserves
    <2>4. CASE Grace \/ UNCHANGED supplyVars
      BY <1>1, <2>4 DEF Grace, supplyVars, PistonInv, LoopShape, IdleHoldsNothing
    <2>5. QED
      BY <1>1, <2>1, <2>2, <2>3, <2>4 DEF SupplyNext
  <1>2. PistonInv => IdleHoldsNothing
    BY DEF PistonInv
  <1>3. QED
    BY SupplyInitEstablishes, <1>1, <1>2, PTL DEF SupplySpec
=============================================================================
