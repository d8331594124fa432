------------------------------- MODULE Await -------------------------------
(***************************************************************************)
(* Waiting for one flow to stop: Await and Poll, the latch board they park *)
(* on, the stop signals of this replica, the sweep that finds the stops of *)
(* the others, and the shutdown that turns everybody away. Calls on other  *)
(* flows use other keys of the board and do not meet these.                *)
(*                                                                         *)
(* A release clones the list of waiters under the board's lock and sends   *)
(* to their channels one by one outside it.                                *)
(***************************************************************************)
EXTENDS Naturals

CONSTANTS
    Callers,      \* calls of Await or Poll; each Latch has a channel of its own
    MaxResumes,   \* bound: how often the flow is resumed
    MaxErrors     \* bound: reads of the database that fail

ASSUME ResumesAssumption == MaxResumes \in Nat
ASSUME ErrorsAssumption == MaxErrors \in Nat

VARIABLES
    flow,       \* the flow's row: running (or created), interrupted, stopped, gone
    resumes, errors,
    signals,    \* stops committed here whose signalStop has yet to run
    waiters,    \* the board: the callers whose channel is on it
    slot,       \* a caller's one-slot channel
    sending,    \* sends outstanding, of the signals and of the sweep
    sweep,      \* where the detector's pass is
    sweeping,   \* the detector's loop runs
    closed,
    pc, outcome

vars == <<flow, resumes, errors, signals, waiters, slot, sending, sweep, sweeping, closed,
          pc, outcome>>
flowVars == <<flow, resumes, signals>>
boardVars == <<waiters, slot, sending, closed>>
sweepVars == <<sweep, sweeping>>
callVars == <<pc, outcome>>

Senders == {"signal", "sweep"}

-----------------------------------------------------------------------------
(* The flow, and the stop signals of this replica *)

IsStoppedStatus(s) == s \in {"interrupted", "stopped"}

\* A stop committed by this replica is signalled; one of a peer, of a replica
\* that died first, or of a delete is not.
Stop(status) ==
    /\ flow' = status
    /\ \E local \in {0, 1} : signals' = signals + local
    /\ UNCHANGED <<resumes, errors, boardVars, sweepVars, callVars>>

HandleInterrupt == flow = "running" /\ Stop("interrupted")

\* Completed, failed, cancelled or terminated.
Finish == flow \in {"running", "interrupted"} /\ Stop("stopped")

Resume ==
    /\ flow = "interrupted" /\ resumes < MaxResumes
    /\ flow' = "running"
    /\ resumes' = resumes + 1
    /\ UNCHANGED <<errors, signals, boardVars, sweepVars, callVars>>

\* The reaper deletes the flow's tree.
Reap ==
    /\ flow = "stopped"
    /\ flow' = "gone"
    /\ UNCHANGED <<resumes, errors, signals, boardVars, sweepVars, callVars>>

-----------------------------------------------------------------------------
(* The board *)

\* Release: the list of those parked now is cloned; the sends follow.
Release(by) ==
    /\ sending' = [sending EXCEPT ![by] = @ \cup waiters]
    /\ UNCHANGED <<waiters, slot, closed>>

SignalStop ==
    /\ signals > 0
    /\ signals' = signals - 1
    /\ Release("signal")
    /\ UNCHANGED <<flow, resumes, errors, sweepVars, callVars>>

\* A send that never blocks: whoever has something already keeps it.
Offer(old, wake) == IF old = "empty" THEN wake ELSE old

Deliver(by, c) ==
    /\ c \in sending[by]
    /\ slot' = [slot EXCEPT ![c] = Offer(@, "status")]
    /\ sending' = [sending EXCEPT ![by] = @ \ {c}]
    /\ UNCHANGED <<flowVars, errors, waiters, closed, sweepVars, callVars>>

\* Every waiter is told, under the lock; later ones are turned away.
Close ==
    /\ ~sweeping /\ ~closed
    /\ closed' = TRUE
    /\ slot' = [c \in Callers |-> IF c \in waiters THEN Offer(slot[c], "closed") ELSE slot[c]]
    /\ UNCHANGED <<flowVars, errors, waiters, sending, sweepVars, callVars>>

-----------------------------------------------------------------------------
(* The detector *)

\* A pass begins by listing the keys: with nobody parked it asks nothing.
SweepKeys ==
    /\ sweeping /\ sweep = "idle" /\ waiters # {}
    /\ sweep' = "asking"
    /\ UNCHANGED <<flowVars, errors, boardVars, sweeping, callVars>>

\* The seeded fault: a key that names no row is left for the next pass.
ReportedIfStopped(s) == IsStoppedStatus(s)

\* The seeded fault: no status is recognised as one the flow is passing
\* through.
ReportedAlways(s) == TRUE

\* The resolver's verdict on the row it read: settled, or no row at all.
Reported(s) == IsStoppedStatus(s) \/ s = "gone"

ResolveStoppedFlows ==
    /\ sweep = "asking"
    /\ sweep' = IF Reported(flow) THEN "reported" ELSE "idle"
    /\ UNCHANGED <<flowVars, errors, boardVars, sweeping, callVars>>

\* A shard that fails to answer settles nothing: it is asked again.
ResolveError ==
    /\ sweep = "asking" /\ errors < MaxErrors
    /\ errors' = errors + 1
    /\ sweep' = "idle"
    /\ UNCHANGED <<flowVars, boardVars, sweeping, callVars>>

SweepRelease ==
    /\ sweep = "reported"
    /\ sweep' = "sending"
    /\ Release("sweep")
    /\ UNCHANGED <<flowVars, errors, sweeping, callVars>>

SweepEnd ==
    /\ sweep = "sending" /\ sending["sweep"] = {}
    /\ sweep' = "idle"
    /\ UNCHANGED <<flowVars, errors, boardVars, sweeping, callVars>>

\* Shutdown stops the detector between two passes, and then closes the board.
StopSweeping ==
    /\ sweeping /\ sweep = "idle"
    /\ sweeping' = FALSE
    /\ UNCHANGED <<flowVars, errors, boardVars, sweep, callVars>>

-----------------------------------------------------------------------------
(* A caller: read, park, read *)

Answer(c, result) ==
    /\ pc' = [pc EXCEPT ![c] = "done"]
    /\ outcome' = [outcome EXCEPT ![c] = result]

\* What the read of a row answers the call with.
OutcomeOf(s) == IF s = "gone" THEN "notfound" ELSE IF IsStoppedStatus(s) THEN "stopped" ELSE "running"

FirstRead(c) ==
    /\ pc[c] = "calling"
    /\ IF flow = "running" THEN pc' = [pc EXCEPT ![c] = "read"] /\ UNCHANGED outcome
                           ELSE Answer(c, OutcomeOf(flow))
    /\ UNCHANGED <<flowVars, errors, boardVars, sweepVars>>

\* The read fails, on the caller's deadline or on the database.
FirstReadError(c) ==
    /\ pc[c] = "calling" /\ errors < MaxErrors
    /\ errors' = errors + 1
    /\ \E result \in {"timedout", "error"} : Answer(c, result)
    /\ UNCHANGED <<flowVars, boardVars, sweepVars>>

\* The seeded fault: registering does not look whether the board is closed.
ParkUnchecked(c) ==
    /\ waiters' = waiters \cup {c}
    /\ pc' = [pc EXCEPT ![c] = "parked"]
    /\ UNCHANGED outcome

\* Registration, under the lock Close holds.
Park(c) ==
    IF closed THEN Answer(c, "shutdown") /\ UNCHANGED waiters
              ELSE /\ waiters' = waiters \cup {c}
                   /\ pc' = [pc EXCEPT ![c] = "parked"]
                   /\ UNCHANGED outcome

Latch(c) ==
    /\ pc[c] = "read"
    /\ Park(c)
    /\ UNCHANGED <<flowVars, errors, slot, sending, closed, sweepVars>>

Received(wake) == IF wake = "closed" THEN "shutdown" ELSE "released"

Wake(c) ==
    /\ pc[c] = "parked" /\ slot[c] # "empty"
    /\ pc' = [pc EXCEPT ![c] = "leaving"]
    /\ outcome' = [outcome EXCEPT ![c] = Received(slot[c])]
    /\ slot' = [slot EXCEPT ![c] = "empty"]
    /\ UNCHANGED <<flowVars, errors, waiters, sending, closed, sweepVars>>

\* The caller's deadline: select takes it even when a wake is ready.
Expire(c) ==
    /\ pc[c] = "parked"
    /\ pc' = [pc EXCEPT ![c] = "leaving"]
    /\ outcome' = [outcome EXCEPT ![c] = "timedout"]
    /\ UNCHANGED <<flowVars, errors, boardVars, sweepVars>>

\* The channel comes off the board; only a released caller reads again.
Unlatch(c) ==
    /\ pc[c] = "leaving"
    /\ waiters' = waiters \ {c}
    /\ pc' = [pc EXCEPT ![c] = IF outcome[c] = "released" THEN "woken" ELSE "done"]
    /\ UNCHANGED <<flowVars, errors, slot, sending, closed, sweepVars, outcome>>

SecondRead(c) ==
    /\ pc[c] = "woken"
    /\ Answer(c, OutcomeOf(flow))
    /\ UNCHANGED <<flowVars, errors, boardVars, sweepVars>>

SecondReadError(c) ==
    /\ pc[c] = "woken" /\ errors < MaxErrors
    /\ errors' = errors + 1
    /\ Answer(c, "error")
    /\ UNCHANGED <<flowVars, boardVars, sweepVars>>

-----------------------------------------------------------------------------
Init ==
    /\ flow = "running"
    /\ resumes = 0 /\ errors = 0 /\ signals = 0
    /\ waiters = {}
    /\ slot = [c \in Callers |-> "empty"]
    /\ sending = [by \in Senders |-> {}]
    /\ sweep = "idle" /\ sweeping = TRUE
    /\ closed = FALSE
    /\ pc = [c \in Callers |-> "calling"]
    /\ outcome = [c \in Callers |-> "none"]

CallStep(c) ==
    \/ FirstRead(c)
    \/ FirstReadError(c)
    \/ Latch(c)
    \/ Wake(c)
    \/ Expire(c)
    \/ Unlatch(c)
    \/ SecondRead(c)
    \/ SecondReadError(c)
    \/ \E by \in Senders : Deliver(by, c)

SweepStep == SweepKeys \/ ResolveStoppedFlows \/ SweepRelease \/ SweepEnd

Next ==
    \/ \E c \in Callers : CallStep(c)
    \/ SweepStep
    \/ ResolveError
    \/ HandleInterrupt \/ Finish \/ Resume \/ Reap
    \/ SignalStop
    \/ StopSweeping \/ Close

Spec == Init /\ [][Next]_vars

\* Goroutines go on, the detector is driven by a ticker, and a shutdown that
\* began finishes. No deadline, no stop and no signal has to come.
Fairness ==
    /\ WF_vars(SweepStep)
    /\ WF_vars(Close)
    /\ \A c \in Callers :
        /\ WF_vars(Latch(c) \/ Wake(c) \/ Unlatch(c) \/ SecondRead(c))
        /\ \A by \in Senders : WF_vars(Deliver(by, c))

FairSpec == Spec /\ Fairness

-----------------------------------------------------------------------------
(* Properties *)

\* The flow, the board and the calls keep the shape the code gives them.
TypeOK ==
    /\ flow \in {"running", "interrupted", "stopped", "gone"}
    /\ resumes \in Nat /\ errors \in Nat /\ signals \in Nat
    /\ waiters \in SUBSET Callers
    /\ slot \in [Callers -> {"empty", "status", "closed"}]
    /\ sending \in [Senders -> SUBSET Callers]
    /\ sweep \in {"idle", "asking", "reported", "sending"}
    /\ sweeping \in BOOLEAN
    /\ closed \in BOOLEAN
    /\ pc \in [Callers -> {"calling", "read", "parked", "leaving", "woken", "done"}]
    /\ outcome \in [Callers ->
           {"none", "released", "stopped", "running", "notfound", "timedout", "error", "shutdown"}]

\* "A caller is either on the board in time for Close to wake it, or turned
\* away. Never neither": behind a closed board everyone parked has its wake.
CloseReachesEveryWaiter ==
    closed => \A c \in Callers : pc[c] = "parked" => slot[c] # "empty"

\* A shutdown never takes back an answer that was delivered.
AnswerSurvivesClose == [][\A c \in Callers : slot[c] = "status" => slot'[c] # "closed"]_vars

\* No caller is woken for a status the flow is merely passing through: unless
\* somebody resumed it, a released caller finds the flow stopped or gone.
ReleasedFindsStop ==
    resumes = 0 => \A c \in Callers : pc[c] = "woken" => flow # "running"

\* Nobody waits on a flow that has stopped or is gone, whichever replica
\* stopped it, whatever signal was lost and whatever sweep failed.
AwaitReturns ==
    \A c \in Callers : (pc[c] = "parked" /\ flow # "running") ~> (pc[c] = "done" \/ flow = "running")
=============================================================================
