-------------------------- MODULE StepLeaseProofs --------------------------
(***************************************************************************)
(* Proofs about StepLease, for every set of workers, every number of step  *)
(* rows and of faults. Two invariants carry them. FenceInv holds whatever  *)
(* goes wrong: the generation captured at the claim keeps a superseded     *)
(* worker out. IInv adds what makes the persisted flow that of a single    *)
(* execution, as long as no commit's answer has been lost: the retry of a  *)
(* commit that landed breaks it (see RetriedWriteIsIdempotent).            *)
(***************************************************************************)
EXTENDS StepLease, TLAPS

Active(w) == pc[w] # "idle"

\* A captured generation is never ahead of the row's.
GenerationBound == \A w \in Workers : mySeq[w] <= leaseSeq[at[w]]

\* Workers look at rows that exist.
RowExists == \A w \in Workers : status[at[w]] # "none"

\* A generation is granted to one worker.
OneHolder ==
    \A w, v \in Workers :
        Active(w) /\ Active(v) /\ at[w] = at[v] /\ mySeq[w] = mySeq[v] /\ mySeq[w] > 0 => w = v

\* A worker without a generation has nothing but the unfenced reset ahead.
Uncaptured == \A w \in Workers : Active(w) /\ mySeq[w] = 0 => pc[w] = "reset" /\ ~marked[w]

\* The reap follows a terminal flow.
ReapsTerminal == \A w \in Workers : pc[w] = "reap" => flow \in TerminalFlow

\* A row that finished: completed, or settled once the flow stopped.
Finished(s) ==
    /\ status[s] \in TerminalFlow
    /\ status[s] = "completed" \/ flow \in TerminalFlow

\* A worker that marked its step complete still owns it.
MarkedOwns ==
    \A w \in Workers : Active(w) /\ marked[w] =>
        Current(w) /\ changes[at[w]] = mySeq[w] /\ Finished(at[w])

\* Nobody can still write to a step whose successor exists.
PredecessorIsClosed ==
    \A s \in Steps : Inserted(s) =>
        /\ Finished(pred[s])
        /\ src[s] = changes[pred[s]]
        /\ leaseSeq[pred[s]] > 0
        /\ \A w \in Workers : Active(w) /\ at[w] = pred[s] => ~Current(w)

OneSuccessor ==
    \A s, t \in Steps : Inserted(s) /\ Inserted(t) /\ pred[s] = pred[t] => s = t

HasSuccessor(s) == \E u \in Steps : Inserted(u) /\ pred[u] = s

\* The rows form a chain: all but one have a successor.
Chain ==
    \A s, t \in Steps :
        status[s] # "none" /\ status[t] # "none" /\ s # t => HasSuccessor(s) \/ HasSuccessor(t)

\* Once the flow completed or failed, no row is live and no worker current.
Quiet ==
    flow \in {"completed", "failed"} =>
        /\ \A s \in Steps : status[s] \notin LiveStatuses
        /\ \A w \in Workers : Active(w) /\ mySeq[w] > 0 => ~Current(w)

IInv ==
    /\ TypeOK
    /\ GenerationBound
    /\ RowExists
    /\ OneHolder
    /\ Uncaptured
    /\ ReapsTerminal
    /\ MarkedOwns
    /\ PredecessorIsClosed
    /\ OneSuccessor
    /\ Chain
    /\ Quiet

-----------------------------------------------------------------------------
(* Types. Nothing is assumed of the faults here. *)

\* Each statement of processStep writes values of the column's domain.
LEMMA WorkerTypes ==
  ASSUME TypeOK, NEW w \in Workers, Work(w) \/ Misfortune(w)
  PROVE  TypeOK'
  <1> USE DEF TypeOK, Goto
  <1>1. ASSUME NEW place \in Places, Proceed(w, place), budget' \in Nat, lost' \in BOOLEAN PROVE TypeOK'
    BY <1>1 DEF Proceed, rowVars
  <1>2. ASSUME Spend, budget > 0 PROVE budget' \in Nat /\ lost' \in BOOLEAN
    BY <1>2 DEF Spend
  <1>3. ASSUME NEW s \in Steps, NEW seq \in Nat, NEW place \in Places,
               ClaimRow(s) \/ UNCHANGED <<rowVars, flow>>, Dispatch(w, s, seq, place), budget' \in Nat /\ lost' \in BOOLEAN
        PROVE  TypeOK'
    <2>1. (/\ at \in [Workers -> Steps] /\ mySeq \in [Workers -> Nat] /\ pc \in [Workers -> Places]
           /\ marked \in [Workers -> BOOLEAN] /\ route \in [Workers -> Routes])'
      BY <1>3 DEF Dispatch
    <2>2. CASE ClaimRow(s)
      BY <1>3, <2>1, <2>2 DEF ClaimRow, StepStatuses, LiveStatuses
    <2>3. CASE UNCHANGED <<rowVars, flow>>
      BY <1>3, <2>1, <2>3 DEF rowVars
    <2> QED
      BY <1>3, <2>2, <2>3
  <1>4. ASSUME NEW s \in Steps, Claim(w, s) \/ ClaimReadLost(w, s) \/ ClaimContended(w, s)
        PROVE  TypeOK'
    <2>1. budget' \in Nat /\ lost' \in BOOLEAN
      BY <1>4, <1>2 DEF Claim, ClaimReadLost, ClaimContended, Fault
    <2>2. PICK seq \in Nat, place \in Places : Dispatch(w, s, seq, place)
      BY <1>4 DEF Claim, ClaimReadLost, ClaimContended, Places
    <2> QED
      BY <1>4, <2>1, <2>2, <1>3 DEF Claim, ClaimReadLost, ClaimContended
  <1>5. CASE ReadFlow(w) \/ Execute(w) \/ ExecuteRetry(w) \/ SpawnChild(w) \/ Crash(w)
    <2>1. budget' \in Nat /\ lost' \in BOOLEAN
      BY <1>5, <1>2 DEF ReadFlow, Execute, ExecuteRetry, SpawnChild, Crash, Fault
    <2>2. PICK place \in Places : Proceed(w, place)
      BY <1>5 DEF ReadFlow, Execute, ExecuteRetry, SpawnChild, Crash, Abandon, Proceed, Places
    <2> QED
      BY <2>1, <2>2, <1>1
  <1>6. CASE \/ WriteError(w) \/ ExtendError(w) \/ FailStepError(w)
             \/ DispositionError(w) \/ StatementError(w) \/ RecoveryResetError(w)
    <2>1. budget' \in Nat /\ lost' \in BOOLEAN
      BY <1>6, <1>2 DEF WriteError, ExtendError, FailStepError, DispositionError, StatementError,
                        RecoveryResetError, Fault
    <2>2. PICK place \in {"reset", "extend", "failPersist", "backoff", "idle", "fail"} : Proceed(w, place)
      BY <1>6 DEF WriteError, ExtendError, FailStepError, DispositionError, StatementError, RecoveryResetError
    <2> QED
      BY <2>1, <2>2, <1>1 DEF Places
  <1>7. ASSUME CompletionEffect(w)
        PROVE  (/\ status \in [Steps -> StepStatuses] /\ parked \in [Steps -> BOOLEAN]
                /\ lease \in [Steps -> BOOLEAN] /\ leaseSeq \in [Steps -> Nat]
                /\ changes \in [Steps -> Nat] /\ resolved \in [Steps -> BOOLEAN]
                /\ pred \in [Steps -> {0} \cup Steps] /\ src \in [Steps -> Nat] /\ flow \in FlowStatuses)'
    BY <1>7 DEF CompletionEffect, StepStatuses, TerminalFlow
  <1>8. ASSUME TransitionEffect(w)
        PROVE  (/\ status \in [Steps -> StepStatuses] /\ parked \in [Steps -> BOOLEAN]
                /\ lease \in [Steps -> BOOLEAN] /\ leaseSeq \in [Steps -> Nat]
                /\ changes \in [Steps -> Nat] /\ resolved \in [Steps -> BOOLEAN]
                /\ pred \in [Steps -> {0} \cup Steps] /\ src \in [Steps -> Nat] /\ flow \in FlowStatuses)'
    BY <1>8 DEF TransitionEffect, InsertSuccessor, CompleteFlow, Free, rowVars, StepStatuses,
                LiveStatuses, FlowStatuses, TerminalFlow
  <1>9. CASE CompletionWrite(w)
    BY <1>7, <1>9 DEF CompletionWrite, Places, Routes, rowVars
  <1>10. CASE TransitionWrite(w)
    BY <1>8, <1>10 DEF TransitionWrite, Places
  <1>11. CASE AmbiguousWrite(w)
    <2>1. budget' \in Nat /\ lost' \in BOOLEAN
      BY <1>11 DEF AmbiguousWrite, Fault
    <2> QED
      BY <1>7, <1>8, <1>11, <2>1 DEF AmbiguousWrite, Places
  <1>12. CASE Reap(w) \/ FailStep(w)
    <2>1. CASE Reap(w)
      <3>1. flow \in StepStatuses
        BY DEF StepStatuses, LiveStatuses, FlowStatuses
      <3> QED
        BY <2>1, <3>1 DEF Reap, Places
    <2>2. CASE FailStep(w)
      BY <2>2 DEF FailStep, Places, StepStatuses, FlowStatuses, TerminalFlow
    <2> QED
      BY <1>12, <2>1, <2>2
  <1>13. CASE ExtendLease(w) \/ DrainRelease(w) \/ RecoveryReset(w)
    BY <1>13 DEF ExtendLease, DrainRelease, RecoveryReset, Abandon, rowVars, Places, StepStatuses, LiveStatuses
  <1>14. CASE RetryRewind(w) \/ ParkCaller(w)
    BY <1>14 DEF RetryRewind, ParkCaller, Places, StepStatuses, LiveStatuses
  <1>15. CASE HandleInterrupt(w)
    BY <1>15 DEF HandleInterrupt, Places, StepStatuses, LiveStatuses, FlowStatuses
  <1> QED
    BY <1>4, <1>5, <1>6, <1>9, <1>10, <1>11, <1>12, <1>13, <1>14, <1>15 DEF Work, Misfortune

\* So do the sweep, a child's end, Resume and Terminate, and the clock.
LEMMA SurroundingsTypes ==
  ASSUME TypeOK, Surroundings
  PROVE  TypeOK'
  <1> USE DEF TypeOK, workerVars
  <1>1. ASSUME NEW s \in Steps, LeaseExpires(s) PROVE TypeOK'
    <2>1. budget' \in Nat /\ lost' \in BOOLEAN
      BY <1>1 DEF LeaseExpires, Spend
    <2> QED
      BY <1>1, <2>1 DEF LeaseExpires
  <1>2. ASSUME NEW s \in Steps, ReviveCaller(s) \/ Resume(s) PROVE TypeOK'
    BY <1>2 DEF ReviveCaller, Resume, StepStatuses, LiveStatuses, FlowStatuses
  <1>3. ASSUME RecoverExpiredLeases PROVE TypeOK'
    BY <1>3 DEF RecoverExpiredLeases, StepStatuses, LiveStatuses
  <1>4. ASSUME Terminate PROVE TypeOK'
    BY <1>4 DEF Terminate, StepStatuses, FlowStatuses, TerminalFlow
  <1> QED
    BY <1>1, <1>2, <1>3, <1>4 DEF Surroundings

\* createWithGraph inserts rows of the right shape.
LEMMA InitTypes == Init => TypeOK
  <1> SUFFICES ASSUME Init PROVE TypeOK
    OBVIOUS
  <1>1. lost \in BOOLEAN
    BY Zenon DEF Init
  <1> QED
    BY <1>1, StepsAssumption, BudgetAssumption
       DEF Init, TypeOK, Steps, StepStatuses, LiveStatuses, TerminalFlow, FlowStatuses, Places, Routes

\* Rows and workers keep their shape under every fault, lost commit answers
\* included.
THEOREM TypesAreKept == Spec => []TypeOK
  <1>1. TypeOK /\ [Next]_vars => TypeOK'
    <2>1. TypeOK /\ UNCHANGED vars => TypeOK'
      BY DEF TypeOK, vars, rowVars, workerVars
    <2> QED
      BY <2>1, WorkerTypes, SurroundingsTypes DEF Next
  <1> QED
    BY <1>1, InitTypes, PTL DEF Spec

-----------------------------------------------------------------------------
\* A flow that was just created satisfies the invariant.
LEMMA InitEstablishes == Init => IInv
  <1> SUFFICES ASSUME Init PROVE IInv
    OBVIOUS
  <1> USE StepsAssumption
  <1>1. TypeOK
    BY InitTypes
  <1>2. /\ GenerationBound /\ RowExists /\ OneHolder /\ Uncaptured
        /\ ReapsTerminal /\ MarkedOwns /\ PredecessorIsClosed /\ OneSuccessor /\ Quiet
    BY DEF Init, Steps, GenerationBound, RowExists, OneHolder, Uncaptured, ReapsTerminal,
           MarkedOwns, PredecessorIsClosed, OneSuccessor, Quiet, Active, Inserted
  <1>3. Chain
    BY DEF Init, Steps, Chain
  <1> QED
    BY <1>1, <1>2, <1>3 DEF IInv

\* While the same rows exist with the same predecessors, the chain stays.
LEMMA RowsStay ==
  ASSUME OneSuccessor, Chain, pred' = pred,
         \A s \in Steps : status'[s] = "none" <=> status[s] = "none"
  PROVE  OneSuccessor' /\ Chain'
  BY DEF OneSuccessor, Chain, HasSuccessor, Inserted

\* A worker that only moves on, or returns, leaves the invariant alone.
LEMMA ProceedStep ==
  ASSUME IInv, NEW w \in Workers, NEW place \in Places, Active(w),
         Proceed(w, place), budget' \in Nat, lost' \in BOOLEAN,
         place = "reap" => flow \in TerminalFlow,
         mySeq[w] = 0 => place \in {"idle", "reset"}
  PROVE  IInv'
  <1> USE DEF Proceed, Goto, rowVars
  <1>1. TypeOK'
    BY DEF IInv, TypeOK
  <1>2. (GenerationBound /\ RowExists /\ OneHolder /\ Uncaptured /\ ReapsTerminal)'
    BY DEF IInv, TypeOK, GenerationBound, RowExists, OneHolder, Uncaptured, ReapsTerminal, Active
  <1>3. MarkedOwns'
    BY DEF IInv, TypeOK, MarkedOwns, Active, Current, Finished
  <1>4. (PredecessorIsClosed /\ OneSuccessor /\ Chain)'
    BY DEF IInv, TypeOK, PredecessorIsClosed, OneSuccessor, Chain, HasSuccessor, Active, Current,
           Finished, Inserted
  <1>5. Quiet'
    BY DEF IInv, TypeOK, Quiet, Active, Current
  <1> QED
    BY <1>1, <1>2, <1>3, <1>4, <1>5 DEF IInv

\* A claim grants a generation nobody holds, on a row nobody has finished.
LEMMA ClaimStep ==
  ASSUME IInv, NEW w \in Workers, NEW s \in Steps, Claim(w, s)
  PROVE  IInv'
  <1> USE DEF Claim, Claimable, ClaimRow, Dispatch, Goto, rowVars
  <1>1. TypeOK'
    BY DEF IInv, TypeOK, StepStatuses, LiveStatuses, TerminalFlow, FlowStatuses, Places, Routes
  <1>2. (GenerationBound /\ RowExists /\ OneHolder)'
    BY DEF IInv, TypeOK, GenerationBound, RowExists, OneHolder, Active
  <1>3. (Uncaptured /\ ReapsTerminal)'
    BY DEF IInv, TypeOK, Uncaptured, ReapsTerminal, Active, TerminalFlow
  <1>4. MarkedOwns'
    BY DEF IInv, TypeOK, GenerationBound, MarkedOwns, Active, Current, Finished, TerminalFlow, LiveStatuses
  <1>5. PredecessorIsClosed'
    BY DEF IInv, TypeOK, GenerationBound, PredecessorIsClosed, Active, Current, Finished, Inserted, TerminalFlow, LiveStatuses
  <1>6. OneSuccessor' /\ Chain'
    <2>1. \A t \in Steps : status'[t] = "none" <=> status[t] = "none"
      BY DEF IInv, TypeOK, LiveStatuses
    <2> QED
      BY <2>1, RowsStay DEF IInv
  <1>7. Quiet'
    BY DEF IInv, TypeOK, Quiet, Active, Current, LiveStatuses, TerminalFlow
  <1> QED
    BY <1>1, <1>2, <1>3, <1>4, <1>5, <1>6, <1>7 DEF IInv

\* A claim that was not read back, or that lost to contention, captures no
\* generation: all it can do is the unfenced reset.
LEMMA ClaimUnreadStep ==
  ASSUME IInv, NEW w \in Workers, NEW s \in Steps, ClaimReadLost(w, s)
  PROVE  IInv'
  <1>0. PICK place \in {"reset", "idle"} : Dispatch(w, s, 0, place)
    BY DEF ClaimReadLost
  <1>a. /\ pc[w] = "idle" /\ Claimable(s) /\ ClaimRow(s) /\ budget' \in Nat /\ lost' \in BOOLEAN
    BY DEF ClaimReadLost, Fault, Spend, IInv, TypeOK
  <1> USE <1>0, <1>a DEF Claimable, ClaimRow, Dispatch, Goto
  <1>1. TypeOK'
    BY DEF IInv, TypeOK, StepStatuses, LiveStatuses, Places
  <1>2. (GenerationBound /\ RowExists /\ OneHolder)'
    BY DEF IInv, TypeOK, GenerationBound, RowExists, OneHolder, Active
  <1>3. (Uncaptured /\ ReapsTerminal)'
    BY DEF IInv, TypeOK, Uncaptured, ReapsTerminal, Active, TerminalFlow
  <1>4. MarkedOwns'
    BY DEF IInv, TypeOK, MarkedOwns, Active, Current, Finished, TerminalFlow, LiveStatuses
  <1>5. PredecessorIsClosed'
    BY DEF IInv, TypeOK, PredecessorIsClosed, Active, Current, Finished, Inserted, TerminalFlow, LiveStatuses
  <1>6. OneSuccessor' /\ Chain'
    <2>1. \A t \in Steps : status'[t] = "none" <=> status[t] = "none"
      BY DEF IInv, TypeOK, LiveStatuses
    <2> QED
      BY <2>1, RowsStay DEF IInv
  <1>7. Quiet'
    BY DEF IInv, TypeOK, Quiet, Active, Current, LiveStatuses, TerminalFlow
  <1> QED
    BY <1>1, <1>2, <1>3, <1>4, <1>5, <1>6, <1>7 DEF IInv

\* A contended claim leaves the row alone and holds no generation.
LEMMA ClaimContendedStep ==
  ASSUME IInv, NEW w \in Workers, NEW s \in Steps, ClaimContended(w, s)
  PROVE  IInv'
  <1> USE DEF ClaimContended, Dispatch, Goto, rowVars, Fault, Spend
  <1>1. TypeOK'
    BY DEF IInv, TypeOK, StepStatuses, LiveStatuses, TerminalFlow, FlowStatuses, Places, Routes
  <1>2. (GenerationBound /\ RowExists /\ OneHolder)'
    BY DEF IInv, TypeOK, GenerationBound, RowExists, OneHolder, Active
  <1>3. (Uncaptured /\ ReapsTerminal)'
    BY DEF IInv, TypeOK, Uncaptured, ReapsTerminal, Active, TerminalFlow
  <1>4. MarkedOwns'
    BY DEF IInv, TypeOK, MarkedOwns, Active, Current, Finished, TerminalFlow, LiveStatuses
  <1>5. PredecessorIsClosed'
    BY DEF IInv, TypeOK, PredecessorIsClosed, Active, Current, Finished, Inserted, TerminalFlow, LiveStatuses
  <1>6. OneSuccessor' /\ Chain'
    <2>1. \A t \in Steps : status'[t] = "none" <=> status[t] = "none"
      BY DEF IInv, TypeOK, LiveStatuses
    <2> QED
      BY <2>1, RowsStay DEF IInv
  <1>7. Quiet'
    BY DEF IInv, TypeOK, Quiet, Active, Current, LiveStatuses, TerminalFlow
  <1> QED
    BY <1>1, <1>2, <1>3, <1>4, <1>5, <1>6, <1>7 DEF IInv

\* The holder of a row's generation may write that row as it likes, keep it
\* or let it go, and stop the flow when it leaves no live row behind.
LEMMA HolderWrites ==
  ASSUME IInv, NEW w \in Workers, Active(w), Current(w), mySeq[w] > 0,
         NEW st \in StepStatuses \ {"none"}, NEW place \in Places \ {"reap"}, NEW m \in BOOLEAN,
         status' = [status EXCEPT ![at[w]] = st],
         parked' \in [Steps -> BOOLEAN], lease' \in [Steps -> BOOLEAN],
         resolved' \in [Steps -> BOOLEAN], route' \in [Workers -> Routes], budget' \in Nat, lost' \in BOOLEAN,
         changes' \in [Steps -> Nat], \A s \in Steps \ {at[w]} : changes'[s] = changes[s],
         leaseSeq' = leaseSeq, pred' = pred, src' = src, at' = at, mySeq' = mySeq,
         pc' = [pc EXCEPT ![w] = place], marked' = [marked EXCEPT ![w] = m],
         place # "idle" /\ m => st = "completed" /\ changes'[at[w]] = mySeq[w],
         flow' \in FlowStatuses,
         flow \in TerminalFlow => flow' = flow,
         flow' \in TerminalFlow => flow' = flow \/ (place = "idle" /\ st \notin LiveStatuses)
  PROVE  IInv'
  <1>1. TypeOK'
    BY DEF IInv, TypeOK
  <1>2. (GenerationBound /\ RowExists /\ OneHolder)'
    BY DEF IInv, TypeOK, GenerationBound, RowExists, OneHolder, Active
  <1>3. (Uncaptured /\ ReapsTerminal)'
    BY DEF IInv, TypeOK, Uncaptured, ReapsTerminal, Active
  <1>4. \A v \in Workers : Active(v) /\ at[v] = at[w] /\ Current(v) => v = w
    BY DEF IInv, OneHolder, Current
  <1>5. \A s \in Steps : Inserted(s) => pred[s] # at[w]
    BY DEF IInv, PredecessorIsClosed
  <1>6. MarkedOwns'
    <2> SUFFICES ASSUME NEW v \in Workers, Active(v)', marked'[v]
                 PROVE  Current(v)' /\ changes'[at[v]] = mySeq[v] /\ Finished(at[v])'
      BY DEF MarkedOwns
    <2>1. CASE v = w
      BY <2>1 DEF IInv, TypeOK, Active, Current, Finished, TerminalFlow
    <2>2. CASE v # w
      <3>1. Active(v) /\ marked[v] /\ Current(v) /\ changes[at[v]] = mySeq[v] /\ Finished(at[v])
        BY <2>2 DEF IInv, TypeOK, MarkedOwns, Active
      <3>2. at[v] # at[w]
        BY <3>1, <2>2, <1>4
      <3> QED
        BY <3>1, <3>2 DEF IInv, TypeOK, Current, Finished
    <2> QED
      BY <2>1, <2>2
  <1>7. PredecessorIsClosed'
    <2> SUFFICES ASSUME NEW s \in Steps, Inserted(s)'
                 PROVE  /\ Finished(pred[s])' /\ src[s] = changes'[pred[s]] /\ leaseSeq[pred[s]] > 0
                        /\ \A v \in Workers : Active(v)' /\ at[v] = pred[s] => ~Current(v)'
      BY DEF PredecessorIsClosed
    <2>1. Inserted(s) /\ pred[s] \in Steps
      BY DEF IInv, TypeOK, RowExists, Inserted
    <2>2. pred[s] # at[w]
      BY <2>1, <1>5
    <2>3. Finished(pred[s])' /\ src[s] = changes'[pred[s]] /\ leaseSeq[pred[s]] > 0
      BY <2>1, <2>2 DEF IInv, TypeOK, PredecessorIsClosed, Finished
    <2>4. \A v \in Workers : Active(v)' /\ at[v] = pred[s] => ~Current(v)'
      BY <2>1, <2>2 DEF IInv, TypeOK, PredecessorIsClosed, Active, Current
    <2> QED
      BY <2>3, <2>4
  <1>8. OneSuccessor' /\ Chain'
    <2>1. \A t \in Steps : status'[t] = "none" <=> status[t] = "none"
      BY DEF IInv, TypeOK, RowExists
    <2> QED
      BY <2>1, RowsStay DEF IInv
  <1>9. Quiet'
    <2> SUFFICES ASSUME flow' \in {"completed", "failed"}
                 PROVE  /\ \A s \in Steps : status'[s] \notin LiveStatuses
                        /\ \A v \in Workers : Active(v)' /\ mySeq[v] > 0 => ~Current(v)'
      BY DEF Quiet
    <2>1. flow' # flow
      BY DEF IInv, Quiet
    <2>2. place = "idle" /\ st \notin LiveStatuses
      BY <2>1 DEF TerminalFlow
    <2>3. \A s \in Steps : s # at[w] /\ status[s] # "none" => HasSuccessor(s)
      BY <1>5 DEF IInv, TypeOK, Chain, RowExists, HasSuccessor
    <2>4. \A s \in Steps : s # at[w] => status[s] \notin LiveStatuses
      BY <2>3 DEF IInv, PredecessorIsClosed, HasSuccessor, Finished, TerminalFlow, LiveStatuses
    <2>5. \A v \in Workers : Active(v) /\ v # w => ~Current(v)
      BY <2>3, <1>4 DEF IInv, TypeOK, RowExists, PredecessorIsClosed, HasSuccessor
    <2> QED
      BY <2>2, <2>4, <2>5 DEF IInv, TypeOK, Active, Current
  <1> QED
    BY <1>1, <1>2, <1>3, <1>6, <1>7, <1>8, <1>9 DEF IInv

\* The reap writes the terminal status of a flow that has stopped.
LEMMA ReapStep ==
  ASSUME IInv, NEW w \in Workers, Reap(w)
  PROVE  IInv'
  <1> USE DEF Reap, Goto
  <1>1. flow \in TerminalFlow /\ flow # "none"
    BY DEF IInv, ReapsTerminal, TerminalFlow
  <1>2. TypeOK'
    BY <1>1 DEF IInv, TypeOK, StepStatuses, Places
  <1>3. (GenerationBound /\ RowExists /\ OneHolder)'
    BY <1>1 DEF IInv, TypeOK, GenerationBound, RowExists, OneHolder, Active
  <1>4. (Uncaptured /\ ReapsTerminal)'
    BY DEF IInv, TypeOK, Uncaptured, ReapsTerminal, Active
  <1>5. \A s \in Steps : Finished(s) => Finished(s)'
    BY <1>1 DEF IInv, TypeOK, Finished
  <1>6. MarkedOwns'
    BY <1>5 DEF IInv, TypeOK, MarkedOwns, Active, Current
  <1>7. \A s \in Steps : Inserted(s)' <=> Inserted(s)
    BY <1>1 DEF IInv, TypeOK, RowExists, Inserted
  <1>8. PredecessorIsClosed'
    BY <1>5, <1>7 DEF IInv, TypeOK, PredecessorIsClosed, Active, Current, Inserted
  <1>9. OneSuccessor' /\ Chain'
    <2>1. \A t \in Steps : status'[t] = "none" <=> status[t] = "none"
      BY <1>1 DEF IInv, TypeOK, RowExists
    <2> QED
      BY <2>1, RowsStay DEF IInv
  <1>10. Quiet'
    BY <1>1 DEF IInv, TypeOK, Quiet, Active, Current, TerminalFlow, LiveStatuses
  <1> QED
    BY <1>2, <1>3, <1>4, <1>6, <1>8, <1>9, <1>10 DEF IInv

\* A reset without a generation matches a running row, which is nobody's
\* finished step.
LEMMA UncapturedResetStep ==
  ASSUME IInv, NEW w \in Workers, RecoveryReset(w), ResetFence(w), mySeq[w] = 0
  PROVE  IInv'
  <1> USE DEF RecoveryReset, ResetFence, Goto
  <1>1. status[at[w]] = "running"
    BY DEF IInv, Uncaptured, Active
  <1>2. TypeOK'
    BY DEF IInv, TypeOK, StepStatuses, LiveStatuses, Places
  <1>3. (GenerationBound /\ RowExists /\ OneHolder)'
    BY DEF IInv, TypeOK, GenerationBound, RowExists, OneHolder, Active
  <1>4. (Uncaptured /\ ReapsTerminal)'
    BY DEF IInv, TypeOK, Uncaptured, ReapsTerminal, Active
  <1>5. \A s \in Steps : Finished(s) => Finished(s)'
    BY <1>1 DEF IInv, TypeOK, Finished, TerminalFlow
  <1>6. MarkedOwns'
    BY <1>5 DEF IInv, TypeOK, MarkedOwns, Active, Current
  <1>7. \A s \in Steps : Inserted(s)' <=> Inserted(s)
    BY <1>1 DEF IInv, TypeOK, Inserted
  <1>8. PredecessorIsClosed'
    BY <1>5, <1>7 DEF IInv, TypeOK, PredecessorIsClosed, Active, Current, Inserted
  <1>9. OneSuccessor' /\ Chain'
    <2>1. \A t \in Steps : status'[t] = "none" <=> status[t] = "none"
      BY <1>1 DEF IInv, TypeOK
    <2> QED
      BY <2>1, RowsStay DEF IInv
  <1>10. Quiet'
    BY <1>1 DEF IInv, TypeOK, Quiet, LiveStatuses
  <1> QED
    BY <1>2, <1>3, <1>4, <1>6, <1>8, <1>9, <1>10 DEF IInv

\* The owner of a completed step inserts its one successor and leaves.
LEMMA InsertStep ==
  ASSUME IInv, NEW w \in Workers, Active(w), marked[w], flow \notin TerminalFlow,
         InsertSuccessor(w), Goto(w, "idle"), UNCHANGED <<at, mySeq, marked, route, budget, lost>>
  PROVE  IInv'
  <1> PICK n \in Free : /\ status' = [status EXCEPT ![n] = "pending"]
                        /\ pred' = [pred EXCEPT ![n] = at[w]]
                        /\ src' = [src EXCEPT ![n] = mySeq[w]]
                        /\ UNCHANGED <<parked, lease, leaseSeq, changes, resolved, flow>>
    BY DEF InsertSuccessor
  <1> USE DEF Goto
  <1>1. n \in Steps /\ status[n] = "none"
    BY DEF Free
  <1>2. /\ at[w] \in Steps /\ Current(w) /\ mySeq[w] > 0
        /\ changes[at[w]] = mySeq[w] /\ status[at[w]] = "completed" /\ Finished(at[w])
    BY DEF IInv, TypeOK, MarkedOwns, Uncaptured, Finished
  <1>3. n # at[w]
    BY <1>1, <1>2
  <1>4. \A s \in Steps : Inserted(s) => pred[s] # at[w]
    BY <1>2 DEF IInv, PredecessorIsClosed
  <1>5. \A s \in Steps : Inserted(s)' <=> s = n \/ Inserted(s)
    BY <1>1, <1>2 DEF IInv, TypeOK, Inserted, Steps
  <1>6. \A s \in Steps : Finished(s) => Finished(s)' /\ s # n
    BY <1>1 DEF IInv, TypeOK, Finished, TerminalFlow
  <1>7. TypeOK'
    BY <1>1, <1>2 DEF IInv, TypeOK, StepStatuses, LiveStatuses, Places
  <1>8. (GenerationBound /\ RowExists /\ OneHolder)'
    BY <1>1 DEF IInv, TypeOK, GenerationBound, RowExists, OneHolder, Active
  <1>9. (Uncaptured /\ ReapsTerminal)'
    BY DEF IInv, TypeOK, Uncaptured, ReapsTerminal, Active
  <1>10. MarkedOwns'
    BY <1>6 DEF IInv, TypeOK, MarkedOwns, Active, Current
  <1>11. PredecessorIsClosed'
    <2>1. ASSUME NEW s \in Steps, Inserted(s)'
          PROVE  Finished(pred[s])' /\ (src[s] = changes[pred[s]])' /\ (leaseSeq[pred[s]] > 0)'
      <3>1. CASE s = n
        <4>1. pred'[s] = at[w] /\ src'[s] = mySeq[w]
          BY <3>1, <1>1 DEF IInv, TypeOK
        <4>2. Finished(at[w])'
          BY <1>2, <1>3 DEF IInv, TypeOK, Finished
        <4>3. Finished(pred[s])'
          BY <4>1, <4>2 DEF Finished
        <4> QED
          BY <4>1, <4>3, <1>2 DEF Current
      <3>2. CASE s # n
        <4>1. Inserted(s) /\ pred'[s] = pred[s] /\ src'[s] = src[s] /\ pred[s] \in Steps
          BY <2>1, <3>2, <1>1, <1>5 DEF IInv, TypeOK, Inserted
        <4>2. /\ Finished(pred[s]) /\ src[s] = changes[pred[s]] /\ leaseSeq[pred[s]] > 0
          BY <4>1 DEF IInv, PredecessorIsClosed
        <4>3. status'[pred[s]] = status[pred[s]]
          BY <4>1, <4>2, <1>1 DEF IInv, TypeOK, Finished, TerminalFlow
        <4> QED
          BY <4>1, <4>2, <4>3 DEF Finished
      <3> QED
        BY <3>1, <3>2
    <2>2. ASSUME NEW s \in Steps, Inserted(s)', NEW v \in Workers, Active(v)', (at[v] = pred[s])'
          PROVE  ~Current(v)'
      <3>1. Active(v) /\ v # w
        BY <2>2 DEF IInv, TypeOK, Active
      <3>2. CASE s = n
        <4>1. at[v] = at[w]
          BY <2>2, <3>2, <1>1 DEF IInv, TypeOK
        <4> QED
          BY <4>1, <3>1, <1>2 DEF IInv, OneHolder, Current
      <3>3. CASE s # n
        <4>1. Inserted(s) /\ at[v] = pred[s]
          BY <2>2, <3>3, <1>1, <1>5 DEF IInv, TypeOK
        <4> QED
          BY <4>1, <3>1 DEF IInv, PredecessorIsClosed, Current
      <3> QED
        BY <3>2, <3>3
    <2> QED
      BY <2>1, <2>2 DEF PredecessorIsClosed
  <1>12. OneSuccessor'
    BY <1>1, <1>4, <1>5 DEF IInv, TypeOK, OneSuccessor
  <1>13. \A s \in Steps : HasSuccessor(s) => HasSuccessor(s)'
    BY <1>1, <1>5 DEF IInv, TypeOK, HasSuccessor, Inserted
  <1>14. HasSuccessor(at[w])' /\ ~HasSuccessor(at[w])
    BY <1>1, <1>2, <1>4, <1>5 DEF IInv, TypeOK, HasSuccessor
  <1>15. Chain'
    <2> SUFFICES ASSUME NEW s \in Steps, NEW t \in Steps, status'[s] # "none", status'[t] # "none", s # t
                 PROVE  HasSuccessor(s)' \/ HasSuccessor(t)'
      BY DEF Chain
    <2>1. CASE s # n /\ t # n
      BY <2>1, <1>13 DEF IInv, TypeOK, Chain
    <2>2. CASE s = n
      BY <2>2, <1>1, <1>2, <1>13, <1>14 DEF IInv, TypeOK, Chain
    <2>3. CASE t = n
      BY <2>3, <1>1, <1>2, <1>13, <1>14 DEF IInv, TypeOK, Chain
    <2> QED
      BY <2>1, <2>2, <2>3
  <1>16. Quiet'
    BY DEF Quiet, TerminalFlow
  <1> QED
    BY <1>7, <1>8, <1>9, <1>10, <1>11, <1>12, <1>15, <1>16 DEF IInv

-----------------------------------------------------------------------------
\* Those who hold no generation (the sweep, a child, Resume, Terminate) touch
\* live rows only, and never complete or fail the flow.
LEMMA OutsideStep ==
  ASSUME IInv, UNCHANGED <<leaseSeq, changes, pred, src, workerVars>>, TypeOK',
         \A s \in Steps : status[s] \notin LiveStatuses => status'[s] = status[s],
         \A s \in Steps : status[s] \in LiveStatuses => status'[s] # "none",
         flow \in TerminalFlow => flow' = flow,
         flow' \in {"completed", "failed"} => flow' = flow /\ status' = status
  PROVE  IInv'
  <1> USE DEF workerVars
  <1>1. (GenerationBound /\ RowExists /\ OneHolder)'
    BY DEF IInv, TypeOK, GenerationBound, RowExists, OneHolder, Active
  <1>2. (Uncaptured /\ ReapsTerminal)'
    BY DEF IInv, TypeOK, Uncaptured, ReapsTerminal, Active
  <1>3. \A s \in Steps : Finished(s) => Finished(s)'
    BY DEF Finished, TerminalFlow, LiveStatuses
  <1>4. MarkedOwns'
    BY <1>3 DEF IInv, TypeOK, MarkedOwns, Active, Current
  <1>5. \A s \in Steps : status'[s] = "none" <=> status[s] = "none"
    BY DEF LiveStatuses
  <1>6. PredecessorIsClosed'
    BY <1>3, <1>5 DEF IInv, TypeOK, PredecessorIsClosed, Active, Current, Inserted
  <1>7. OneSuccessor' /\ Chain'
    BY <1>5, RowsStay DEF IInv
  <1>8. Quiet'
    BY DEF IInv, Quiet, Active, Current
  <1> QED
    BY <1>1, <1>2, <1>4, <1>6, <1>7, <1>8 DEF IInv

\* The clock, the sweep, a child's end, Resume and Terminate keep the invariant.
LEMMA SurroundingsStep ==
  ASSUME IInv, Surroundings
  PROVE  IInv'
  <1>0. TypeOK'
    BY SurroundingsTypes DEF IInv
  <1>1. ASSUME NEW s \in Steps, LeaseExpires(s) PROVE IInv'
    BY <1>0, <1>1, OutsideStep DEF LeaseExpires, workerVars, LiveStatuses
  <1>2. ASSUME RecoverExpiredLeases PROVE IInv'
    <2>1. flow \notin {"completed", "failed"}
      BY <1>2 DEF RecoverExpiredLeases, Expired, IInv, Quiet, LiveStatuses
    <2> QED
      BY <1>0, <1>2, <2>1, OutsideStep DEF RecoverExpiredLeases, Expired, workerVars, LiveStatuses
  <1>3. ASSUME NEW s \in Steps, ReviveCaller(s) PROVE IInv'
    <2>1. flow \notin {"completed", "failed"}
      BY <1>3 DEF ReviveCaller, IInv, Quiet, LiveStatuses
    <2>2. /\ \A t \in Steps : status[t] \notin LiveStatuses => status'[t] = status[t]
          /\ \A t \in Steps : status[t] \in LiveStatuses => status'[t] # "none"
      BY <1>3 DEF ReviveCaller, IInv, TypeOK, LiveStatuses
    <2> QED
      BY <1>0, <1>3, <2>1, <2>2, OutsideStep DEF ReviveCaller, workerVars
  <1>4. ASSUME NEW s \in Steps, Resume(s) PROVE IInv'
    <2>1. flow \notin TerminalFlow /\ flow' \notin {"completed", "failed"}
      BY <1>4 DEF Resume, TerminalFlow
    <2>2. /\ \A t \in Steps : status[t] \notin LiveStatuses => status'[t] = status[t]
          /\ \A t \in Steps : status[t] \in LiveStatuses => status'[t] # "none"
      BY <1>4 DEF Resume, IInv, TypeOK, LiveStatuses
    <2> QED
      BY <1>0, <1>4, <2>1, <2>2, OutsideStep DEF Resume, workerVars
  <1>5. ASSUME Terminate PROVE IInv'
    BY <1>0, <1>5, OutsideStep DEF Terminate, workerVars, LiveStatuses
  <1> QED
    BY <1>1, <1>2, <1>3, <1>4, <1>5 DEF Surroundings

-----------------------------------------------------------------------------
(* The steps of a worker *)

\* The completion write records the outcome only for the holder.
LEMMA CompletionWriteStep ==
  ASSUME IInv, NEW w \in Workers, CompletionWrite(w)
  PROVE  IInv'
  <1>1. CASE CompletionFence(w) /\ CompletionEffect(w)
    <2>1. /\ Active(w) /\ Current(w) /\ mySeq[w] > 0
      BY <1>1 DEF IInv, TypeOK, CompletionWrite, CompletionFence, Uncaptured, Active
    <2>2. PICK r \in Routes : /\ route' = [route EXCEPT ![w] = r]
                              /\ Goto(w, IF r = "bad" THEN "fail" ELSE "write")
      BY <1>1 DEF CompletionWrite
    <2>3. marked' = [marked EXCEPT ![w] = TRUE] /\ UNCHANGED <<at, mySeq, budget, lost>>
      BY <1>1 DEF CompletionWrite
    <2> DEFINE place == IF r = "bad" THEN "fail" ELSE "write"
    <2>4. place \in Places \ {"reap"} /\ place # "idle" /\ pc' = [pc EXCEPT ![w] = place]
      BY <2>2 DEF Places, Goto
    <2> HIDE DEF place
    <2>5. changes' \in [Steps -> Nat] /\ changes'[at[w]] = mySeq[w]
      BY <1>1 DEF IInv, TypeOK, CompletionEffect
    <2> QED
      BY <1>1, <2>1, <2>2, <2>3, <2>4, <2>5, HolderWrites
         DEF IInv, TypeOK, CompletionEffect, StepStatuses, TerminalFlow
  <1>2. CASE ~CompletionFence(w)
    BY <1>2, ProceedStep DEF CompletionWrite, Proceed, Goto, Places, Active, IInv, TypeOK, rowVars
  <1> QED
    BY <1>1, <1>2 DEF CompletionWrite

\* The transition: a successor, the end of the flow, or nothing.
LEMMA TransitionWriteStep ==
  ASSUME IInv, NEW w \in Workers, TransitionWrite(w)
  PROVE  IInv'
  <1> USE DEF TransitionWrite, Goto
  <1>1. Active(w) /\ marked[w]
    BY DEF Active
  <1>2. CASE FlowRowLocked /\ InsertSuccessor(w)
    BY <1>1, <1>2, InsertStep DEF FlowRowLocked
  <1>3. CASE FlowRowLocked /\ CompleteFlow
    <2>1. Current(w) /\ mySeq[w] > 0 /\ status[at[w]] = "completed"
      BY <1>1, <1>3 DEF IInv, TypeOK, MarkedOwns, Uncaptured, Finished, FlowRowLocked
    <2>2. status' = [status EXCEPT ![at[w]] = "completed"]
      BY <1>3, <2>1 DEF IInv, TypeOK, CompleteFlow, rowVars
    <2>3. marked' = [marked EXCEPT ![w] = TRUE]
      BY <1>1 DEF IInv, TypeOK
    <2> QED
      BY <1>1, <1>3, <2>1, <2>2, <2>3, HolderWrites
         DEF IInv, TypeOK, CompleteFlow, rowVars, FlowRowLocked, StepStatuses, FlowStatuses,
             TerminalFlow, LiveStatuses, Places
  <1>4. CASE UNCHANGED <<rowVars, flow>>
    BY <1>1, <1>4, ProceedStep DEF Proceed, Places, IInv, TypeOK
  <1> QED
    BY <1>2, <1>3, <1>4 DEF TransitionEffect

\* persist's lease extension writes the row only for its holder.
LEMMA ExtendLeaseStep ==
  ASSUME IInv, NEW w \in Workers, ExtendLease(w)
  PROVE  IInv'
  <1> USE DEF ExtendLease, Goto
  <1>1. Active(w) /\ mySeq[w] > 0
    BY DEF IInv, TypeOK, Uncaptured, Active
  <1>2. CASE ExtendFence(w)
    <2>1. status[at[w]] \in {"running", "completed"} /\ Current(w)
      BY <1>2 DEF ExtendFence
    <2>2. status' = [status EXCEPT ![at[w]] = status[at[w]]]
      BY <1>2 DEF IInv, TypeOK
    <2>3. marked' = [marked EXCEPT ![w] = marked[w]]
      BY <1>2 DEF IInv, TypeOK
    <2>4. marked[w] => status[at[w]] = "completed" /\ changes[at[w]] = mySeq[w]
      BY <1>1, <2>1 DEF IInv, MarkedOwns, Finished, TerminalFlow
    <2>5. UNCHANGED <<parked, leaseSeq, changes, resolved, pred, src, flow, at, mySeq, route, budget, lost>>
      BY <1>2
    <2>6. lease' \in [Steps -> BOOLEAN] /\ pc' = [pc EXCEPT ![w] = "backoff"]
      BY <1>2 DEF IInv, TypeOK
    <2>7. status[at[w]] \in StepStatuses \ {"none"} /\ marked[w] \in BOOLEAN
      BY <2>1 DEF IInv, TypeOK, StepStatuses, LiveStatuses, TerminalFlow
    <2> QED
      BY <1>1, <2>1, <2>2, <2>3, <2>4, <2>5, <2>6, <2>7, HolderWrites DEF IInv, TypeOK, Places
  <1>3. CASE ~ExtendFence(w)
    BY <1>1, <1>3, ProceedStep DEF Proceed, Abandon, Places, IInv, TypeOK, rowVars
  <1> QED
    BY <1>2, <1>3

\* The last write of a dispatch: its holder gives the step a new status and
\* returns.
LEMMA HolderLeaves ==
  ASSUME IInv, NEW w \in Workers, Active(w), Current(w), mySeq[w] > 0,
         NEW st \in StepStatuses \ {"none"}, status' = [status EXCEPT ![at[w]] = st],
         parked' \in [Steps -> BOOLEAN], lease' \in [Steps -> BOOLEAN], resolved' \in [Steps -> BOOLEAN],
         changes' \in [Steps -> Nat], \A s \in Steps \ {at[w]} : changes'[s] = changes[s],
         UNCHANGED <<leaseSeq, pred, src, at, mySeq, marked, route, budget, lost>>,
         Goto(w, "idle"), flow' \in FlowStatuses, flow \in TerminalFlow => flow' = flow,
         flow' \in TerminalFlow => flow' = flow \/ st \notin LiveStatuses
  PROVE  IInv'
  <1>1. marked[w] \in BOOLEAN /\ marked' = [marked EXCEPT ![w] = marked[w]]
    BY DEF IInv, TypeOK
  <1>2. "idle" \in Places \ {"reap"} /\ pc' = [pc EXCEPT ![w] = "idle"]
    BY DEF Places, Goto
  <1> QED
    BY <1>1, <1>2, HolderWrites DEF IInv, TypeOK

\* releaseLease returns the step only for its holder.
LEMMA DrainReleaseStep ==
  ASSUME IInv, NEW w \in Workers, DrainRelease(w)
  PROVE  IInv'
  <1> USE DEF DrainRelease
  <1>1. Active(w) /\ mySeq[w] > 0
    BY DEF IInv, TypeOK, Uncaptured, Active
  <1>2. CASE ReleaseFence(w)
    <2>1. lease' \in [Steps -> BOOLEAN]
      BY <1>2 DEF IInv, TypeOK
    <2> QED
      BY <1>1, <1>2, <2>1, HolderLeaves DEF ReleaseFence, IInv, TypeOK, StepStatuses, LiveStatuses
  <1>3. CASE ~ReleaseFence(w)
    BY <1>1, <1>3, ProceedStep DEF Proceed, Places, IInv, TypeOK, rowVars
  <1> QED
    BY <1>2, <1>3

\* failStep fails the step only for its holder, and the flow with it.
LEMMA FailStepStep ==
  ASSUME IInv, NEW w \in Workers, FailStep(w)
  PROVE  IInv'
  <1> USE DEF FailStep
  <1>1. Active(w) /\ mySeq[w] > 0
    BY DEF IInv, TypeOK, Uncaptured, Active
  <1>2. CASE FailFence(w)
    <2>1. parked' \in [Steps -> BOOLEAN]
      BY <1>2 DEF IInv, TypeOK
    <2>2. flow' \in FlowStatuses /\ (flow \in TerminalFlow => flow' = flow)
      BY <1>2 DEF IInv, TypeOK, FlowStatuses, TerminalFlow
    <2> QED
      BY <1>1, <1>2, <2>1, <2>2, HolderLeaves
         DEF FailFence, IInv, TypeOK, StepStatuses, LiveStatuses, TerminalFlow
  <1>3. CASE ~FailFence(w)
    BY <1>1, <1>3, ProceedStep DEF Proceed, Places, IInv, TypeOK, rowVars
  <1> QED
    BY <1>2, <1>3

\* The flow.Retry rewind returns the step only for its holder.
LEMMA RetryRewindStep ==
  ASSUME IInv, NEW w \in Workers, RetryRewind(w)
  PROVE  IInv'
  <1> USE DEF RetryRewind
  <1>1. Active(w) /\ mySeq[w] > 0
    BY DEF IInv, TypeOK, Uncaptured, Active
  <1>2. CASE RewindFence(w)
    <2>1. /\ lease' \in [Steps -> BOOLEAN] /\ resolved' \in [Steps -> BOOLEAN]
          /\ changes' \in [Steps -> Nat] /\ \A s \in Steps \ {at[w]} : changes'[s] = changes[s]
      BY <1>2 DEF IInv, TypeOK
    <2> QED
      BY <1>1, <1>2, <2>1, HolderLeaves DEF RewindFence, IInv, TypeOK, StepStatuses, LiveStatuses
  <1>3. CASE ~RewindFence(w)
    BY <1>1, <1>3, ProceedStep DEF Proceed, Places, IInv, TypeOK, rowVars
  <1> QED
    BY <1>2, <1>3

\* handleInterrupt pauses the step only for its holder.
LEMMA HandleInterruptStep ==
  ASSUME IInv, NEW w \in Workers, HandleInterrupt(w)
  PROVE  IInv'
  <1> USE DEF HandleInterrupt
  <1>1. Active(w) /\ mySeq[w] > 0
    BY DEF IInv, TypeOK, Uncaptured, Active
  <1>2. CASE InterruptFence(w)
    <2>1. /\ lease' \in [Steps -> BOOLEAN] /\ resolved' \in [Steps -> BOOLEAN]
          /\ parked' \in [Steps -> BOOLEAN]
          /\ changes' \in [Steps -> Nat] /\ \A s \in Steps \ {at[w]} : changes'[s] = changes[s]
      BY <1>2 DEF IInv, TypeOK
    <2>2. /\ flow' \in FlowStatuses /\ (flow \in TerminalFlow => flow' = flow)
          /\ (flow' \in TerminalFlow => flow' = flow)
      BY <1>2 DEF IInv, TypeOK, FlowStatuses, TerminalFlow
    <2> QED
      BY <1>1, <1>2, <2>1, <2>2, HolderLeaves DEF InterruptFence, IInv, TypeOK, StepStatuses, LiveStatuses
  <1>3. CASE ~InterruptFence(w)
    BY <1>1, <1>3, ProceedStep DEF Proceed, Places, IInv, TypeOK, rowVars
  <1> QED
    BY <1>2, <1>3

\* The recovery defer resets for the holder, or, uncaptured, a running row.
LEMMA RecoveryResetStep ==
  ASSUME IInv, NEW w \in Workers, RecoveryReset(w)
  PROVE  IInv'
  <1> USE DEF RecoveryReset
  <1>1. Active(w)
    BY DEF Active
  <1>2. CASE ResetFence(w) /\ mySeq[w] > 0
    <2>1. lease' \in [Steps -> BOOLEAN] /\ status' = [status EXCEPT ![at[w]] = "pending"]
      BY <1>2 DEF IInv, TypeOK
    <2> QED
      BY <1>1, <1>2, <2>1, HolderLeaves DEF ResetFence, IInv, TypeOK, StepStatuses, LiveStatuses
  <1>3. CASE ResetFence(w) /\ mySeq[w] = 0
    BY <1>3, UncapturedResetStep
  <1>4. CASE ~ResetFence(w)
    BY <1>1, <1>4, ProceedStep DEF Proceed, Places, IInv, TypeOK, rowVars
  <1> QED
    BY <1>2, <1>3, <1>4 DEF IInv, TypeOK

\* The caller parks and goes on to insert its child.
LEMMA ParkCallerStep ==
  ASSUME IInv, NEW w \in Workers, ParkCaller(w)
  PROVE  IInv'
  <1> USE DEF ParkCaller
  <1>1. Active(w) /\ mySeq[w] > 0
    BY DEF IInv, TypeOK, Uncaptured, Active
  <1>2. CASE ParkFence(w)
    <2>1. /\ parked' \in [Steps -> BOOLEAN] /\ changes' \in [Steps -> Nat]
          /\ \A s \in Steps \ {at[w]} : changes'[s] = changes[s]
      BY <1>2 DEF IInv, TypeOK
    <2>2. status' = [status EXCEPT ![at[w]] = "running"]
      BY <1>2 DEF IInv, TypeOK, ParkFence
    <2>3. marked' = [marked EXCEPT ![w] = FALSE]
      BY <1>1, <1>2 DEF IInv, TypeOK, MarkedOwns, Finished, TerminalFlow, ParkFence
    <2> QED
      BY <1>1, <1>2, <2>1, <2>2, <2>3, HolderWrites
         DEF ParkFence, Goto, Places, IInv, TypeOK, StepStatuses, LiveStatuses
  <1>3. CASE ~ParkFence(w)
    BY <1>1, <1>3, ProceedStep DEF Proceed, Places, IInv, TypeOK, rowVars
  <1> QED
    BY <1>2, <1>3

-----------------------------------------------------------------------------
(* The induction *)

\* Whatever a worker does, the invariant survives, as long as a commit's
\* answer is not lost.
LEMMA WorkerStep ==
  ASSUME IInv, NEW w \in Workers, Work(w) \/ Misfortune(w), ~AmbiguousWrite(w)
  PROVE  IInv'
  <1> USE DEF Places
  <1>1. CASE ReadFlow(w)
    BY <1>1, ProceedStep DEF ReadFlow, IInv, TypeOK, Uncaptured, Active
  <1>2. CASE Execute(w) \/ ExecuteRetry(w)
    <2>1. Active(w) /\ mySeq[w] > 0
      BY <1>2 DEF Execute, ExecuteRetry, IInv, TypeOK, Uncaptured, Active
    <2>2. budget' \in Nat /\ lost' \in BOOLEAN
      BY <1>2 DEF Execute, ExecuteRetry, Spend, IInv, TypeOK
    <2> QED
      BY <1>2, <2>1, <2>2, ProceedStep DEF Execute, ExecuteRetry
  <1>3. CASE SpawnChild(w) \/ Crash(w)
    <2>1. Active(w) /\ budget' \in Nat /\ lost' \in BOOLEAN
      BY <1>3 DEF SpawnChild, Crash, Fault, Spend, IInv, TypeOK, Active
    <2> QED
      BY <1>3, <2>1, ProceedStep DEF SpawnChild, Crash, Abandon, Proceed
  <1>4. CASE WriteError(w) \/ ExtendError(w) \/ FailStepError(w) \/ DispositionError(w)
    <2>1. Active(w) /\ mySeq[w] > 0
      BY <1>4 DEF WriteError, ExtendError, FailStepError, DispositionError, IInv, TypeOK, Uncaptured, Active
    <2>2. budget' \in Nat /\ lost' \in BOOLEAN
      BY <1>4 DEF WriteError, ExtendError, FailStepError, DispositionError, Fault, Spend, IInv, TypeOK
    <2>3. PICK place \in {"reset", "extend", "failPersist", "backoff", "idle", "fail"} : Proceed(w, place)
      BY <1>4 DEF WriteError, ExtendError, FailStepError, DispositionError
    <2> QED
      BY <2>1, <2>2, <2>3, ProceedStep
  <1>5. CASE StatementError(w) \/ RecoveryResetError(w)
    <2>1. Active(w) /\ budget' \in Nat /\ lost' \in BOOLEAN
      BY <1>5 DEF StatementError, RecoveryResetError, Fault, Spend, IInv, TypeOK, Active
    <2>2. PICK place \in {"reset", "idle"} : Proceed(w, place)
      BY <1>5 DEF StatementError, RecoveryResetError
    <2> QED
      BY <2>1, <2>2, ProceedStep
  <1> QED
    BY <1>1, <1>2, <1>3, <1>4, <1>5, ClaimStep, ClaimUnreadStep, ClaimContendedStep, ReapStep,
       CompletionWriteStep, TransitionWriteStep, ExtendLeaseStep, DrainReleaseStep, FailStepStep,
       RetryRewindStep, ParkCallerStep, HandleInterruptStep, RecoveryResetStep
       DEF Work, Misfortune

\* A step that changes nothing keeps the invariant.
LEMMA StutterStep ==
  ASSUME IInv, UNCHANGED vars
  PROVE  IInv'
  BY DEF vars, rowVars, workerVars, IInv, TypeOK, GenerationBound, RowExists, OneHolder, Uncaptured,
         ReapsTerminal, MarkedOwns, PredecessorIsClosed, OneSuccessor, Chain, HasSuccessor, Quiet,
         Active, Current, Finished, Inserted

\* The history remembers: only a lost answer writes it.
LEMMA LostOnce ==
  ASSUME Next
  PROVE  UNCHANGED lost \/ \E w \in Workers : AmbiguousWrite(w) /\ lost' = TRUE
  <1>1. CASE Surroundings
    BY <1>1 DEF Surroundings, LeaseExpires, Spend, RecoverExpiredLeases, ReviveCaller, Resume, Terminate
  <1>2. ASSUME NEW w \in Workers, Work(w) PROVE UNCHANGED lost
    BY <1>2 DEF Work, Claim, ReadFlow, Reap, Execute, CompletionWrite, TransitionWrite, ExtendLease,
       FailStep, RetryRewind, ParkCaller, SpawnChild, HandleInterrupt, RecoveryReset
  <1>3. ASSUME NEW w \in Workers, Misfortune(w), ~AmbiguousWrite(w) PROVE UNCHANGED lost
    BY <1>3 DEF Misfortune, Spend, ClaimReadLost, ClaimContended, StatementError, WriteError,
       ExtendError, DrainRelease, ExecuteRetry, FailStepError, DispositionError, RecoveryResetError, Crash
  <1>4. ASSUME NEW w \in Workers, AmbiguousWrite(w) PROVE lost' = TRUE
    BY <1>4 DEF AmbiguousWrite
  <1> QED
    BY <1>1, <1>2, <1>3, <1>4 DEF Next

\* IInv is inductive as long as no commit's answer is lost: it holds of a new
\* flow and every other step keeps it.
THEOREM InductiveInvariant == Spec => [](lost \/ IInv)
  <1>1. Init => lost \/ IInv
    BY InitEstablishes
  <1>2. (lost \/ IInv) /\ [Next]_vars => (lost \/ IInv)'
    <2> SUFFICES ASSUME lost \/ IInv, [Next]_vars, ~lost' PROVE IInv'
      OBVIOUS
    <2>1. CASE UNCHANGED vars
      BY <2>1, StutterStep DEF vars
    <2>2. CASE Next
      <3>1. \A w \in Workers : ~AmbiguousWrite(w)
        BY DEF AmbiguousWrite
      <3>2. ~lost
        BY <2>2, <3>1, LostOnce, Zenon
      <3> QED
        BY <2>2, <3>1, <3>2, WorkerStep, SurroundingsStep DEF Next
    <2> QED
      BY <2>1, <2>2
  <1> QED
    BY <1>1, <1>2, PTL DEF Spec

\* Two workers may overlap on a step in any way the lease, the sweep and the
\* faults allow: the persisted flow is still the work of one execution per
\* step (docs/operations.md), for any number of workers, steps and faults.
THEOREM OneExecution == Spec => []OneExecutionPersisted
  <1>1. lost \/ IInv => OneExecutionPersisted
    BY DEF IInv, PredecessorIsClosed, OneSuccessor, Finished, OneExecutionPersisted
  <1> QED
    BY <1>1, InductiveInvariant, PTL

\* completeFlow and failStep never stop a flow over a live step.
THEOREM SettledIsQuiet == Spec => []SettledFlowIsQuiet
  <1>1. lost \/ IInv => SettledFlowIsQuiet
    BY DEF IInv, Quiet, SettledFlowIsQuiet
  <1> QED
    BY <1>1, InductiveInvariant, PTL

-----------------------------------------------------------------------------
(* What the fences keep under every fault, a lost commit answer included *)

\* A worker that marked its step complete still owns a row that is settled.
MarkedHolds ==
    \A w \in Workers : Active(w) /\ marked[w] => Current(w) /\ status[at[w]] \in TerminalFlow

\* The part of the argument that the loss of an answer leaves standing.
FenceInv ==
    /\ TypeOK
    /\ GenerationBound
    /\ RowExists
    /\ OneHolder
    /\ Uncaptured
    /\ ReapsTerminal
    /\ MarkedHolds

\* A worker's program counter is moved by that worker alone.
LEMMA OthersLeavePc ==
  ASSUME TypeOK, NEW w \in Workers, NEW v \in Workers, v # w, Work(v) \/ Misfortune(v)
  PROVE  pc'[w] = pc[w]
  <1>1. ASSUME NEW place, Goto(v, place) PROVE pc'[w] = pc[w]
    BY <1>1 DEF Goto, TypeOK
  <1>2. CASE Work(v)
    BY <1>1, <1>2 DEF Work, Claim, Dispatch, ReadFlow, Proceed, Reap, Execute, CompletionWrite,
       TransitionWrite, ExtendLease, Abandon, FailStep, RetryRewind, ParkCaller, SpawnChild,
       HandleInterrupt, RecoveryReset
  <1>3. CASE Misfortune(v)
    BY <1>1, <1>3 DEF Misfortune, ClaimReadLost, ClaimContended, Dispatch, Proceed, StatementError,
       WriteError, AmbiguousWrite, ExtendError, DrainRelease, ExecuteRetry, FailStepError,
       DispositionError, RecoveryResetError, Crash, Abandon
  <1> QED
    BY <1>2, <1>3

\* A dispatch that is under way either began with this step, and the row it
\* claimed is running or it captured no generation, or it keeps its row and
\* its generation, and no generation of another row moves.
LEMMA WhoDispatches ==
  ASSUME TypeOK, NEW w \in Workers, Work(w) \/ Misfortune(w)
  PROVE  \/ UNCHANGED <<leaseSeq, at, mySeq>> /\ pc[w] # "idle"
         \/ \E s \in Steps :
              /\ pc[w] = "idle"
              /\ at' = [at EXCEPT ![w] = s] /\ UNCHANGED flow
              /\ \/ /\ Claimable(s) /\ ClaimRow(s)
                    /\ mySeq' = [mySeq EXCEPT ![w] = leaseSeq[s] + 1]
                 \/ /\ Claimable(s) /\ ClaimRow(s) /\ mySeq' = [mySeq EXCEPT ![w] = 0]
                 \/ status[s] # "none" /\ UNCHANGED rowVars /\ mySeq' = [mySeq EXCEPT ![w] = 0]
  <1>1. CASE \E s \in Steps : Claim(w, s) \/ ClaimReadLost(w, s) \/ ClaimContended(w, s)
    BY <1>1 DEF Claim, ClaimReadLost, ClaimContended, Dispatch, ClaimRow
  <1>2. CASE ReadFlow(w) \/ Execute(w) \/ ExecuteRetry(w) \/ SpawnChild(w) \/ Crash(w)
    BY <1>2 DEF ReadFlow, Execute, ExecuteRetry, SpawnChild, Crash, Proceed, Abandon, rowVars
  <1>3. CASE \/ WriteError(w) \/ ExtendError(w) \/ FailStepError(w) \/ DispositionError(w)
             \/ StatementError(w) \/ RecoveryResetError(w)
    BY <1>3 DEF WriteError, ExtendError, FailStepError, DispositionError, StatementError,
                RecoveryResetError, Proceed, rowVars
  <1>4. CASE CompletionWrite(w) \/ TransitionWrite(w) \/ AmbiguousWrite(w)
    <2>1. CompletionEffect(w) => UNCHANGED leaseSeq
      BY DEF CompletionEffect
    <2>2. TransitionEffect(w) => UNCHANGED leaseSeq
      BY DEF TransitionEffect, InsertSuccessor, CompleteFlow, rowVars
    <2> QED
      BY <1>4, <2>1, <2>2 DEF CompletionWrite, TransitionWrite, AmbiguousWrite, rowVars
  <1>5. CASE ExtendLease(w) \/ DrainRelease(w) \/ RecoveryReset(w) \/ Reap(w) \/ FailStep(w)
    BY <1>5 DEF ExtendLease, DrainRelease, RecoveryReset, Reap, FailStep, Abandon, rowVars
  <1>6. CASE RetryRewind(w) \/ ParkCaller(w) \/ HandleInterrupt(w)
    BY <1>6 DEF RetryRewind, ParkCaller, HandleInterrupt
  <1> QED
    BY <1>1, <1>2, <1>3, <1>4, <1>5, <1>6 DEF Work, Misfortune

\* A settled row leaves the settled statuses only when its own holder hands it
\* back (the drain, the recovery defer) and returns; nothing removes a row.
LEMMA WhoRevives ==
  ASSUME FenceInv, NEW w \in Workers, Work(w) \/ Misfortune(w), NEW s \in Steps, status[s] # "none"
  PROVE  /\ status'[s] # "none"
         /\ \/ status[s] \in TerminalFlow => status'[s] \in TerminalFlow
            \/ s = at[w] /\ mySeq[w] > 0 /\ Active(w) /\ Current(w) /\ pc'[w] = "idle"
  <1> DEFINE Kept == /\ status'[s] # "none"
                     /\ status[s] \in TerminalFlow => status'[s] \in TerminalFlow
             HandedBack == s = at[w] /\ mySeq[w] > 0 /\ Active(w) /\ Current(w) /\ pc'[w] = "idle"
  <1>0. TypeOK /\ "none" \notin TerminalFlow
    BY DEF FenceInv, TerminalFlow
  <1> USE <1>0 DEF TypeOK
  <1>1. ASSUME UNCHANGED status PROVE Kept
    BY <1>1
  <1>2. ASSUME NEW t \in Steps, NEW st, st # "none", status' = [status EXCEPT ![t] = st],
               st \in TerminalFlow \/ status[t] \notin TerminalFlow
        PROVE  Kept
    BY <1>2
  <1>3. CASE \E t \in Steps : Claim(w, t) \/ ClaimReadLost(w, t) \/ ClaimContended(w, t)
    BY <1>1, <1>2, <1>3 DEF Claim, ClaimReadLost, ClaimContended, Claimable, ClaimRow, rowVars, TerminalFlow
  <1>4. CASE ReadFlow(w) \/ Execute(w) \/ ExecuteRetry(w) \/ SpawnChild(w) \/ Crash(w)
    BY <1>1, <1>4 DEF ReadFlow, Execute, ExecuteRetry, SpawnChild, Crash, Proceed, Abandon, rowVars
  <1>5. CASE \/ WriteError(w) \/ ExtendError(w) \/ FailStepError(w) \/ DispositionError(w)
             \/ StatementError(w) \/ RecoveryResetError(w)
    BY <1>1, <1>5 DEF WriteError, ExtendError, FailStepError, DispositionError, StatementError,
                      RecoveryResetError, Proceed, rowVars
  <1>6. CASE CompletionWrite(w) \/ TransitionWrite(w) \/ AmbiguousWrite(w)
    <2>1. CompletionEffect(w) => Kept
      BY <1>2 DEF CompletionEffect, TerminalFlow
    <2>2. InsertSuccessor(w) => Kept
      BY <1>2 DEF InsertSuccessor, Free
    <2>3. TransitionEffect(w) => Kept
      BY <1>1, <2>2 DEF TransitionEffect, CompleteFlow, rowVars
    <2> QED
      BY <1>1, <1>6, <2>1, <2>3 DEF CompletionWrite, TransitionWrite, AmbiguousWrite, rowVars
  <1>7. CASE ExtendLease(w) \/ ParkCaller(w)
    BY <1>1, <1>7 DEF ExtendLease, ParkCaller, Abandon, rowVars
  <1>8. CASE FailStep(w) \/ RetryRewind(w) \/ HandleInterrupt(w)
    BY <1>1, <1>2, <1>8 DEF FailStep, RetryRewind, RewindFence, HandleInterrupt, InterruptFence, TerminalFlow
  <1>9. CASE Reap(w)
    <2>1. flow \in TerminalFlow
      BY <1>9 DEF Reap, FenceInv, ReapsTerminal
    <2> QED
      BY <1>2, <1>9, <2>1 DEF Reap
  <1>10. CASE DrainRelease(w)
    <2>1. Active(w) /\ mySeq[w] > 0 /\ pc'[w] = "idle"
      BY <1>10 DEF DrainRelease, Goto, FenceInv, Uncaptured, Active
    <2>2. CASE ReleaseFence(w) /\ status' = [status EXCEPT ![at[w]] = "pending"]
      BY <2>1, <2>2 DEF ReleaseFence
    <2> QED
      BY <1>1, <1>10, <2>2 DEF DrainRelease
  <1>11. CASE RecoveryReset(w)
    <2>1. Active(w) /\ pc'[w] = "idle" /\ (mySeq[w] = 0 => ~marked[w])
      BY <1>11 DEF RecoveryReset, Goto, FenceInv, Uncaptured, Active
    <2>2. CASE ResetFence(w) /\ status' = [status EXCEPT ![at[w]] = "pending"]
      <3>1. CASE mySeq[w] = 0
        BY <1>2, <2>1, <2>2, <3>1 DEF ResetFence, TerminalFlow
      <3>2. CASE mySeq[w] > 0
        BY <2>1, <2>2, <3>2 DEF ResetFence
      <3> QED
        BY <3>1, <3>2
    <2> QED
      BY <1>1, <1>11, <2>2 DEF RecoveryReset
  <1> QED
    BY <1>3, <1>4, <1>5, <1>6, <1>7, <1>8, <1>9, <1>10, <1>11 DEF Work, Misfortune

\* A flow that stopped keeps its status, whoever still works on its steps.
LEMMA FlowStays ==
  ASSUME TypeOK, NEW w \in Workers, Work(w) \/ Misfortune(w), flow \in TerminalFlow
  PROVE  flow' = flow
  <1>1. ASSUME NEW s \in Steps, Claim(w, s) \/ ClaimReadLost(w, s) \/ ClaimContended(w, s)
        PROVE  flow' = flow
    BY <1>1 DEF Claim, ClaimReadLost, ClaimContended, ClaimRow
  <1>2. CASE CompletionWrite(w) \/ TransitionWrite(w) \/ AmbiguousWrite(w)
    <2>1. CompletionEffect(w) => flow' = flow
      BY DEF CompletionEffect
    <2>2. TransitionEffect(w) => flow' = flow
      BY DEF TransitionEffect, FlowRowLocked
    <2> QED
      BY <1>2, <2>1, <2>2 DEF CompletionWrite, TransitionWrite, AmbiguousWrite
  <1>3. CASE Work(w)
    BY <1>1, <1>2, <1>3 DEF Work, ReadFlow, Proceed, Reap, Execute, ExtendLease, Abandon, FailStep,
       RetryRewind, ParkCaller, SpawnChild, HandleInterrupt, RecoveryReset
  <1>4. CASE Misfortune(w)
    BY <1>1, <1>2, <1>4 DEF Misfortune, Proceed, StatementError, WriteError, ExtendError, DrainRelease,
       ExecuteRetry, FailStepError, DispositionError, RecoveryResetError, Crash, Abandon
  <1> QED
    BY <1>3, <1>4

\* What a dispatch has marked: a claim starts it afresh, and only a completion
\* write that matched its fence marks.
LEMMA WhoMarks ==
  ASSUME TypeOK, NEW w \in Workers, Work(w) \/ Misfortune(w)
  PROVE  \/ UNCHANGED marked /\ pc[w] # "idle"
         \/ marked' = [marked EXCEPT ![w] = FALSE] /\ pc[w] = "idle"
         \/ /\ pc[w] \in {"write", "backoff"} /\ marked' = [marked EXCEPT ![w] = TRUE]
            /\ Current(w) /\ UNCHANGED <<leaseSeq, at, mySeq>>
            /\ status' = [status EXCEPT ![at[w]] = "completed"]
  <1>1. CASE \E s \in Steps : Claim(w, s) \/ ClaimReadLost(w, s) \/ ClaimContended(w, s)
    BY <1>1 DEF Claim, ClaimReadLost, ClaimContended, Dispatch
  <1>2. CASE CompletionWrite(w)
    BY <1>2 DEF CompletionWrite, CompletionFence, CompletionEffect
  <1>3. CASE TransitionWrite(w) \/ AmbiguousWrite(w)
    BY <1>3 DEF TransitionWrite, AmbiguousWrite
  <1>4. CASE Work(w)
    BY <1>1, <1>2, <1>3, <1>4 DEF Work, ReadFlow, Proceed, Reap, Execute, ExtendLease, Abandon, FailStep,
       RetryRewind, ParkCaller, SpawnChild, HandleInterrupt, RecoveryReset
  <1>5. CASE Misfortune(w)
    BY <1>1, <1>3, <1>5 DEF Misfortune, Proceed, StatementError, WriteError, ExtendError, DrainRelease,
       ExecuteRetry, FailStepError, DispositionError, RecoveryResetError, Crash, Abandon
  <1> QED
    BY <1>4, <1>5

\* Where a step leaves its worker: a reap follows a terminal flow, and without
\* a generation there is the reset and nothing after it.
LEMMA WhereNext ==
  ASSUME FenceInv, NEW w \in Workers, Work(w) \/ Misfortune(w)
  PROVE  /\ pc'[w] = "reap" => flow \in TerminalFlow
         /\ pc[w] # "idle" /\ mySeq[w] = 0 => pc'[w] \in {"idle", "reset"}
         /\ pc[w] = "idle" => pc'[w] \in {"claimed", "reset", "idle"} /\ ~marked'[w]
                              /\ (pc'[w] = "claimed" => mySeq'[w] > 0)
  <1>0. TypeOK /\ (pc[w] # "idle" /\ mySeq[w] = 0 => pc[w] = "reset")
    BY DEF FenceInv, Uncaptured, Active
  <1> USE <1>0 DEF TypeOK, Goto
  <1>1. CASE \E s \in Steps : Claim(w, s) \/ ClaimReadLost(w, s) \/ ClaimContended(w, s)
    BY <1>1 DEF Claim, ClaimReadLost, ClaimContended, Dispatch
  <1>2. CASE ReadFlow(w) \/ Execute(w) \/ ExecuteRetry(w) \/ SpawnChild(w) \/ Crash(w)
    BY <1>2 DEF ReadFlow, Execute, ExecuteRetry, SpawnChild, Crash, Proceed, Abandon
  <1>3. CASE CompletionWrite(w) \/ TransitionWrite(w) \/ AmbiguousWrite(w)
    BY <1>3 DEF CompletionWrite, TransitionWrite, AmbiguousWrite
  <1>4. CASE WriteError(w) \/ ExtendError(w) \/ DispositionError(w)
    BY <1>4 DEF WriteError, ExtendError, DispositionError, Proceed
  <1>5. CASE FailStepError(w)
    BY <1>5 DEF FailStepError, Proceed
  <1>6. CASE StatementError(w) \/ RecoveryResetError(w) \/ RecoveryReset(w)
    BY <1>6 DEF StatementError, RecoveryResetError, RecoveryReset, Proceed
  <1>7. CASE Reap(w) \/ ExtendLease(w) \/ FailStep(w) \/ DrainRelease(w)
    BY <1>7 DEF Reap, ExtendLease, FailStep, DrainRelease, Abandon
  <1>8. CASE RetryRewind(w) \/ ParkCaller(w) \/ HandleInterrupt(w)
    BY <1>8 DEF RetryRewind, ParkCaller, HandleInterrupt
  <1> QED
    BY <1>1, <1>2, <1>3, <1>4, <1>5, <1>6, <1>7, <1>8 DEF Work, Misfortune

\* No step of a worker breaks what the fences keep.
LEMMA FenceWork ==
  ASSUME FenceInv, NEW w \in Workers, Work(w) \/ Misfortune(w)
  PROVE  FenceInv'
  <1>t. TypeOK /\ TypeOK'
    BY WorkerTypes DEF FenceInv
  <1>o. ASSUME NEW v \in Workers, v # w PROVE pc'[v] = pc[v]
    BY <1>o, <1>t, OthersLeavePc
  <1>1. ASSUME NEW s \in Steps, pc[w] = "idle", at' = [at EXCEPT ![w] = s], UNCHANGED flow,
               \/ /\ Claimable(s) /\ ClaimRow(s)
                  /\ mySeq' = [mySeq EXCEPT ![w] = leaseSeq[s] + 1]
               \/ /\ Claimable(s) /\ ClaimRow(s) /\ mySeq' = [mySeq EXCEPT ![w] = 0]
               \/ status[s] # "none" /\ UNCHANGED rowVars /\ mySeq' = [mySeq EXCEPT ![w] = 0]
        PROVE  FenceInv'
    <2> USE <1>1, <1>t DEF TypeOK, FenceInv
    <2>1. /\ marked' = [marked EXCEPT ![w] = FALSE]
          /\ pc'[w] \in {"claimed", "reset", "idle"} /\ (pc'[w] = "claimed" => mySeq'[w] > 0)
      BY WhoMarks, WhereNext
    <2>2. GenerationBound' /\ RowExists'
      BY DEF GenerationBound, RowExists, ClaimRow, Claimable, rowVars
    <2>3. OneHolder'
      BY <1>o DEF OneHolder, GenerationBound, Active, ClaimRow, rowVars
    <2>4. Uncaptured'
      BY <1>o, <2>1 DEF Uncaptured, Active
    <2>5. ReapsTerminal'
      BY <1>o, <2>1 DEF ReapsTerminal
    <2>6. MarkedHolds'
      <3> SUFFICES ASSUME NEW v \in Workers, Active(v)', marked'[v]
                   PROVE  Current(v)' /\ status'[at'[v]] \in TerminalFlow
        BY DEF MarkedHolds
      <3>1. v # w
        BY <2>1
      <3>2. Current(v) /\ status[at[v]] \in TerminalFlow /\ at'[v] = at[v] /\ mySeq'[v] = mySeq[v]
        BY <1>o, <2>1, <3>1 DEF MarkedHolds, Active
      <3>3. Claimable(s) => at[v] # s
        BY <3>2 DEF Claimable, TerminalFlow
      <3> QED
        BY <3>2, <3>3 DEF ClaimRow, Current, rowVars
    <2> QED
      BY <2>2, <2>3, <2>4, <2>5, <2>6
  <1>2. ASSUME UNCHANGED <<leaseSeq, at, mySeq>>, pc[w] # "idle"
        PROVE  FenceInv'
    <2> USE <1>2, <1>t DEF TypeOK, FenceInv
    <2>1. ASSUME NEW v \in Workers, Active(v)' PROVE Active(v)
      BY <1>o, <2>1 DEF Active
    <2>2. GenerationBound'
      BY DEF GenerationBound
    <2>3. RowExists'
      BY WhoRevives DEF RowExists
    <2>4. OneHolder'
      BY <2>1 DEF OneHolder
    <2>5. \A v \in Workers : v # w => marked'[v] = marked[v]
      BY WhoMarks
    <2>6. mySeq[w] = 0 => ~marked'[w]
      <3>1. ASSUME mySeq[w] = 0 PROVE ~marked[w] /\ pc[w] = "reset"
        BY <3>1 DEF Uncaptured, Active
      <3> QED
        BY <3>1, WhoMarks
    <2>7. Uncaptured'
      BY <1>o, <2>1, <2>5, <2>6, WhereNext DEF Uncaptured, Active
    <2>8. ReapsTerminal'
      BY <1>o, WhereNext, FlowStays DEF ReapsTerminal
    <2>9. MarkedHolds'
      <3> SUFFICES ASSUME NEW v \in Workers, Active(v)', marked'[v]
                   PROVE  Current(v)' /\ status'[at'[v]] \in TerminalFlow
        BY DEF MarkedHolds
      <3>1. Active(v) /\ status[at[v]] # "none" /\ at[v] \in Steps
        BY <2>1 DEF RowExists
      <3>2. CASE marked[v]
        <4>1. Current(v) /\ status[at[v]] \in TerminalFlow /\ mySeq[v] > 0
          BY <3>1, <3>2 DEF MarkedHolds, Uncaptured
        <4>2. ASSUME at[v] = at[w], mySeq[w] > 0, Active(w), Current(w) PROVE v = w
          BY <3>1, <4>1, <4>2 DEF OneHolder, Current
        <4>3. status'[at[v]] \in TerminalFlow
          BY <3>1, <4>1, <4>2, WhoRevives DEF Active
        <4> QED
          BY <4>1, <4>3 DEF Current
      <3>3. CASE ~marked[v]
        <4>1. /\ v = w /\ Current(w) /\ status' = [status EXCEPT ![at[w]] = "completed"]
          BY <3>3, WhoMarks
        <4> QED
          BY <4>1 DEF Current, TerminalFlow
      <3> QED
        BY <3>2, <3>3
    <2> QED
      BY <2>2, <2>3, <2>4, <2>7, <2>8, <2>9
  <1> QED
    BY <1>t, <1>1, <1>2, WhoDispatches

\* Nor does the clock, a sweep, a child, Resume or Terminate.
LEMMA FenceSurroundings ==
  ASSUME FenceInv, Surroundings
  PROVE  FenceInv'
  <1>1. UNCHANGED <<leaseSeq, workerVars>> /\ (flow \in TerminalFlow => flow' = flow)
    BY DEF Surroundings, LeaseExpires, RecoverExpiredLeases, ReviveCaller, Resume, Terminate, TerminalFlow
  <1>2. \A s \in Steps : /\ status[s] # "none" => status'[s] # "none"
                         /\ status[s] \in TerminalFlow => status'[s] \in TerminalFlow
    BY DEF FenceInv, TypeOK, Surroundings, LeaseExpires, RecoverExpiredLeases, Expired, ReviveCaller, Resume,
           Terminate, TerminalFlow, LiveStatuses
  <1>3. TypeOK'
    BY SurroundingsTypes DEF FenceInv
  <1> QED
    BY <1>1, <1>2, <1>3 DEF FenceInv, TypeOK, GenerationBound, RowExists, OneHolder, Uncaptured,
       ReapsTerminal, MarkedHolds, Active, Current, workerVars

\* The generations, who holds them and what a marked dispatch may rely on, for
\* any number of workers, steps and faults.
THEOREM FencesHold == Spec => []FenceInv
  <1>1. Init => FenceInv
    BY InitEstablishes DEF IInv, FenceInv, MarkedOwns, Finished, MarkedHolds
  <1>2. FenceInv /\ [Next]_vars => FenceInv'
    <2>1. FenceInv /\ UNCHANGED vars => FenceInv'
      BY DEF vars, rowVars, workerVars, FenceInv, TypeOK, GenerationBound, RowExists, OneHolder, Uncaptured,
             ReapsTerminal, MarkedHolds, Active, Current
    <2> QED
      BY <2>1, FenceWork, FenceSurroundings DEF Next
  <1> QED
    BY <1>1, <1>2, PTL DEF Spec

\* A worker whose generation is behind the row's is not current, and none of
\* the writes that depend on being current is open to it: the transition is a
\* marked worker's, the completion write matches nothing.
LEMMA StaleStep ==
  ASSUME FenceInv, NEW w \in Workers, Stale(w), pc[w] # "reap", Work(w) \/ Misfortune(w)
  PROVE  UNCHANGED <<rowVars, flow>>
  <1>1. pc[w] # "idle" /\ mySeq[w] > 0 /\ ~Current(w)
    BY DEF Stale, Current, FenceInv, TypeOK
  <1>2. ~marked[w]
    BY <1>1 DEF FenceInv, MarkedHolds, Active
  <1>3. ~Reap(w) /\ ~TransitionWrite(w) /\ ~AmbiguousWrite(w)
    BY <1>1, <1>2 DEF Reap, TransitionWrite, AmbiguousWrite, CompletionFence
  <1>4. \A s \in Steps : ~Claim(w, s) /\ ~ClaimReadLost(w, s) /\ ~ClaimContended(w, s)
    BY <1>1 DEF Claim, ClaimReadLost, ClaimContended
  <1>5. CASE CompletionWrite(w) \/ ExtendLease(w) \/ DrainRelease(w)
    BY <1>1, <1>5 DEF CompletionWrite, CompletionFence, ExtendLease, ExtendFence, DrainRelease,
                      ReleaseFence, Abandon, rowVars
  <1>6. CASE FailStep(w) \/ RetryRewind(w) \/ ParkCaller(w)
    BY <1>1, <1>6 DEF FailStep, FailFence, RetryRewind, RewindFence, ParkCaller, ParkFence, rowVars
  <1>7. CASE HandleInterrupt(w) \/ RecoveryReset(w)
    BY <1>1, <1>7 DEF HandleInterrupt, InterruptFence, RecoveryReset, ResetFence, rowVars
  <1>8. CASE ReadFlow(w) \/ Execute(w) \/ ExecuteRetry(w) \/ SpawnChild(w) \/ Crash(w)
    BY <1>8 DEF ReadFlow, Execute, ExecuteRetry, SpawnChild, Crash, Proceed, Abandon
  <1>9. CASE WriteError(w) \/ ExtendError(w) \/ FailStepError(w) \/ DispositionError(w)
    BY <1>9 DEF WriteError, ExtendError, FailStepError, DispositionError, Proceed
  <1>10. CASE StatementError(w) \/ RecoveryResetError(w)
    BY <1>10 DEF StatementError, RecoveryResetError, Proceed
  <1> QED
    BY <1>3, <1>4, <1>5, <1>6, <1>7, <1>8, <1>9, <1>10 DEF Work, Misfortune

\* "A late worker's writes are fenced off" (docs/tasks.md): from the moment a
\* peer claims the step, the superseded worker changes no row, for any number
\* of workers, steps and faults, lost commit answers included.
THEOREM SupersededIsHarmless == Spec => SupersededWritesNothing
  <1> DEFINE Harmless == \A w \in Workers :
               Stale(w) /\ pc'[w] # pc[w] /\ pc[w] # "reap" => UNCHANGED <<rowVars, flow>>
  <1>1. FenceInv /\ [Next]_vars => [Harmless]_vars
    <2> SUFFICES ASSUME FenceInv, Next, NEW w \in Workers, Stale(w), pc'[w] # pc[w], pc[w] # "reap"
                 PROVE  UNCHANGED <<rowVars, flow>>
      OBVIOUS
    <2>1. ~Surroundings
      BY DEF Surroundings, LeaseExpires, RecoverExpiredLeases, ReviveCaller, Resume, Terminate, workerVars
    <2>2. Work(w) \/ Misfortune(w)
      BY <2>1, OthersLeavePc DEF Next, FenceInv
    <2> QED
      BY <2>2, StaleStep
  <1> QED
    BY <1>1, FencesHold, PTL DEF Spec, SupersededWritesNothing

-----------------------------------------------------------------------------
(* Terminal rows *)

\* Nobody still dispatches a failed row under its current generation.
FailedIsClosed ==
    \A w \in Workers : Active(w) /\ mySeq[w] > 0 /\ status[at[w]] = "failed" => ~Current(w)

\* Only failStep and the reap write "failed".
LEMMA WhoFails ==
  ASSUME TypeOK, NEW w \in Workers, Work(w) \/ Misfortune(w), ~AmbiguousWrite(w),
         NEW s \in Steps, status'[s] = "failed", status[s] # "failed"
  PROVE  s = at[w] /\ ((FailStep(w) /\ FailFence(w)) \/ (Reap(w) /\ flow = "failed"))
  <1> USE DEF TypeOK
  <1>1. ASSUME UNCHANGED status PROVE FALSE
    BY <1>1
  <1>2. ASSUME NEW t \in Steps, status' = [status EXCEPT ![t] = "pending"] PROVE FALSE
    BY <1>2
  <1>3. ASSUME NEW t \in Steps, ClaimRow(t) PROVE FALSE
    BY <1>3 DEF ClaimRow
  <1>4. CASE \E t \in Steps : Claim(w, t) \/ ClaimReadLost(w, t) \/ ClaimContended(w, t)
    BY <1>1, <1>3, <1>4 DEF Claim, ClaimReadLost, ClaimContended, rowVars
  <1>5. CASE ReadFlow(w) \/ Execute(w) \/ ExecuteRetry(w) \/ SpawnChild(w) \/ Crash(w)
    BY <1>1, <1>5 DEF ReadFlow, Execute, ExecuteRetry, SpawnChild, Crash, Proceed, Abandon, rowVars
  <1>6. CASE \/ WriteError(w) \/ ExtendError(w) \/ FailStepError(w) \/ DispositionError(w)
             \/ StatementError(w) \/ RecoveryResetError(w)
    BY <1>1, <1>6 DEF WriteError, ExtendError, FailStepError, DispositionError, StatementError,
                      RecoveryResetError, Proceed, rowVars
  <1>7. CASE CompletionWrite(w)
    <2>1. CASE CompletionEffect(w)
      BY <2>1 DEF CompletionEffect
    <2> QED
      BY <1>1, <1>7, <2>1 DEF CompletionWrite, rowVars
  <1>8. CASE TransitionWrite(w)
    <2>1. CASE InsertSuccessor(w)
      BY <1>2, <2>1 DEF InsertSuccessor, Free
    <2> QED
      BY <1>1, <1>8, <2>1 DEF TransitionWrite, TransitionEffect, CompleteFlow, rowVars
  <1>9. CASE ExtendLease(w) \/ ParkCaller(w)
    BY <1>1, <1>9 DEF ExtendLease, ParkCaller, Abandon, rowVars
  <1>10. CASE DrainRelease(w) \/ RetryRewind(w) \/ RecoveryReset(w)
    BY <1>1, <1>2, <1>10 DEF DrainRelease, RetryRewind, RecoveryReset
  <1>11. CASE HandleInterrupt(w)
    BY <1>11 DEF HandleInterrupt
  <1>12. CASE FailStep(w)
    BY <1>12 DEF FailStep
  <1>13. CASE Reap(w)
    BY <1>13 DEF Reap
  <1> QED
    BY <1>4, <1>5, <1>6, <1>7, <1>8, <1>9, <1>10, <1>11, <1>12, <1>13 DEF Work, Misfortune

\* A worker keeps failed rows closed: whoever fails a row holds it and leaves,
\* and a failed flow is reaped after its last dispatch.
LEMMA FailedStaysClosedWork ==
  ASSUME IInv, FailedIsClosed, NEW w \in Workers, Work(w) \/ Misfortune(w), ~AmbiguousWrite(w)
  PROVE  FailedIsClosed'
  <1> SUFFICES ASSUME NEW v \in Workers, Active(v)', mySeq'[v] > 0, (status[at[v]] = "failed")', Current(v)'
               PROVE  FALSE
    BY DEF FailedIsClosed
  <1>t. TypeOK /\ TypeOK'
    BY WorkerTypes DEF IInv
  <1>1. ASSUME NEW s \in Steps, pc[w] = "idle", at' = [at EXCEPT ![w] = s], Claimable(s), ClaimRow(s),
               mySeq' = [mySeq EXCEPT ![w] = leaseSeq[s] + 1] \/ mySeq' = [mySeq EXCEPT ![w] = 0]
        PROVE  FALSE
    <2>1. v # w
      BY <1>1, <1>t DEF ClaimRow, TypeOK
    <2>2. at'[v] = at[v] /\ mySeq'[v] = mySeq[v] /\ pc'[v] = pc[v]
      BY <1>1, <1>t, <2>1, OthersLeavePc DEF TypeOK
    <2>3. at[v] # s
      BY <1>1, <1>t, <2>2 DEF ClaimRow, TypeOK
    <2> QED
      BY <1>1, <1>t, <2>2, <2>3 DEF ClaimRow, TypeOK, FailedIsClosed, Active, Current
  <1>2. ASSUME NEW s \in Steps, pc[w] = "idle", at' = [at EXCEPT ![w] = s], UNCHANGED rowVars,
               mySeq' = [mySeq EXCEPT ![w] = 0]
        PROVE  FALSE
    <2>1. v # w
      BY <1>2, <1>t DEF TypeOK
    <2>2. at'[v] = at[v] /\ mySeq'[v] = mySeq[v] /\ pc'[v] = pc[v]
      BY <1>2, <1>t, <2>1, OthersLeavePc DEF TypeOK
    <2> QED
      BY <1>2, <2>2 DEF rowVars, FailedIsClosed, Active, Current
  <1>3. ASSUME UNCHANGED <<leaseSeq, at, mySeq>>, pc[w] # "idle"
        PROVE  FALSE
    <2>1. Active(v) /\ at[v] \in Steps /\ Current(v) /\ mySeq[v] > 0 /\ status'[at[v]] = "failed"
      BY <1>3, <1>t, OthersLeavePc DEF Active, Current, TypeOK
    <2>2. status[at[v]] # "failed"
      BY <2>1 DEF FailedIsClosed
    <2>3. at[v] = at[w] /\ ((FailStep(w) /\ FailFence(w)) \/ (Reap(w) /\ flow = "failed"))
      BY <1>t, <2>1, <2>2, WhoFails
    <2>4. CASE FailStep(w) /\ FailFence(w)
      <3>1. v = w
        BY <1>3, <2>1, <2>3, <2>4 DEF FailFence, Current, Active, IInv, OneHolder
      <3> QED
        BY <1>t, <2>4, <3>1 DEF FailStep, Goto, TypeOK, Active
    <2>5. CASE flow = "failed"
      BY <2>1, <2>5 DEF IInv, Quiet
    <2> QED
      BY <2>3, <2>4, <2>5
  <1> QED
    BY <1>t, <1>1, <1>2, <1>3, WhoDispatches

\* Failed rows stay closed under every step but the loss of an answer.
LEMMA FailedStaysClosed ==
  ASSUME IInv, FailedIsClosed, [Next]_vars, \A w \in Workers : ~AmbiguousWrite(w)
  PROVE  FailedIsClosed'
  <1>1. CASE UNCHANGED vars
    BY <1>1 DEF vars, rowVars, workerVars, FailedIsClosed, Active, Current
  <1>2. CASE Surroundings
    <2>1. UNCHANGED <<leaseSeq, workerVars>>
      BY <1>2 DEF Surroundings, LeaseExpires, RecoverExpiredLeases, ReviveCaller, Resume, Terminate
    <2>2. \A s \in Steps : status'[s] = "failed" => status[s] = "failed"
      BY <1>2 DEF IInv, TypeOK, Surroundings, LeaseExpires, RecoverExpiredLeases, ReviveCaller, Resume, Terminate
    <2> QED
      BY <2>1, <2>2 DEF FailedIsClosed, Active, Current, workerVars, IInv, TypeOK
  <1> QED
    BY <1>1, <1>2, FailedStaysClosedWork DEF Next

\* What one worker's step leaves of the rows that are settled: but for the
\* reap, only the completion write of a failed row's own holder rewrites them.
LEMMA SettledRowsKept ==
  ASSUME FenceInv, NEW w \in Workers, Work(w) \/ Misfortune(w)
  PROVE  /\ flow \in TerminalFlow => flow' = flow
         /\ \A s \in Steps : status[s] = "none" /\ flow \in TerminalFlow => status'[s] = "none"
         /\ \A s \in Steps : status[s] \in {"failed", "terminated"} =>
               \/ status'[s] = status[s]
               \/ status'[s] = flow /\ pc[w] = "reap" /\ at[w] = s
               \/ /\ status[s] = "failed" /\ status'[s] = "completed"
                  /\ s = at[w] /\ Active(w) /\ mySeq[w] > 0 /\ Current(w)
  <1> DEFINE Kept == /\ flow \in TerminalFlow => flow' = flow
                     /\ \A s \in Steps : status[s] = "none" /\ flow \in TerminalFlow => status'[s] = "none"
                     /\ \A s \in Steps : status[s] \in {"failed", "terminated"} =>
                           \/ status'[s] = status[s]
                           \/ status'[s] = flow /\ pc[w] = "reap" /\ at[w] = s
                           \/ /\ status[s] = "failed" /\ status'[s] = "completed"
                              /\ s = at[w] /\ Active(w) /\ mySeq[w] > 0 /\ Current(w)
  <1>0. /\ TypeOK /\ status[at[w]] # "none"
        /\ flow \in TerminalFlow => flow' = flow
    BY FlowStays DEF FenceInv, RowExists
  <1> USE <1>0 DEF TypeOK
  <1>1. ASSUME UNCHANGED status PROVE Kept
    BY <1>1
  <1>2. ASSUME NEW s \in Steps, NEW st, status[s] \notin {"none", "failed", "terminated"},
               status' = [status EXCEPT ![s] = st]
        PROVE  Kept
    BY <1>2
  <1>3. CASE \E s \in Steps : Claim(w, s) \/ ClaimReadLost(w, s) \/ ClaimContended(w, s)
    BY <1>1, <1>2, <1>3 DEF Claim, ClaimReadLost, ClaimContended, Claimable, ClaimRow, rowVars
  <1>4. CASE ReadFlow(w) \/ Execute(w) \/ ExecuteRetry(w) \/ SpawnChild(w) \/ Crash(w)
    BY <1>1, <1>4 DEF ReadFlow, Execute, ExecuteRetry, SpawnChild, Crash, Proceed, Abandon, rowVars
  <1>5. CASE \/ WriteError(w) \/ ExtendError(w) \/ FailStepError(w) \/ DispositionError(w)
             \/ StatementError(w) \/ RecoveryResetError(w)
    BY <1>1, <1>5 DEF WriteError, ExtendError, FailStepError, DispositionError, StatementError,
                      RecoveryResetError, Proceed, rowVars
  <1>6. CASE CompletionWrite(w) \/ TransitionWrite(w) \/ AmbiguousWrite(w)
    <2>1. ASSUME CompletionFence(w), CompletionEffect(w) PROVE Kept
      <3>1. Active(w) /\ mySeq[w] > 0 /\ Current(w) /\ status[at[w]] # "terminated"
        BY <1>6, <2>1 DEF CompletionWrite, TransitionWrite, AmbiguousWrite, CompletionFence, FenceInv,
                          Uncaptured, Active
      <3> QED
        BY <2>1, <3>1 DEF CompletionEffect
    <2>2. ASSUME TransitionEffect(w) PROVE Kept
      <3>1. CASE FlowRowLocked /\ InsertSuccessor(w)
        <4>1. PICK n \in Free : status' = [status EXCEPT ![n] = "pending"]
          BY <3>1 DEF InsertSuccessor
        <4> QED
          BY <3>1, <4>1 DEF Free, FlowRowLocked
      <3> QED
        BY <1>1, <2>2, <3>1 DEF TransitionEffect, CompleteFlow, rowVars
    <2> QED
      BY <1>1, <1>6, <2>1, <2>2 DEF CompletionWrite, TransitionWrite, AmbiguousWrite, rowVars
  <1>8. CASE ExtendLease(w) \/ ParkCaller(w)
    BY <1>1, <1>8 DEF ExtendLease, ParkCaller, Abandon, rowVars
  <1>9. CASE DrainRelease(w) \/ RetryRewind(w)
    BY <1>1, <1>2, <1>9 DEF DrainRelease, RetryRewind, ReleaseFence, RewindFence
  <1>10. CASE RecoveryReset(w)
    BY <1>1, <1>2, <1>10 DEF RecoveryReset, ResetFence
  <1>11. CASE HandleInterrupt(w)
    BY <1>1, <1>2, <1>11 DEF HandleInterrupt, InterruptFence
  <1>12. CASE FailStep(w)
    BY <1>1, <1>2, <1>12 DEF FailStep, FailFence
  <1>13. CASE Reap(w)
    BY <1>13 DEF Reap
  <1> QED
    BY <1>3, <1>4, <1>5, <1>6, <1>8, <1>9, <1>10, <1>11, <1>12, <1>13 DEF Work, Misfortune

\* A flow that stopped keeps its status and gains no step, and a failed or
\* terminated step is never revived, whoever was still dispatching it when
\* Terminate, failStep or a child's failure stopped it, for any number of
\* workers, steps and faults. Only once a commit's answer has been lost may a
\* failed row still have a holder, whose completion write it then takes.
THEOREM TerminalRowsAreImmutable == Spec => TerminalIsImmutable
  <1> DEFINE Kept ==
        /\ flow \in TerminalFlow => flow' = flow
        /\ \A s \in Steps : status[s] = "none" /\ flow \in TerminalFlow => status'[s] = "none"
        /\ \A s \in Steps : status[s] \in {"failed", "terminated"} =>
              \/ status'[s] = status[s]
              \/ status'[s] = flow /\ \E w \in Workers : pc[w] = "reap" /\ at[w] = s
              \/ lost /\ status[s] = "failed" /\ status'[s] = "completed"
  <1>1. Init => lost \/ (IInv /\ FailedIsClosed)
    BY InitEstablishes DEF Init, FailedIsClosed, Active
  <1>2. (lost \/ (IInv /\ FailedIsClosed)) /\ [Next]_vars /\ (lost \/ IInv)'
           => (lost \/ (IInv /\ FailedIsClosed))'
    <2> SUFFICES ASSUME lost \/ (IInv /\ FailedIsClosed), [Next]_vars, ~lost' PROVE FailedIsClosed'
      OBVIOUS
    <2>1. \A w \in Workers : ~AmbiguousWrite(w)
      BY DEF AmbiguousWrite
    <2>2. ~lost
      BY <2>1, LostOnce, Zenon DEF vars
    <2> QED
      BY <2>1, <2>2, FailedStaysClosed
  <1>3. FenceInv /\ (lost \/ (IInv /\ FailedIsClosed)) /\ [Next]_vars => [Kept]_vars
    <2> SUFFICES ASSUME FenceInv, lost \/ FailedIsClosed, Next PROVE Kept
      OBVIOUS
    <2>1. CASE Surroundings
      BY <2>1 DEF FenceInv, TypeOK, Surroundings, LeaseExpires, RecoverExpiredLeases, Expired, ReviveCaller,
                  Resume, Terminate, TerminalFlow, LiveStatuses
    <2>2. ASSUME NEW w \in Workers, Work(w) \/ Misfortune(w) PROVE Kept
      BY <2>2, SettledRowsKept DEF FailedIsClosed
    <2> QED
      BY <2>1, <2>2 DEF Next
  <1> QED
    BY <1>1, <1>2, <1>3, InductiveInvariant, FencesHold, PTL DEF Spec, TerminalIsImmutable

-----------------------------------------------------------------------------
(* Pending rows *)

\* No row that waits for a claim, or for its insert, carries a lease.
WaitingIsOffered == \A s \in Steps : status[s] \in {"none", "pending"} => ~lease[s]

\* Whatever a worker writes, a row it leaves pending carries no lease.
LEMMA OfferedWork ==
  ASSUME TypeOK, WaitingIsOffered, NEW w \in Workers, Work(w) \/ Misfortune(w)
  PROVE  WaitingIsOffered'
  <1> USE DEF TypeOK, WaitingIsOffered
  <1>1. ASSUME UNCHANGED <<status, lease>> PROVE WaitingIsOffered'
    BY <1>1
  <1>2. ASSUME NEW s \in Steps, NEW st, st \notin {"none", "pending"},
               status' = [status EXCEPT ![s] = st],
               UNCHANGED lease \/ lease' = [lease EXCEPT ![s] = TRUE] \/ lease' = [lease EXCEPT ![s] = FALSE]
        PROVE  WaitingIsOffered'
    BY <1>2
  <1>3. ASSUME NEW s \in Steps, status' = [status EXCEPT ![s] = "pending"],
               lease' = [lease EXCEPT ![s] = FALSE]
        PROVE  WaitingIsOffered'
    BY <1>3
  <1>4. CASE \E s \in Steps : Claim(w, s) \/ ClaimReadLost(w, s) \/ ClaimContended(w, s)
    BY <1>1, <1>2, <1>4 DEF Claim, ClaimReadLost, ClaimContended, ClaimRow, rowVars
  <1>5. CASE ReadFlow(w) \/ Execute(w) \/ ExecuteRetry(w) \/ SpawnChild(w) \/ Crash(w)
    BY <1>1, <1>5 DEF ReadFlow, Execute, ExecuteRetry, SpawnChild, Crash, Proceed, Abandon, rowVars
  <1>6. CASE \/ WriteError(w) \/ ExtendError(w) \/ FailStepError(w) \/ DispositionError(w)
             \/ StatementError(w) \/ RecoveryResetError(w)
    BY <1>1, <1>6 DEF WriteError, ExtendError, FailStepError, DispositionError, StatementError,
                      RecoveryResetError, Proceed, rowVars
  <1>7. CASE CompletionWrite(w) \/ TransitionWrite(w) \/ AmbiguousWrite(w)
    <2>1. CompletionEffect(w) => WaitingIsOffered'
      BY <1>2 DEF CompletionEffect
    <2>2. InsertSuccessor(w) => WaitingIsOffered'
      BY DEF InsertSuccessor, Free
    <2>3. TransitionEffect(w) => WaitingIsOffered'
      BY <1>1, <2>2 DEF TransitionEffect, CompleteFlow, rowVars
    <2> QED
      BY <1>1, <1>7, <2>1, <2>3 DEF CompletionWrite, TransitionWrite, AmbiguousWrite, rowVars
  <1>8. CASE ExtendLease(w)
    <2>1. CASE ExtendFence(w) /\ lease' = [lease EXCEPT ![at[w]] = TRUE] /\ UNCHANGED status
      BY <2>1 DEF ExtendFence
    <2> QED
      BY <1>1, <1>8, <2>1 DEF ExtendLease, Abandon, rowVars
  <1>9. CASE DrainRelease(w) \/ RetryRewind(w) \/ RecoveryReset(w)
    BY <1>1, <1>3, <1>9 DEF DrainRelease, RetryRewind, RecoveryReset
  <1>10. CASE FailStep(w) \/ ParkCaller(w)
    BY <1>1, <1>2, <1>10 DEF FailStep, ParkCaller
  <1>11. CASE HandleInterrupt(w)
    BY <1>1, <1>2, <1>11 DEF HandleInterrupt
  <1>12. CASE Reap(w)
    <2>1. flow \notin {"none", "pending"}
      BY DEF FlowStatuses, TerminalFlow
    <2> QED
      BY <1>2, <1>12, <2>1 DEF Reap
  <1> QED
    BY <1>4, <1>5, <1>6, <1>7, <1>8, <1>9, <1>10, <1>11, <1>12 DEF Work, Misfortune

\* persist's extension, the drain, the sweeps, Resume and every reset leave a
\* pending step claimable at once, lost commit answers included.
THEOREM PendingIsAlwaysOffered == Spec => []PendingIsOffered
  <1>1. Init => WaitingIsOffered
    BY DEF Init, WaitingIsOffered
  <1>2. TypeOK /\ WaitingIsOffered /\ [Next]_vars => WaitingIsOffered'
    <2> SUFFICES ASSUME TypeOK, WaitingIsOffered, [Next]_vars PROVE WaitingIsOffered'
      OBVIOUS
    <2>1. CASE UNCHANGED vars
      BY <2>1 DEF vars, rowVars, WaitingIsOffered
    <2>2. ASSUME NEW s \in Steps, LeaseExpires(s) \/ ReviveCaller(s) \/ Resume(s)
          PROVE  WaitingIsOffered'
      BY <2>2 DEF LeaseExpires, ReviveCaller, Resume, TypeOK, WaitingIsOffered
    <2>3. CASE RecoverExpiredLeases
      BY <2>3 DEF RecoverExpiredLeases, Expired, TypeOK, WaitingIsOffered
    <2>4. CASE Terminate
      BY <2>4 DEF Terminate, TypeOK, WaitingIsOffered
    <2> QED
      BY <2>1, <2>2, <2>3, <2>4, OfferedWork DEF Next, Surroundings
  <1>3. WaitingIsOffered => PendingIsOffered
    BY DEF WaitingIsOffered, PendingIsOffered
  <1> QED
    BY <1>1, <1>2, <1>3, TypesAreKept, PTL DEF Spec

-----------------------------------------------------------------------------
(* Stranded flows *)

\* A dispatch that has marked its step complete is about to commit what
\* follows, to fail the step, or to rewind it.
MarkedPlaces ==
    \A w \in Workers : Active(w) /\ marked[w] =>
        pc[w] \in {"write", "extend", "backoff", "fail", "failPersist", "reset"}

\* What a flow may be stranded by: a fault of the dispatch that owed it a
\* transition, or the rewind of a parked row.
InWindow ==
    \/ \E w \in Workers : OwesTransition(w) /\ pc'[w] = "idle" /\ budget' < budget
    \/ \E s \in Steps : ParkedPending(s)'

\* The completion write alone marks, and every way on from it is one of those.
LEMMA MarkedPlacesKept ==
  ASSUME TypeOK, MarkedPlaces, NEW w \in Workers, Work(w) \/ Misfortune(w)
  PROVE  MarkedPlaces'
  <1> USE DEF TypeOK, MarkedPlaces, Active, Goto
  <1>1. ASSUME NEW place, Goto(w, place), marked' = marked,
               \/ place \in {"idle", "write", "extend", "backoff", "fail", "failPersist", "reset"}
               \/ pc[w] \in {"claimed", "exec", "park"}
        PROVE  MarkedPlaces'
    BY <1>1
  <1>2. CASE \E s \in Steps : Claim(w, s) \/ ClaimReadLost(w, s) \/ ClaimContended(w, s)
    BY <1>2 DEF Claim, ClaimReadLost, ClaimContended, Dispatch
  <1>3. CASE ReadFlow(w) \/ Execute(w) \/ ExecuteRetry(w) \/ SpawnChild(w) \/ Crash(w)
    BY <1>1, <1>3 DEF ReadFlow, Execute, ExecuteRetry, SpawnChild, Crash, Proceed, Abandon
  <1>4. CASE \/ WriteError(w) \/ ExtendError(w) \/ FailStepError(w) \/ DispositionError(w)
             \/ StatementError(w) \/ RecoveryResetError(w)
    BY <1>1, <1>4 DEF WriteError, ExtendError, FailStepError, DispositionError, StatementError,
                      RecoveryResetError, Proceed
  <1>5. CASE CompletionWrite(w)
    BY <1>5 DEF CompletionWrite
  <1>6. CASE TransitionWrite(w) \/ AmbiguousWrite(w) \/ Reap(w) \/ FailStep(w) \/ ParkCaller(w)
    BY <1>1, <1>6 DEF TransitionWrite, AmbiguousWrite, Reap, FailStep, ParkCaller
  <1>7. CASE ExtendLease(w) \/ DrainRelease(w) \/ RetryRewind(w) \/ RecoveryReset(w) \/ HandleInterrupt(w)
    BY <1>1, <1>7 DEF ExtendLease, Abandon, DrainRelease, RetryRewind, RecoveryReset, HandleInterrupt
  <1> QED
    BY <1>2, <1>3, <1>4, <1>5, <1>6, <1>7 DEF Work, Misfortune

\* Rows that keep their status and park keep a flow driven, unless the one
\* that leaves owed it its transition.
LEMMA StaysDriven ==
  ASSUME TypeOK, ~Stranded, NEW w \in Workers, UNCHANGED <<status, parked, leaseSeq, flow>>,
         \A v \in Workers \ {w} :
            pc'[v] = pc[v] /\ at'[v] = at[v] /\ mySeq'[v] = mySeq[v] /\ marked'[v] = marked[v],
         OwesTransition(w) =>
            pc'[w] # "idle" /\ at'[w] = at[w] /\ mySeq'[w] = mySeq[w] /\ marked'[w] = marked[w]
  PROVE  ~Stranded'
  <1>1. CASE flow \in TerminalFlow
    BY <1>1 DEF Stranded
  <1>2. ASSUME NEW s \in Steps, Recoverable(s) PROVE ~Stranded'
    BY <1>2 DEF Stranded, Recoverable
  <1>3. ASSUME NEW v \in Workers, OwesTransition(v) PROVE ~Stranded'
    <2>1. OwesTransition(v)'
      BY <1>3 DEF OwesTransition, Current
    <2> QED
      BY <2>1 DEF Stranded
  <1> QED
    BY <1>1, <1>2, <1>3 DEF Stranded

\* A row that was made pending drives the flow, or is a rewound park.
LEMMA PendingDrives ==
  ASSUME NEW s \in Steps, status'[s] = "pending", parked'[s] \in BOOLEAN
  PROVE  ~Stranded' \/ InWindow
  BY DEF Stranded, Recoverable, InWindow, ParkedPending

\* Whatever a worker does, short of a lost answer, it strands its flow in the
\* window only: the writes that miss their row leave it to the current
\* dispatch, and the others leave a row to be claimed, swept or resumed.
LEMMA WorkDrives ==
  ASSUME IInv, MarkedPlaces, ~Stranded, NEW w \in Workers, Work(w) \/ Misfortune(w),
         ~AmbiguousWrite(w), TypeOK'
  PROVE  ~Stranded' \/ InWindow
  <1> USE DEF Goto
  <1>0. TypeOK /\ at[w] \in Steps /\ parked'[at[w]] \in BOOLEAN
    BY DEF IInv, TypeOK
  <1>1. ASSUME OwesTransition(w) PROVE pc[w] \in {"write", "extend", "backoff", "fail", "failPersist", "reset"}
    BY <1>1 DEF OwesTransition, MarkedPlaces, Active
  <1>2. ASSUME NEW place, Proceed(w, place), place # "idle" \/ ~OwesTransition(w) PROVE ~Stranded'
    BY <1>0, <1>2, StaysDriven DEF Proceed, rowVars, TypeOK
  <1>3. ASSUME NEW place, Proceed(w, place), Spend PROVE ~Stranded' \/ InWindow
    <2>1. CASE OwesTransition(w) /\ place = "idle"
      BY <1>0, <1>3, <2>1 DEF InWindow, Proceed, Spend, TypeOK
    <2> QED
      BY <1>2, <1>3, <2>1
  <1>4. ASSUME UNCHANGED <<status, parked, leaseSeq, flow, at, mySeq, marked>>, Goto(w, "idle"), ~OwesTransition(w)
        PROVE  ~Stranded'
    BY <1>0, <1>4, StaysDriven DEF TypeOK
  <1>5. ASSUME NEW s \in Steps, Claim(w, s) \/ ClaimReadLost(w, s) \/ ClaimContended(w, s)
        PROVE  ~Stranded'
    <2>1. CASE ClaimRow(s)
      BY <1>0, <2>1 DEF ClaimRow, Stranded, Recoverable, TypeOK
    <2>2. CASE ClaimContended(w, s)
      BY <1>0, <2>2, StaysDriven DEF ClaimContended, Dispatch, rowVars, OwesTransition, TypeOK
    <2> QED
      BY <1>5, <2>1, <2>2 DEF Claim, ClaimReadLost
  <1>6. CASE ReadFlow(w) \/ Execute(w) \/ ExecuteRetry(w) \/ SpawnChild(w) \/ Crash(w)
    <2>1. CASE Crash(w)
      BY <1>3, <2>1 DEF Crash, Abandon, Proceed
    <2>2. CASE SpawnChild(w)
      BY <1>1, <1>2, <2>2 DEF SpawnChild, Abandon, Proceed
    <2>3. PICK place \in Places \ {"idle"} : Proceed(w, place) \/ Crash(w) \/ SpawnChild(w)
      BY <1>6 DEF ReadFlow, Execute, ExecuteRetry, Places
    <2> QED
      BY <1>2, <2>1, <2>2, <2>3
  <1>7. CASE \/ WriteError(w) \/ ExtendError(w) \/ FailStepError(w) \/ DispositionError(w)
             \/ StatementError(w) \/ RecoveryResetError(w)
    BY <1>3, <1>7 DEF WriteError, ExtendError, FailStepError, DispositionError, StatementError, RecoveryResetError
  <1>8. CASE Reap(w)
    BY <1>8 DEF Reap, Stranded, IInv, ReapsTerminal
  <1>9. CASE CompletionWrite(w)
    <2>1. CASE CompletionFence(w) /\ CompletionEffect(w)
      <3>1. OwesTransition(w)'
        BY <1>0, <1>9, <2>1 DEF CompletionWrite, CompletionFence, CompletionEffect, OwesTransition, Current, TypeOK
      <3> QED
        BY <3>1 DEF Stranded
    <2> QED
      BY <1>4, <1>9, <2>1 DEF CompletionWrite, rowVars, OwesTransition
  <1>10. CASE TransitionWrite(w)
    <2>1. CASE FlowRowLocked /\ InsertSuccessor(w)
      <3>1. PICK n \in Steps : status'[n] = "pending"
        BY <1>0, <2>1 DEF InsertSuccessor, Free, TypeOK
      <3>2. parked'[n] \in BOOLEAN
        BY DEF TypeOK
      <3> QED
        BY <3>1, <3>2, PendingDrives
    <2>2. CASE CompleteFlow
      BY <2>2 DEF CompleteFlow, Stranded, TerminalFlow
    <2>3. CASE ~FlowRowLocked /\ UNCHANGED flow
      BY <2>3 DEF FlowRowLocked, Stranded
    <2> QED
      BY <1>10, <2>1, <2>2, <2>3 DEF TransitionWrite, TransitionEffect
  <1>11. CASE ExtendLease(w)
    <2>1. CASE ExtendFence(w)
      BY <1>0, <1>11, <2>1, StaysDriven DEF ExtendLease, Abandon, rowVars, TypeOK
    <2> QED
      BY <1>4, <1>11, <2>1 DEF ExtendLease, ExtendFence, Abandon, rowVars, OwesTransition
  <1>12. CASE DrainRelease(w) \/ RecoveryReset(w)
    <2>1. CASE status' = [status EXCEPT ![at[w]] = "pending"]
      BY <1>0, <2>1, PendingDrives DEF TypeOK
    <2> QED
      BY <1>4, <1>12, <2>1 DEF DrainRelease, RecoveryReset, ReleaseFence, ResetFence, OwesTransition
  <1>13. CASE FailStep(w)
    <2>1. CASE FailFence(w)
      BY <1>13, <2>1 DEF FailStep, Stranded, TerminalFlow
    <2> QED
      BY <1>4, <1>13, <2>1 DEF FailStep, FailFence, OwesTransition
  <1>14. CASE RetryRewind(w) \/ ParkCaller(w) \/ HandleInterrupt(w)
    <2>1. ~OwesTransition(w)
      BY <1>1, <1>14 DEF RetryRewind, ParkCaller, HandleInterrupt
    <2>2. CASE RetryRewind(w) /\ RewindFence(w)
      BY <1>0, <2>2, PendingDrives DEF RetryRewind, TypeOK
    <2>3. CASE ParkCaller(w) /\ ParkFence(w)
      BY <1>0, <2>3 DEF ParkCaller, ParkFence, Stranded, Recoverable
    <2>4. CASE HandleInterrupt(w) /\ InterruptFence(w)
      BY <1>0, <2>4 DEF HandleInterrupt, Stranded, Recoverable, TypeOK
    <2> QED
      BY <1>4, <1>14, <2>1, <2>2, <2>3, <2>4 DEF RetryRewind, ParkCaller, HandleInterrupt
  <1> QED
    BY <1>5, <1>6, <1>7, <1>8, <1>9, <1>10, <1>11, <1>12, <1>13, <1>14 DEF Work, Misfortune

\* A flow that runs is stranded by nothing but the window of docs/deployment.md
\* ("Crash recovery"): the replica died, or the reset of its recovery defer
\* failed, between a step's completion and its transition; the rewound park of
\* RewoundStepIsDispatchable and the lost answer of a commit aside.
THEOREM StrandingNeedsAFault == Spec => StrandedOnlyInWindow
  <1> DEFINE Driven == ~Stranded /\ Stranded' /\ ~lost' => InWindow
  <1>1. Init => MarkedPlaces
    BY DEF Init, MarkedPlaces, Active
  <1>2. TypeOK /\ MarkedPlaces /\ [Next]_vars => MarkedPlaces'
    BY MarkedPlacesKept DEF Next, Surroundings, LeaseExpires, RecoverExpiredLeases, ReviveCaller, Resume,
                            Terminate, vars, workerVars, MarkedPlaces, Active
  <1>3. TypeOK /\ TypeOK' /\ (lost \/ IInv) /\ MarkedPlaces /\ [Next]_vars => [Driven]_vars
    <2> SUFFICES ASSUME TypeOK, TypeOK', lost \/ IInv, MarkedPlaces, Next, ~Stranded, Stranded', ~lost'
                 PROVE  InWindow
      OBVIOUS
    <2>1. ~lost /\ \A w \in Workers : ~AmbiguousWrite(w)
      <3>1. \A w \in Workers : AmbiguousWrite(w) => lost' = TRUE
        BY DEF AmbiguousWrite
      <3>2. UNCHANGED lost
        BY LostOnce
      <3> QED
        BY <3>1, <3>2
    <2>2. ASSUME NEW w \in Workers, Work(w) \/ Misfortune(w) PROVE InWindow
      BY <2>1, <2>2, WorkDrives
    <2>3. ASSUME NEW s \in Steps, LeaseExpires(s) PROVE ~Stranded'
      BY <2>3 DEF LeaseExpires, Stranded, Recoverable, OwesTransition, Current, workerVars
    <2>4. ASSUME RecoverExpiredLeases PROVE ~Stranded'
      <3>1. PICK s \in Steps : Expired(s)
        BY <2>4 DEF RecoverExpiredLeases
      <3>2. status'[s] = "pending" /\ ~parked'[s]
        BY <2>4, <3>1 DEF RecoverExpiredLeases, Expired
      <3> QED
        BY <3>2 DEF Stranded, Recoverable
    <2>5. ASSUME NEW s \in Steps, ReviveCaller(s) \/ Resume(s) PROVE InWindow
      <3>1. status'[s] = "pending" /\ parked'[s] \in BOOLEAN
        BY <2>5 DEF ReviveCaller, Resume, TypeOK
      <3> QED
        BY <3>1, PendingDrives
    <2>6. ASSUME Terminate PROVE ~Stranded'
      BY <2>6 DEF Terminate, Stranded, TerminalFlow
    <2> QED
      BY <2>2, <2>3, <2>4, <2>5, <2>6 DEF Next, Surroundings
  <1> QED
    BY <1>1, <1>2, <1>3, InductiveInvariant, TypesAreKept, PTL DEF Spec, StrandedOnlyInWindow, InWindow
=============================================================================
