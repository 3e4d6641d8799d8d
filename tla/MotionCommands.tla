---------------------------- MODULE MotionCommands ----------------------------
(***************************************************************************)
(* MotionCommandManager of src/fire_detector/motion_commands.py: the queue *)
(* and worker through which every transport reaches the motion controller, *)
(* and the path by which a safety stop overtakes that queue.  A step is    *)
(* what one thread does between two points where another thread can be     *)
(* seen: a critical section of _state, a lock taken, a queue operation, a  *)
(* controller call.                                                        *)
(***************************************************************************)
EXTENDS Integers, Sequences, FiniteSets

CONSTANTS Callers,      \* transport threads: each has one submit() in progress
          Worker,       \* the thread "motion-command-manager"
          Nobody,       \* a free lock
          CloseMark,    \* the None that close() queues
          MaxSequence   \* bound: commands and stops accepted in a behaviour

ASSUME ManagerAssumption ==
    /\ MaxSequence \in Nat
    /\ IsFiniteSet(Callers)
    /\ Worker \notin Callers
    /\ Nobody \notin Callers \cup {Worker}
    /\ CloseMark \notin Callers

VARIABLES
    sequence,        \* _sequence
    safetyEpoch,     \* _safety_epoch
    stopActive,      \* _stop_active
    pendingStops,    \* _pending_safety_stops
    queue,           \* _queue
    call,            \* the _ManagedCall of each caller's latest submit
    pc,              \* where each caller is in submit()
    executionLock,   \* the holder of _execution_lock
    safetyStopLock,  \* the holder of _safety_stop_lock
    workerPc,        \* where the worker is in _run()
    current,         \* the caller whose call the worker handles
    closed,          \* close() has been called
    lastStopRun      \* history: the latest stop that entered the controller

managerVars == <<sequence, safetyEpoch, stopActive, pendingStops>>
lockVars    == <<executionLock, safetyStopLock>>
workerVars  == <<workerPc, current>>
vars == <<managerVars, queue, call, pc, lockVars, workerVars, closed, lastStopRun>>

ManagedCall == [sequence : Nat, epoch : Nat]
CallerPcs   == {"idle", "put", "wait", "request", "stopLock", "execLock",
                "stopping", "leave"}
StopPcs     == {"request", "stopLock", "execLock", "stopping", "leave"}
WorkerPcs   == {"get", "stopWait", "lock", "check", "running", "done", "closed"}

\* Callers between the acceptance of their safety stop and its return.
StopsInProgress == {c \in Callers : pc[c] \in StopPcs}

Init ==
    /\ sequence = 0
    /\ safetyEpoch = 0
    /\ stopActive = FALSE
    /\ pendingStops = 0
    /\ queue = <<>>
    /\ call = [c \in Callers |-> [sequence |-> 0, epoch |-> 0]]
    /\ pc = [c \in Callers |-> "idle"]
    /\ executionLock = Nobody
    /\ safetyStopLock = Nobody
    /\ workerPc = "get"
    /\ current = Nobody
    /\ closed = FALSE
    /\ lastStopRun = 0

Goto(c, label) == pc' = [pc EXCEPT ![c] = label]
-----------------------------------------------------------------------------
(* submit() of an ordinary command *)

\* The call is stamped inside _state ...
SubmitCall(c) ==
    /\ pc[c] = "idle"
    /\ sequence < MaxSequence
    /\ sequence' = sequence + 1
    /\ call' = [call EXCEPT ![c] = [sequence |-> sequence + 1, epoch |-> safetyEpoch]]
    /\ Goto(c, "put")
    /\ UNCHANGED <<safetyEpoch, stopActive, pendingStops, queue, lockVars,
                   workerVars, closed, lastStopRun>>

\* ... and queued outside it, so the queue need not be in sequence order.
PutCall(c) ==
    /\ pc[c] = "put"
    /\ queue' = Append(queue, c)
    /\ Goto(c, "wait")
    /\ UNCHANGED <<managerVars, call, lockVars, workerVars, closed, lastStopRun>>
-----------------------------------------------------------------------------
(* submit() of a safety stop: _execute_safety_stop() *)

\* Mutant: the stop leaves the safety epoch as it is.
AcceptStopSameEpoch(c) ==
    /\ pc[c] = "idle"
    /\ sequence < MaxSequence
    /\ sequence' = sequence + 1
    /\ pendingStops' = pendingStops + 1
    /\ stopActive' = TRUE
    /\ call' = [call EXCEPT ![c] = [sequence |-> sequence + 1, epoch |-> safetyEpoch]]
    /\ Goto(c, "request")
    /\ UNCHANGED <<safetyEpoch, queue, lockVars, workerVars, closed, lastStopRun>>

AcceptSafetyStop(c) ==
    /\ pc[c] = "idle"
    /\ sequence < MaxSequence
    /\ sequence' = sequence + 1
    /\ safetyEpoch' = safetyEpoch + 1
    /\ pendingStops' = pendingStops + 1
    /\ stopActive' = TRUE
    /\ call' = [call EXCEPT ![c] = [sequence |-> sequence + 1, epoch |-> safetyEpoch + 1]]
    /\ Goto(c, "request")
    /\ UNCHANGED <<queue, lockVars, workerVars, closed, lastStopRun>>

\* request_safety_stop() of the controller only sets events; it takes no lock
\* of this module.
RequestSafetyStop(c) ==
    /\ pc[c] = "request"
    /\ Goto(c, "stopLock")
    /\ UNCHANGED <<managerVars, queue, call, lockVars, workerVars, closed, lastStopRun>>

TakeSafetyStopLock(c) ==
    /\ pc[c] = "stopLock"
    /\ safetyStopLock = Nobody
    /\ safetyStopLock' = c
    /\ Goto(c, "execLock")
    /\ UNCHANGED <<managerVars, queue, call, executionLock, workerVars, closed, lastStopRun>>

\* Mutant: the stop does not wait for the controller call in progress.
StartStopAtOnce(c) ==
    /\ pc[c] = "execLock"
    /\ executionLock' = c
    /\ Goto(c, "stopping")
    /\ lastStopRun' = IF call[c].sequence > lastStopRun
                      THEN call[c].sequence ELSE lastStopRun
    /\ UNCHANGED <<managerVars, queue, call, safetyStopLock, workerVars, closed>>

\* The stop enters the controller.
StartStop(c) ==
    /\ pc[c] = "execLock"
    /\ executionLock = Nobody
    /\ executionLock' = c
    /\ Goto(c, "stopping")
    /\ lastStopRun' = IF call[c].sequence > lastStopRun
                      THEN call[c].sequence ELSE lastStopRun
    /\ UNCHANGED <<managerVars, queue, call, safetyStopLock, workerVars, closed>>

\* The controller call returns or raises; both locks are released.
FinishStop(c) ==
    /\ pc[c] = "stopping"
    /\ executionLock' = Nobody
    /\ safetyStopLock' = Nobody
    /\ Goto(c, "leave")
    /\ UNCHANGED <<managerVars, queue, call, workerVars, closed, lastStopRun>>

\* Mutant: the first stop to return ends the pause of every other stop.
LeaveStopUnconditionally(c) ==
    /\ pc[c] = "leave"
    /\ pendingStops' = pendingStops - 1
    /\ stopActive' = FALSE
    /\ Goto(c, "idle")
    /\ UNCHANGED <<sequence, safetyEpoch, queue, call, lockVars, workerVars,
                   closed, lastStopRun>>

\* Mutant: the finally block compares with the counter before it is lowered.
LeaveStopOffByOne(c) ==
    /\ pc[c] = "leave"
    /\ pendingStops' = pendingStops - 1
    /\ stopActive' = (pendingStops > 0)
    /\ Goto(c, "idle")
    /\ UNCHANGED <<sequence, safetyEpoch, queue, call, lockVars, workerVars,
                   closed, lastStopRun>>

\* The finally block.
LeaveStop(c) ==
    /\ pc[c] = "leave"
    /\ pendingStops' = pendingStops - 1
    /\ stopActive' = (pendingStops - 1 > 0)
    /\ Goto(c, "idle")
    /\ UNCHANGED <<sequence, safetyEpoch, queue, call, lockVars, workerVars,
                   closed, lastStopRun>>
-----------------------------------------------------------------------------
(* The worker: _run() and _execute_queued() *)

WorkerGet ==
    /\ workerPc = "get"
    /\ queue # <<>>
    /\ queue' = Tail(queue)
    /\ IF Head(queue) = CloseMark
       THEN workerPc' = "closed" /\ UNCHANGED current
       ELSE workerPc' = "stopWait" /\ current' = Head(queue)
    /\ UNCHANGED <<managerVars, call, pc, lockVars, closed, lastStopRun>>

\* The wait on _state until no stop is active.
WorkerAwaitStops ==
    /\ workerPc = "stopWait"
    /\ ~stopActive
    /\ workerPc' = "lock"
    /\ UNCHANGED <<managerVars, queue, call, pc, lockVars, current, closed, lastStopRun>>

WorkerLock ==
    /\ workerPc = "lock"
    /\ executionLock = Nobody
    /\ executionLock' = Worker
    /\ workerPc' = "check"
    /\ UNCHANGED <<managerVars, queue, call, pc, safetyStopLock, current, closed, lastStopRun>>

\* A stop was accepted between the wait and the lock: release and wait again.
WorkerRetry ==
    /\ workerPc = "check"
    /\ stopActive
    /\ executionLock' = Nobody
    /\ workerPc' = "stopWait"
    /\ UNCHANGED <<managerVars, queue, call, pc, safetyStopLock, current, closed, lastStopRun>>

\* A stop was accepted since the call was stamped: MotionCommandSuperseded.
WorkerSupersede ==
    /\ workerPc = "check"
    /\ ~stopActive
    /\ call[current].epoch # safetyEpoch
    /\ executionLock' = Nobody
    /\ workerPc' = "done"
    /\ UNCHANGED <<managerVars, queue, call, pc, safetyStopLock, current, closed, lastStopRun>>

\* Mutant: the epoch of the call is not compared.
WorkerStartAnyEpoch ==
    /\ workerPc = "check"
    /\ ~stopActive
    /\ workerPc' = "running"
    /\ UNCHANGED <<managerVars, queue, call, pc, lockVars, current, closed, lastStopRun>>

\* The call enters the controller.
WorkerStart ==
    /\ workerPc = "check"
    /\ ~stopActive
    /\ call[current].epoch = safetyEpoch
    /\ workerPc' = "running"
    /\ UNCHANGED <<managerVars, queue, call, pc, lockVars, current, closed, lastStopRun>>

\* The controller call returns or raises.
WorkerFinish ==
    /\ workerPc = "running"
    /\ executionLock' = Nobody
    /\ workerPc' = "done"
    /\ UNCHANGED <<managerVars, queue, call, pc, safetyStopLock, current, closed, lastStopRun>>

\* done.set(): submit() returns the result or raises the error.
WorkerDone ==
    /\ workerPc = "done"
    /\ workerPc' = "get"
    /\ pc' = [pc EXCEPT ![current] = "idle"]
    /\ current' = Nobody
    /\ UNCHANGED <<managerVars, queue, call, lockVars, closed, lastStopRun>>

WorkerStep ==
    \/ WorkerGet \/ WorkerAwaitStops \/ WorkerLock \/ WorkerRetry
    \/ WorkerSupersede \/ WorkerStart \/ WorkerFinish \/ WorkerDone
-----------------------------------------------------------------------------
\* close(), registered with atexit.
Close ==
    /\ ~closed
    /\ closed' = TRUE
    /\ queue' = Append(queue, CloseMark)
    /\ UNCHANGED <<managerVars, call, pc, lockVars, workerVars, lastStopRun>>

\* The program may stop here: the bound is used up, or a caller waits for a
\* worker that close() has ended (such a submit() never returns).
Exhausted ==
    /\ workerPc \in {"get", "closed"}
    /\ \A c \in Callers :
          \/ pc[c] = "idle" /\ sequence = MaxSequence
          \/ pc[c] = "wait" /\ workerPc = "closed"
    /\ UNCHANGED vars

StopStep(c) ==
    \/ RequestSafetyStop(c) \/ TakeSafetyStopLock(c) \/ StartStop(c)
    \/ FinishStop(c) \/ LeaveStop(c)

Next ==
    \/ \E c \in Callers :
          \/ SubmitCall(c)
          \/ PutCall(c)
          \/ AcceptSafetyStop(c)
          \/ StopStep(c)
    \/ WorkerStep
    \/ Close
    \/ Exhausted

Spec == Init /\ [][Next]_vars

\* Threads that can run do run, and a controller call returns (its hardware
\* operations time out).  Nothing obliges a caller to submit or anyone to close.
Fairness ==
    /\ \A c \in Callers : WF_vars(PutCall(c)) /\ WF_vars(StopStep(c))
    /\ WF_vars(WorkerStep)

FairSpec == Spec /\ Fairness
-----------------------------------------------------------------------------
(* Properties *)

TypeOK ==
    /\ sequence \in 0..MaxSequence
    /\ safetyEpoch \in Nat
    /\ stopActive \in BOOLEAN
    /\ pendingStops \in Nat
    /\ queue \in Seq(Callers \cup {CloseMark})
    /\ call \in [Callers -> ManagedCall]
    /\ pc \in [Callers -> CallerPcs]
    /\ executionLock \in Callers \cup {Worker, Nobody}
    /\ safetyStopLock \in Callers \cup {Nobody}
    /\ workerPc \in WorkerPcs
    /\ current \in Callers \cup {Nobody}
    /\ closed \in BOOLEAN
    /\ lastStopRun \in Nat

\* The controller never sees two calls at once, whichever of the worker and
\* the stopping threads they come from ("waits only for the current atomic
\* controller call", lines 50-57).
OneControllerCall ==
    /\ workerPc = "running" => \A c \in Callers : pc[c] # "stopping"
    /\ \A c, d \in Callers : pc[c] = "stopping" /\ pc[d] = "stopping" => c = d

\* No command accepted before a stop is in the controller after that stop has
\* entered it: a stop cannot be undone by what was already queued, whatever
\* the order in which queue, locks and further stops interleave.
NoStaleCommand ==
    workerPc = "running" => call[current].sequence > lastStopRun

\* The callers whose call stands before any None in the queue.
InService(c) ==
    /\ workerPc # "closed"
    /\ \E i \in DOMAIN queue :
          queue[i] = c /\ \A j \in 1..i : queue[j] # CloseMark

\* A command queued before close() is answered, by a result, an error or
\* MotionCommandSuperseded: neither the stops nor the locks strand it.
EveryQueuedCallReturns == \A c \in Callers : InService(c) ~> pc[c] = "idle"

\* An accepted safety stop reaches the controller and returns.
EveryStopReturns == \A c \in Callers : pc[c] = "request" ~> pc[c] = "idle"

\* Nobody who is accepted waits for ever (_execute_safety_stop, _run).
CallersReturn == EveryQueuedCallReturns /\ EveryStopReturns

\* The manager implements the arbiter: its live calls are those stamped with
\* the present epoch that the worker has not started.
LiveCalls ==
    {c \in Callers : /\ pc[c] \in {"put", "wait"}
                     /\ call[c].epoch = safetyEpoch
                     /\ ~(current = c /\ workerPc \in {"running", "done"})}

Busy ==
    IF workerPc = "running" THEN current
    ELSE IF executionLock \in Callers THEN executionLock ELSE Nobody

Arbiter == INSTANCE MotionArbiter
    WITH live <- LiveCalls,
         stops <- StopsInProgress,
         ran <- {c \in Callers : pc[c] = "leave"},
         busy <- Busy

ImplementsArbiter == Arbiter!ArbiterSpec
-----------------------------------------------------------------------------
(* The inductive invariant: why NoStaleCommand and OneControllerCall hold. *)

\* stop_active says exactly whether some accepted stop has not returned.
StopAccounting ==
    /\ pendingStops = Cardinality(StopsInProgress)
    /\ stopActive = (pendingStops > 0)

\* A lock is held by exactly the thread that is inside it.
LockOwners ==
    /\ executionLock = Worker <=> workerPc \in {"check", "running"}
    /\ \A c \in Callers : executionLock = c <=> pc[c] = "stopping"
    /\ \A c \in Callers : safetyStopLock = c <=> pc[c] \in {"execLock", "stopping"}

\* A waiting caller is in the queue or with the worker, and only once.
QueueOwners ==
    /\ current \in Callers <=> workerPc \notin {"get", "closed"}
    /\ current \in Callers => pc[current] = "wait"
    /\ \A i \in DOMAIN queue :
          queue[i] \in Callers => pc[queue[i]] = "wait" /\ queue[i] # current
    /\ \A i, j \in DOMAIN queue :
          queue[i] \in Callers /\ queue[i] = queue[j] => i = j

\* Stamps never run ahead, and a call of the present epoch was accepted after
\* every stop that is in progress or has run.
EpochOrder ==
    /\ lastStopRun <= sequence
    /\ \A c \in Callers :
          call[c].epoch <= safetyEpoch /\ call[c].sequence <= sequence
    /\ \A c \in Callers :
          pc[c] \in {"put", "wait"} /\ call[c].epoch = safetyEpoch =>
              /\ call[c].sequence > lastStopRun
              /\ \A s \in StopsInProgress : call[c].sequence > call[s].sequence

ManagerInv ==
    /\ TypeOK
    /\ StopAccounting
    /\ LockOwners
    /\ QueueOwners
    /\ EpochOrder
    /\ NoStaleCommand
=============================================================================
