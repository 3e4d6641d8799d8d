------------------------ MODULE MotionCommandsProofs ------------------------
(***************************************************************************)
(* Proofs about MotionCommands for any finite set of callers and any bound *)
(* on the number of commands.  The argument: pendingStops counts exactly   *)
(* the stops in progress, so a call that passes the worker's check was     *)
(* stamped after every stop; the execution lock then keeps later stops out *)
(* of the controller until it has finished.                                *)
(***************************************************************************)
EXTENDS MotionCommands, FiniteSetTheorems, TLAPS

\* The callers form a finite set, and so do those whose stop is in progress.
LEMMA StopsFinite ==
    ASSUME TypeOK PROVE IsFiniteSet(StopsInProgress) /\ Cardinality(StopsInProgress) \in Nat
<1>1. StopsInProgress \subseteq Callers
    BY DEF StopsInProgress
<1>2. IsFiniteSet(StopsInProgress)
    BY <1>1, FS_Subset, ManagerAssumption
<1>3. QED
    BY <1>2, FS_CardinalityType

\* Every action keeps the variables in their types: the finally block lowers
\* pendingStops only for a stop that was counted.
LEMMA TypeStep == ManagerInv /\ [Next]_vars => TypeOK'
<1> SUFFICES ASSUME ManagerInv, [Next]_vars PROVE TypeOK'
    OBVIOUS
<1> USE ManagerAssumption DEF TypeOK, ManagedCall, CallerPcs, WorkerPcs, managerVars,
        lockVars, workerVars, Goto, ManagerInv
<1>1. ASSUME NEW c \in Callers, SubmitCall(c) PROVE TypeOK'
    BY <1>1 DEF SubmitCall
<1>2. ASSUME NEW c \in Callers, PutCall(c) PROVE TypeOK'
    BY <1>2 DEF PutCall
<1>3. ASSUME NEW c \in Callers, AcceptSafetyStop(c) PROVE TypeOK'
    BY <1>3 DEF AcceptSafetyStop
<1>4. ASSUME NEW c \in Callers, RequestSafetyStop(c) PROVE TypeOK'
    BY <1>4 DEF RequestSafetyStop
<1>5. ASSUME NEW c \in Callers, TakeSafetyStopLock(c) PROVE TypeOK'
    BY <1>5 DEF TakeSafetyStopLock
<1>6. ASSUME NEW c \in Callers, StartStop(c) PROVE TypeOK'
    BY <1>6 DEF StartStop
<1>7. ASSUME NEW c \in Callers, FinishStop(c) PROVE TypeOK'
    BY <1>7 DEF FinishStop
<1>8. ASSUME NEW c \in Callers, LeaveStop(c) PROVE TypeOK'
  <2>1. c \in StopsInProgress
    BY <1>8 DEF LeaveStop, StopsInProgress, StopPcs
  <2>2. Cardinality(StopsInProgress) # 0
    BY <2>1, StopsFinite, FS_EmptySet
  <2>3. pendingStops - 1 \in Nat
    BY <2>2 DEF StopAccounting
  <2>4. QED
    BY <1>8, <2>3 DEF LeaveStop
<1>9. CASE WorkerGet
  <2>1. Head(queue) \in Callers \cup {CloseMark} /\ Tail(queue) \in Seq(Callers \cup {CloseMark})
    BY <1>9 DEF WorkerGet
  <2>2. QED
    BY <1>9, <2>1 DEF WorkerGet
<1>10. CASE WorkerAwaitStops
    BY <1>10 DEF WorkerAwaitStops
<1>11. CASE WorkerLock
    BY <1>11 DEF WorkerLock
<1>12. CASE WorkerRetry
    BY <1>12 DEF WorkerRetry
<1>13. CASE WorkerSupersede
    BY <1>13 DEF WorkerSupersede
<1>14. CASE WorkerStart
    BY <1>14 DEF WorkerStart
<1>15. CASE WorkerFinish
    BY <1>15 DEF WorkerFinish
<1>16. CASE WorkerDone
    BY <1>16 DEF WorkerDone
<1>17. CASE Close
    BY <1>17 DEF Close
<1>18. CASE UNCHANGED vars
    BY <1>18 DEF vars
<1>19. QED
    BY <1>1, <1>2, <1>3, <1>4, <1>5, <1>6, <1>7, <1>8, <1>9, <1>10,
       <1>11, <1>12, <1>13, <1>14, <1>15, <1>16, <1>17, <1>18
       DEF Next, StopStep, WorkerStep, Exhausted

\* The counter and the flag follow the set of stops in progress.
LEMMA AccountingStep == ManagerInv /\ [Next]_vars => StopAccounting'
<1> SUFFICES ASSUME ManagerInv, [Next]_vars PROVE StopAccounting'
    OBVIOUS
<1> USE ManagerAssumption DEF TypeOK, ManagedCall, CallerPcs, WorkerPcs, managerVars,
        lockVars, workerVars, Goto,
        ManagerInv, StopAccounting, QueueOwners
<1>1. ASSUME NEW c \in Callers, SubmitCall(c) PROVE StopAccounting'
  <2>1. StopsInProgress' = StopsInProgress
    BY <1>1 DEF SubmitCall, StopsInProgress, StopPcs
  <2>2. QED
    BY <1>1, <2>1 DEF SubmitCall
<1>2. ASSUME NEW c \in Callers, PutCall(c) PROVE StopAccounting'
  <2>1. StopsInProgress' = StopsInProgress
    BY <1>2 DEF PutCall, StopsInProgress, StopPcs
  <2>2. QED
    BY <1>2, <2>1 DEF PutCall
<1>3. ASSUME NEW c \in Callers, AcceptSafetyStop(c) PROVE StopAccounting'
  <2>1. StopsInProgress' = StopsInProgress \cup {c} /\ c \notin StopsInProgress
    BY <1>3 DEF AcceptSafetyStop, StopsInProgress, StopPcs
  <2>2. Cardinality(StopsInProgress') = Cardinality(StopsInProgress) + 1
    BY <2>1, StopsFinite, FS_AddElement
  <2>3. pendingStops' = Cardinality(StopsInProgress') /\ pendingStops' > 0
    BY <1>3, <2>2, StopsFinite DEF AcceptSafetyStop
  <2>4. stopActive' = TRUE
    BY <1>3 DEF AcceptSafetyStop
  <2>5. (stopActive = (pendingStops > 0))'
    BY <2>3, <2>4
  <2>6. QED
    BY <2>3, <2>5
<1>4. ASSUME NEW c \in Callers, RequestSafetyStop(c) PROVE StopAccounting'
  <2>1. StopsInProgress' = StopsInProgress
    BY <1>4 DEF RequestSafetyStop, StopsInProgress, StopPcs
  <2>2. QED
    BY <1>4, <2>1 DEF RequestSafetyStop
<1>5. ASSUME NEW c \in Callers, TakeSafetyStopLock(c) PROVE StopAccounting'
  <2>1. StopsInProgress' = StopsInProgress
    BY <1>5 DEF TakeSafetyStopLock, StopsInProgress, StopPcs
  <2>2. QED
    BY <1>5, <2>1 DEF TakeSafetyStopLock
<1>6. ASSUME NEW c \in Callers, StartStop(c) PROVE StopAccounting'
  <2>1. StopsInProgress' = StopsInProgress
    BY <1>6 DEF StartStop, StopsInProgress, StopPcs
  <2>2. QED
    BY <1>6, <2>1 DEF StartStop
<1>7. ASSUME NEW c \in Callers, FinishStop(c) PROVE StopAccounting'
  <2>1. StopsInProgress' = StopsInProgress
    BY <1>7 DEF FinishStop, StopsInProgress, StopPcs
  <2>2. QED
    BY <1>7, <2>1 DEF FinishStop
<1>8. ASSUME NEW c \in Callers, LeaveStop(c) PROVE StopAccounting'
  <2>1. StopsInProgress' = StopsInProgress \ {c} /\ c \in StopsInProgress
    BY <1>8 DEF LeaveStop, StopsInProgress, StopPcs
  <2>2. Cardinality(StopsInProgress') = Cardinality(StopsInProgress) - 1
    BY <2>1, StopsFinite, FS_RemoveElement
  <2>3. QED
    BY <1>8, <2>2, StopsFinite DEF LeaveStop
<1>9. CASE WorkerGet
  <2>1. StopsInProgress' = StopsInProgress
    BY <1>9 DEF WorkerGet, StopsInProgress, StopPcs
  <2>2. QED
    BY <1>9, <2>1 DEF WorkerGet
<1>10. CASE WorkerAwaitStops
  <2>1. StopsInProgress' = StopsInProgress
    BY <1>10 DEF WorkerAwaitStops, StopsInProgress, StopPcs
  <2>2. QED
    BY <1>10, <2>1 DEF WorkerAwaitStops
<1>11. CASE WorkerLock
  <2>1. StopsInProgress' = StopsInProgress
    BY <1>11 DEF WorkerLock, StopsInProgress, StopPcs
  <2>2. QED
    BY <1>11, <2>1 DEF WorkerLock
<1>12. CASE WorkerRetry
  <2>1. StopsInProgress' = StopsInProgress
    BY <1>12 DEF WorkerRetry, StopsInProgress, StopPcs
  <2>2. QED
    BY <1>12, <2>1 DEF WorkerRetry
<1>13. CASE WorkerSupersede
  <2>1. StopsInProgress' = StopsInProgress
    BY <1>13 DEF WorkerSupersede, StopsInProgress, StopPcs
  <2>2. QED
    BY <1>13, <2>1 DEF WorkerSupersede
<1>14. CASE WorkerStart
  <2>1. StopsInProgress' = StopsInProgress
    BY <1>14 DEF WorkerStart, StopsInProgress, StopPcs
  <2>2. QED
    BY <1>14, <2>1 DEF WorkerStart
<1>15. CASE WorkerFinish
  <2>1. StopsInProgress' = StopsInProgress
    BY <1>15 DEF WorkerFinish, StopsInProgress, StopPcs
  <2>2. QED
    BY <1>15, <2>1 DEF WorkerFinish
<1>16. CASE WorkerDone
  <2>1. StopsInProgress' = StopsInProgress
    BY <1>16 DEF WorkerDone, StopsInProgress, StopPcs
  <2>2. QED
    BY <1>16, <2>1 DEF WorkerDone
<1>17. CASE Close
  <2>1. StopsInProgress' = StopsInProgress
    BY <1>17 DEF Close, StopsInProgress, StopPcs
  <2>2. QED
    BY <1>17, <2>1 DEF Close
<1>18. CASE UNCHANGED vars
  <2>1. StopsInProgress' = StopsInProgress
    BY <1>18 DEF vars, StopsInProgress, StopPcs
  <2>2. QED
    BY <1>18, <2>1 DEF vars
<1>19. QED
    BY <1>1, <1>2, <1>3, <1>4, <1>5, <1>6, <1>7, <1>8, <1>9, <1>10,
       <1>11, <1>12, <1>13, <1>14, <1>15, <1>16, <1>17, <1>18
       DEF Next, StopStep, WorkerStep, Exhausted

\* A lock is always held by the thread that is inside it.
LEMMA LockStep == ManagerInv /\ [Next]_vars => LockOwners'
<1> SUFFICES ASSUME ManagerInv, [Next]_vars PROVE LockOwners'
    OBVIOUS
<1> USE ManagerAssumption DEF TypeOK, ManagedCall, CallerPcs, WorkerPcs, managerVars,
        lockVars, workerVars, Goto,
        ManagerInv, LockOwners, QueueOwners
<1>1. ASSUME NEW c \in Callers, SubmitCall(c) PROVE LockOwners'
    BY <1>1 DEF SubmitCall
<1>2. ASSUME NEW c \in Callers, PutCall(c) PROVE LockOwners'
    BY <1>2 DEF PutCall
<1>3. ASSUME NEW c \in Callers, AcceptSafetyStop(c) PROVE LockOwners'
    BY <1>3 DEF AcceptSafetyStop
<1>4. ASSUME NEW c \in Callers, RequestSafetyStop(c) PROVE LockOwners'
    BY <1>4 DEF RequestSafetyStop
<1>5. ASSUME NEW c \in Callers, TakeSafetyStopLock(c) PROVE LockOwners'
    BY <1>5 DEF TakeSafetyStopLock
<1>6. ASSUME NEW c \in Callers, StartStop(c) PROVE LockOwners'
    BY <1>6 DEF StartStop
<1>7. ASSUME NEW c \in Callers, FinishStop(c) PROVE LockOwners'
    BY <1>7 DEF FinishStop
<1>8. ASSUME NEW c \in Callers, LeaveStop(c) PROVE LockOwners'
    BY <1>8 DEF LeaveStop
<1>9. CASE WorkerGet
    BY <1>9 DEF WorkerGet
<1>10. CASE WorkerAwaitStops
    BY <1>10 DEF WorkerAwaitStops
<1>11. CASE WorkerLock
    BY <1>11 DEF WorkerLock
<1>12. CASE WorkerRetry
    BY <1>12 DEF WorkerRetry
<1>13. CASE WorkerSupersede
    BY <1>13 DEF WorkerSupersede
<1>14. CASE WorkerStart
    BY <1>14 DEF WorkerStart
<1>15. CASE WorkerFinish
    BY <1>15 DEF WorkerFinish
<1>16. CASE WorkerDone
    BY <1>16 DEF WorkerDone
<1>17. CASE Close
    BY <1>17 DEF Close
<1>18. CASE UNCHANGED vars
    BY <1>18 DEF vars
<1>19. QED
    BY <1>1, <1>2, <1>3, <1>4, <1>5, <1>6, <1>7, <1>8, <1>9, <1>10,
       <1>11, <1>12, <1>13, <1>14, <1>15, <1>16, <1>17, <1>18
       DEF Next, StopStep, WorkerStep, Exhausted

\* A waiting caller stays in exactly one place.
LEMMA QueueStep == ManagerInv /\ [Next]_vars => QueueOwners'
<1> SUFFICES ASSUME ManagerInv, [Next]_vars PROVE QueueOwners'
    OBVIOUS
<1> USE ManagerAssumption DEF TypeOK, ManagedCall, CallerPcs, WorkerPcs, managerVars,
        lockVars, workerVars, Goto,
        ManagerInv, QueueOwners
<1>1. ASSUME NEW c \in Callers, SubmitCall(c) PROVE QueueOwners'
    BY <1>1 DEF SubmitCall
<1>2. ASSUME NEW c \in Callers, PutCall(c) PROVE QueueOwners'
    BY <1>2 DEF PutCall
<1>3. ASSUME NEW c \in Callers, AcceptSafetyStop(c) PROVE QueueOwners'
    BY <1>3 DEF AcceptSafetyStop
<1>4. ASSUME NEW c \in Callers, RequestSafetyStop(c) PROVE QueueOwners'
    BY <1>4 DEF RequestSafetyStop
<1>5. ASSUME NEW c \in Callers, TakeSafetyStopLock(c) PROVE QueueOwners'
    BY <1>5 DEF TakeSafetyStopLock
<1>6. ASSUME NEW c \in Callers, StartStop(c) PROVE QueueOwners'
    BY <1>6 DEF StartStop
<1>7. ASSUME NEW c \in Callers, FinishStop(c) PROVE QueueOwners'
    BY <1>7 DEF FinishStop
<1>8. ASSUME NEW c \in Callers, LeaveStop(c) PROVE QueueOwners'
    BY <1>8 DEF LeaveStop
<1>9. CASE WorkerGet
    BY <1>9 DEF WorkerGet
<1>10. CASE WorkerAwaitStops
    BY <1>10 DEF WorkerAwaitStops
<1>11. CASE WorkerLock
    BY <1>11 DEF WorkerLock
<1>12. CASE WorkerRetry
    BY <1>12 DEF WorkerRetry
<1>13. CASE WorkerSupersede
    BY <1>13 DEF WorkerSupersede
<1>14. CASE WorkerStart
    BY <1>14 DEF WorkerStart
<1>15. CASE WorkerFinish
    BY <1>15 DEF WorkerFinish
<1>16. CASE WorkerDone
    BY <1>16 DEF WorkerDone
<1>17. CASE Close
    BY <1>17 DEF Close
<1>18. CASE UNCHANGED vars
    BY <1>18 DEF vars
<1>19. QED
    BY <1>1, <1>2, <1>3, <1>4, <1>5, <1>6, <1>7, <1>8, <1>9, <1>10,
       <1>11, <1>12, <1>13, <1>14, <1>15, <1>16, <1>17, <1>18
       DEF Next, StopStep, WorkerStep, Exhausted

\* Stamps stay ordered by the stops accepted before them.
LEMMA EpochStep == ManagerInv /\ [Next]_vars => EpochOrder'
<1> SUFFICES ASSUME ManagerInv, [Next]_vars PROVE EpochOrder'
    OBVIOUS
<1> USE ManagerAssumption DEF TypeOK, ManagedCall, CallerPcs, WorkerPcs, managerVars,
        lockVars, workerVars, Goto,
        ManagerInv, EpochOrder, QueueOwners, StopsInProgress, StopPcs
<1>1. ASSUME NEW c \in Callers, SubmitCall(c) PROVE EpochOrder'
    BY <1>1 DEF SubmitCall
<1>2. ASSUME NEW c \in Callers, PutCall(c) PROVE EpochOrder'
    BY <1>2 DEF PutCall
<1>3. ASSUME NEW c \in Callers, AcceptSafetyStop(c) PROVE EpochOrder'
    BY <1>3 DEF AcceptSafetyStop
<1>4. ASSUME NEW c \in Callers, RequestSafetyStop(c) PROVE EpochOrder'
    BY <1>4 DEF RequestSafetyStop
<1>5. ASSUME NEW c \in Callers, TakeSafetyStopLock(c) PROVE EpochOrder'
    BY <1>5 DEF TakeSafetyStopLock
<1>6. ASSUME NEW c \in Callers, StartStop(c) PROVE EpochOrder'
    BY <1>6 DEF StartStop
<1>7. ASSUME NEW c \in Callers, FinishStop(c) PROVE EpochOrder'
    BY <1>7 DEF FinishStop
<1>8. ASSUME NEW c \in Callers, LeaveStop(c) PROVE EpochOrder'
    BY <1>8 DEF LeaveStop
<1>9. CASE WorkerGet
    BY <1>9 DEF WorkerGet
<1>10. CASE WorkerAwaitStops
    BY <1>10 DEF WorkerAwaitStops
<1>11. CASE WorkerLock
    BY <1>11 DEF WorkerLock
<1>12. CASE WorkerRetry
    BY <1>12 DEF WorkerRetry
<1>13. CASE WorkerSupersede
    BY <1>13 DEF WorkerSupersede
<1>14. CASE WorkerStart
    BY <1>14 DEF WorkerStart
<1>15. CASE WorkerFinish
    BY <1>15 DEF WorkerFinish
<1>16. CASE WorkerDone
    BY <1>16 DEF WorkerDone
<1>17. CASE Close
    BY <1>17 DEF Close
<1>18. CASE UNCHANGED vars
    BY <1>18 DEF vars
<1>19. QED
    BY <1>1, <1>2, <1>3, <1>4, <1>5, <1>6, <1>7, <1>8, <1>9, <1>10,
       <1>11, <1>12, <1>13, <1>14, <1>15, <1>16, <1>17, <1>18
       DEF Next, StopStep, WorkerStep, Exhausted

\* A call that starts was accepted after every stop that has run.
LEMMA StaleStep == ManagerInv /\ [Next]_vars => NoStaleCommand'
<1> SUFFICES ASSUME ManagerInv, [Next]_vars PROVE NoStaleCommand'
    OBVIOUS
<1> USE ManagerAssumption DEF TypeOK, ManagedCall, CallerPcs, WorkerPcs, managerVars,
        lockVars, workerVars, Goto,
        ManagerInv, NoStaleCommand, EpochOrder, QueueOwners, LockOwners
<1>1. ASSUME NEW c \in Callers, SubmitCall(c) PROVE NoStaleCommand'
    BY <1>1 DEF SubmitCall
<1>2. ASSUME NEW c \in Callers, PutCall(c) PROVE NoStaleCommand'
    BY <1>2 DEF PutCall
<1>3. ASSUME NEW c \in Callers, AcceptSafetyStop(c) PROVE NoStaleCommand'
    BY <1>3 DEF AcceptSafetyStop
<1>4. ASSUME NEW c \in Callers, RequestSafetyStop(c) PROVE NoStaleCommand'
    BY <1>4 DEF RequestSafetyStop
<1>5. ASSUME NEW c \in Callers, TakeSafetyStopLock(c) PROVE NoStaleCommand'
    BY <1>5 DEF TakeSafetyStopLock
<1>6. ASSUME NEW c \in Callers, StartStop(c) PROVE NoStaleCommand'
    BY <1>6 DEF StartStop
<1>7. ASSUME NEW c \in Callers, FinishStop(c) PROVE NoStaleCommand'
    BY <1>7 DEF FinishStop
<1>8. ASSUME NEW c \in Callers, LeaveStop(c) PROVE NoStaleCommand'
    BY <1>8 DEF LeaveStop
<1>9. CASE WorkerGet
    BY <1>9 DEF WorkerGet
<1>10. CASE WorkerAwaitStops
    BY <1>10 DEF WorkerAwaitStops
<1>11. CASE WorkerLock
    BY <1>11 DEF WorkerLock
<1>12. CASE WorkerRetry
    BY <1>12 DEF WorkerRetry
<1>13. CASE WorkerSupersede
    BY <1>13 DEF WorkerSupersede
<1>14. CASE WorkerStart
    BY <1>14 DEF WorkerStart
<1>15. CASE WorkerFinish
    BY <1>15 DEF WorkerFinish
<1>16. CASE WorkerDone
    BY <1>16 DEF WorkerDone
<1>17. CASE Close
    BY <1>17 DEF Close
<1>18. CASE UNCHANGED vars
    BY <1>18 DEF vars
<1>19. QED
    BY <1>1, <1>2, <1>3, <1>4, <1>5, <1>6, <1>7, <1>8, <1>9, <1>10,
       <1>11, <1>12, <1>13, <1>14, <1>15, <1>16, <1>17, <1>18
       DEF Next, StopStep, WorkerStep, Exhausted

LEMMA InitInv == Init => ManagerInv
<1> SUFFICES ASSUME Init PROVE ManagerInv
    OBVIOUS
<1> USE ManagerAssumption DEF Init
<1>1. TypeOK
  <2>1. call \in [Callers -> ManagedCall]
    BY DEF ManagedCall
  <2>2. queue \in Seq(Callers \cup {CloseMark})
    OBVIOUS
  <2>3. sequence \in 0..MaxSequence /\ safetyEpoch \in Nat /\ pendingStops \in Nat
    OBVIOUS
  <2>4. stopActive \in BOOLEAN /\ closed \in BOOLEAN
    OBVIOUS
  <2>5. pc \in [Callers -> CallerPcs] /\ workerPc \in WorkerPcs
    BY DEF CallerPcs, WorkerPcs
  <2>6. QED
    BY <2>1, <2>2, <2>3, <2>4, <2>5 DEF TypeOK
<1>2. StopsInProgress = {}
    BY DEF StopsInProgress, StopPcs
<1>3. StopAccounting
  <2>1. Cardinality(StopsInProgress) = 0
    BY <1>2, FS_EmptySet
  <2>2. (pendingStops > 0) = FALSE
    OBVIOUS
  <2>3. QED
    BY <2>1, <2>2 DEF StopAccounting
<1>4. LockOwners /\ QueueOwners /\ EpochOrder /\ NoStaleCommand
    BY <1>2 DEF LockOwners, QueueOwners, EpochOrder, NoStaleCommand
<1>5. QED
    BY <1>1, <1>3, <1>4 DEF ManagerInv

\* The inductive invariant of the manager.
THEOREM ManagerInvariant == Spec => []ManagerInv
<1>1. ManagerInv /\ [Next]_vars => ManagerInv'
    BY TypeStep, AccountingStep, LockStep, QueueStep, EpochStep, StaleStep
       DEF ManagerInv
<1>2. QED
    BY InitInv, <1>1, PTL DEF Spec

\* The variables of the manager keep their types: in particular the count of
\* pending stops never goes below zero.
THEOREM TypeCorrect == Spec => []TypeOK
<1>1. ManagerInv => TypeOK
    BY DEF ManagerInv
<1>2. QED
    BY <1>1, ManagerInvariant, PTL

\* At most one thread is inside the motion controller.
THEOREM ControllerExclusive == Spec => []OneControllerCall
<1>1. ManagerInv => OneControllerCall
    BY ManagerAssumption DEF ManagerInv, TypeOK, LockOwners, OneControllerCall
<1>2. QED
    BY <1>1, ManagerInvariant, PTL

\* No command accepted before a safety stop is in the controller after the
\* stop has been there.
THEOREM StopsAreFinal == Spec => []NoStaleCommand
<1>1. ManagerInv => NoStaleCommand
    BY DEF ManagerInv
<1>2. QED
    BY <1>1, ManagerInvariant, PTL

-----------------------------------------------------------------------------
(* The manager implements the arbiter. *)

LEMMA ArbiterInitMaps == Init => Arbiter!ArbiterInit
    BY ManagerAssumption
       DEF Init, Arbiter!ArbiterInit, LiveCalls, StopsInProgress, StopPcs, Busy

\* When the flag is down no stop is in progress.
LEMMA NoStops == ManagerInv /\ ~stopActive => StopsInProgress = {}
<1> SUFFICES ASSUME ManagerInv, ~stopActive PROVE StopsInProgress = {}
    OBVIOUS
<1>1. TypeOK /\ StopAccounting
    BY DEF ManagerInv
<1>2. IsFiniteSet(StopsInProgress) /\ Cardinality(StopsInProgress) \in Nat
    BY <1>1, StopsFinite
<1>3. Cardinality(StopsInProgress) = 0
  <2>1. ~(pendingStops > 0)
    BY <1>1 DEF StopAccounting
  <2>2. QED
    BY <1>1, <1>2, <2>1 DEF StopAccounting
<1>4. QED
    BY <1>2, <1>3, FS_EmptySet

\* Each step of the manager is the step of the arbiter it stands for: the
\* worker's check is the start of the call, everything between acceptance and
\* check is invisible.
LEMMA ArbiterStepMaps == ManagerInv /\ [Next]_vars => [Arbiter!ArbiterNext]_(Arbiter!arbiterVars)
<1> SUFFICES ASSUME ManagerInv, [Next]_vars PROVE [Arbiter!ArbiterNext]_(Arbiter!arbiterVars)
    OBVIOUS
<1> USE ManagerAssumption DEF TypeOK, ManagedCall, CallerPcs, WorkerPcs, managerVars,
        lockVars, workerVars, Goto,
        ManagerInv, LockOwners, QueueOwners, EpochOrder, LiveCalls, Busy,
        StopsInProgress, StopPcs
<1>1. ASSUME NEW c \in Callers, SubmitCall(c) PROVE Arbiter!Accept(c)
    BY <1>1 DEF SubmitCall, Arbiter!Accept
<1>2. ASSUME NEW c \in Callers, PutCall(c) PROVE UNCHANGED Arbiter!arbiterVars
    BY <1>2 DEF PutCall, Arbiter!arbiterVars
<1>3. ASSUME NEW c \in Callers, AcceptSafetyStop(c) PROVE Arbiter!AcceptStop(c)
    BY <1>3 DEF AcceptSafetyStop, Arbiter!AcceptStop
<1>4. ASSUME NEW c \in Callers, RequestSafetyStop(c) PROVE UNCHANGED Arbiter!arbiterVars
    BY <1>4 DEF RequestSafetyStop, Arbiter!arbiterVars
<1>5. ASSUME NEW c \in Callers, TakeSafetyStopLock(c) PROVE UNCHANGED Arbiter!arbiterVars
    BY <1>5 DEF TakeSafetyStopLock, Arbiter!arbiterVars
<1>6. ASSUME NEW c \in Callers, StartStop(c) PROVE Arbiter!StartStop(c)
    BY <1>6 DEF StartStop, Arbiter!StartStop
<1>7. ASSUME NEW c \in Callers, FinishStop(c) PROVE Arbiter!Finish
    BY <1>7 DEF FinishStop, Arbiter!Finish
<1>8. ASSUME NEW c \in Callers, LeaveStop(c) PROVE Arbiter!Discharge(c)
    BY <1>8 DEF LeaveStop, Arbiter!Discharge
<1>9. ASSUME WorkerGet PROVE UNCHANGED Arbiter!arbiterVars
    BY <1>9 DEF WorkerGet, Arbiter!arbiterVars
<1>10. ASSUME WorkerAwaitStops PROVE UNCHANGED Arbiter!arbiterVars
    BY <1>10 DEF WorkerAwaitStops, Arbiter!arbiterVars
<1>11. ASSUME WorkerLock PROVE UNCHANGED Arbiter!arbiterVars
    BY <1>11 DEF WorkerLock, Arbiter!arbiterVars
<1>12. ASSUME WorkerRetry PROVE UNCHANGED Arbiter!arbiterVars
    BY <1>12 DEF WorkerRetry, Arbiter!arbiterVars
<1>13. ASSUME WorkerSupersede PROVE UNCHANGED Arbiter!arbiterVars
    BY <1>13 DEF WorkerSupersede, Arbiter!arbiterVars
<1>14. ASSUME WorkerStart PROVE Arbiter!Start(current) /\ current \in Callers
  <2>1. current \in LiveCalls /\ Busy = Nobody
    BY <1>14 DEF WorkerStart
  <2>2. StopsInProgress = {}
    BY <1>14, NoStops DEF WorkerStart
  <2>3. Busy' = current /\ current \in Callers
    BY <1>14 DEF WorkerStart
  <2>4. LiveCalls' = LiveCalls \ {current}
    BY <1>14 DEF WorkerStart
  <2>5. UNCHANGED <<StopsInProgress, {d \in Callers : pc[d] = "leave"}>>
    BY <1>14 DEF WorkerStart
  <2>6. QED
    BY <2>1, <2>2, <2>3, <2>4, <2>5 DEF Arbiter!Start
<1>15. ASSUME WorkerFinish PROVE Arbiter!Finish
    BY <1>15 DEF WorkerFinish, Arbiter!Finish
<1>16. ASSUME WorkerDone PROVE UNCHANGED Arbiter!arbiterVars
    BY <1>16 DEF WorkerDone, Arbiter!arbiterVars
<1>17. ASSUME Close PROVE UNCHANGED Arbiter!arbiterVars
    BY <1>17 DEF Close, Arbiter!arbiterVars
<1>18. ASSUME UNCHANGED vars PROVE UNCHANGED Arbiter!arbiterVars
    BY <1>18 DEF vars, Arbiter!arbiterVars
<1> HIDE DEF TypeOK, ManagedCall, CallerPcs, WorkerPcs, managerVars,
        lockVars, workerVars, Goto,
        ManagerInv, LockOwners, QueueOwners, EpochOrder, LiveCalls, Busy,
        StopsInProgress, StopPcs
<1>19. QED
    BY <1>1, <1>2, <1>3, <1>4, <1>5, <1>6, <1>7, <1>8, <1>9, <1>10,
       <1>11, <1>12, <1>13, <1>14, <1>15, <1>16, <1>17, <1>18
       DEF Next, StopStep, WorkerStep, Exhausted, Arbiter!ArbiterNext

\* The manager implements the arbiter, for any set of callers: the guarantee
\* of the class docstring.
THEOREM ManagerImplementsArbiter == Spec => ImplementsArbiter
<1>1. QED
    BY ArbiterInitMaps, ArbiterStepMaps, ManagerInvariant, PTL
       DEF Spec, ImplementsArbiter, Arbiter!ArbiterSpec
=============================================================================
