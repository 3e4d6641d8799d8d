----------------------- MODULE ConfigurationWorkerProofs -----------------------
(***************************************************************************)
(* What holds of scripts/configuration_worker.py for any number of         *)
(* revisions and restarts.  None of the safety properties is inductive:    *)
(* they need to know what each step of a poll may rely on (StepFacts) and  *)
(* that state.json is never ahead of the worker's copy (CopyIsAhead).      *)
(***************************************************************************)
EXTENDS ConfigurationWorker, TLAPS

Applied(r) == <<r, "applied">> \in acks \cup inFlight

\* A revision is being applied only if it is newer than what is on record, and
\* acknowledged only once it is on record.
StepFacts ==
    /\ pc # "idle" => revision \in Revisions
    /\ pc \in {"validate", "write"} => revision > state.applied
    /\ pc = "record" => active = revision /\ revision > state.applied
    /\ pc \in {"applied", "appliedSent"} => revision = state.applied
    /\ pc = "appliedSent" => Applied(revision)

CopyIsAhead ==
    /\ stateFile.applied <= state.applied
    /\ \A r \in Revisions : Applied(r) => r <= state.applied

\* A revision that is newer than the record got there by the step before, or by
\* a write that failed.
ActiveOnRecord == active # torn => active <= state.applied \/ pc = "record"

Inv ==
    /\ TypeOK
    /\ StepFacts
    /\ CopyIsAhead
    /\ ActiveOnRecord
    /\ AppliedIsActive
    /\ RecordedAckWasReceived
-----------------------------------------------------------------------------
LEMMA InitInv == Init => Inv
<1> SUFFICES ASSUME Init PROVE Inv
    OBVIOUS
<1> USE ConfigurationAssumption DEF Init, Nothing
<1>1. TypeOK
    BY DEF TypeOK, States, Answers, Revisions
<1>2. StepFacts /\ CopyIsAhead /\ ActiveOnRecord
    BY DEF StepFacts, CopyIsAhead, ActiveOnRecord, Applied, Revisions
<1>3. AppliedIsActive /\ RecordedAckWasReceived
    BY DEF AppliedIsActive, RecordedAckWasReceived, Revisions
<1> QED
    BY <1>1, <1>2, <1>3 DEF Inv

LEMMA InvStep == Inv /\ [Next]_vars => Inv'
<1> SUFFICES ASSUME Inv, [Next]_vars PROVE Inv'
    OBVIOUS
<1> USE ConfigurationAssumption DEF Inv, TypeOK, StepFacts, CopyIsAhead, ActiveOnRecord, AppliedIsActive,
        RecordedAckWasReceived, Applied, States, Answers, Revisions, Goto, serverVars, fileVars
<1>1. ASSUME NEW r \in 0..MaxRevision, Offer(r) PROVE Inv'
    BY <1>1 DEF Offer
<1>2. ASSUME NEW a \in inFlight, Deliver(a) PROVE Inv'
    BY <1>2 DEF Deliver
<1>3. CASE Poll
    BY <1>3 DEF Poll
<1>4. CASE Validate
    BY <1>4 DEF Validate
<1>5. CASE FailValidation
    BY <1>5 DEF FailValidation
<1>6. CASE WriteActive
    BY <1>6 DEF WriteActive
<1>7. CASE FailWriteActive
    BY <1>7 DEF FailWriteActive
<1>8. CASE RecordApplied
    BY <1>8 DEF RecordApplied, Save
<1>9. CASE RecordRejected
    BY <1>9 DEF RecordRejected, Save
<1>10. CASE SendAck
    BY <1>10 DEF SendAck
<1>11. CASE Answered
    BY <1>11 DEF Answered, Save
<1>12. CASE Unanswered
    BY <1>12 DEF Unanswered
<1>13. CASE Restart
    BY <1>13 DEF Restart
<1>14. ASSUME NEW a \in inFlight, Lose(a) PROVE Inv'
    BY <1>14 DEF Lose, Awaits
<1>15. CASE UNCHANGED vars
    BY <1>15 DEF vars
<1> QED
    BY <1>1, <1>2, <1>3, <1>4, <1>5, <1>6, <1>7, <1>8, <1>9, <1>10, <1>11, <1>12, <1>13, <1>14, <1>15 DEF Next, RunOnce
-----------------------------------------------------------------------------
\* Wherever the worker is killed and whatever write or request of run_once() fails,
\* what each step of the poll relies on holds.
THEOREM InvariantHolds == Spec => []Inv
<1> QED
    BY InitInv, InvStep, PTL DEF Spec

\* The files, the worker's copy and the acknowledgements only ever name revisions
\* the server has offered.
THEOREM TypeCorrect == Spec => []TypeOK
<1>1. Inv => TypeOK
    BY DEF Inv
<1> QED
    BY <1>1, InvariantHolds, PTL

\* An acknowledgement "applied" leaves run_once() only for what active.json holds
\* or has held before a newer revision, and state.json is never ahead of the file.
THEOREM AppliedIsDurable == Spec => []AppliedIsActive
<1>1. Inv => AppliedIsActive
    BY DEF Inv
<1> QED
    BY <1>1, InvariantHolds, PTL

\* Both of them, as the run checks them.
THEOREM ConfigurationSound == Spec => []ConfigurationInv
<1> QED
    BY TypeCorrect, AppliedIsDurable, PTL DEF ConfigurationInv

\* run_once() stops repeating an acknowledgement only when the server has it, also
\* when an answer was lost or the worker was killed before it was recorded.
THEOREM RetriesEndOnReceipt == Spec => []RecordedAckWasReceived
<1>1. Inv => RecordedAckWasReceived
    BY DEF Inv
<1> QED
    BY <1>1, InvariantHolds, PTL

\* Only a write changes active.json, and it writes a revision newer than the record;
\* what the file holds is on record unless the write that put it there has failed.
LEMMA StepNeverRegresses ==
    Inv /\ [Next]_vars => (active' < active => active = torn)
<1> SUFFICES ASSUME Inv, [Next]_vars, active' < active PROVE active = torn
    OBVIOUS
<1>1. active' # active
    BY DEF Inv, TypeOK
<1>2. WriteActive \/ FailWriteActive
    BY <1>1 DEF Next, RunOnce, Offer, Deliver, Lose, Poll, Validate, FailValidation, RecordApplied,
       RecordRejected, SendAck, Answered, Unanswered, Restart, vars, fileVars
<1>3. pc = "write" /\ active' = revision
    BY <1>1, <1>2 DEF WriteActive, FailWriteActive
<1>4. active' > state.applied
    BY <1>3 DEF Inv, StepFacts
<1> QED
    BY <1>3, <1>4 DEF Inv, TypeOK, States, ActiveOnRecord

\* Whatever the server offers, and with any number of restarts, the Station goes
\* back to an earlier revision only from one it has rejected after a failed write.
THEOREM NeverRegresses == Spec => ActiveNeverRegresses
<1>1. Inv /\ [Next]_vars => [active' < active => active = torn]_vars
    BY StepNeverRegresses
<1> QED
    BY <1>1, InvariantHolds, PTL DEF Spec, ActiveNeverRegresses
=============================================================================
