-------------------------- MODULE ConfigurationWorker --------------------------
(***************************************************************************)
(* scripts/configuration_worker.py: the process that polls the server for  *)
(* a Station configuration, validates it, replaces active.json durably,    *)
(* records it in state.json and acknowledges it.  One poll is several      *)
(* writes and requests; any of them may fail, the process may be killed    *)
(* between any two, and an acknowledgement whose answer timed out may be   *)
(* lost, or may still reach the server later.                              *)
(*                                                                         *)
(* Abstracted: the fields of a configuration (a revision is valid or not), *)
(* the signatures, and the error texts kept in state.json.                 *)
(***************************************************************************)
EXTENDS Integers

CONSTANTS MaxRevision,  \* bound: the revisions the server may offer
          Invalid,      \* the revisions that validate() rejects
          MaxCrashes    \* bound: restarts of the process

ASSUME ConfigurationAssumption ==
    /\ MaxRevision \in Nat /\ MaxCrashes \in Nat
    /\ Invalid \subseteq 1..MaxRevision

VARIABLES
    offered,    \* the server's revision, 0 for none
    acks,       \* the acknowledgements the server has received
    inFlight,   \* acknowledgements sent and not yet received
    active,     \* the revision in active.json, 0 for no file
    stateFile,  \* applied_revision and acked_revision of state.json, 0 for None
    state,      \* the worker's copy
    pc,         \* where run_once() is
    revision,   \* the revision it handles
    crashes,    \* restarts so far
    torn        \* history: the revision a write that failed has left in active.json, or 0

serverVars == <<offered, acks, inFlight>>
fileVars   == <<active, stateFile>>
vars == <<serverVars, fileVars, state, pc, revision, crashes, torn>>

Revisions == 1..MaxRevision
Nothing   == [applied |-> 0, acked |-> 0]

Init ==
    /\ offered = 0 /\ acks = {} /\ inFlight = {}
    /\ active = 0 /\ stateFile = Nothing
    /\ state = Nothing
    /\ pc = "idle" /\ revision = 0
    /\ crashes = 0 /\ torn = 0

Goto(label) == pc' = label
-----------------------------------------------------------------------------
(* The server and the network *)

\* The server may also go back to an earlier revision.
Offer(r) ==
    /\ r # offered
    /\ offered' = r
    /\ UNCHANGED <<acks, inFlight, fileVars, state, pc, revision, crashes, torn>>

Deliver(a) ==
    /\ a \in inFlight
    /\ acks' = acks \cup {a}
    /\ inFlight' = inFlight \ {a}
    /\ UNCHANGED <<offered, fileVars, state, pc, revision, crashes, torn>>

\* The answer that run_once() waits for is that to the acknowledgement a.
Awaits(a) ==
    \/ pc = "appliedSent"  /\ a = <<revision, "applied">>
    \/ pc = "rejectedSent" /\ a = <<revision, "rejected">>

\* An acknowledgement is lost for good: a worker that waits for its answer
\* times out, and this poll ends.
Lose(a) ==
    /\ a \in inFlight
    /\ inFlight' = inFlight \ {a}
    /\ pc' = IF Awaits(a) THEN "idle" ELSE pc
    /\ UNCHANGED <<offered, acks, fileVars, state, revision, crashes, torn>>
-----------------------------------------------------------------------------
(* run_once() *)

\* Mutant: a revision that is applied is always skipped.
PollWithoutRetry ==
    /\ pc = "idle"
    /\ offered > state.applied
    /\ revision' = offered
    /\ Goto("validate")
    /\ UNCHANGED <<serverVars, fileVars, state, crashes, torn>>

\* The GET is answered; an old revision, and one whose acknowledgement is on
\* record, are skipped.
Poll ==
    /\ pc = "idle"
    /\ revision' = offered
    /\ \/ offered > state.applied /\ Goto("validate")
       \/ offered = state.applied /\ offered # 0 /\ state.acked # offered /\ Goto("applied")
    /\ UNCHANGED <<serverVars, fileVars, state, crashes, torn>>

Validate ==
    /\ pc = "validate"
    /\ revision \notin Invalid
    /\ Goto("write")
    /\ UNCHANGED <<serverVars, fileVars, state, revision, crashes, torn>>

\* The revision is invalid, or the drive limits it is compared with cannot be
\* read from the local server at the moment.
FailValidation ==
    /\ pc = "validate"
    /\ Goto("reject")
    /\ UNCHANGED <<serverVars, fileVars, state, revision, crashes, torn>>

\* Mutant: a failed write is not noticed.
WriteActiveUnchecked ==
    /\ pc = "write"
    /\ active' \in {active, revision}
    /\ Goto("record")
    /\ UNCHANGED <<serverVars, stateFile, state, revision, crashes, torn>>

WriteActive ==
    /\ pc = "write"
    /\ active' = revision
    /\ torn' = 0
    /\ Goto("record")
    /\ UNCHANGED <<serverVars, stateFile, state, revision, crashes>>

\* atomic_json_write raises before os.replace (disk full), or after it, when the
\* directory cannot be synchronised.
FailWriteActive ==
    /\ pc = "write"
    /\ active' \in {active, revision}
    /\ torn' = IF active' = revision THEN revision ELSE torn
    /\ Goto("reject")
    /\ UNCHANGED <<serverVars, stateFile, state, revision, crashes>>

\* _save_state of a new copy of the state: where it raises, run_once() is left.
Save(new, next) ==
    /\ state' = new
    /\ \/ stateFile' = new /\ Goto(next)
       \/ stateFile' \in {stateFile, new} /\ Goto("idle")

\* Mutant: the acknowledgement is on record before it is sent.
RecordAppliedAsAcked ==
    /\ pc = "record"
    /\ Save([applied |-> revision, acked |-> revision], "applied")
    /\ UNCHANGED <<serverVars, active, revision, crashes, torn>>

\* Mutant: the revision that is expected next goes on record.
RecordNext ==
    /\ pc = "record"
    /\ Save([applied |-> revision + 1, acked |-> 0], "applied")
    /\ UNCHANGED <<serverVars, active, revision, crashes, torn>>

RecordApplied ==
    /\ pc = "record"
    /\ Save([applied |-> revision, acked |-> 0], "applied")
    /\ UNCHANGED <<serverVars, active, revision, crashes, torn>>

RecordRejected ==
    /\ pc = "reject"
    /\ Save(state, "rejected")
    /\ UNCHANGED <<serverVars, active, revision, crashes, torn>>

\* acknowledge(): the POST leaves ...
SendAck ==
    /\ pc \in {"applied", "rejected"}
    /\ inFlight' = inFlight \cup {<<revision, pc>>}
    /\ Goto(IF pc = "applied" THEN "appliedSent" ELSE "rejectedSent")
    /\ UNCHANGED <<offered, acks, fileVars, state, revision, crashes, torn>>

\* ... is answered, and an applied one goes on record ...
Answered ==
    /\ \/ /\ pc = "appliedSent"
          /\ <<revision, "applied">> \notin inFlight
          /\ Save([state EXCEPT !.acked = revision], "idle")
       \/ /\ pc = "rejectedSent"
          /\ <<revision, "rejected">> \notin inFlight
          /\ Goto("idle")
          /\ UNCHANGED <<state, stateFile>>
    /\ UNCHANGED <<serverVars, active, revision, crashes, torn>>

\* ... or times out or is refused, which ends this poll.
Unanswered ==
    /\ pc \in {"appliedSent", "rejectedSent"}
    /\ Goto("idle")
    /\ UNCHANGED <<serverVars, fileVars, state, revision, crashes, torn>>

\* Mutant: __init__ does not look at active.json.
RestartFromState ==
    /\ crashes < MaxCrashes
    /\ crashes' = crashes + 1
    /\ state' = stateFile
    /\ Goto("idle")
    /\ torn' = 0
    /\ UNCHANGED <<serverVars, fileVars, revision>>

\* The process is killed and started again: __init__ recovers the state.
Restart ==
    /\ crashes < MaxCrashes
    /\ crashes' = crashes + 1
    /\ state' = [stateFile EXCEPT !.applied = IF active > @ THEN active ELSE @]
    /\ Goto("idle")
    /\ torn' = 0
    /\ UNCHANGED <<serverVars, fileVars, revision>>

RunOnce ==
    \/ Poll \/ Validate \/ FailValidation \/ WriteActive \/ FailWriteActive
    \/ RecordApplied \/ RecordRejected \/ SendAck \/ Answered \/ Unanswered

Next ==
    \/ \E r \in 0..MaxRevision : Offer(r)
    \/ \E a \in inFlight : Deliver(a) \/ Lose(a)
    \/ RunOnce
    \/ Restart

Spec == Init /\ [][Next]_vars

\* The worker keeps polling (Restart=always), neither the local server nor the
\* disk fails for ever, and of an acknowledgement that is sent again and again
\* one arrives; any single one may be lost.
Answers == Revisions \X {"applied", "rejected"}

Fairness ==
    /\ WF_vars(RunOnce)
    /\ SF_vars(Validate) /\ SF_vars(WriteActive)
    /\ \A r \in Revisions : SF_vars(Deliver(<<r, "applied">>))

FairSpec == Spec /\ Fairness
-----------------------------------------------------------------------------
(* Properties *)

States == [applied : 0..MaxRevision, acked : 0..MaxRevision]

TypeOK ==
    /\ offered \in 0..MaxRevision
    /\ acks \subseteq Answers /\ inFlight \subseteq Answers
    /\ active \in 0..MaxRevision
    /\ stateFile \in States /\ state \in States
    /\ pc \in {"idle", "validate", "write", "record", "reject",
               "applied", "rejected", "appliedSent", "rejectedSent"}
    /\ revision \in 0..MaxRevision
    /\ crashes \in 0..MaxCrashes /\ torn \in 0..MaxRevision

\* Whatever the server offers and wherever the worker is killed, the Station
\* never goes back from a revision to an earlier one (lines 100-104 and 248),
\* unless the worker took the later one for rejected because its write failed
\* after it had replaced the file.
ActiveNeverRegresses == [][active' < active => active = torn]_vars

\* "ACKs only after successful application": an acknowledgement that says
\* "applied", even one still on its way, is of a revision that is, or was before a
\* newer one, the content of active.json; and state.json is never ahead of it.
AppliedIsActive ==
    /\ \A r \in Revisions : <<r, "applied">> \in acks \cup inFlight => r <= active
    /\ stateFile.applied <= active /\ state.applied <= active

\* Types, and what is acknowledged as applied or on record is durable.
ConfigurationInv == TypeOK /\ AppliedIsActive

\* acked_revision, which ends the retries, names only a revision whose
\* acknowledgement the server has.
RecordedAckWasReceived ==
    \A s \in {state, stateFile} : s.acked # 0 => <<s.acked, "applied">> \in acks

\* If the server goes on offering a valid revision, the Station applies it (or
\* had a newer one) and the server hears of it, whatever failed or was lost in
\* between: the retry of line 253 ends only when an acknowledgement was received.
StableRevisionIsAcknowledged ==
    \A r \in Revisions \ Invalid :
        <>[](offered = r) => <>(<<r, "applied">> \in acks \/ active > r)
=============================================================================
