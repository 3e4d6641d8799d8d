----------------------------- MODULE TuningForm -----------------------------
(***************************************************************************)
(* The tuning forms of one axis on a dashboard page: the form in the side  *)
(* panel and its floating copy, the edits that are not applied yet, the    *)
(* debounced apply of each input, Apply, Save to Drive, and the candidate  *)
(* that an auto tune leaves in the forms                                   *)
(* (web/static/desktop/js/dashboard.js).                                   *)
(*                                                                         *)
(* The answer of an apply carries the monitor's cached status, that is the *)
(* values of the last poll (ODriveMonitor.update_tuning).                  *)
(***************************************************************************)
EXTENDS Integers, FiniteSets, Sequences, SequencesExt

CONSTANTS TuningFields,   \* names of tuningBindings
          Gains,          \* values a field may have
          EmptyField,     \* the text ""
          SubmitKinds,    \* bound: the buttons pressed: Apply and Save of either form
          MaxTuningActs,  \* bound: values typed, results of an auto tune, and presses
                          \* of Apply and Save, in all
          MaxApplies      \* bound: requests pending at a time

ASSUME TuningFormAssumption ==
    /\ TuningFields # {} /\ Gains # {} /\ EmptyField \notin Gains
    /\ SubmitKinds \subseteq {"panel", "floating", "savePanel", "saveFloating"}
    /\ MaxTuningActs \in Nat /\ MaxApplies \in Nat

VARIABLES
    inputs,      \* the text of every input
    edits,       \* pendingTuningEdits, and the inputs with data-tuning-dirty
    candidate,   \* pendingAutoTuneTuning, or Empty
    applyTimers, \* autoApplyTimers, in the order they fire: all wait 220 ms
    applies,     \* requests to /api/tuning and /api/tuning/save that are pending
    drive,       \* server: the values in the drive
    polled,      \* server: the values in its status
    typed,       \* history: the newest value typed into each field, or EmptyField
    lost,        \* history: fields with a refused apply, or overwritten by an auto tune
    raced,       \* history: fields of two applies that were pending together, or sent
                 \* with an older value that a status had put back into the form
    tuningActs   \* number of those so far

tuningVars == <<inputs, edits, candidate, applyTimers, applies, drive, polled,
                typed, lost, raced, tuningActs>>

Forms == {"panel", "floating"}
Inputs == Forms \X TuningFields
NoFocus == <<"none", "none">>
Empty == <<>>
Texts == Gains \cup {EmptyField}
Saves == {"savePanel", "saveFloating"}
FieldsUnder(r) == {f \in DOMAIN r.values : r.phase # "flash"}

TuningInit ==
    /\ drive = [f \in TuningFields |-> CHOOSE g \in Gains : TRUE] /\ polled = drive
    /\ inputs = [i \in Inputs |-> drive[i[2]]]
    /\ edits = {} /\ candidate = Empty /\ applies = {}
    /\ applyTimers = <<>>
    /\ typed = [f \in TuningFields |-> EmptyField]
    /\ lost = {} /\ raced = {} /\ tuningActs = 0

Acts == tuningActs < MaxTuningActs /\ tuningActs' = tuningActs + 1
-----------------------------------------------------------------------------
(* Statuses *)

\* setInputValueIfIdle, for every input.
ShownUnlessFocused(values, active, dirty) ==   \* mutant: edits are not marked
    [i \in Inputs |-> IF active = i THEN inputs[i] ELSE values[i[2]]]
Shown(values, active, dirty) ==
    [i \in Inputs |-> IF active = i \/ i[2] \in dirty THEN inputs[i] ELSE values[i[2]]]

\* setTuningInputs: the candidate goes before the values of the status.
Preferred(values) == IF candidate = Empty THEN values ELSE candidate

\* A status that is rendered, also by openFloatingTuningPanel; the axis may be missing
\* from it.  The operator may have put the cursor into any input, or into none.
RenderTuning ==
    /\ \E values \in {polled, [f \in TuningFields |-> EmptyField]}, active \in Inputs \cup {NoFocus} :
          inputs' = Shown(Preferred(values), active, edits)
    /\ UNCHANGED <<edits, candidate, applyTimers, applies, drive, polled, typed, lost, raced,
                   tuningActs>>
-----------------------------------------------------------------------------
(* Edits *)

\* scheduleAutoApply: it returns before it clears the timer of an emptied input, of
\* which there is at most one.
Rescheduled(i, v) ==
    LET own == {k \in DOMAIN applyTimers : applyTimers[k].input = i}
        rest == IF own = {} THEN applyTimers ELSE RemoveAt(applyTimers, CHOOSE k \in own : TRUE)
    IN  IF v = EmptyField THEN applyTimers ELSE Append(rest, [input |-> i, value |-> v])

\* syncMatchingTuningInputs, with markTuningEditPending: the same input of every form.
Synced(i, v) ==
    /\ inputs' = [j \in Inputs |-> IF j[2] = i[2] THEN v ELSE inputs[j]]
    /\ edits' = edits \cup {i[2]}

\* The "input" listener.
Edit(i, v) ==
    /\ Acts
    /\ Synced(i, v)
    /\ candidate' = IF candidate = Empty THEN Empty ELSE [candidate EXCEPT ![i[2]] = v]
    /\ applyTimers' = Rescheduled(i, v)
    /\ typed' = [typed EXCEPT ![i[2]] = v]
    /\ lost' = lost \ {i[2]}
    /\ UNCHANGED <<applies, drive, polled, raced>>

\* applyTuningPayload up to its await.
Submit(kind, values) ==
    /\ \E id \in 1..MaxApplies :
          /\ \A r \in applies : r.id # id
          /\ \A n \in 1..id - 1 : \E r \in applies : r.id = n
          /\ applies' = applies \cup {[id |-> id, kind |-> kind, values |-> values,
                                      phase |-> "sent", status |-> Empty]}
    /\ raced' = raced \cup
          {f \in DOMAIN values : \/ (\E r \in applies : f \in FieldsUnder(r))
                                \/ (values[f] # typed[f] /\ typed[f] # EmptyField)}

\* The callback of scheduleAutoApply's timer.
TimerFires ==
    /\ applyTimers # <<>>
    /\ applyTimers' = Tail(applyTimers)
    /\ Submit("field", [f \in {Head(applyTimers).input[2]} |-> Head(applyTimers).value])
    /\ UNCHANGED <<inputs, edits, candidate, drive, polled, typed, lost, tuningActs>>

FormValues(form) == [f \in TuningFields |-> inputs[<<form, f>>]]

\* applyTuning and saveTuning with tuningPayloadFromForm: only the button that was
\* pressed is disabled until its requests have ended, a Save's up to the end of the
\* flash; either Save sends the form of the side panel.
SubmitForm(kind) ==
    /\ Acts
    /\ ~\E r \in applies : r.kind = kind
    /\ Submit(kind, FormValues(IF kind = "floating" THEN "floating" ELSE "panel"))
    /\ UNCHANGED <<inputs, edits, candidate, applyTimers, drive, polled, typed, lost>>
-----------------------------------------------------------------------------
(* The server: an empty text is skipped; values are read back only by the next poll *)

ServeApply(r) ==
    /\ r \in applies /\ r.phase = "sent"
    /\ LET given == {f \in DOMAIN r.values : r.values[f] # EmptyField} IN
       IF given = {} THEN /\ applies' = (applies \ {r}) \cup {[r EXCEPT !.phase = "failed"]}
                          /\ UNCHANGED drive
       ELSE /\ drive' = [f \in TuningFields |-> IF f \in given THEN r.values[f] ELSE drive[f]]
            /\ applies' = (applies \ {r}) \cup {[r EXCEPT !.phase = "ok", !.status = polled]}
    /\ UNCHANGED <<inputs, edits, candidate, applyTimers, polled, typed, lost, raced,
                   tuningActs>>

PollTuning ==
    /\ polled # drive
    /\ polled' = drive
    /\ UNCHANGED <<inputs, edits, candidate, applyTimers, applies, drive, typed, lost,
                   raced, tuningActs>>

\* A request that is lost, before or after it is served, or that the drive refuses.
FailApply(r) ==
    /\ r \in applies /\ r.phase \in {"sent", "ok"}
    /\ applies' = (applies \ {r}) \cup {[r EXCEPT !.phase = "failed"]}
    /\ UNCHANGED <<inputs, edits, candidate, applyTimers, drive, polled, typed, lost,
                   raced, tuningActs>>
-----------------------------------------------------------------------------
(* The answers *)

\* clearAppliedTuningEdits: only an edit that still shows what was submitted.
Applied(r) == {f \in edits \cap DOMAIN r.values : inputs[<<"panel", f>>] = r.values[f]}

\* applyTuningPayload after its await: renderStatus first, then the candidate and the
\* edits; saveTuning goes on to the flash.
ApplyOk(r) ==
    /\ r \in applies /\ r.phase = "ok"
    /\ \E active \in Inputs \cup {NoFocus} : inputs' = Shown(Preferred(r.status), active, edits)
    /\ candidate' = Empty
    /\ edits' = edits \ Applied(r)
    /\ applies' = (applies \ {r}) \cup
          IF r.kind \in Saves THEN {[r EXCEPT !.phase = "flash", !.status = Empty]} ELSE {}
    /\ UNCHANGED <<applyTimers, drive, polled, typed, lost, raced, tuningActs>>

ApplyFailed(r) ==
    /\ r \in applies /\ r.phase = "failed"
    /\ applies' = applies \ {r}
    /\ lost' = lost \cup FieldsUnder(r)
    /\ UNCHANGED <<inputs, edits, candidate, applyTimers, drive, polled, typed, raced,
                   tuningActs>>

\* The drive is flashed with what it holds, or the flash fails: no form changes.
FlashEnds(r) ==
    /\ r \in applies /\ r.phase = "flash"
    /\ applies' = applies \ {r}
    /\ UNCHANGED <<inputs, edits, candidate, applyTimers, drive, polled, typed, lost,
                   raced, tuningActs>>

\* runAutoTune's result with applyAutoTuneResultToFields: every input is overwritten; a
\* result that was not flashed stays a candidate.
AutoTuneResult(tuning, saved) ==
    /\ Acts
    /\ inputs' = [i \in Inputs |-> tuning[i[2]]]
    /\ candidate' = IF saved THEN Empty ELSE tuning
    /\ drive' = IF saved THEN tuning ELSE drive
    /\ typed' = [f \in TuningFields |-> EmptyField]
    /\ lost' = TuningFields
    /\ UNCHANGED <<edits, applyTimers, applies, polled, raced>>
-----------------------------------------------------------------------------
TuningEdits ==
    \/ \E i \in Inputs, v \in Texts : Edit(i, v)
    \/ RenderTuning \/ TimerFires
TuningRequests ==
    \/ \E kind \in SubmitKinds : SubmitForm(kind)
    \/ \E r \in applies : ApplyOk(r) \/ ApplyFailed(r) \/ FlashEnds(r)
TuningResults ==
    \E tuning \in [TuningFields -> Gains], saved \in BOOLEAN : AutoTuneResult(tuning, saved)
TuningServer == PollTuning \/ \E r \in applies : ServeApply(r) \/ FailApply(r)

TuningNext == TuningEdits \/ TuningRequests \/ TuningResults \/ TuningServer

TuningTypeOK ==
    /\ inputs \in [Inputs -> Texts]
    /\ edits \subseteq TuningFields
    /\ candidate = Empty \/ candidate \in [TuningFields -> Texts]
    /\ drive \in [TuningFields -> Gains] /\ polled \in [TuningFields -> Gains]
    /\ \A r \in applies : r.phase \in {"sent", "ok", "failed", "flash"}

\* Until an edit is applied both forms show it, whatever statuses and answers of
\* other applies are rendered; only a result of an auto tune may take its place
\* (syncMatchingTuningInputs, setInputValueIfIdle).
EditIsShownUntilApplied ==
    \A f \in edits : \/ f \in lost /\ typed[f] = EmptyField
                     \/ \A form \in Forms : inputs[<<form, f>>] = typed[f]

\* No edit is left unsent: an input that is not empty and not yet applied has a timer
\* or a request with its value, or its apply has been refused (scheduleAutoApply and
\* clearAppliedTuningEdits, with two timers per field and answers in any order).
NoEditStranded ==
    \A f \in edits :
        \/ f \in lost \/ typed[f] = EmptyField
        \/ \E t \in Range(applyTimers) : t.input[2] = f /\ t.value = typed[f]
        \/ \E r \in applies : f \in FieldsUnder(r) /\ r.values[f] = typed[f]

\* What was typed last is in the drive once its edit counts as applied, unless two
\* applies of the field were under way together or a form was sent while it showed
\* the status of before (clearAppliedTuningEdits, the cached answer of an apply).
LastEditWins ==
    \A f \in TuningFields \ (edits \cup lost \cup raced) :
        typed[f] # EmptyField =>
            \/ drive[f] = typed[f]
            \/ \E t \in Range(applyTimers) : t.input[2] = f
            \/ \E r \in applies : f \in FieldsUnder(r)

\* While a candidate is kept it is what the forms show and what Save would send
\* (setTuningInputs, applyAutoTuneResultToFields and the input listener).
CandidateIsOnTheForms ==
    candidate # Empty => \A i \in Inputs : inputs[i] = candidate[i[2]]

\* Nothing typed into the tuning forms is lost or left behind, whatever statuses,
\* timers, answers and results of an auto tune come in between.
TuningInv ==
    /\ TuningTypeOK
    /\ EditIsShownUntilApplied
    /\ NoEditStranded
    /\ LastEditWins
    /\ CandidateIsOnTheForms
=============================================================================
