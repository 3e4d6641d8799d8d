------------------------------ MODULE AutoTune ------------------------------
(***************************************************************************)
(* Auto tune as a dashboard page runs it: one panel per axis with a range  *)
(* of positions, one run of the page at a time, a stop request, and the    *)
(* part of the server that decides whether the stop is heeded              *)
(* (web/static/desktop/js/dashboard.js, ODriveMonitor.auto_tune_axis).     *)
(***************************************************************************)
EXTENDS Integers, FiniteSets

CONSTANTS TuneAxes,      \* axis labels
          Positions,     \* positions an operator may type, in degrees
          EmptyText,     \* the text "", and a position that is not known
          NotStored,     \* no text of the input is stored
          SoftLimits,    \* <<lower, upper>> motion limits of the settings
          Presets,       \* <<lower, upper>> texts that were stored, or NotStored
          Templates,     \* <<lower, upper>> texts of the page's template
          MaxRuns        \* bound: runs of the page

ASSUME AutoTuneAssumption ==
    /\ TuneAxes # {} /\ "none" \notin TuneAxes
    /\ Positions \subseteq Int /\ EmptyText \in Int \ Positions
    /\ NotStored \in Int \ (Positions \cup {EmptyText})
    /\ SoftLimits \cup Presets \cup {Templates} \subseteq Int \X Int
    /\ MaxRuns \in Nat

VARIABLES
    tuneRange,  \* the position inputs of the open panel
    tuneRun,    \* autoTuneRunState: the axis of the run, or "none", and stopping
    runs,       \* requests to /api/tuning/<axis>/auto that are pending for the page
    queued,     \* those on their way, or in the queue of the owner of the hardware
    stops,      \* requests to /auto/stop that are pending
    asked,      \* number of runs so far; a run and its stop go by it
    tuner,      \* server: the run under way, or NoRun, and its range
    stopFlag,   \* server: _auto_tune_stop
    unheeded    \* history: the page's last stop has failed, or was served before its
                \* run started

autoVars == <<tuneRange, tuneRun, runs, queued, stops, asked, tuner, stopFlag, unheeded>>

NoRange == <<EmptyText, EmptyText>>
NoTune == [axis |-> "none", stopping |-> FALSE]
NoRun == [id |-> 0, range |-> NoRange]

AutoInit ==
    /\ tuneRange \in {Templates} \cup {NoRange}
    /\ tuneRun = NoTune /\ runs = {} /\ queued = {} /\ stops = {} /\ asked = 0
    /\ tuner = NoRun /\ stopFlag = FALSE /\ unheeded = FALSE
-----------------------------------------------------------------------------
(* The panel *)

\* populateAutoTuneDefaults: an empty or untouched range is set round the position,
\* within the limits; loadAutoTuneSettings puts the stored texts over it, an empty one
\* too.
Larger(a, b) == IF a > b THEN a ELSE b
Smaller(a, b) == IF a < b THEN a ELSE b
HalfSpan(limits) == Smaller(60, Larger(10, (limits[2] - limits[1]) \div 2))
Around(position, limits) ==
    <<Larger(limits[1], position - HalfSpan(limits)),
      Smaller(limits[2], position + HalfSpan(limits))>>

OpenAutoTune ==
    /\ \E position \in Positions \cup {EmptyText}, limits \in SoftLimits, stored \in Presets :
          LET proposed == IF position = EmptyText THEN limits ELSE Around(position, limits)
              filled == [i \in 1..2 |-> IF tuneRange[i] = EmptyText \/ tuneRange = Templates
                                        THEN proposed[i] ELSE tuneRange[i]]
          IN  tuneRange' = [i \in 1..2 |-> IF stored[i] = NotStored THEN filled[i] ELSE stored[i]]
    /\ UNCHANGED <<tuneRun, runs, queued, stops, asked, tuner, stopFlag, unheeded>>

TypeRange ==
    /\ \E i \in 1..2, v \in Positions \cup {EmptyText} : tuneRange' = [tuneRange EXCEPT ![i] = v]
    /\ UNCHANGED <<tuneRun, runs, queued, stops, asked, tuner, stopFlag, unheeded>>

\* autoTunePayload: toNumber makes an empty text 0; the counts, speeds and tolerances
\* that it checks as well are left out.
RangeNumber(x) == IF x = EmptyText THEN 0 ELSE x
Payload(r) == <<RangeNumber(r[1]), RangeNumber(r[2])>>
Valid(r) == Payload(r)[1] < Payload(r)[2]
-----------------------------------------------------------------------------
(* The run *)

\* runAutoTune up to its await.
StartAutoTune(a) ==
    /\ asked < MaxRuns
    /\ asked' = asked + 1
    /\ tuneRun' = [axis |-> a, stopping |-> FALSE]
    /\ runs' = runs \cup {[id |-> asked + 1, phase |-> "sent"]}
    /\ queued' = queued \cup {[id |-> asked + 1, range |-> Payload(tuneRange)]}
    /\ unheeded' = FALSE
    /\ UNCHANGED <<tuneRange, stops, tuner, stopFlag>>

\* stopAutoTune up to its await: the axis is that of the run.
StopAutoTune ==
    /\ ~tuneRun.stopping
    /\ tuneRun' = [tuneRun EXCEPT !.stopping = TRUE]
    /\ stops' = stops \cup {asked}
    /\ UNCHANGED <<tuneRange, runs, queued, asked, tuner, stopFlag, unheeded>>

\* The submit listener of an axis' panel.
SubmitAutoOwnAxis(a) ==                     \* mutant: only the axis' own run is a stop
    \/ tuneRun.axis = a /\ StopAutoTune
    \/ tuneRun.axis # a /\ Valid(tuneRange) /\ StartAutoTune(a)
SubmitAuto(a) ==
    \/ tuneRun.axis # "none" /\ StopAutoTune
    \/ tuneRun.axis = "none" /\ Valid(tuneRange) /\ StartAutoTune(a)

\* The finally block of runAutoTune, after the answer or the loss of the request.
RunEnds(r) ==
    /\ r.phase \in {"answered", "lost"}
    /\ runs' = runs \ {r}
    /\ tuneRun' = NoTune
    /\ UNCHANGED <<tuneRange, queued, stops, asked, tuner, stopFlag, unheeded>>

\* The connection of a run or of a stop is lost; the server may have the run all the
\* same, under way or in its queue, and begin it when the page has done with it.
LoseRun(r) ==
    /\ r.phase = "sent"
    /\ runs' = (runs \ {r}) \cup {[r EXCEPT !.phase = "lost"]}
    /\ queued' \in {queued, {q \in queued : q.id # r.id}}
    /\ UNCHANGED <<tuneRange, tuneRun, stops, asked, tuner, stopFlag, unheeded>>
LoseStop(s) ==
    /\ stops' = stops \ {s}
    /\ unheeded' = (unheeded \/ tuneRun.stopping)
    /\ UNCHANGED <<tuneRange, tuneRun, runs, queued, asked, tuner, stopFlag>>
-----------------------------------------------------------------------------
(* The server *)

\* auto_tune_axis: the owner of the hardware runs one at a time, and each clears the
\* stop flag when it starts.
BeginRun(q) ==
    /\ tuner = NoRun
    /\ tuner' = q /\ queued' = queued \ {q}
    /\ stopFlag' = FALSE
    /\ UNCHANGED <<tuneRange, tuneRun, runs, stops, asked, unheeded>>

FinishRun ==
    /\ tuner # NoRun
    /\ tuner' = NoRun
    /\ runs' = {IF r.id = tuner.id /\ r.phase = "sent" THEN [r EXCEPT !.phase = "answered"]
                ELSE r : r \in runs}
    /\ UNCHANGED <<tuneRange, tuneRun, queued, stops, asked, stopFlag, unheeded>>

\* The page's run has not begun.
Waiting == \E q \in queued, r \in runs : q.id = r.id

\* request_auto_tune_stop: at once, for whatever run is under way or comes next.
ServeStop(s) ==
    /\ stops' = stops \ {s}
    /\ stopFlag' = TRUE
    /\ unheeded' = (unheeded \/ Waiting)
    /\ UNCHANGED <<tuneRange, tuneRun, runs, queued, asked, tuner>>
-----------------------------------------------------------------------------
AutoPanel == OpenAutoTune \/ TypeRange
AutoRun ==
    \/ \E a \in TuneAxes : SubmitAuto(a)
    \/ \E r \in runs : RunEnds(r) \/ LoseRun(r)
    \/ \E s \in stops : LoseStop(s)
AutoServer ==
    \/ \E q \in queued : BeginRun(q)
    \/ FinishRun
    \/ \E s \in stops : ServeStop(s)

AutoNext == AutoPanel \/ AutoRun \/ AutoServer

AutoTypeOK ==
    /\ tuneRange[1] \in Int /\ tuneRange[2] \in Int
    /\ tuneRun \in [axis : TuneAxes, stopping : BOOLEAN] \cup {NoTune}
    /\ asked \in 0..MaxRuns /\ stops \subseteq 1..MaxRuns

\* The page has one run at a time whichever panel's button is pressed, and while its
\* request is pending the buttons are a stop (the submit listeners, runAutoTune).
OneAutoTune ==
    /\ Cardinality(runs) <= 1
    /\ runs # {} <=> tuneRun.axis # "none"

\* No run turns an axis through an empty or reversed range, though the inputs are
\* filled in from the position, the limits and what was stored (autoTunePayload).
RangeIsForward == tuner # NoRun => tuner.range[1] < tuner.range[2]

\* "Stopping auto tune after current sample...": when the page shows it and the run
\* turns on with nothing under way to end it, the stop was lost or came before the
\* run had cleared the flag (stopAutoTune, auto_tune_axis).
UnheededStopHasCause ==
    (tuneRun.stopping /\ tuner # NoRun /\ (\E r \in runs : r.id = tuner.id) /\ stops = {})
        => stopFlag \/ unheeded

\* One run at a time, through a range that goes forward, and a stop that is shown is
\* heeded unless it was lost or came too early (runAutoTune, stopAutoTune).
AutoTuneInv ==
    /\ AutoTypeOK
    /\ OneAutoTune
    /\ RangeIsForward
    /\ UnheededStopHasCause
=============================================================================
