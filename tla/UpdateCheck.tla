----------------------------- MODULE UpdateCheck -----------------------------
(***************************************************************************)
(* The check for a firmware update on a dashboard page: the button, the    *)
(* request, the interval that polls /api/system/info, one more load after  *)
(* 900 ms, and the outcome that is shown                                   *)
(* (web/static/desktop/js/dashboard.js, _run_update_check_soon).           *)
(***************************************************************************)
EXTENDS Integers, FiniteSets

CONSTANTS MaxChecks,   \* bound: checks
          MaxInfos     \* bound: loads of the system information pending at a time

ASSUME UpdateCheckAssumption == MaxChecks \in Nat /\ MaxInfos \in Nat \ {0}

VARIABLES
    checkDisabled,   \* the button is disabled
    checkPost,       \* the request to /api/system/update-check
    pollTimer,       \* updatePollTimer
    onceTimer,       \* the timer of 900 ms
    infos,           \* loads pending: a slot, the kind, and the state it got
    checkMessage,    \* what systemUpdateMessage says
    checks,          \* number of checks so far
    updater,         \* server: the updater's state
    requested        \* server: a thread was started and has not queued the updater yet

updateVars == <<checkDisabled, checkPost, pollTimer, onceTimer, infos, checkMessage,
                checks, updater, requested>>

Active == {"queued", "checking", "updating"}
Outcomes == {"current", "updated", "failed"}
Unavailable == "unavailable"

UpdateInit ==
    /\ checkDisabled = FALSE /\ checkPost = "none" /\ pollTimer = FALSE /\ onceTimer = FALSE
    /\ infos = {} /\ checkMessage = "" /\ checks = 0
    /\ updater \in {"waiting", "current"} /\ requested = FALSE
-----------------------------------------------------------------------------
\* requestUpdateCheck up to its await.
ClickCheck ==
    /\ ~checkDisabled /\ checks < MaxChecks
    /\ checks' = checks + 1
    /\ checkDisabled' = TRUE
    /\ checkPost' = "sent"
    /\ checkMessage' = "checking"
    /\ UNCHANGED <<pollTimer, onceTimer, infos, updater, requested>>

\* After it: startUpdateStatusPolling, or the error.
CheckSentSilently ==                        \* mutant: an error leaves the button alone
    /\ checkPost \in {"ok", "failed"}
    /\ checkPost' = "none"
    /\ pollTimer' = (pollTimer \/ checkPost = "ok")
    /\ onceTimer' = (onceTimer \/ checkPost = "ok")
    /\ checkMessage' = IF checkPost = "ok" THEN "running" ELSE "failed"
    /\ UNCHANGED <<checkDisabled, infos, checks, updater, requested>>
CheckSent ==
    /\ checkPost \in {"ok", "failed"}
    /\ checkPost' = "none"
    /\ pollTimer' = (pollTimer \/ checkPost = "ok")
    /\ onceTimer' = (onceTimer \/ checkPost = "ok")
    /\ checkDisabled' = (checkPost = "ok")
    /\ checkMessage' = IF checkPost = "ok" THEN "running" ELSE "failed"
    /\ UNCHANGED <<infos, checks, updater, requested>>

\* The interval, and the timer of 900 ms: loadSystemInfo.
LoadInfo(kind) ==
    LET taken == {l.slot : l \in infos}
        slot == CHOOSE n \in 1..MaxInfos : n \notin taken /\ 1..n - 1 \subseteq taken
    IN infos' = infos \cup {[slot |-> slot, kind |-> kind, state |-> "sent"]}
PollUpdate ==
    /\ pollTimer /\ Cardinality(infos) < MaxInfos
    /\ LoadInfo("poll")
    /\ UNCHANGED <<checkDisabled, checkPost, pollTimer, onceTimer, checkMessage, checks,
                   updater, requested>>
OnceFires ==
    /\ onceTimer /\ Cardinality(infos) < MaxInfos
    /\ onceTimer' = FALSE
    /\ LoadInfo("once")
    /\ UNCHANGED <<checkDisabled, checkPost, pollTimer, checkMessage, checks, updater,
                   requested>>

\* updateCheckMessageForState: a state that is no outcome leaves the message.
MessageFor(state) == IF state \in Outcomes THEN state ELSE checkMessage

\* A poll that finds the updater at rest, or finds nothing, ends the polling.
InfoAnswer(l) ==
    /\ l.state # "sent"
    /\ infos' = infos \ {l}
    /\ IF l.state \in Active THEN UNCHANGED <<checkDisabled, pollTimer, checkMessage>>
       ELSE /\ checkMessage' = MessageFor(l.state)
            /\ IF l.kind = "once" THEN UNCHANGED <<checkDisabled, pollTimer>>
               ELSE /\ checkDisabled' = FALSE
                    /\ pollTimer' = FALSE
    /\ UNCHANGED <<checkPost, onceTimer, checks, updater, requested>>
-----------------------------------------------------------------------------
\* The server starts a thread for the updater, so the answer may come before the
\* updater's state is "queued"; the request, or its answer, may be lost.
ServeCheck ==
    /\ checkPost = "sent"
    /\ \/ checkPost' \in {"ok", "failed"} /\ requested' = TRUE
       \/ checkPost' = "failed" /\ UNCHANGED requested
    /\ UNCHANGED <<checkDisabled, pollTimer, onceTimer, infos, checkMessage, checks, updater>>

RunUpdater ==
    /\ \/ /\ requested /\ updater \notin Active
          /\ updater' = "queued" /\ requested' = FALSE
       \/ /\ updater' \in CASE updater = "queued" -> {"checking"}
                            [] updater = "checking" -> {"current", "updating"}
                            [] updater = "updating" -> {"updated", "failed"}
                            [] OTHER -> {}
          /\ UNCHANGED requested
    /\ UNCHANGED <<checkDisabled, checkPost, pollTimer, onceTimer, infos, checkMessage,
                   checks>>

\* The updater restarts the server: a load fails, and not only then.
ServeInfo(l) ==
    /\ l.state = "sent"
    /\ \E state \in {updater, Unavailable} :
          infos' = (infos \ {l}) \cup {[l EXCEPT !.state = state]}
    /\ UNCHANGED <<checkDisabled, checkPost, pollTimer, onceTimer, checkMessage, checks,
                   updater, requested>>
-----------------------------------------------------------------------------
UpdatePage ==
    \/ ClickCheck \/ CheckSent \/ PollUpdate \/ OnceFires
    \/ \E l \in infos : InfoAnswer(l)
UpdateServer == ServeCheck \/ RunUpdater \/ \E l \in infos : ServeInfo(l)
UpdateNext == UpdatePage \/ UpdateServer

\* Timers fire, and requests are answered or fail.
UpdateFairness ==
    /\ WF_updateVars((CheckSent \/ ServeCheck))
    /\ WF_updateVars(PollUpdate)
    /\ WF_updateVars(OnceFires)
    /\ WF_updateVars(RunUpdater)
    /\ WF_updateVars(\E l \in infos : ServeInfo(l))
    /\ WF_updateVars(\E l \in infos : InfoAnswer(l))

UpdateTypeOK ==
    /\ {checkDisabled, pollTimer, onceTimer, requested} \subseteq BOOLEAN
    /\ checkPost \in {"none", "sent", "ok", "failed"}
    /\ updater \in Active \cup Outcomes \cup {"waiting"}
    /\ checkMessage \in {"", "checking", "running", "failed"} \cup Outcomes
    /\ Cardinality(infos) <= MaxInfos

\* A button that is disabled has a request or an interval that will enable it, though a
\* poll of an earlier check may answer beside them (requestUpdateCheck,
\* startUpdateStatusPolling).
ButtonHasWatcher == checkDisabled => checkPost # "none" \/ pollTimer

\* A disabled button is enabled again, though the updater restarts the server that the
\* page polls (startUpdateStatusPolling).
ButtonComesBack == checkDisabled ~> ~checkDisabled

\* A check under way has a watcher for its button.
UpdateInv == UpdateTypeOK /\ ButtonHasWatcher
=============================================================================
