----------------------------- MODULE MotorPanel -----------------------------
(***************************************************************************)
(* The motion controls of a dashboard page: momentary jogs of one axis and *)
(* of the direction pads, motor commands, and the Escape emergency stop    *)
(* (web/static/desktop/js/dashboard.js; MotorPages names the copies of the *)
(* other two pages).                                                       *)
(*                                                                         *)
(* The page is single-threaded: a handler runs to its first await, so an   *)
(* action is one event handler or the continuation of one fetch.  Fetches  *)
(* travel and are served in any order, fail, are never served, or are      *)
(* served after the page has given them up; the server's part is reduced   *)
(* to what the page can see of it (JogControl and MotionCommands model it  *)
(* in full).                                                               *)
(***************************************************************************)
EXTENDS Integers, FiniteSets, Sequences, SequencesExt

CONSTANTS Axes,          \* axis labels
          Speeds,        \* jog velocities the forms may hold, either sign
          PadVectors,    \* velocities of the direction pads' buttons
          MaxVelocity,   \* motion_limits.slew_rate_deg_per_sec
          Programmed,    \* the motion of a goto, an offset or a held velocity
          MaxRequests,   \* bound: no request but a release follows so many requests
          MaxStrays      \* bound: commands given up by the page and yet to be served

ASSUME MotorPanelAssumption ==
    /\ Axes # {} /\ Speeds \subseteq Int \ {0}
    /\ PadVectors \subseteq [Axes -> Int]
    /\ {MaxVelocity, MaxRequests, MaxStrays} \subseteq Nat
    /\ Programmed \in Int \ {0}

VARIABLES
    armed,       \* latestStatus: the axes last reported available and armed
    holds,       \* activeAxisJogs and activeDirectionJog
    sequence,    \* motionCommandSequence
    busyFlag,    \* motorCommandInFlight
    escape,      \* emergencyStopAndDisable: "idle", "stop" or "disable"
    stopFailed,  \* its stopError
    hidden,      \* document.hidden
    jogWire,     \* velocity commands whose fetch is pending
    commands,    \* motor commands whose fetch is pending
    clicks,      \* motor commands issued
    enabled,     \* server: the enabled axes
    lastSeq,     \* server: the newest sequence handled for each axis
    motion,      \* server: commanded motion of each axis
    strays,      \* motor commands whose fetch failed and that may be served all the same
    newest,      \* history: the velocity of the newest request of each axis
    escaped,     \* history: axes whose newest request an Escape has overridden
    secured      \* history: "yes" after an Escape that succeeded with no Enable under
                 \* way since it was pressed, "pending" while it may, else "no"

pageVars    == <<armed, holds, sequence, busyFlag, escape, stopFailed, hidden, clicks>>
serverVars  == <<enabled, lastSeq, motion, strays>>
historyVars == <<newest, escaped, secured>>
vars == <<pageVars, jogWire, commands, serverVars, historyVars>>

None == [kind |-> "none"]
Zeros(A) == [a \in A |-> 0]
InBound == sequence + clicks < MaxRequests

\* One hold of a jog button, with the number of requests sent before it: the
\* identity of the state object its timer and listeners close over.
Hold(kind, v) == [kind |-> kind, velocity |-> v, id |-> sequence]
AxisHolds(a) == {h \in holds : h.kind = "axis" /\ a \in DOMAIN h.velocity}
PadHolds == {h \in holds : h.kind = "pad"}
Held(a) == \E h \in holds : a \in DOMAIN h.velocity /\ h.velocity[a] # 0

MotorInit ==
    /\ armed \in SUBSET Axes /\ enabled = armed
    /\ holds = {} /\ sequence = 0
    /\ busyFlag = FALSE /\ escape = "idle" /\ stopFailed = FALSE
    /\ hidden = FALSE /\ clicks = 0
    /\ jogWire = {} /\ commands = {} /\ strays = {}
    /\ lastSeq = Zeros(Axes) /\ motion = Zeros(Axes)
    /\ newest = Zeros(Axes) /\ escaped = {} /\ secured = "no"
-----------------------------------------------------------------------------
(* Numbered velocity commands *)

\* MotionCommandGuard.validate and validateMaxVelocity.
Guard(v) == \A a \in DOMAIN v : v[a] # 0 => a \in armed
WithinLimit(v) == \A a \in DOMAIN v : v[a] \in -MaxVelocity..MaxVelocity

\* No velocity, and a velocity that the guards let pass.
NoVelocity == <<>>
Passes(v) == v # NoVelocity /\ Guard(v) /\ WithinLimit(v)

\* The releases of a set of holds: a zero velocity for each, which no guard refuses.
Releases(H) ==
    LET order == SetToSeq(H) IN [i \in DOMAIN order |-> Zeros(DOMAIN order[i].velocity)]

\* sendAxisJogCommand, sendDirectionJogCommand: the requests one handler sends, in
\* order: the releases of the holds H, then a velocity v.  One that is refused takes
\* no number.
Issue(H, v, owner) ==
    LET sent == Releases(H) \o IF Passes(v) THEN <<v>> ELSE <<>>
        driven == IF Passes(v) THEN DOMAIN v ELSE {}
        released == UNION {DOMAIN h.velocity : h \in H}
    IN  /\ sequence' = sequence + Len(sent)
        /\ jogWire' = jogWire \cup
              {[seq |-> sequence + i, velocity |-> sent[i], owner |-> owner, served |-> FALSE] :
                  i \in DOMAIN sent}
        /\ newest' = [a \in Axes |-> IF a \in driven THEN v[a]
                                     ELSE IF a \in released THEN 0 ELSE newest[a]]
        /\ escaped' = escaped \ (driven \cup released)

Reachable == ~hidden /\ InBound

\* startAxisJog, with axisJogVelocity: the buttons of the axis forms are disabled
\* while a command is in flight.
PressJog(a, v) ==
    /\ Reachable /\ ~busyFlag
    /\ ~\E h \in AxisHolds(a) : h.velocity[a] * v > 0
    /\ holds' = (holds \ AxisHolds(a)) \cup {Hold("axis", [x \in {a} |-> v])}
    /\ Issue({}, [x \in {a} |-> v], None)
    /\ UNCHANGED <<armed, busyFlag, escape, stopFailed, hidden, clicks, commands, serverVars,
                   secured>>

\* startDirectionJog: the pads' buttons are never disabled.
PressPadUnrecorded(v) ==                    \* mutant: nothing remembers the hold
    /\ Reachable
    /\ holds' = holds \ PadHolds
    /\ Issue(PadHolds, v, None)
    /\ UNCHANGED <<armed, busyFlag, escape, stopFailed, hidden, clicks, commands, serverVars,
                   secured>>

PressPad(v) ==
    /\ Reachable
    /\ holds' = (holds \ PadHolds) \cup {Hold("pad", v)}
    /\ Issue(PadHolds, v, None)
    /\ UNCHANGED <<armed, busyFlag, escape, stopFailed, hidden, clicks, commands, serverVars,
                   secured>>

\* The interval callback of a hold, every JOG_HEARTBEAT_MS.
Heartbeat(h) ==
    /\ InBound
    /\ ~\E r \in jogWire : r.owner = h
    /\ Issue({}, h.velocity, h)
    /\ UNCHANGED <<armed, holds, busyFlag, escape, stopFailed, hidden, clicks, commands,
                   serverVars, secured>>

ReleaseSilently(H) ==                       \* mutant: the release is not sent
    /\ H # {} /\ H \subseteq holds
    /\ holds' = holds \ H
    /\ Issue({}, NoVelocity, None)
    /\ UNCHANGED <<armed, busyFlag, escape, stopFailed, hidden, clicks, commands, serverVars,
                   secured>>

\* The stop closures: pointerup, pointercancel or blur reach every hold, a lost
\* capture the one whose button lost it; stopAxisJog, stopActiveDirectionJog.
Release(H) ==
    /\ H # {} /\ H \subseteq holds
    /\ holds' = holds \ H
    /\ Issue(H, NoVelocity, None)
    /\ UNCHANGED <<armed, busyFlag, escape, stopFailed, hidden, clicks, commands, serverVars,
                   secured>>

\* The stop buttons, with nothing held there: a zero velocity all the same.
PressStop(A) ==
    /\ Reachable
    /\ A = Axes \/ ~busyFlag
    /\ \A h \in holds : ~(DOMAIN h.velocity \subseteq A)
    /\ Issue({}, Zeros(A), None)
    /\ UNCHANGED <<armed, holds, busyFlag, escape, stopFailed, hidden, clicks, commands,
                   serverVars, secured>>

\* The page is hidden, left or comes back.
Hide ==
    /\ ~hidden
    /\ hidden' = TRUE
    /\ holds' = {}
    /\ Issue(holds, NoVelocity, None)
    /\ UNCHANGED <<armed, busyFlag, escape, stopFailed, clicks, commands, serverVars, secured>>

Show ==
    /\ hidden
    /\ hidden' = FALSE
    /\ UNCHANGED <<armed, holds, sequence, busyFlag, escape, stopFailed, clicks, jogWire,
                   commands, serverVars, historyVars>>
-----------------------------------------------------------------------------
(* Motor commands *)

Kinds == {"stop", "enable", "disable", "move"}
Command(kind, A) == [kind |-> kind, axes |-> A, id |-> clicks + 1, result |-> "sent", armed |-> {}]

\* sendMotorCommand, sendAxisMotorCommand, sendAxisSineVelocityCommand: a move is
\* guarded, and the buttons are disabled while a command is in flight.
Click(kind, A) ==
    /\ ~hidden /\ InBound
    /\ ~busyFlag
    /\ kind = "move" => A \subseteq armed
    /\ commands' = commands \cup {Command(kind, A)}
    /\ clicks' = clicks + 1
    /\ busyFlag' = TRUE
    /\ secured' = IF kind = "enable" THEN "no" ELSE secured
    /\ UNCHANGED <<armed, holds, sequence, escape, stopFailed, hidden, jogWire, serverVars,
                   newest, escaped>>

\* sendDirectionOffsetCommand refuses itself while the flag is up.
ClickOffset ==
    /\ ~hidden /\ InBound
    /\ ~busyFlag /\ Axes \subseteq armed
    /\ commands' = commands \cup {Command("move", Axes)}
    /\ clicks' = clicks + 1
    /\ busyFlag' = TRUE
    /\ UNCHANGED <<armed, holds, sequence, escape, stopFailed, hidden, jogWire, serverVars,
                   historyVars>>

\* The answer, or the failure, of a command: renderStatus and the finally block.
Settle(c) ==
    /\ c.kind \in Kinds /\ c.result # "sent"
    /\ commands' = commands \ {c}
    /\ busyFlag' = FALSE
    /\ armed' = IF c.result = "ok" THEN c.armed ELSE armed
    /\ UNCHANGED <<holds, sequence, escape, stopFailed, hidden, clicks, jogWire, serverVars,
                   historyVars>>

\* An Enable of before may still be served, whether or not the page waits for it.
Securing == IF \E c \in commands \cup strays : c.kind = "enable" THEN "no" ELSE "pending"

\* emergencyStopAndDisable up to its first await.
Escape ==
    /\ ~hidden /\ escape = "idle" /\ InBound
    /\ holds' = {}
    /\ busyFlag' = TRUE
    /\ escape' = "stop" /\ stopFailed' = FALSE
    /\ commands' = commands \cup {Command("escape-stop", Axes)}
    /\ clicks' = clicks + 1
    /\ escaped' = Axes
    /\ secured' = Securing
    /\ UNCHANGED <<armed, sequence, hidden, jogWire, serverVars, newest>>

\* The stop has settled: Disable is sent whatever came of it.
EscapeOnlyAfterStop(c) ==                   \* mutant: a failed stop ends the sequence
    /\ c.kind = "escape-stop" /\ c.result = "ok"
    /\ commands' = (commands \ {c}) \cup
          {[c EXCEPT !.kind = "escape-disable", !.result = "sent", !.armed = {}]}
    /\ escape' = "disable"
    /\ stopFailed' = FALSE
    /\ armed' = c.armed
    /\ UNCHANGED <<holds, sequence, busyFlag, hidden, clicks, jogWire, serverVars,
                   historyVars>>

EscapeDisable(c) ==
    /\ c.kind = "escape-stop" /\ c.result # "sent"
    /\ commands' = (commands \ {c}) \cup
          {[c EXCEPT !.kind = "escape-disable", !.result = "sent", !.armed = {}]}
    /\ escape' = "disable"
    /\ stopFailed' = (c.result # "ok")
    /\ armed' = IF c.result = "ok" THEN c.armed ELSE armed
    /\ UNCHANGED <<holds, sequence, busyFlag, hidden, clicks, jogWire, serverVars,
                   historyVars>>

EscapeDoneUnchecked(c) ==                   \* mutant: the answer of Disable is not read
    /\ c.kind = "escape-disable" /\ c.result # "sent"
    /\ commands' = commands \ {c}
    /\ escape' = "idle" /\ busyFlag' = FALSE
    /\ secured' = IF secured = "pending" THEN "yes" ELSE "no"
    /\ UNCHANGED <<armed, holds, sequence, stopFailed, hidden, clicks, jogWire, serverVars,
                   newest, escaped>>

EscapeDone(c) ==
    LET succeeded == c.result = "ok" /\ c.armed = {} IN
    /\ c.kind = "escape-disable" /\ c.result # "sent"
    /\ commands' = commands \ {c}
    /\ escape' = "idle" /\ busyFlag' = FALSE
    /\ armed' = IF c.result = "ok" THEN c.armed ELSE armed
    /\ secured' = IF secured = "pending" /\ succeeded THEN "yes" ELSE "no"
    /\ UNCHANGED <<holds, sequence, stopFailed, hidden, clicks, jogWire, serverVars, newest,
                   escaped>>

-----------------------------------------------------------------------------
(* The server, as the page sees it *)

Fresh(r, a) == r.seq > lastSeq[a]

\* arbitrate and command_velocities: stale axes are ignored; a velocity for an axis
\* that is not enabled is refused with the rest of its request.  Only a heartbeat's
\* answer changes anything on the page.
ServeJog(r) ==
    LET A == {a \in DOMAIN r.velocity : Fresh(r, a)}
        refused == \E a \in A : r.velocity[a] # 0 /\ a \notin enabled
    IN  /\ r \in jogWire /\ ~r.served
        /\ jogWire' = (jogWire \ {r}) \cup
              IF r.owner = None THEN {} ELSE {[r EXCEPT !.served = TRUE]}
        /\ lastSeq' = [a \in Axes |-> IF a \in A THEN r.seq ELSE lastSeq[a]]
        /\ motion' = [a \in Axes |-> IF a \in A /\ ~refused THEN r.velocity[a] ELSE motion[a]]
        /\ UNCHANGED <<pageVars, commands, enabled, strays, historyVars>>

\* The fetch settles, served or not: heartbeatInFlight falls.  What was not served
\* is lost, or is served when no page waits for it.
SettleJog(r) ==
    /\ \/ jogWire' = jogWire \ {r}
       \/ ~r.served /\ jogWire' = (jogWire \ {r}) \cup {[r EXCEPT !.owner = None]}
    /\ UNCHANGED <<pageVars, commands, serverVars, historyVars>>

\* The dead-man: a lease whose heartbeats are late.
Expire(a) ==
    /\ motion[a] \notin {0, Programmed}
    /\ motion' = [motion EXCEPT ![a] = 0]
    /\ UNCHANGED <<pageVars, jogWire, commands, enabled, lastSeq, strays, historyVars>>

\* A motor command at the server: a move of an axis that is not enabled is refused.
Allowed(c) == c.kind = "move" => c.axes \subseteq enabled
EnabledAfter(c) ==
    CASE c.kind = "enable" -> enabled \cup c.axes
      [] c.kind \in {"disable", "escape-disable"} -> enabled \ c.axes
      [] OTHER -> enabled
Commanded(c) ==
    /\ enabled' = EnabledAfter(c)
    /\ motion' = [a \in Axes |->
          CASE a \notin c.axes \/ ~Allowed(c) \/ c.kind = "enable" -> motion[a]
            [] a \in c.axes /\ Allowed(c) /\ c.kind = "move" -> Programmed
            [] OTHER -> 0]

Serve(c) ==
    /\ c.result = "sent"
    /\ Commanded(c)
    /\ commands' = (commands \ {c}) \cup
          {[c EXCEPT !.result = IF Allowed(c) THEN "ok" ELSE "failed", !.armed = EnabledAfter(c)]}
    /\ UNCHANGED <<pageVars, jogWire, lastSeq, strays, historyVars>>

\* The connection is lost, before or after the request has left, or the controller
\* call fails: the page gives the command up.
Fail(c) ==
    /\ c.result = "sent"
    /\ commands' = (commands \ {c}) \cup {[c EXCEPT !.result = "failed"]}
    /\ \/ UNCHANGED strays
       \/ Cardinality(strays) < MaxStrays /\ strays' = strays \cup {c}
    /\ UNCHANGED <<pageVars, jogWire, enabled, lastSeq, motion, historyVars>>

\* The server gets to a command that the page has given up.
ServeStray(c) ==
    /\ Commanded(c)
    /\ strays' = strays \ {c}
    /\ UNCHANGED <<pageVars, jogWire, commands, lastSeq, historyVars>>

\* A pushed status.
RenderArmed ==
    /\ armed # enabled
    /\ armed' = enabled
    /\ UNCHANGED <<holds, sequence, busyFlag, escape, stopFailed, hidden, clicks, jogWire,
                   commands, serverVars, historyVars>>
-----------------------------------------------------------------------------
JogPanel ==
    \/ \E a \in Axes, v \in Speeds : PressJog(a, v)
    \/ \E v \in PadVectors : PressPad(v)
    \/ \E h \in holds : Heartbeat(h) \/ Release({h})
    \/ Release(holds)
    \/ \E a \in Axes : PressStop({a})
    \/ PressStop(Axes)
    \/ Hide \/ Show

CommandPanel ==
    \/ \E kind \in Kinds, A \in (SUBSET Axes) \ {{}} : Click(kind, A)
    \/ ClickOffset
    \/ \E c \in commands : Settle(c)

EscapeKey ==
    \/ Escape
    \/ \E c \in commands : EscapeDisable(c) \/ EscapeDone(c)

MotorServer ==
    \/ \E r \in jogWire : ServeJog(r) \/ SettleJog(r)
    \/ \E a \in Axes : Expire(a)
    \/ \E c \in commands : Serve(c) \/ Fail(c)
    \/ \E c \in strays : ServeStray(c)
    \/ RenderArmed

MotorNext == JogPanel \/ CommandPanel \/ EscapeKey \/ MotorServer

\* A fetch that is pending is answered or fails, its continuation runs, and the
\* dead-man stops an axis whose requests have ended.
MotorFairness ==
    /\ WF_vars(\E c \in commands : Serve(c) \/ Fail(c))
    /\ WF_vars(\E c \in commands : Settle(c) \/ EscapeDisable(c) \/ EscapeDone(c))
    /\ WF_vars(\E r \in jogWire : SettleJog(r))
    /\ \A a \in Axes : WF_vars(Expire(a))

MotorSpec == MotorInit /\ [][MotorNext]_vars /\ MotorFairness
-----------------------------------------------------------------------------
Velocities == UNION {[A -> Int] : A \in SUBSET Axes}

MotorTypeOK ==
    /\ armed \subseteq Axes /\ enabled \subseteq Axes /\ escaped \subseteq Axes
    /\ \A h \in holds : h.kind \in {"axis", "pad"} /\ DOMAIN h.velocity \subseteq Axes
    /\ escape \in {"idle", "stop", "disable"}
    /\ \A a \in Axes : lastSeq[a] \in 0..sequence
    /\ \A r \in jogWire : r.seq \in 1..sequence
    /\ {busyFlag, stopFailed, hidden} \subseteq BOOLEAN
    /\ secured \in {"no", "pending", "yes"}

\* The last word of the page on an axis that nobody holds any more is a zero
\* velocity, or an Escape pressed after it (startAxisJog's stop closure, pagehide
\* and visibilitychange, clearAxisJogState of the emergency).
ReleaseIsTheLastWord ==
    \A a \in Axes : ~Held(a) => newest[a] = 0 \/ a \in escaped

\* One axis form drives its axis in one direction at a time, though its buttons are
\* keyed by direction and two pointers may press both (startAxisJog).
OneJogPerAxis == \A a \in Axes : Cardinality(AxisHolds(a)) <= 1

\* Only a button that is held sends a velocity: no request that a step adds comes
\* from a hold that was released, emergency-stopped or hidden.
OnlyHeldAxesAreDriven ==
    [][\A a \in Axes : \A r \in jogWire' \ jogWire :
          r.seq <= sequence \/ a \notin DOMAIN r.velocity \/ r.velocity[a] = 0 \/ Held(a)']_vars

\* One emergency sequence at a time, and it knows which of its requests is pending.
EscapeRequest == [stop |-> "escape-stop", disable |-> "escape-disable"]
EscapeRequests == {c \in commands : c.kind \in {"escape-stop", "escape-disable"}}
OneEmergency ==
    /\ Cardinality(EscapeRequests) = (IF escape = "idle" THEN 0 ELSE 1)
    /\ \A c \in EscapeRequests : c.kind = EscapeRequest[escape]

\* "Escape emergency stop complete. Azimuth and Altitude are disabled.": unless an
\* Enable is on its way, nothing that is still travelling, given up by the page or
\* not, can move the mount again.
AtRest == enabled = {} /\ motion = Zeros(Axes)
EscapeSecuresTheMount == secured = "yes" => AtRest

\* "Always attempt Disable even if the preceding Stop request fails."
EscapeAttemptsDisable == escape = "stop" ~> escape = "disable"

\* An axis that is released comes to rest, whatever requests are lost or late.
ReleasedAxisRests ==
    \A a \in Axes : ~Held(a) ~> Held(a) \/ motion[a] \in {0, Programmed}

\* What the page remembers of its buttons agrees with what it has sent: one jog of an
\* axis form, one emergency, and a zero velocity or an Escape after every hold (the
\* stop closures, emergencyStopAndDisable and sendAxisJogCommand's sequence).
MotorInv ==
    /\ MotorTypeOK
    /\ ReleaseIsTheLastWord
    /\ OneJogPerAxis
    /\ OneEmergency

\* Nothing on the way to rest can wait for ever for a request that was lost: Disable
\* follows the stop of an Escape, and a released axis stops.
MotionEnds == EscapeAttemptsDisable /\ ReleasedAxisRests
=============================================================================
