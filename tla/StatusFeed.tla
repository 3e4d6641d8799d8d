----------------------------- MODULE StatusFeed -----------------------------
(***************************************************************************)
(* How a dashboard page learns the status of the mount: the WebSocket      *)
(* /ws/status with its reconnect timer, the fallback polling of            *)
(* /api/status, the deferred rendering of the newest message, the axis     *)
(* history behind the charts and the log of drive events and of axes that  *)
(* are enabled or disabled (web/static/desktop/js/dashboard.js).           *)
(*                                                                         *)
(* The listeners of a socket use the global statusSocket and the global    *)
(* flags, so an event of an old socket acts on the newest one.  A message  *)
(* carries the status of the moment it was sent: an answer of the polling  *)
(* may overtake it, and it may overtake an answer.                         *)
(***************************************************************************)
EXTENDS Integers, FiniteSets, Sequences, SequencesExt

CONSTANTS Window,       \* historyWindowMs, in samples
          Reports,      \* the axis states a later sample may carry
          MaxSockets,   \* bound: sockets created
          MaxSamples,   \* bound: samples the server produces
          MaxBoots,     \* bound: starts of the server
          MaxOutages    \* bound: offline and pagehide events

ASSUME StatusFeedAssumption ==
    /\ Window \in Nat \ {0}
    /\ Reports \subseteq {"missing", "armed", "disarmed"}
    /\ {MaxSockets, MaxSamples, MaxBoots, MaxOutages} \subseteq Nat \ {0}

VARIABLES
    online,        \* navigator.onLine
    suspended,     \* dashboardConnectionSuspended
    outages,       \* offline and pagehide events so far
    socket,        \* the sockets created so far: "connecting", "open", "closing", "closed"
    streamFlag,    \* statusStreamConnected
    polling,       \* statusFallbackTimer
    reconnecting,  \* statusReconnectTimer
    fetched,       \* refreshStatus: idle, sent, or the status its answer carries
    streamSeq,     \* lastStreamTelemetrySequence
    pending,       \* pendingStreamStatus
    renderTimer,   \* statusRenderTimer
    latest,        \* latestStatus
    knownBoot,     \* lastServerStartedAt
    samples,       \* history of one axis: times of its samples
    axisShown,     \* lastAxisArmedStates of that axis
    lastEvent,     \* lastDriveErrorEventId
    driveLog,      \* the drive events logged: boot and id
    server,        \* the server's status
    lateClose,     \* history: a socket that was not the newest closed after it opened
    wire,          \* messages sent on the newest socket and not yet handled
    told,          \* telemetry_sequence of that socket's handler on the server
    shownFrom      \* history: what brought latest: "none", "stream", "poll"

linkVars   == <<online, suspended, outages, socket, streamFlag, polling, reconnecting, lateClose>>
renderVars == <<latest, knownBoot, samples, axisShown, lastEvent, driveLog>>
wireVars   == <<wire, told>>
feedVars   == <<linkVars, wireVars, fetched, shownFrom, streamSeq, pending, renderTimer, renderVars, server>>

Nothing == [boot |-> 0, seq |-> 0, time |-> 0, events |-> 0, axis |-> "missing"]
Idle == [Nothing EXCEPT !.axis = "idle"]
Sent == [Nothing EXCEPT !.axis = "sent"]
AxisStates == {"missing", "armed", "disarmed"}

Newest == Len(socket)
Live(s) == s \in {"connecting", "open"}
StreamOpen == socket[Newest] = "open"

FeedInit ==
    /\ online = TRUE /\ suspended = FALSE /\ outages = 0
    /\ socket = <<"connecting">> /\ streamFlag = FALSE
    /\ polling = FALSE /\ reconnecting = FALSE
    /\ fetched = Idle
    /\ streamSeq = 0 /\ pending = Nothing /\ renderTimer = FALSE
    /\ latest = Nothing /\ knownBoot = 0 /\ samples = <<>> /\ axisShown = "missing"
    /\ lastEvent = 0 /\ driveLog = <<>>
    /\ server = [boot |-> 1, seq |-> 1, time |-> 1, events |-> 0, axis |-> "disarmed"]
    /\ lateClose = FALSE /\ wire = {} /\ told = 0 /\ shownFrom = "none"
-----------------------------------------------------------------------------
(* What every status does when it is rendered *)

\* pruneHistory and appendAxisHistory: only the last sample is compared.
Prune(h, now) == SelectSeq(h, LAMBDA t : t >= now - Window)
Append2(h, d) ==
    Prune(IF h # <<>> /\ Last(h) = d.time THEN h ELSE Append(h, d.time), d.time)
Sampled(h, d) == IF d.axis = "missing" THEN Prune(h, d.time) ELSE Append2(h, d)

\* renderDriveErrorEvents: the events newer than the last id, in order of their ids.
NewEventsAll(d) == 1..d.events              \* mutant: every event of the list
NewEvents(d) == {i \in 1..d.events : i > lastEvent}

\* resetHistoryWhenServerRestarts forgets the samples and the armed states.
Restarted(d) == knownBoot # 0 /\ d.boot \notin {0, knownBoot}

\* logAxisArmedTransition, which renderAxis does not reach without an axis.
ShownState(d) ==
    IF d.axis # "missing" THEN d.axis ELSE IF Restarted(d) THEN "missing" ELSE axisShown

\* renderStatus.
Render(d) ==
    LET fresh == NewEvents(d)
    IN  /\ latest' = d
        /\ knownBoot' = IF d.boot # 0 THEN d.boot ELSE knownBoot
        /\ samples' = Sampled(IF Restarted(d) THEN <<>> ELSE samples, d)
        /\ axisShown' = ShownState(d)
        /\ lastEvent' = IF fresh = {} THEN lastEvent ELSE Max(fresh)
        /\ driveLog' = driveLog \o
              [i \in 1..Cardinality(fresh) |->
                  <<d.boot, CHOOSE e \in fresh : Cardinality({f \in fresh : f <= e}) = i>>]
-----------------------------------------------------------------------------
(* Connection *)

\* connectStatusStream, and each way to call it.
Connect(active) ==
    /\ Live(socket[Newest]) \/ Newest < MaxSockets
    /\ socket' = IF online /\ active /\ ~Live(socket[Newest])
                 THEN Append(socket, "connecting") ELSE socket

StartPolling == polling' = (polling \/ (online /\ ~suspended))
ScheduleReconnect == reconnecting' = (reconnecting \/ (online /\ ~suspended))

\* refreshStatus: skipped while a fetch is pending.
Refresh == fetched' = IF fetched = Idle THEN Sent ELSE fetched

\* A socket that is no longer open hands over no message.
DropUnheard ==
    IF Live(socket'[Newest]) THEN UNCHANGED wireVars ELSE wire' = {} /\ told' = 0

OpenEvent(i) ==
    /\ socket[i] = "connecting"
    /\ socket' = [socket EXCEPT ![i] = "open"]
    /\ streamFlag' = TRUE
    /\ polling' = FALSE
    /\ lateClose' = FALSE
    /\ UNCHANGED <<online, suspended, outages, reconnecting, wireVars, fetched, shownFrom,
                   streamSeq, pending, renderTimer, renderVars, server>>

\* Polling starts with a fetch of its own.
CloseForgets(i) ==                          \* mutant: neither polling nor a reconnect
    /\ socket[i] # "closed"
    /\ socket' = [socket EXCEPT ![i] = "closed"]
    /\ streamFlag' = FALSE
    /\ DropUnheard
    /\ UNCHANGED <<online, suspended, outages, polling, reconnecting, fetched, shownFrom,
                   streamSeq, pending, renderTimer, renderVars, server, lateClose>>

CloseEvent(i) ==
    /\ socket[i] # "closed"
    /\ socket' = [socket EXCEPT ![i] = "closed"]
    /\ streamFlag' = FALSE
    /\ DropUnheard
    /\ StartPolling
    /\ IF polling \/ ~polling' THEN UNCHANGED fetched ELSE Refresh
    /\ ScheduleReconnect
    /\ lateClose' = (lateClose \/ (i # Newest /\ StreamOpen))
    /\ UNCHANGED <<online, suspended, outages, shownFrom, streamSeq, pending, renderTimer,
                   renderVars, server>>

\* The "error" listener closes whatever socket is the newest, also when the one that
\* failed is an old one that is being closed; the close of that one follows.
ErrorEvent(i) ==
    /\ socket[i] # "closed" /\ Live(socket[Newest])
    /\ socket' = [socket EXCEPT ![Newest] = "closing"]
    /\ DropUnheard
    /\ UNCHANGED <<online, suspended, outages, streamFlag, polling, reconnecting, lateClose,
                   fetched, shownFrom, streamSeq, pending, renderTimer, renderVars, server>>

ReconnectFires ==
    /\ reconnecting
    /\ reconnecting' = FALSE
    /\ Connect(~suspended)
    /\ UNCHANGED <<online, suspended, outages, streamFlag, polling, lateClose, wireVars,
                   fetched, shownFrom, streamSeq, pending, renderTimer, renderVars, server>>

\* "offline" and "pagehide".
SuspendKeepsTimer(link) ==                  \* mutant: the reconnect timer survives
    /\ outages < MaxOutages
    /\ outages' = outages + 1
    /\ online' = link
    /\ suspended' = TRUE
    /\ polling' = FALSE
    /\ socket' = [socket EXCEPT ![Newest] = IF Live(@) THEN "closing" ELSE @]
    /\ DropUnheard
    /\ UNCHANGED <<streamFlag, reconnecting, lateClose, fetched, shownFrom, streamSeq,
                   pending, renderTimer, renderVars, server>>

Suspend(link) ==
    /\ outages < MaxOutages
    /\ outages' = outages + 1
    /\ online' = link
    /\ suspended' = TRUE
    /\ reconnecting' = FALSE /\ polling' = FALSE
    /\ socket' = [socket EXCEPT ![Newest] = IF Live(@) THEN "closing" ELSE @]
    /\ DropUnheard
    /\ UNCHANGED <<streamFlag, lateClose, fetched, shownFrom, streamSeq, pending,
                   renderTimer, renderVars, server>>

\* No listener: the page does not come back by itself.
BackOnline ==
    /\ ~online
    /\ online' = TRUE
    /\ UNCHANGED <<suspended, outages, socket, streamFlag, polling, reconnecting, lateClose,
                   wireVars, fetched, shownFrom, streamSeq, pending, renderTimer, renderVars,
                   server>>

\* "pointerdown": the first deliberate interaction.
PointerDown ==
    /\ online
    /\ suspended' = FALSE
    /\ Connect(TRUE)
    /\ UNCHANGED <<online, outages, streamFlag, polling, reconnecting, lateClose, wireVars,
                   fetched, shownFrom, streamSeq, pending, renderTimer, renderVars, server>>
-----------------------------------------------------------------------------
(* Statuses arrive *)

PollFires ==
    /\ polling
    /\ fetched = Idle
    /\ Refresh
    /\ UNCHANGED <<linkVars, wireVars, shownFrom, streamSeq, pending, renderTimer, renderVars, server>>

ServeStatus ==
    /\ fetched = Sent
    /\ fetched' = server
    /\ UNCHANGED <<linkVars, wireVars, shownFrom, streamSeq, pending, renderTimer,
                   renderVars, server>>

\* renderStatus at once, with the status the answer carries or an offline one.
PollAnswer ==
    /\ fetched # Idle
    /\ fetched' = Idle
    /\ Render(IF fetched = Sent THEN [Nothing EXCEPT !.time = server.time] ELSE fetched)
    /\ shownFrom' = "poll"
    /\ UNCHANGED <<linkVars, wireVars, streamSeq, pending, renderTimer, server>>

\* ws_status on the server: the newest sample, if this socket has not had it.  The page
\* may not have handled the "open" event yet.
SendMessage ==
    /\ Live(socket[Newest])
    /\ server.seq > told
    /\ wire' = wire \cup {server}
    /\ told' = server.seq
    /\ UNCHANGED <<linkVars, fetched, shownFrom, streamSeq, pending, renderTimer, renderVars,
                   server>>

\* queueStreamStatusRender with captureStreamHistory: a sequence number that was
\* the last one is skipped.
Handle(d) ==
    /\ StreamOpen
    /\ wire' = wire \ {d}
    /\ IF d.seq = streamSeq
       THEN UNCHANGED <<streamSeq, samples, pending, renderTimer>>
       ELSE /\ streamSeq' = d.seq
            /\ samples' = Sampled(samples, d)
            /\ pending' = d
            /\ renderTimer' = TRUE
    /\ UNCHANGED <<linkVars, told, fetched, shownFrom, latest, knownBoot, axisShown,
                   lastEvent, driveLog, server>>

\* Mutant: the text is parsed asynchronously, and a later message may be done first.
MessageParsedLater == \E d \in wire : Handle(d)

\* A socket hands over its messages in the order in which they were sent.
Message == \E d \in wire : (\A e \in wire : d.time <= e.time) /\ Handle(d)

RenderFires ==
    /\ renderTimer
    /\ renderTimer' = FALSE
    /\ pending' = Nothing
    /\ IF pending = Nothing THEN UNCHANGED <<renderVars, shownFrom>>
       ELSE Render(pending) /\ shownFrom' = "stream"
    /\ UNCHANGED <<linkVars, wireVars, fetched, streamSeq, server>>
-----------------------------------------------------------------------------
(* The server: a sample per poll of the drives, a restart that numbers anew *)

Sample ==
    /\ server.time < MaxSamples
    /\ \E state \in Reports, fault \in {0, 1} :
          /\ fault = 1 => state # "armed"
          /\ server' = [server EXCEPT !.seq = @ + 1, !.time = @ + 1,
                                      !.axis = state, !.events = @ + fault]
    /\ UNCHANGED <<linkVars, wireVars, fetched, shownFrom, streamSeq, pending, renderTimer,
                   renderVars>>

\* The handler of an open socket goes with the old server; what it has sent may still
\* arrive.
Restart ==
    /\ server.boot < MaxBoots /\ server.time < MaxSamples
    /\ server' = [boot |-> server.boot + 1, seq |-> 1, time |-> server.time + 1,
                  events |-> 0, axis |-> "disarmed"]
    /\ told' = IF StreamOpen \/ told # 0 THEN MaxSamples ELSE told
    /\ UNCHANGED <<linkVars, wire, fetched, shownFrom, streamSeq, pending, renderTimer,
                   renderVars>>
-----------------------------------------------------------------------------
SocketEvents == \E i \in DOMAIN socket : OpenEvent(i) \/ CloseEvent(i) \/ ErrorEvent(i)
PageEvents   == Suspend(FALSE) \/ Suspend(TRUE) \/ BackOnline \/ PointerDown
Timers       == ReconnectFires \/ PollFires \/ RenderFires
Arrivals     == ServeStatus \/ PollAnswer \/ SendMessage \/ Message
StatusServer == Sample \/ Restart

FeedNext == SocketEvents \/ PageEvents \/ Timers \/ Arrivals \/ StatusServer

\* Timers fire, and a connection attempt or a fetch ends one way or the other.
FeedFairness ==
    /\ WF_feedVars(ReconnectFires) /\ WF_feedVars(RenderFires) /\ WF_feedVars(PollFires)
    /\ WF_feedVars(ServeStatus) /\ WF_feedVars(PollAnswer)
    /\ \A i \in 1..MaxSockets :
          WF_feedVars(i \in DOMAIN socket /\ socket[i] # "open" /\ (OpenEvent(i) \/ CloseEvent(i)))

FeedSpec == FeedInit /\ [][FeedNext]_feedVars /\ FeedFairness
-----------------------------------------------------------------------------
FeedTypeOK ==
    /\ \A i \in DOMAIN socket : socket[i] \in {"connecting", "open", "closing", "closed"}
    /\ {online, suspended, streamFlag, polling, reconnecting, renderTimer, lateClose} \subseteq BOOLEAN
    /\ server.time \in 1..MaxSamples /\ server.boot \in 1..MaxBoots
    /\ streamSeq \in 0..MaxSamples /\ lastEvent \in 0..MaxSamples
    /\ axisShown \in AxisStates /\ shownFrom \in {"none", "stream", "poll"}
    /\ told \in 0..MaxSamples /\ \A d \in wire : d.time \in 1..server.time

\* Two streams never feed the page at once, though a reconnect timer, the end of an
\* outage and each pointerdown may all create a socket (connectStatusStream).
OneLiveSocket == Cardinality({i \in DOMAIN socket : Live(socket[i])}) <= 1

\* A suspended page runs no timer and starts no session, whatever its old sockets
\* and fetches still do (the offline and pagehide listeners).
SuspendedIsSilent == suspended => ~polling /\ ~reconnecting /\ ~Live(socket[Newest])

\* The page polls beside an open stream only when an older socket has closed after
\* the newest opened: its close listener cannot tell (connectStatusStream).
PollingBesideStreamHasCause == polling /\ StreamOpen => lateClose

\* The newest message is never left unrendered (queueStreamStatusRender).
PendingWillBeRendered == pending # Nothing => renderTimer

\* A drive event is logged once, however many statuses carry it and however they
\* are ordered (renderDriveErrorEvents).
EventsLoggedOnce == \A i, j \in DOMAIN driveLog : driveLog[i] = driveLog[j] => i = j

\* Until the server restarts, a status on the page has all its events in the log.
FirstBootEventsLogged ==
    server.boot = 1 => \A e \in 1..latest.events : <<1, e>> \in Range(driveLog)

\* The stream by itself never takes the page back in time, and neither does polling,
\* across reconnections and restarts of the server: only an answer that a message has
\* overtaken, or a message that an answer has overtaken, is rendered over a newer status
\* (refreshStatus beside queueStreamStatusRender).
GoesBackOnlyAcrossSources ==
    [][latest'.time < latest.time => {shownFrom, shownFrom'} = {"stream", "poll"}]_feedVars

\* A page that is online and in use ends up with a stream or with polling.
FeedRecovers == online /\ ~suspended ~> StreamOpen \/ polling \/ suspended

\* The connection of a page: one live socket, nothing while it is suspended, polling
\* only without a stream or after a late close, and the newest message always about to
\* be rendered (connectStatusStream and the listeners around it).
FeedInv ==
    /\ FeedTypeOK
    /\ OneLiveSocket
    /\ SuspendedIsSilent
    /\ PollingBesideStreamHasCause
    /\ PendingWillBeRendered

\* The log of drive events: each once, and all of them until the server restarts
\* (renderDriveErrorEvents, whose last id survives the restart).
DriveLogInv == EventsLoggedOnce /\ FirstBootEventsLogged
=============================================================================
