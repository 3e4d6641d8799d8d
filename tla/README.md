# Fire-Detector: TLA+ specifications

Fire-Detector is a mount with two ODrive axes and a pair of cameras on a
Raspberry Pi. One HTTP server process (`src/fire_detector/web_server.py` and its
modules) owns the USB bus to the drives. Browser pages, a TCP/JSON agent and
several systemd workers command the mount through it. This directory holds models
of the parts in which threads, processes, messages or the handlers of a page can
meet in an order nobody wrote a test for, the TLC runs that check them, and proofs
that their most important properties hold for every value of the constants. Paths
below are relative to the repository.

## 1. Inventory

### The motion stack (threads of one process)

| Component | State | Operations | What makes it correct |
|---|---|---|---|
| `motion_commands.py` MotionCommandManager | FIFO queue, sequence, safety epoch, `_stop_active`, count of pending stops, execution lock | `submit`, safety-stop path, worker thread, `close` | one controller call at a time; a command accepted before a stop never starts after it; everybody is answered |
| `jog_commands.py` JogCommandRegistry | lease per axis, last sequence per page and axis, `closed`, a condition held across the dead-man's stop | `arbitrate`, `supersede`, `close`, dead-man thread | releases win over late starts; leases are not stolen; a held axis is stopped when its page goes silent |
| motor routes of `web_server.py` | none; a thread per request | jog, stop, goto, held velocity: registry first, manager second | what the registry promised still holds when the manager acts |
| ODriveMonitor's producers (`web_server.py` 1281-2495) | velocity cache, generation of the position move, generation per sine test, loop threads | moves, sine tests, held velocities, stops, limit enforcement | only the newest producer writes an axis; a stopped axis stays |
| `hardware_io.py` HardwareIOQueue | priority queue, coalescing keys, the owner thread | `call`, `publish_latest`, `take`, `execute` | one thread touches USB; newest setpoint wins |
| TCP router (`web_server.py` 230-440) | a timer per axis | `axis.*`, `mount.*`, velocity watchdogs | an unattended velocity ends |
| calibration and auto-tune loops | a thread and a stop event per axis | start, stop, sweep, restore | a stop is final, limits are restored |
| `current_protection.py` | peak allowance, recovery and derating times | `step` | bounded current over bounded time |
| telemetry poll and status | snapshot, sequence-numbered condition, drive events | poll, wait for confirmation | a confirmation is newer than its command |

Interaction: a route calls the registry (under its condition), then `submit`; the
manager's worker or the stopping thread itself calls the controller; the controller
hands closures to the hardware owner and waits, and starts loop threads that publish
setpoints to the same owner. The dead-man calls into the manager while it holds the
registry's condition. A safety stop calls `request_safety_stop` on its own thread,
before it has the execution lock.

### The workers (processes of their own, against remote servers)

| Component | State | Operations | What makes it correct |
|---|---|---|---|
| `scripts/control_worker.py` | `last_sequence` (persisted), command epoch, active jog and watchdog, heartbeat task, queue, urgent tasks | session, executor, urgent stop, keep-alive, acknowledgement | a jog is never kept alive unwatched; nothing runs twice; a stop beats what is under way |
| `scripts/configuration_worker.py` | `active.json`, `state.json` | poll, validate, write, acknowledge | durable before acknowledged; never back to an older revision; every revision answered in the end |
| `scripts/mission_worker.py` | mission state file | poll, apply, acknowledge, keep the survey going | as above |
| `mount_agent.py` | sessions, control lease, request-id cache, configuration and terrain caches | authenticate, lease, dispatch, synchronise | only the lease owner moves; a repeated request is not executed twice |
| `scripts/health_beacon.py`, `scripts/publish_*.py` | token, back-off, ffmpeg child | refresh, send, supervise | recovery from every failure |

### The pages (single-threaded scripts, any number of them open)

| Component | State | Operations | What makes it correct |
|---|---|---|---|
| motion controls of the dashboards | holds of jog buttons and pads, sequence number, command in flight, Escape in progress | press, heartbeat, release, motor and sine commands, Escape, hide | only a held button drives; the last word on a released axis is a stop; an Escape that reports success leaves the mount disabled and at rest |
| status feed | socket, reconnect, fallback and render timers, newest message, chart history, logged events | events of the sockets, polls, suspension, rendering | one live socket; the page recovers, and moves on; each drive event is logged once |
| report view and charts | tab, load and loader of each tab, kept report, selection | open, load, select, answer, draw | loader, request and chart agree; what is drawn is what was measured |
| sky view | limits, side of the azimuth, target form | draw, click, type, submit | a target that is sent is allowed by the limits and is the one clicked |
| motion status | reported moves | label, log | the label agrees with the status; a time-out is logged once |
| tuning and auto tune | edits, debounced applies, candidate; range, run and stop | type, apply, save, run, stop | no edit is lost unseen; one run at a time; a stop is heeded |
| settings and update check | cached settings, form, step timer; button, polls | load, save, apply, reset; check, poll | commands are validated with the server's settings; the button comes back |
| camera page | session and cycle of the stream, image URLs; active jog, sequence | fetch, decode, show, release; press, heartbeat, stop, offset | one cycle per stream; both pictures are of one pair; no jog after a stop that was handled |

The pages talk to the server by fetches and one WebSocket, which arrive in any
order, fail or get lost. There are three dashboard scripts: the desktop's
(`web/static/desktop/js/dashboard.js`), the classic page's
(`web/static/js/dashboard.js`) and the mobile page's
(`web/static/mobile/js/dashboard.js`), which hold copies of most handlers.

### Data and the rest

| Component | State | What makes it correct |
|---|---|---|
| `backup_api.py`, `telemetry_store.py` | backup records and archives, SQLite tables, rows not flushed yet | nothing is purged that is not in a confirmed archive |
| `software_updates.py`, `release_workflow.py`, `publisher_*.py` | staged release, symlink, record | an update is complete or rolled back |
| `camera_frame_pool.py`, recording and upload in `web_server.py` | latest frame, waiters, recording state, upload thread | no stale frame, no lost segment |
| `camera_runtime/` | mission controller, incident manager, detector | one patrol at a time, one incident per event |
| `api_command_monitor.py`, `camera_overlay.py`, `dem_panorama.py`, `mission_terrain_assets.py`, `motion_algorithm.py`, `odrive_connection.py` | logs, pixels, rasters, curve fits, USB discovery | functions of their inputs |
| 3D pointing, terrain and mission views, API console, camera controls (`web/static/`) | scene graphs, forms | drawn from the status; outside of the models |
| `deploy/`, `data/`, `docs/`, `API-Doc/` | units, data | outside of the models |

`PROJECT.json` lists every component with its sources and status.

### What is hard here

Concurrency of threads around two locks and a condition (manager, registry);
closures that are queued now and executed later (hardware owner); loop threads
that are cancelled by a number and waited for with a time-out; cancelled asyncio
tasks whose HTTP request goes on by itself; crashes between two durable writes;
lost, late and repeated acknowledgements; on the pages, continuations that run after
the state they were started for is gone, timers of an old session, and answers that
cross each other. `PROJECT.json` lists these at their
lines as "hazards", with the properties that cover them or the reason none does.

## 2. Modules

```
MotionArbiter  <--implements--  MotionCommands  <--  MotionCommandsProofs
     ^
     |
 JogControl  <--  JogControlProofs

MotionProducers      <--  MotionProducersProofs
ConfigurationWorker  <--  ConfigurationWorkerProofs
ControlWorker        <--  ControlWorkerProofs

MotorPanel  <--  MotorPages  <-.
StatusFeed  <--  FeedPages   <--  DashboardProofs

Reports  Charts  SkyView  MotionStatus  TuningForm  AutoTune  SystemSettings  UpdateCheck
     ^-------^-------^---------^------------^-----------^-----------^-------------^
                         PanelPages  <--  PanelPagesProofs

CameraFrames, CameraJog  <--  CameraPage  <--  CameraPageProofs
```

An arrow without a word is EXTENDS. The `MC*` modules give the constants of the
`.cfg` files their structured values. A definition whose comment begins with "mutant"
is not part of the specification: it is the form of the next definition that a
plausible mistake would give it, and shows that the property it is paired with in
`PROJECT.json` can fail.

### MotionArbiter: what the manager promises

Four variables: the callers with an accepted command that may still start (`live`),
the pending safety stops (`stops`), those of them that have been executed (`ran`)
and the caller in the controller (`busy`). Accepting a stop empties `live`; nothing
but stops starts while a stop is pending. `MotionCommands` implements it and
`JogControl` builds on it.

### MotionCommands: `motion_commands.py`

`queue`, `call`, `sequence`, `safetyEpoch`, `stopActive`, `pendingStops` and
`executionLock` are the fields of the manager; `pc` is where each thread is, and
`workerPc` where the worker thread is. Sections under the state condition are one
action each (`SubmitCall`, `AcceptSafetyStop`, `LeaveStop`, ...). The put into the
queue, which follows the condition, is a step of its own, and so are the wait for
the lock, the controller call and its end. The worker's loop "wait for no stop, take
the lock, look again" is `WorkerAwaitStops`, `WorkerLock`, `WorkerRetry` and
`WorkerStart` or `WorkerSupersede`. Left out: results, exceptions (a call that raises
returns like any other) and the status listing.

### JogControl: `jog_commands.py`, and the motor routes

A request is "sent" until its server thread handles it, so the requests of one page
arrive in any order. `Arbitrate` is the locked part of `arbitrate`; `Submit` follows
later, as in the route. `Expire` is the dead-man, which keeps `locked` until its stop
returns. Deadlines are not numbers: a lease may expire at any moment, since a
heartbeat may be late by any amount. The controller call sets the motion of its axes,
or is refused (axis not enabled) and changes nothing. The other commands are stops,
gotos and held velocities; held velocities that are all zero are a safety stop of their
axes, as the manager decides (`IsSafetyStop`).

### MotionProducers: the producers of ODriveMonitor, and `hardware_io.py`

A controller call walks through its steps (cancel the position move, cancel sine
tests, wait for their threads, write or launch); loops publish setpoints under their
coalescing key; the owner takes a task, drops it if it was superseded or its
generation is no longer current, and executes it. `source` records which command
last took an axis over. A command may be refused after it has cancelled loops (a goto
whose target is not valid, a write whose axis the owner no longer finds enabled), and a
goto that is prepared hands zeros to the owner for axes that are not yet in position
control. `slow`, chosen at the start from `TimeOuts`, says whether a
cancelled loop may outlive the 0.4 s its canceller waits. `NewestCommandRules` holds in
both cases. That a stopped axis stays (the second half of `ProducersInv`) is claimed
only where the loops end in time: a loop that outlives the wait can publish its last
setpoint after the stop has returned. Velocities are 0 or 1. A setpoint that is published
removes the older one of its key, of which there is never more than one.

### ConfigurationWorker: `scripts/configuration_worker.py`

One poll is a sequence of steps with a durable write or a request each, and `Restart`
may come between any two of them. `active` and `stateFile` survive, `state` is what
the process holds. An acknowledgement that was sent (`inFlight`) may arrive although its
answer is lost, arrive when the worker has given it up, or be lost for good (`Lose`). A write of `active.json` may fail before the rename, which leaves the
old file, or after it (when the directory is synchronised), which leaves the new one;
`torn` remembers the revision that got into the file that way. Revisions of the server
go in any order; those in `Invalid` fail validation against the drives.

### ControlWorker: `scripts/control_worker.py`

One asyncio loop: an action is what runs between two awaits. `exec` is the executor
task, `stopper` is `safe_stop` in each task that may run it (urgent stops and the
watchdog's in `Stoppers`, the executor, the `finally` block of the session).
`wire` holds the HTTP requests on threads: cancelling a task leaves its request there
as an orphan (up to `MaxOrphans`). The local server answers a request in one step and
ignores a jog older than the last one it has handled; its dead-man is `ComeToRest`.
`last_sequence` survives `Kill` since it is written with each acknowledgement. Left out:
camera messages, enable and disable (commands without epochs or heartbeats), and
keep-alives, which only postpone a watchdog that may fire at any time.

### MotorPanel and MotorPages: the motion controls of the dashboards

A page runs a handler to its first await, so an action is an event handler
(`PressJog`, `PressPad`, `Heartbeat`, `Release`, `Click`, `Escape`, `Hide`) or the
continuation of a fetch (`SettleJog`, `Settle`, `EscapeDisable`, `EscapeDone`). `jogWire` and
`commands` are the fetches that are pending: they are served in any order, or fail. A
request that the page has given up is lost, or is served later: a motor command becomes
one of `strays` (`Fail`, `ServeStray`), a heartbeat stays in `jogWire` without its owner
(`SettleJog`). The server keeps what the page can see
of it: the enabled axes, the newest sequence of each axis, its motion, and the dead-man
(`Expire`); `JogControl` has the rest. `newest`, `escaped` and `secured` are histories: the
velocity of the newest request of an axis, whether an Escape came after it, and whether
an Escape has reported success with no Enable under way since it was pressed, one that
the page has given up included.

`MotorPages` names the handlers of the classic and of the mobile page by the actions
that they perform. Both lack the offset button and Apply; the desktop alone stamps its
velocities with their age (`X-Motion-Issued-At-Ms`), and the server refuses a nonzero
one that is older than a second (`web_server.py:5336`).

### StatusFeed and FeedPages: status socket, polling, drive errors

`socket` holds the state of every WebSocket created so far. Their listeners use the
global variable for the newest socket, as in the code, so the event of an old socket
acts on the newest: this is why polling may go on beside an open stream
(`PollingBesideStreamHasCause`). `fetched` is `refreshStatus`, `pending` and `renderTimer` the
deferred rendering, `samples` the chart history of one axis, `driveLog` what was logged
of drive events (by start of the server and id) and `lastEvent` the page's last id, which
survives a restart of the server. `wire` holds the messages that the server has sent on
the newest socket (`SendMessage`) and the page has not handled: each carries the status
of when it was sent, a socket hands them over in order (`Message`), and what a closed one
had left is gone. An answer of the polling may so overtake a message, or the other way
round; `shownFrom` remembers which of the two sources brought the status on the page.
`Suspend` is offline and pagehide; a page that is only hidden keeps its feed.

### The panels: Reports to UpdateCheck, and PanelPages

Each is a module of its own, without shared state; in `PanelPages` a behaviour is one of
a single panel, on any of the three pages.

- `Reports`: `load` and `loader` of each tab, `kept` and `selection`, what is `drawn`. The
  request (with its 15 s time-out), its body, the finish and the application of a
  report are steps of their own.
- `Charts`: scale, grid, strokes and dots of a series, described in data coordinates, as
  functions of the points; `ChartsInv` compares them with what the points say. Readings
  are bounded by `LargestReading`: beyond it the steps of `chartAxisScale` run out.
- `SkyView`: the polar map with an integer number of pixels per degree, so that map and
  inverse are exact; limits, side, clicks, form and submit.
- `MotionStatus`: the label decided from the fields of a status, and the bounded memory of
  moves whose time-out was logged.
- `TuningForm`: both forms of an axis, `edits` that are not applied, `applyTimers` in the order
  they fire, `applies` that are pending, the drive's values and the polled copy of them
  that answers carry, the candidate of an auto tune. Apply and Save of either form are
  requests of their own: a button that was pressed is disabled until its requests end,
  the others are not.
- `AutoTune`: the range, one run of the page, stop requests, and the flag of the server
  that decides whether a stop is heeded. A run whose request the page has lost may still
  be queued on the server and begin later.
- `SystemSettings`: cached settings, form, loads (numbered openings), Save, Apply, the
  debounced save of a tuning step, the reset. The settings are one value. Two histories
  say what is claimed: `behind`, that the settings in force have changed since the answer
  was given that the page took last, and `typedText`, what was typed into the open panel
  and not replaced on purpose since. `waits` tells
  the pages apart: the classic and the mobile page wait for a load before they open.
- `UpdateCheck`: button, request, poll interval, the single load after 900 ms, and the
  updater's state on the server.

### CameraFrames, CameraJog and CameraPage: the camera page

`cycles` are the runs of `runFrameCycle` that have not ended, with the session each was
started in: a release aborts the request of a cycle, whose continuation then runs in
the next session. `pool` is `camera_frame_pool.py`: a count that begins anew with each
start of the server, the retained frame of each camera and whether it is fresh.
`ServePair`, `PairArrives` and `ImageLoads` are the request, its continuation and the load
events; `shownSource`, `readyCameras` and `pairShown` say what is on the page.

`CameraJog` is the pad. Its heartbeats do not wait for each other, a second button
replaces the first without a release, and a status that fails drops the hold without
one: the rest is left to the dead-man. `CameraPage` puts the two parts together; they
share nothing but the page's visibility, to which each reacts by itself, so a behaviour
is one of either part.

## 3. Runs

| Run | Instance | Shows |
|---|---|---|
| `manager` | 3 callers, 4 sequence numbers, fair | one call at a time, stops are final, the inductive invariant of the proofs; implements MotionArbiter; queued calls and stops return |
| `jogs` | 2 pages, 2 threads, 1 axis, 2 speeds, 2 jogs per page, 1 other command, fair | releases beat late starts in the registry; no theft of leases; the axes of a stop stand still until it returns; the dead-man lets the registry go |
| `jog_late_start` | 1 page, 1 axis | **violated**: a comment about late starts (finding) |
| `producers` | 2 axes, 2 commands, of which at most 1 is a safety stop, loops in time and not, fair | only the newest command writes an axis; a stopped axis stays; every controller call returns |
| `configuration` | 3 revisions, one invalid, 1 restart, any number of lost acknowledgements, fair | the Station never goes back; applied means durable; only received acknowledgements count; a stable revision is acknowledged |
| `control` | 2 messages, 1 sent again or `safe_stop`, 1 kill, 1 orphan, 2 stopping tasks, 2 attempts, fair | a held jog is watched; nothing that was answered runs again; jogs end |
| `control_stop` | 2 messages, 1 stopping task | **violated**: a goto starts after a later stop (finding) |
| `motor_panel` | 1 axis, 2 velocities, 1 pad, 3 requests (releases count, but are sent beyond the bound as well), 1 command given up and served later at a time, fair | the last word on a released axis is a stop; only held axes are driven; an Escape secures the mount; a released axis rests |
| `status_feed` | 2 sockets, 3 samples, 2 starts of the server, 1 outage, window of 1, later samples with the axis (answers that fail come without), fair | one live socket, silence while suspended, each event logged once, back in time only where an answer and a message overtook each other; the feed recovers |
| `panels` | each of the eight panels; for the tuning 3 edits, submits or results, 2 requests at a time, one field; the other values are in `Panels.cfg` and `MCPanels` | the invariants of the panels; only allowed targets are sent; opening the settings keeps edits; requests and the update button come back |
| `settings_draft` | 2 contents, 3 loads and saves | **violated**: a draft that was only applied is stored (finding) |
| `camera` | 3 sessions, 4 frames, 2 starts of the server; 2 directions, 3 commands; fair | one cycle per stream, pictures of one pair, no jog after a handled stop; a newer pair is shown |

### Why the bounds are enough

The hazards need few actors: two callers and a stop for the manager, with a third so
that two stops can overlap while a command waits; a jog, its release and one foreign
command for the registry, from two pages so that a lease can be stolen; an old
producer, a new one and a stop for the producers; an old revision, a new one and a
crash between its two writes for the configuration worker; a jog, a stop and a
repetition, with a restart, for the control worker; a jog, its successor and a command
with an Escape for the motion controls (an Enable that the page gave up, an Escape, and
the Enable served at last); an old and a new socket, and an answer and a message that
overtake each other, for the status feed; two edits of a field with an apply, or an edit
with a result of an auto tune and a Save, for the tuning forms; two loads, or a load and a save, or a run and its
stop, for a panel; two pairs, with a release in between, and a restart for the pictures.
For most of these properties the proofs cover any number. Every bound is a constant
named in the module and counts things that have no limit in the program: sequence
numbers, commands, crashes, resends, orphaned requests, commands given up, sockets, samples, edits. Bounds
only remove behaviours. In the models of the server and of the workers the states at a
bound are kept from counting as deadlocks by an explicit `Exhausted` step that requires
everything to be finished, so a thread that waits for ever inside the bound is still
reported. The runs of pages say CHECK_DEADLOCK FALSE: a page on which nobody does
anything, and whose timers and requests have ended, rests. `Attempts` is 3 in the code
and 2 in the run `control`: one attempt that is repeated and one that is not;
`TimeoutsKept` is 100 in the code and 1 in the run `panels`, so that the memory overflows.

### Fairness

- Manager: weak fairness of each thread's own steps. The locks and conditions are
  waited for without time-outs, and a controller call returns because every hardware
  operation under it has a time-out or ends. Nobody is obliged to submit or to close.
  Stops are bounded, so starvation of the worker by an endless flow of stops is out of
  the claim.
- Jogs: weak fairness of a thread inside the manager, which is what the manager's own
  liveness gives. Pages and lease deadlines owe nothing.
- Producers: weak fairness of the owner, of the call, and of loops that have been
  cancelled or (position moves) reach their time-out. A sine test that nobody stops
  may run for ever.
- Configuration: `Restart=always` keeps the loop polling; validation and the write
  succeed infinitely often if tried infinitely often (strong fairness, as they fail
  for reasons outside: the local server, the disk). Any single acknowledgement may be
  lost; one that is sent again and again arrives in the end (strong fairness of
  `Deliver`), so that it is the retry of `run_once` that the liveness property needs.
- Control: a task in `safe_stop` goes on (its request is answered, refused or times out),
  the local server handles the requests it has received, keep-alives end, so the
  watchdog fires, and a local lease that nothing renews expires. Nothing else is
  obliged to happen: `JogsEnd` needs neither the channel nor the executor.
- Motion controls (`MotorFairness`): a fetch is served or fails (the browser ends a fetch
  on a broken connection), its continuation runs, and the dead-man of the server stops
  an axis whose requests have ended. No operator releases, and nothing arrives in time.
- Status feed (`FeedFairness`): timers fire, a poll is answered or fails, a socket that is
  connecting or closing opens or closes. The server may stay away.
- Panels: a report request has a time-out of 15 s, and its continuation runs
  (`ReportsFairness`); requests of the update check end, its interval fires and the
  updater comes to an outcome (`UpdateFairness`). The rest of the panels needs none.
- Camera (`FramesFairness`): weak fairness of the steps of a cycle; strong fairness of
  `ServePair`, `PairArrives` and `ImageLoads`, which fail or are interrupted for reasons
  outside but are tried again and again. The pad needs none.

## 4. Proofs

Every theorem is for all values of the constants that the named assumptions of the
modules allow; these say that the names differ, that sets are finite or not empty, that
the bounds are naturals and that angles and readings are integers. Two assumptions are
limits: the readings of a chart are at most `LargestReading`, the most that five gridlines of
the largest step reach; and a position is no more than 540 degrees beyond its setpoint
(`MotionStatusAssumption`), farther than the mount turns, since the remainder of JavaScript
keeps the sign of what is divided and `signedDegreeDelta` is a distance only up to there.

`MotionCommandsProofs` proves, for every finite set of callers and every bound on
sequence numbers:

- `ManagerInvariant`: `Spec => []ManagerInv`
- `TypeCorrect`, `ControllerExclusive` (`OneControllerCall`), `StopsAreFinal`
  (`NoStaleCommand`)
- `ManagerImplementsArbiter`: `Spec => Arbiter!ArbiterSpec` under the refinement
  mapping in `MotionCommands`.

Neither `OneControllerCall` nor `NoStaleCommand` is inductive. Mutual exclusion
needs to know who owns the lock in which state (`LockOwners`). Staleness needs that
`pendingStops` counts exactly the stops in progress and `stopActive` says whether
there are any (`StopAccounting`, where the lemmas on cardinalities of
`FiniteSetTheorems` come in), that a caller that waits is in the queue or in the
worker's hands exactly once (`QueueOwners`), and that epochs grow with sequence
numbers (`EpochOrder`). `ManagerInv` is the conjunction. Each conjunct has a lemma that
every step preserves it, by cases over the actions, and the run `manager` checks
`ManagerInv` with TLC. The refinement proof maps each step of the manager to a step
of the arbiter or to a stutter; `NoStops` links the gate of the worker to the
arbiter's empty set of stops. Assumptions: `ManagerAssumption` and `ArbiterAssumption`, which
only say that the names of callers, worker, nobody and the end mark differ and that
callers are finitely many.

`ConfigurationWorkerProofs` proves, for any number of revisions, any set of invalid ones
and any number of restarts: `InvariantHolds` (`Spec => []Inv`), `ConfigurationSound`
(`ConfigurationInv`), `RetriesEndOnReceipt` (`RecordedAckWasReceived`) and `NeverRegresses`
(`ActiveNeverRegresses`, an action property). The properties are not inductive: that a
write goes forward depends on a comparison two steps earlier. `StepFacts` says what each
step of a poll may rely on (until the record is written the revision is newer than it;
after it, equal), `CopyIsAhead` that `state.json` and the acknowledgements never name a
revision the worker's copy does not have, and `ActiveOnRecord` that a file newer than the
record is either about to be recorded or the result of a failed write. `NeverRegresses`
follows from a lemma about one step: only the two write actions change the file, and
they write a revision newer than the record.

`JogControlProofs` proves, for any threads, pages, axes, speeds and number of requests:
`ReleasesWin` (`LeaseInv`), `LeasesAreNotStolen` (`LeaseNeverStolen`) and `StopsHold`
(`StoppedAxesStandStill`). The first needs that a lease carries the newest sequence the
registry has handled of its page, and that no request has a number the page has not
given (`LeaseInd`: `JogTypes`, `SentOK`, `SequencesOK`). The last needs the arbiter: from the
end of the controller call of a stop until it returns, nothing but stops is in the
controller (`StopInd`).

`ControlWorkerProofs` proves `WorkerIsSound` (`ControlInv`), its half `HeldJogsAreWatched`
(`HeldJogIsWatched`) and `NothingRunsTwice` (`AnsweredNeverRunsAgain`) for any number of messages,
resends, kills, orphaned requests and stopping tasks. `WorkerTypes` adds to the types that
whatever is queued, handled or waits to be acknowledged was sent by the server. Requests
leave the wire from any place, several at once when a later jog overtakes them: `Kept` is
what is left, and `RankExists`, proved from the least number that reaches a rank, says that
it is a sequence of what was there. An answer raises the last sequence before the task
that gives it comes to its next await, so that no answered command is numbered beyond it
(`RecordInd`), and whatever starts is compared with it.

`MotionProducersProofs` proves `NewestRules` (`NewestCommandRules`) and `StoppedAxesStay`
(`ProducersInv`) for any set of axes and any number of commands and safety stops. Neither
follows from what a step can see: a setpoint is decided by a loop, waits in the owner's
queue and is executed later. The first holds whether or not cancelled loops end in time.
Its invariant `RuleInd` says which loops each step of a call has cancelled (`Fences`), that
a loop whose generation is current is the newest that drives its axes (`CurrentRules`, with
`Exclusive`: two such loops share no axis), and that the owner holds no write of an older
loop than it has executed (`OwnerRules`). `StopInd` adds what a stop leaves behind: the
queue holds the last task of every loop that ends (`LastTask`) and the task of at most
one call, no loop older than an acknowledged stop is current (`StopFence`), and, where
cancellers wait long enough, one loop runs on an axis (`OneRuns`), the call has seen the
loops it takes over from end (`Joins`), and what it has stopped stands still before it
returns (`Halted`). That publishing, putting in front and taking from the queue keep the
order of the rest is stated once (`PublishEffect`, `EnqueueFirstEffect`, `QueueKept`), from
the library's `RemoveAt` and `Append`.

`DashboardProofs` proves, for any set of axes and any number of requests, commands and
Escapes, `EscapeSecures` (`EscapeSecuresTheMount`): while an Escape has not reported, its
request is the sole emergency request; once its Disable is served, no axis is enabled, and
what still travels - velocities, gotos, stops, given up by the page or not - cannot move a
disabled axis (`CommandedRests`, `SecuringInv`).
`ButtonsAndRequestsAgree` (`MotorInv`) and `OnlyHeldButtonsDrive` (`OnlyHeldAxesAreDriven`)
need what a release sends: `IssueEffect` says of any finite set of holds that each is
given a number above all earlier ones, whatever the order the page visits them in, so
that the newest request of a released axis is a zero velocity or that of an Escape
(`HoldInv`, which holds together with `SecuringInv`).

The same module proves of the status feed `ConnectionHolds` (`FeedInv`), `PageMovesOn`
(`GoesBackOnlyAcrossSources`) and `DriveEventsAreLogged` (`DriveLogInv`), for any number of
sockets, samples, restarts, outages and messages in flight. Only the newest socket is live,
since each way to create one closes or has lost the one before (`LinkInd`). For the second,
each source by itself moves on: the messages of a socket wait in the order of their
statuses, none is older than what the stream has brought, and a pending answer is no older
than the last one shown (`SourcesMoveOn` in `StatusInd`), so that only what came from the
other source can be newer than what is rendered. The ids in the log only grow, and reach
the page's last id, until the server restarts (`EventsInd`).

The copies of the classic and of the mobile page are named by the desktop's own actions.
That they add no step is therefore no result: the lemmas `PagesAddNothing`,
`FeedPagesAddNothing` and `PanelPagesAddNothing` only carry the theorems over from the
specifications of the pages. That the scripts are such copies was read, not proved.

`PanelPagesProofs` proves for the panels `ReportViewAgrees` (`ReportsInv`), `AutoTuneIsStopped`
(`AutoTuneInv`), `SettingsAreTheServers` (`SettingsInv`), `OpeningKeepsWhatIsTyped`
(`OpeningKeepsEdits`), `ButtonsAreWatched` (`UpdateInv`) and `LabelsAreTrue` (`MotionStatusInv`). Each has an inductive invariant of its own (`ReportsInd`, `AutoInd`,
`SettingsInd`, `UpdateInd`, `MotionStatusInd`), which adds what a pending request or timer may
rely on: which load a loader belongs to, which run a stop was sent for, that an answer which
no change has crossed carries the settings in force, that an answer to an earlier opening
finds no panel to fill, which poll will enable the button. What the page is told last may
still be old, where a change of the settings overtook it: `SettingsInv` excepts just that
(`behind`), and says that every answer given since the last change mends it. Three further panels need more than that:

- `TuningEditsSurvive` (`TuningInv`), for any fields and any number of edits, applies and
  results: `TuningInd` adds that of the timers of a field, one in each form, the last to
  fire holds what was typed last (`LastTimerIsTyped`); that two requests that are pending
  together have raced on the fields they share (`PendingTogetherRaced`); and that a request
  on a field that has not raced carries what was typed last, which is in the drive once it
  is answered, or a timer will send it (`PendingIsTyped`).
- `OneSkyTarget` (`SkyInv`) and `TargetsWithinLimits` (`SkyTargetsAllowed`), for any limits and
  typed angles: `SkyInd` adds that the marker is drawn from the target and that the target
  of a click is the click's angle; the map and its inverse are proved to agree for every
  distance and azimuth.
- `ChartsShowTheData` (`ChartsInv`), for any gap, window, number of points and readings within
  the bound: each drawing is computed from a series that does not change until the next,
  so `ChartsInd` only adds the type of the series; the work is in the arithmetic of
  `chartAxisScale` and in the extremes of its values. That a finite set of integers has a
  least and a greatest element is proved from the well-foundedness of the naturals
  (`LeastNumber`, `MinExists`, `MaxExists`), not by induction over the set.

`CameraPageProofs` proves `CameraIsSound` (`CameraInv`) for any number of sessions, frames,
restarts of the server, directions and commands. `FramesInd` adds to `FramesInv` what each
phase of a cycle may rely on (`CyclesOK`: no cycle is of a later session, and while one of
the current session decodes, the images show its pair and what is ready was displayed by
it or is still to be loaded); `JogInd` adds to
`JogInv` that the newest velocity command that still travels has the page's last velocity.

Only model-checked: all liveness properties, since liveness under fairness and ENABLED
are outside of what the prover supports (`CallersReturn`, `DeadmanLetsGo`, `EveryCallReturns`,
`StableRevisionIsAcknowledged`, `JogsEnd`, `MotionEnds`, `FeedRecovers`, `PanelsAnswered`,
`NewPairIsShown`). Every other property that a passing run checks is a theorem. No module
uses a RECURSIVE operator, and no induction over data was needed: where a set has to be
counted or an extreme to be found, the least natural number of a set takes its place.

## 5. Findings

Three runs end in a violation of something a docstring, comment or document of the
repository says; `PROJECT.json` quotes the line in each case.

- `jog_late_start`: a jog that was accepted before a release is submitted after it
  (`web_server.py:5359`).
- `control_stop`: a goto starts after a later stop (`control_worker.py:506`).
- `settings_draft`: a draft that was only applied for testing is stored when a tuning step
  is changed before Save (`desktop/js/dashboard.js:8024`).

Further observations are in the models or the hazards without a run of their own.

On the server and in the workers:

- a jog sent before a stop and handled after it moves the axis (`jog_commands.py:77`);
- the stop of one axis abandons the move of the other (`web_server.py:1841`);
- the executor of the control worker may die and the session goes on
  (`control_worker.py:534`);
- a disable is not a safety stop, so commands accepted before it may run while it waits
  (`motion_commands.py:119`);
- the registry grants a lease for a setpoint that the controller then refuses
  (`jog_commands.py:94`);
- a stop is skipped while a write of another velocity is in progress
  (`web_server.py:2137`);
- a configuration whose write failed after the rename is answered "rejected" although it
  is active (`configuration_worker.py:260`); the exception in `ActiveNeverRegresses` is for
  this.

On the pages:

- after a restart of the server a viewer of the cameras gets no picture until the new
  count of frames has passed the number it asks beyond (`web_server.py:4597`), although
  `docs/CAMERA_STREAM_WEBSOCKET.md` says a new frame wakes viewers at once;
- object URLs of a pair are never revoked when a release comes while it is decoded;
- a status that fails leaves a jog of the camera page to the dead-man, and its heartbeats
  do not wait for each other;
- the stop of an Escape has no time-out: until it ends neither Disable nor a further
  Escape is sent; an Escape with a dialog open only closes the dialog (desktop, 9982);
- a foreground report that fails keeps its error panel (desktop, 1130), and the body of a
  report has no time-out; on the classic and the mobile page the loads of the settings and
  of the system information have none;
- a click at azimuth 200 with a clockwise limit of 270 gives -160, which the form refuses;
- the fallback settings of a page that has failed to load can be saved;
- one failed poll ends the polls of an update check.

## 6. Plan

Done: the core of the motion stack (`MotionArbiter`, `MotionCommands`, `JogControl`,
`MotionProducers`), the workers that are commanded from outside (`ConfigurationWorker`,
`ControlWorker`), the three dashboards (`MotorPanel` to `UpdateCheck`) and the camera page, with
the proofs of section 4.

Left, in this order:

1. `MountRouter` on the arbiter: velocity watchdogs of the TCP router (armed before the
   command is submitted; an expired timer removes a newer one). Property: a velocity
   with a time-out comes to rest; a watchdog never stops a later goto.
2. `MountAgent`: sessions, control lease, request-id cache, configuration sync.
3. `MissionWorker` and `BackupRetention`: an abstract specification "durable revision
   log" that both workers implement; purge against rows flushed late.
4. `CurrentEnvelope` as a function of bounded samples against a reference definition.
5. Calibration and auto-tune as producers; failing writes; `HardwareQueue` with all
   priorities, superseded calls and shutdown.
6. `SoftwareUpdate`, `RecordingSession`, `MissionController`, `IncidentManager`.

Hazards of these parts that wait for their models: a `call()` whose task is superseded
returns like a success (`hardware_io.py:62`); a calibration checks for a stop and then
starts motion (`web_server.py:1458`); an expired watchdog removes the timer of a newer
command (`web_server.py:416`), and one is armed before its velocity is submitted
(`web_server.py:285`); the lease is checked before the command runs (`mount_agent.py:123`,
`:129`); the acknowledgement of a mission (`mission_worker.py:219`); rows flushed after
their backup was sealed (`backup_api.py:280`); the recovery of the current allowance
(`current_protection.py:63`).

Proofs that are left: that the two workers with revisions implement their common abstract
specification, and refinements that would state in one place what the registry and the
producers promise the pages.

## 7. Not modelled, and why

Real arithmetic (curve fits, geodesy, tuning scores, image processing), I/O of drivers
and codecs, page layout and payload parsing: nothing in them depends on an order of
events, or TLC cannot represent their data. The three.js scenes draw triangles from the
status that `StatusFeed` delivers. On the pages, the redraw of charts on a resize
(desktop, 10139) and the older status format without event ids (`logAxisDriveErrors`) are left
out. Time is never a number: a time-out may happen at any moment, which allows more
behaviours than the clock does; where that is too much, a variable (`slow`) says which
half is meant. `atomic_state` of the control worker is taken to succeed.

To repeat the checks in this directory: `tlc -workers 2 -config X.cfg MCModule` for a run,
with the pairs `MotionCommands.cfg MCMotionCommands`, `JogControl.cfg` and
`JogControl_late_start.cfg MCJogControl`, `MotionProducers.cfg MCMotionProducers`,
`ConfigurationWorker.cfg MCConfigurationWorker`, `ControlWorker.cfg` and
`ControlWorker_stop.cfg MCControlWorker`, `MotorPanel.cfg MCMotorPanel`,
`StatusFeed.cfg MCStatusFeed`, `Panels.cfg MCPanels`, `SystemSettings_draft.cfg MCSystemSettings`
and `CameraPage.cfg MCCameraPage`; and `tlapm M.tla` for each of the eight modules named
`*Proofs`.
