----------------------------- MODULE ControlWorker -----------------------------
(***************************************************************************)
(* scripts/control_worker.py: the process that holds the command channel   *)
(* to the server and passes its jogs, gotos and stops to the local HTTP    *)
(* server.  It is one event loop: between two awaits a task runs alone.    *)
(* Local requests are made on threads, so cancelling a task that waits for *)
(* one leaves the request on its way.                                      *)
(*                                                                         *)
(* Abstracted: times (a watchdog, a lease or a request may expire at any   *)
(* moment, so a keep-alive, which only postpones that, changes nothing),   *)
(* directions and speeds, the texts of acknowledgements, enable and        *)
(* disable.  The local server handles a request in one step here;          *)
(* JogControl has its steps.                                               *)
(***************************************************************************)
EXTENDS Integers, Sequences, FiniteSets

CONSTANTS MaxSequence,  \* bound: commands and stops the server sends
          MaxResends,   \* bound: messages it sends again
          MaxKills,     \* bound: kills of the process
          MaxOrphans,   \* bound: requests on their way that no task waits for
          Stoppers,     \* bound: the tasks in which an urgent stop or a watchdog's runs
          Attempts      \* the attempts of safe_stop (3 in the code)

ASSUME ControlAssumption ==
    /\ MaxSequence \in Nat /\ MaxResends \in Nat /\ MaxKills \in Nat /\ MaxOrphans \in Nat
    /\ Attempts \in Nat \ {0}
    /\ {"executor", "final", "heartbeat", "nobody"} \cap Stoppers = {}

VARIABLES
    session,       \* the authenticated channel: "down", "up", or "closing"
    kind,          \* what the server has sent: "jog", "goto" or "stop" per sequence
    resends,       \* messages it has sent again
    kills,         \* kills so far
    queue,         \* command_queue
    exec,          \* motor_executor: the command it handles, and where
    lastSequence,  \* last_sequence, in memory and in state.json
    commandEpoch,  \* command_epoch
    activeJog,     \* the sequence of active_jog, 0 for None; its watchdog is running
    heartbeat,     \* the _jog_heartbeat task
    stopper,       \* safe_stop in each task that may run it
    wire,          \* requests to the local server, in the order they were made
    motion,        \* what the local server has the mount do
    acked          \* history: the sequences acknowledged

channelVars == <<kind, resends, kills>>
workerVars  == <<lastSequence, commandEpoch>>
vars == <<session, channelVars, queue, exec, workerVars, activeJog, heartbeat,
          stopper, wire, motion, acked>>

StopTasks == Stoppers \cup {"executor", "final"}
Sequences == 0..MaxSequence

Idle   == [pc |-> "idle", seq |-> 0, epoch |-> 0, path |-> "none"]
NoBeat == [pc |-> "off", seq |-> 0, epoch |-> 0]
NoStop == [pc |-> "off", tries |-> 0, ack |-> 0, urgent |-> FALSE]
Rest   == [op |-> "none", seq |-> 0]

Init ==
    /\ session = "down" /\ kind = <<>> /\ resends = 0 /\ kills = 0
    /\ queue = <<>> /\ exec = Idle
    /\ lastSequence = 0 /\ commandEpoch = 0
    /\ activeJog = 0 /\ heartbeat = NoBeat
    /\ stopper = [t \in StopTasks |-> NoStop]
    /\ wire = <<>> /\ motion = Rest
    /\ acked = {}
-----------------------------------------------------------------------------
(* Requests to the local server *)

Request(op, seq, task) == [op |-> op, seq |-> seq, by |-> task]
Waits(task) == \E i \in DOMAIN wire : wire[i].by = task

\* The requests at the places S, in their order: the k-th is at the place with rank k.
Rank(S, i) == Cardinality({j \in S : j <= i})
Kept(w, S) == [k \in 1..Cardinality(S) |-> w[CHOOSE i \in S : Rank(S, i) = k]]

Without(w, T) == Kept(w, {i \in DOMAIN w : w[i].by \notin T})

\* The tasks of T are cancelled or time out: their requests stay on their way
\* (within the bound; beyond it they have not been sent yet).
Abandon(w, T) ==
    IF Cardinality({i \in DOMAIN w : w[i].by \in T \cup {"nobody"}}) > MaxOrphans THEN Without(w, T)
    ELSE [i \in DOMAIN w |-> IF w[i].by \in T THEN [w[i] EXCEPT !.by = "nobody"] ELSE w[i]]

\* The request of a task fails: it was refused, or timed out and is still on its way.
Failed(task) == {Without(wire, {task}), Abandon(wire, {task})}

\* The local server handles a request.  Jogs carry a page sequence: one that was
\* made before the jog handled last is ignored.
Overtaken(j, i) == j < i /\ wire[i].op = "jog" /\ wire[j].op = "jog"
Serve(i) ==
    /\ wire' = Kept(wire, {j \in DOMAIN wire : j # i /\ ~Overtaken(j, i)})
    /\ motion' = IF wire[i].op = "stop" THEN Rest
                 ELSE [op |-> wire[i].op, seq |-> wire[i].seq]
    /\ UNCHANGED <<session, channelVars, queue, exec, workerVars, activeJog, heartbeat,
                   stopper, acked>>

\* It refuses one that nobody waits for (a waiting task sees its own refused).
Refuse(i) ==
    /\ wire[i].by = "nobody"
    /\ wire' = Kept(wire, {j \in DOMAIN wire : j # i})
    /\ UNCHANGED <<session, channelVars, queue, exec, workerVars, activeJog, heartbeat,
                   stopper, motion, acked>>

\* The dead-man of the local server, or the arrival of a goto.
ComeToRest ==
    /\ motion # Rest
    /\ motion' = Rest
    /\ UNCHANGED <<session, channelVars, queue, exec, workerVars, activeJog, heartbeat,
                   stopper, wire, acked>>
-----------------------------------------------------------------------------
(* safe_stop(): it ends the active jog, its watchdog and the heartbeat      *)
(* without an await, and then posts the stop, up to Attempts times.         *)

Stopping(ack, urgent) == [pc |-> "wait", tries |-> Attempts, ack |-> ack, urgent |-> urgent]
WithStop(w, t) == Append(Abandon(w, {"heartbeat"}), Request("stop", 0, t))

SafeStop(t, ack, urgent, w) ==
    /\ activeJog' = 0
    /\ heartbeat' = NoBeat
    /\ stopper' = [stopper EXCEPT ![t] = Stopping(ack, urgent)]
    /\ wire' = WithStop(w, t)

\* Another attempt calls LocalMount.stop anew, which ends the heartbeat of now.
RetryStop(t) ==
    /\ stopper[t].pc = "wait" /\ Waits(t)
    /\ stopper[t].tries > 1
    /\ stopper' = [stopper EXCEPT ![t].tries = @ - 1]
    /\ heartbeat' = NoBeat
    /\ \E w \in Failed(t) : wire' = WithStop(w, t)
    /\ UNCHANGED <<session, channelVars, queue, exec, workerVars, activeJog, motion, acked>>

Stopped(t) == stopper[t].pc = "wait" /\ ~Waits(t)
GivesUp(t) == stopper[t].pc = "wait" /\ Waits(t) /\ stopper[t].tries = 1

\* ack(): the sequence goes to state.json before the answer to the channel.
Ack(n) ==
    /\ lastSequence' = IF n > lastSequence THEN n ELSE lastSequence
    /\ acked' = acked \cup {n}

\* An urgent stop, or a watchdog's (which acknowledges nothing), has stopped the mount.
UrgentStopped(t) ==
    /\ t \in Stoppers /\ Stopped(t)
    /\ IF stopper[t].ack # 0 THEN Ack(stopper[t].ack) ELSE UNCHANGED <<lastSequence, acked>>
    /\ stopper' = [stopper EXCEPT ![t] = NoStop]
    /\ UNCHANGED <<session, channelVars, queue, exec, commandEpoch, activeJog, heartbeat,
                   wire, motion>>

\* The last attempt fails; the error is lost with the task.
UrgentFails(t) ==
    /\ t \in Stoppers /\ GivesUp(t)
    /\ stopper' = [stopper EXCEPT ![t] = NoStop]
    /\ wire' \in Failed(t)
    /\ UNCHANGED <<session, channelVars, queue, exec, workerVars, activeJog, heartbeat,
                   motion, acked>>
-----------------------------------------------------------------------------
(* The session: messages from the server *)

\* urgent_stop of message n, or of a safe_stop message (0).
UrgentStop(n, t) ==
    /\ stopper[t] = NoStop
    /\ commandEpoch < MaxSequence + MaxResends
    /\ commandEpoch' = commandEpoch + 1
    /\ SafeStop(t, n, TRUE, wire)
    /\ UNCHANGED <<session, kills, queue, exec, lastSequence, motion, acked>>

ReceiveStop(t) ==
    /\ session = "up" /\ Len(kind) < MaxSequence
    /\ kind' = Append(kind, "stop")
    /\ UrgentStop(Len(kind) + 1, t)
    /\ UNCHANGED resends

ReceiveCommand(k) ==
    /\ session = "up" /\ Len(kind) < MaxSequence
    /\ kind' = Append(kind, k)
    /\ queue' = Append(queue, Len(kind) + 1)
    /\ UNCHANGED <<session, resends, kills, exec, workerVars, activeJog, heartbeat, stopper,
                   wire, motion, acked>>

\* The server sends a message again.
ReceiveCommandAgain(n) ==
    /\ session = "up" /\ resends < MaxResends
    /\ kind[n] # "stop"
    /\ resends' = resends + 1
    /\ queue' = Append(queue, n)
    /\ UNCHANGED <<session, kind, kills, exec, workerVars, activeJog, heartbeat, stopper,
                   wire, motion, acked>>

ReceiveStopAgain(n, t) ==
    /\ session = "up" /\ resends < MaxResends
    /\ kind[n] = "stop"
    /\ resends' = resends + 1
    /\ UrgentStop(n, t)
    /\ UNCHANGED kind

\* A safe_stop message of the server, which has no sequence.
ReceiveSafeStop(t) ==
    /\ session = "up" /\ resends < MaxResends
    /\ resends' = resends + 1
    /\ UrgentStop(0, t)
    /\ UNCHANGED kind

\* The watchdog of the active jog runs out.
WatchdogFires(t) ==
    /\ activeJog # 0
    /\ stopper[t] = NoStop
    /\ SafeStop(t, 0, FALSE, wire)
    /\ UNCHANGED <<session, channelVars, queue, exec, workerVars, motion, acked>>
-----------------------------------------------------------------------------
(* motor_executor and handle_command *)

TakeCommand == exec.pc = "idle" /\ session = "up" /\ queue # <<>> /\ queue' = Tail(queue)

StartCommand ==
    /\ TakeCommand
    /\ Head(queue) > lastSequence
    /\ exec' = [pc |-> "preflight", seq |-> Head(queue), epoch |-> commandEpoch, path |-> "none"]
    /\ UNCHANGED <<session, channelVars, workerVars, activeJog, heartbeat, stopper, wire,
                   motion, acked>>

\* An old sequence is answered from the cache or rejected; so is a command for
\* another station or protocol.
AnswerAtOnce ==
    /\ TakeCommand
    /\ Ack(Head(queue))
    /\ UNCHANGED <<session, channelVars, exec, commandEpoch, activeJog, heartbeat, stopper,
                   wire, motion>>

\* LocalMount.jog after its preflight: the previous heartbeat ends.
PostJog ==
    /\ exec.pc = "preflight" /\ kind[exec.seq] = "jog"
    /\ exec' = [exec EXCEPT !.pc = "post"]
    /\ heartbeat' = NoBeat
    /\ wire' = Append(Abandon(wire, {"heartbeat"}), Request("jog", exec.seq, "executor"))
    /\ UNCHANGED <<session, channelVars, queue, workerVars, activeJog, stopper, motion, acked>>

\* LocalMount.goto_angles after its preflight.
PostGoto ==
    /\ exec.pc = "preflight" /\ kind[exec.seq] = "goto"
    /\ exec' = [exec EXCEPT !.pc = "post"]
    /\ wire' = Append(wire, Request("goto", exec.seq, "executor"))
    /\ UNCHANGED <<session, channelVars, queue, workerVars, activeJog, heartbeat, stopper,
                   motion, acked>>

Posted(k) == exec.pc = "post" /\ ~Waits("executor") /\ kind[exec.seq] = k

\* Mutant: a jog is held whatever stop was received while it was started.
JogStartsAnyEpoch ==
    /\ Posted("jog")
    /\ heartbeat' = [pc |-> "sleep", seq |-> exec.seq, epoch |-> exec.epoch]
    /\ activeJog' = exec.seq
    /\ Ack(exec.seq)
    /\ exec' = Idle
    /\ UNCHANGED <<session, channelVars, queue, commandEpoch, stopper, wire, motion>>

\* Mutant: arm_jog_watchdog is not called.
JogStartsUnwatched ==
    /\ Posted("jog") /\ exec.epoch = commandEpoch
    /\ heartbeat' = [pc |-> "sleep", seq |-> exec.seq, epoch |-> exec.epoch]
    /\ Ack(exec.seq)
    /\ exec' = Idle
    /\ UNCHANGED <<session, channelVars, queue, commandEpoch, activeJog, stopper, wire, motion>>

\* The heartbeat and the watchdog of the jog start.
JogStarts ==
    /\ Posted("jog") /\ exec.epoch = commandEpoch
    /\ heartbeat' = [pc |-> "sleep", seq |-> exec.seq, epoch |-> exec.epoch]
    /\ activeJog' = exec.seq
    /\ Ack(exec.seq)
    /\ exec' = Idle
    /\ UNCHANGED <<session, channelVars, queue, commandEpoch, stopper, wire, motion>>

\* A stop was received while the jog was being started.
JogSuperseded ==
    /\ Posted("jog") /\ exec.epoch # commandEpoch
    /\ exec' = [exec EXCEPT !.pc = "stop", !.path = "superseded"]
    /\ SafeStop("executor", 0, FALSE, wire)
    /\ UNCHANGED <<session, channelVars, queue, workerVars, motion, acked>>

GotoStarts ==
    /\ Posted("goto")
    /\ Ack(exec.seq)
    /\ exec' = Idle
    /\ UNCHANGED <<session, channelVars, queue, commandEpoch, activeJog, heartbeat, stopper,
                   wire, motion>>

\* The preflight or the request of the command fails.
CommandFails ==
    /\ exec.pc = "post" => Waits("executor")
    /\ exec.pc \in {"preflight", "post"}
    /\ exec' = [exec EXCEPT !.pc = "stop", !.path = "rejected"]
    /\ \E w \in Failed("executor") : SafeStop("executor", 0, FALSE, w)
    /\ UNCHANGED <<session, channelVars, queue, workerVars, motion, acked>>

ExecutorStopped ==
    /\ exec.pc = "stop" /\ Stopped("executor")
    /\ Ack(exec.seq)
    /\ exec' = Idle
    /\ stopper' = [stopper EXCEPT !["executor"] = NoStop]
    /\ UNCHANGED <<session, channelVars, queue, commandEpoch, activeJog, heartbeat, wire,
                   motion>>

\* safe_stop raises in handle_command: its handler, and then that of
\* motor_executor, tries it again.
ExecutorStopsAgain ==
    /\ exec.pc = "stop" /\ GivesUp("executor")
    /\ exec.path \in {"superseded", "rejected"}
    /\ exec' = [exec EXCEPT !.path = IF @ = "superseded" THEN "rejected" ELSE "error"]
    /\ \E w \in Failed("executor") : SafeStop("executor", 0, FALSE, w)
    /\ UNCHANGED <<session, channelVars, queue, workerVars, motion, acked>>

\* It raises in the handler of motor_executor: the task is dead.
ExecutorDies ==
    /\ exec.pc = "stop" /\ GivesUp("executor")
    /\ exec.path = "error"
    /\ exec' = [Idle EXCEPT !.pc = "dead"]
    /\ stopper' = [stopper EXCEPT !["executor"] = NoStop]
    /\ wire' \in Failed("executor")
    /\ UNCHANGED <<session, channelVars, queue, workerVars, activeJog, heartbeat, motion,
                   acked>>
-----------------------------------------------------------------------------
(* _jog_heartbeat *)

Beat ==
    /\ heartbeat.pc = "sleep"
    /\ heartbeat' = [heartbeat EXCEPT !.pc = "post"]
    /\ wire' = Append(wire, Request("jog", heartbeat.seq, "heartbeat"))
    /\ UNCHANGED <<session, channelVars, queue, exec, workerVars, activeJog, stopper, motion,
                   acked>>

BeatAnswered ==
    /\ heartbeat.pc = "post" /\ ~Waits("heartbeat")
    /\ heartbeat' = [heartbeat EXCEPT !.pc = "sleep"]
    /\ UNCHANGED <<session, channelVars, queue, exec, workerVars, activeJog, stopper, wire,
                   motion, acked>>

BeatFails ==
    /\ heartbeat.pc = "post" /\ Waits("heartbeat")
    /\ heartbeat' = NoBeat
    /\ wire' \in Failed("heartbeat")
    /\ UNCHANGED <<session, channelVars, queue, exec, workerVars, activeJog, stopper, motion,
                   acked>>
-----------------------------------------------------------------------------
(* Sessions come and go *)

Connect ==
    /\ session = "down"
    /\ session' = "up"
    /\ UNCHANGED <<channelVars, queue, exec, workerVars, activeJog, heartbeat, stopper, wire,
                   motion, acked>>

Urgent == {t \in Stoppers : stopper[t].urgent}

\* The finally block of session(): the executor and the urgent stops are
\* cancelled, and the queue is gone with the session; then the mount is stopped.
Disconnect ==
    /\ session = "up"
    /\ session' = "closing"
    /\ queue' = <<>>
    /\ exec' = Idle
    /\ activeJog' = 0
    /\ heartbeat' = NoBeat
    /\ stopper' = [t \in StopTasks |->
          IF t = "final" THEN Stopping(0, FALSE)
          ELSE IF t \in Urgent \cup {"executor"} THEN NoStop ELSE stopper[t]]
    /\ wire' = WithStop(Abandon(wire, Urgent \cup {"executor"}), "final")
    /\ UNCHANGED <<channelVars, workerVars, motion, acked>>

SessionEnds ==
    /\ Stopped("final") \/ GivesUp("final")
    /\ session' = "down"
    /\ stopper' = [stopper EXCEPT !["final"] = NoStop]
    /\ wire' \in IF GivesUp("final") THEN Failed("final") ELSE {wire}
    /\ UNCHANGED <<channelVars, queue, exec, workerVars, activeJog, heartbeat, motion, acked>>

Fresh ==
    /\ session' = "down" /\ queue' = <<>> /\ exec' = Idle
    /\ commandEpoch' = 0 /\ activeJog' = 0 /\ heartbeat' = NoBeat
    /\ stopper' = [t \in StopTasks |-> NoStop]
    /\ wire' = Abandon(wire, StopTasks \cup {"heartbeat"})

\* Mutant: the last sequence is kept in memory only.
KillForgetting ==
    /\ kills < MaxKills
    /\ kills' = kills + 1
    /\ Fresh
    /\ lastSequence' = 0
    /\ UNCHANGED <<kind, resends, motion, acked>>

\* The process is killed and started again.
Kill ==
    /\ kills < MaxKills
    /\ kills' = kills + 1
    /\ Fresh
    /\ UNCHANGED <<kind, resends, lastSequence, motion, acked>>
-----------------------------------------------------------------------------
ExecutorStep ==
    \/ StartCommand \/ AnswerAtOnce \/ PostJog \/ PostGoto \/ JogStarts \/ JogSuperseded
    \/ GotoStarts \/ CommandFails \/ ExecutorStopped \/ ExecutorStopsAgain \/ ExecutorDies

StopStep(t) == RetryStop(t) \/ UrgentStopped(t) \/ UrgentFails(t)

HeartbeatStep == Beat \/ BeatAnswered \/ BeatFails

Next ==
    \/ \E i \in DOMAIN wire : Serve(i) \/ Refuse(i)
    \/ ComeToRest
    \/ \E t \in StopTasks : StopStep(t)
    \/ \E k \in {"jog", "goto"} : ReceiveCommand(k)
    \/ \E n \in DOMAIN kind : ReceiveCommandAgain(n)
    \/ \E t \in Stoppers :
          \/ ReceiveStop(t) \/ ReceiveSafeStop(t) \/ WatchdogFires(t)
          \/ \E n \in DOMAIN kind : ReceiveStopAgain(n, t)
    \/ ExecutorStep
    \/ HeartbeatStep
    \/ Connect \/ Disconnect \/ SessionEnds \/ Kill

Spec == Init /\ [][Next]_vars

\* The event loop runs the tasks that stop the mount, the operator lets go of a
\* jog in the end (no keep-alive for ever), the local server handles what reaches
\* it, and a lease that nothing renews expires.  Nothing is assumed of the channel,
\* of the executor or of what the local server answers.
Unrenewed == heartbeat.pc = "off" /\ \A i \in DOMAIN wire : wire[i].op # "jog"

Fairness ==
    /\ \A t \in Stoppers : WF_vars(StopStep(t))
    /\ WF_vars(\E i \in DOMAIN wire : Serve(i))
    /\ WF_vars(\E t \in Stoppers : WatchdogFires(t))
    /\ WF_vars(Unrenewed /\ ComeToRest)

FairSpec == Spec /\ Fairness
-----------------------------------------------------------------------------
(* Properties *)

Requests == [op : {"jog", "goto", "stop"}, seq : Sequences,
             by : StopTasks \cup {"heartbeat", "nobody"}]

TypeOK ==
    /\ session \in {"down", "up", "closing"}
    /\ \A n \in DOMAIN kind : kind[n] \in {"jog", "goto", "stop"}
    /\ Len(kind) \in Sequences /\ resends \in 0..MaxResends /\ kills \in 0..MaxKills
    /\ \A i \in DOMAIN queue : queue[i] \in DOMAIN kind
    /\ exec \in [pc : {"idle", "preflight", "post", "stop", "dead"}, seq : Sequences,
                 epoch : 0..MaxSequence + MaxResends,
                 path : {"none", "superseded", "rejected", "error"}]
    /\ lastSequence \in Sequences /\ commandEpoch \in 0..MaxSequence + MaxResends
    /\ activeJog \in Sequences
    /\ heartbeat \in [pc : {"off", "sleep", "post"}, seq : Sequences,
                      epoch : 0..MaxSequence + MaxResends]
    /\ stopper \in [StopTasks -> [pc : {"off", "wait"}, tries : 0..Attempts,
                                  ack : Sequences, urgent : BOOLEAN]]
    /\ \A i \in DOMAIN wire : wire[i] \in Requests
    /\ motion \in [op : {"none", "jog", "goto"}, seq : Sequences]
    /\ acked \subseteq DOMAIN kind

\* A command that has been answered never runs again, however often the server
\* sends it and whether or not the worker has been restarted in between.
AnsweredNeverRunsAgain ==
    [][exec.pc = "idle" /\ exec'.pc = "preflight" => exec'.seq \notin acked]_vars

\* The heartbeat, which keeps the local server's dead-man from acting, never runs
\* for a jog that no watchdog bounds, nor for one that a stop has overtaken while
\* it was being started.
HeldJogIsWatched ==
    heartbeat.pc # "off" => activeJog = heartbeat.seq /\ heartbeat.epoch = commandEpoch

\* The worker's types, and jogs that something will end.
ControlInv == TypeOK /\ HeldJogIsWatched

\* A jog comes to rest although any stop may fail and requests overtake it.
JogsEnd == motion.op = "jog" ~> motion.op # "jog"

\* Section 5 of docs/ODRIVE_MOTION_CONFIGURATION_REFERENCE_TH.md, line 84, on all
\* transports, remote control among them: a stop invalidates the older commands
\* that wait.  A goto does not look at the command epoch after its preflight.
StopInvalidatesGoto ==
    [][motion'.op = "goto" /\ motion' # motion =>
          \A n \in acked : kind[n] = "stop" => n < motion'.seq]_vars
=============================================================================
