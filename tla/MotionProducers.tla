--------------------------- MODULE MotionProducers ---------------------------
(***************************************************************************)
(* The motion producers of ODriveMonitor (web_server.py) behind the        *)
(* manager: position moves and sine tests run as loops of their own that   *)
(* publish setpoints to the hardware owner (hardware_io.py), held          *)
(* velocities are written once, and a cancelled loop is fenced off by a    *)
(* generation number that the owner compares before it writes.             *)
(*                                                                         *)
(* The manager runs one controller call at a time; a safety stop may set   *)
(* the generations of the loops while another call is in progress          *)
(* (request_safety_stop), before its own call runs.                        *)
(*                                                                         *)
(* Abstracted: the stop event of a loop, which is set after the generation *)
(* is advanced and decides only how soon the loop ends; published progress;*)
(* the size of a velocity (0 or not).                                      *)
(***************************************************************************)
EXTENDS Integers, Sequences, SequencesExt

CONSTANTS Axes,           \* "Azimuth", "Altitude"
          MaxCommands,    \* bound: commands and stops of a behaviour
          MaxStops,       \* bound: safety stops among them
          TimeOuts        \* values of slow that are tried

ASSUME ProducersAssumption ==
    /\ MaxCommands \in Nat /\ MaxStops \in Nat /\ TimeOuts \subseteq BOOLEAN
    /\ Axes # {} /\ Axes \cap {"none", "external", "position"} = {}

VARIABLES
    setpoint,     \* controller.input_vel of each drive: 0 or 1
    cached,       \* _last_velocity_command_deg_per_sec
    positionGen,  \* _software_position_generation
    sineGen,      \* _sine_velocity_generations
    loops,        \* the loop each command has started
    mailbox,      \* the owner's queue, in the order it will take the tasks
    owner,        \* the task the owner is executing, if any
    call,         \* the controller call in progress
    stop,         \* the accepted safety stop that has not entered the controller
    commands,     \* commands and stops accepted
    stopsUsed,    \* safety stops accepted
    slow,         \* whether a loop may outlive the 0.4 s its canceller waits for it
    source,       \* history: the last command that took each axis over, and how
    stopped       \* history: the last acknowledged stop of each axis

loopVars    == <<positionGen, sineGen, loops>>
ownerVars   == <<setpoint, cached, mailbox, owner, source>>
acceptVars  == <<commands, stopsUsed, slow>>
vars == <<loopVars, ownerVars, acceptVars, call, stop, stopped>>

Velocities == {0, 1}
AxisSets   == (SUBSET Axes) \ {{}}
Commands   == 1..MaxCommands
All(A, v)  == [a \in A |-> v]

NoCall == [n |-> 0, kind |-> "none", axes |-> {}, velocity |-> 0, gen |-> 0, step |-> "idle"]
NoLoop == [kind |-> "none", axes |-> {}, gen |-> 0, pc |-> "off"]
NoTask == [op |-> "none", n |-> 0, values |-> <<>>, key |-> "none"]

\* Both axes are enabled and at rest.
Init ==
    /\ setpoint = All(Axes, 0)
    /\ cached = All(Axes, 0)
    /\ positionGen = 0
    /\ sineGen = All(Axes, 0)
    /\ loops = [n \in Commands |-> NoLoop]
    /\ mailbox = <<>>
    /\ owner = NoTask
    /\ call = NoCall
    /\ stop = NoCall
    /\ commands = 0
    /\ stopsUsed = 0
    /\ slow \in TimeOuts
    /\ source = [a \in Axes |-> [n |-> 0, by |-> "rest"]]
    /\ stopped = All(Axes, 0)
-----------------------------------------------------------------------------
(* Loops and tasks *)

IsCurrent(n) ==
    LET l == loops[n] IN
    IF l.kind = "position" THEN l.gen = positionGen
    ELSE \A a \in l.axes : l.gen = sineGen[a]

Running(n) == loops[n].pc \in {"run", "stopping"}

\* The loop thread that a cancellation waits for is the latest one.
Latest(n, kind, A) ==
    /\ loops[n].kind = kind /\ loops[n].axes \cap A # {}
    /\ \A m \in Commands : m > n => loops[m].kind # kind \/ loops[m].axes \cap A = {}

PositionJoined == slow \/ \A n \in Commands : Latest(n, "position", Axes) => ~Running(n)
SineJoined(A)  == slow \/ \A n \in Commands : \A a \in A : Latest(n, "sine", {a}) => ~Running(n)

\* The coalesce key of a loop's tasks: "software-position", or "sine:<label>".
LoopKey(n) == IF loops[n].kind = "position" THEN "position"
              ELSE CHOOSE a \in Axes : loops[n].axes = {a}

Pending(op, n) ==
    \/ owner.op = op /\ owner.n = n
    \/ \E i \in DOMAIN mailbox : mailbox[i].op = op /\ mailbox[i].n = n

\* HardwareIOQueue.call: tasks of control priority are taken in order, a task of
\* safety priority before them.
Enqueue(task) == mailbox' = Append(mailbox, task)
EnqueueFirst(task) == mailbox' = <<task>> \o mailbox

\* HardwareIOQueue.publish_latest: the publication under the key that was waiting, if
\* any, is dead, and nobody waits for it.  It leaves the queue now and not at its turn.
Publish(task) ==
    LET dead == {i \in DOMAIN mailbox : mailbox[i].op = "loop" /\ mailbox[i].key = task.key}
        rest == IF dead = {} THEN mailbox ELSE RemoveAt(mailbox, CHOOSE i \in dead : TRUE)
    IN mailbox' = Append(rest, task)

\* A task is superseded by a later one under its coalesce key.
Superseded(task, later) ==
    task.key # "none" /\ \E i \in DOMAIN later : later[i].key = task.key
-----------------------------------------------------------------------------
(* Acceptance *)

\* An ordinary command enters the controller: none does while a stop is pending.
Accept(kind, A) ==
    /\ call = NoCall /\ stop = NoCall
    /\ commands < MaxCommands
    /\ commands' = commands + 1
    /\ call' = [n |-> commands + 1, kind |-> kind, axes |-> A, gen |-> 0,
                velocity |-> IF kind = "stopSine" THEN 0 ELSE 1,
                step |-> IF kind \in {"goto", "stopSine"} THEN "sine" ELSE "position"]
    /\ UNCHANGED <<loopVars, ownerVars, stopsUsed, slow, stop, stopped>>

\* stop_motors ("stop"), or velocities that are all zero ("velocity").
AcceptStop(kind, A) ==
    /\ stop = NoCall
    /\ commands < MaxCommands /\ stopsUsed < MaxStops
    /\ commands' = commands + 1
    /\ stopsUsed' = stopsUsed + 1
    /\ stop' = [n |-> commands + 1, kind |-> kind, axes |-> A, velocity |-> 0, gen |-> 0,
                step |-> "requestPosition"]
    /\ UNCHANGED <<loopVars, ownerVars, slow, call, stopped>>

\* request_safety_stop, on the stopping thread: the position move, then the
\* sine tests, are cancelled without waiting.
RequestPositionStop ==
    /\ stop.step = "requestPosition"
    /\ positionGen' = positionGen + 1
    /\ stop' = [stop EXCEPT !.step = "requestSine"]
    /\ UNCHANGED <<sineGen, loops, ownerVars, acceptVars, call, stopped>>

RequestSineStop ==
    /\ stop.step = "requestSine"
    /\ sineGen' = [a \in Axes |-> sineGen[a] + 1]
    /\ stop' = [stop EXCEPT !.step = "ready"]
    /\ UNCHANGED <<positionGen, loops, ownerVars, acceptVars, call, stopped>>

EnterStop ==
    /\ stop.step = "ready"
    /\ call = NoCall
    /\ call' = [stop EXCEPT !.step = IF stop.kind = "stop" THEN "write" ELSE "position"]
    /\ stop' = NoCall
    /\ UNCHANGED <<loopVars, ownerVars, acceptVars, stopped>>
-----------------------------------------------------------------------------
(* The controller call *)

Step(label) == call' = [call EXCEPT !.step = label]

\* A call that takes its axes over from every earlier command and halts them.
Halts == call.velocity = 0 /\ call.kind # "stopSine"

\* The call returns; a stop is acknowledged.
Return ==
    /\ call' = NoCall
    /\ stopped' = [a \in Axes |-> IF Halts /\ a \in call.axes THEN call.n ELSE stopped[a]]

\* _cancel_software_position_move: whatever axes the call names, the move of all
\* axes is cancelled.  (A goto has cancelled its sine tests first.)
CancelPosition ==
    /\ call.step = "position"
    /\ call.kind = "goto" => SineJoined(call.axes)
    /\ positionGen' = positionGen + 1
    /\ call' = [call EXCEPT !.gen = positionGen + 1,
                            !.step = IF call.kind = "goto" THEN "write" ELSE "sine"]
    /\ UNCHANGED <<sineGen, loops, ownerVars, acceptVars, stop, stopped>>

\* Mutant: the sine tests are not told to end.
CancelSineForgotten ==
    /\ call.step = "sine"
    /\ call.kind \in {"velocity", "sine"} => PositionJoined
    /\ Step(IF call.kind = "goto" THEN "position" ELSE "write")
    /\ UNCHANGED <<loopVars, ownerVars, acceptVars, stop, stopped>>

\* _cancel_sine_velocity_tests of the axes the call names.
CancelSine ==
    /\ call.step = "sine"
    /\ call.kind \in {"velocity", "sine"} => PositionJoined
    /\ sineGen' = [a \in Axes |-> IF a \in call.axes THEN sineGen[a] + 1 ELSE sineGen[a]]
    /\ Step(IF call.kind = "goto" THEN "position" ELSE "write")
    /\ UNCHANGED <<positionGen, loops, ownerVars, acceptVars, stop, stopped>>

Joined == IF call.kind = "goto" THEN PositionJoined
          ELSE call.kind = "stop" \/ SineJoined(call.axes)

\* An axis that shall move is not enabled (_require_enabled_snapshot), or the target of
\* a goto is not valid, which is found out when its sine tests are cancelled already.
Refuse ==
    /\ call.velocity # 0
    /\ \/ call.step = "write" /\ Joined
       \/ call.step = "position" /\ call.kind = "goto" /\ SineJoined(call.axes)
    /\ Return
    /\ UNCHANGED <<loopVars, ownerVars, acceptVars, stop>>

\* _velocity_commands_are_current: the drives have these velocities already.
SkipWrite ==
    /\ call.step = "write" /\ Joined
    /\ call.kind = "velocity"
    /\ \A a \in call.axes : cached[a] = call.velocity
    /\ Return
    /\ UNCHANGED <<loopVars, ownerVars, acceptVars, stop>>

\* The call hands a task to the owner and waits for it.
Submit(kind, put(_), values, key) ==
    /\ call.step = "write" /\ Joined
    /\ call.kind = kind
    /\ put([op |-> kind, n |-> call.n, values |-> values, key |-> key])
    /\ Step("wait")
    /\ UNCHANGED <<loopVars, setpoint, cached, owner, source, acceptVars, stop, stopped>>

SubmitStop == Submit("stop", EnqueueFirst, All(Axes, 0), "none")

SubmitVelocity ==
    /\ \E a \in call.axes : cached[a] # call.velocity
    /\ Submit("velocity", Enqueue, All(call.axes, call.velocity), "external")

\* Preparing a move writes a zero to the axes that the last status did not show in
\* velocity control, and leaves the velocity of the others as it is.
SubmitMove == \E A \in SUBSET call.axes : Submit("goto", Enqueue, All(A, 0), "none")

SubmitSine == Submit("sine", Enqueue, All(call.axes, 0), "none")

SubmitSineStop ==
    \E a \in call.axes : Submit("stopSine", Enqueue, All({a}, 0), a)

Answered == call.step = "wait" /\ ~Pending(call.kind, call.n)

FinishWrite ==
    /\ Answered
    /\ call.kind \notin {"goto", "sine"}
    /\ Return
    /\ UNCHANGED <<loopVars, ownerVars, acceptVars, stop>>

\* The move starts unless it was cancelled while it was being prepared.
LaunchMove ==
    /\ Answered
    /\ call.kind = "goto"
    /\ loops' = IF call.gen # positionGen THEN loops
                ELSE [loops EXCEPT ![call.n] = [kind |-> "position", axes |-> call.axes,
                                                gen |-> call.gen, pc |-> "run"]]
    /\ Return
    /\ UNCHANGED <<positionGen, sineGen, ownerVars, acceptVars, stop>>

\* The sine test takes the generation it finds now, not the one it advanced.
LaunchSine ==
    /\ Answered
    /\ call.kind = "sine"
    /\ loops' = [loops EXCEPT ![call.n] =
          [kind |-> "sine", axes |-> call.axes, pc |-> "run",
           gen |-> sineGen[CHOOSE a \in call.axes : TRUE]]]
    /\ Return
    /\ UNCHANGED <<positionGen, sineGen, ownerVars, acceptVars, stop>>
-----------------------------------------------------------------------------
(* The loops *)

\* One round of a loop: a setpoint for each of its axes.
PublishRound(n, values) ==
    /\ loops[n].pc = "run"
    /\ Publish([op |-> "loop", n |-> n, values |-> values, key |-> LoopKey(n)])
    /\ UNCHANGED <<loopVars, setpoint, cached, owner, source, acceptVars, call, stop, stopped>>

\* A position loop looks at its generation before it publishes; a sine loop does not.
PublishPosition(n, values) ==
    /\ loops[n].kind = "position"
    /\ IsCurrent(n)
    /\ PublishRound(n, values)

PublishSine(n, values) ==
    /\ loops[n].kind = "sine"
    /\ PublishRound(n, values)

\* The finally block of a loop asks the owner for a zero and waits.
LeaveLoop(n) ==
    /\ loops[n].pc = "run"
    /\ loops' = [loops EXCEPT ![n].pc = "stopping"]
    /\ Enqueue([op |-> "loopStop", n |-> n, values |-> All(loops[n].axes, 0), key |-> LoopKey(n)])
    /\ UNCHANGED <<positionGen, sineGen, setpoint, cached, owner, source, acceptVars,
                   call, stop, stopped>>

\* The move is cancelled, has reached its target, has timed out or has failed.
LeavePosition(n) == loops[n].kind = "position" /\ LeaveLoop(n)

\* The sine test is cancelled, or a round of it raises.
LeaveSine(n) == loops[n].kind = "sine" /\ LeaveLoop(n)

EndLoop(n) ==
    /\ loops[n].pc = "stopping"
    /\ ~Pending("loopStop", n)
    /\ loops' = [loops EXCEPT ![n].pc = "done"]
    /\ UNCHANGED <<positionGen, sineGen, ownerVars, acceptVars, call, stop, stopped>>
-----------------------------------------------------------------------------
(* The hardware owner *)

Fenced(task) == task.op \in {"loop", "loopStop"}

\* Mutant: the owner trusts the check the loop made before it published.
TakeTaskUnfenced ==
    /\ owner = NoTask /\ mailbox # <<>>
    /\ mailbox' = Tail(mailbox)
    /\ owner' = IF Superseded(Head(mailbox), Tail(mailbox)) THEN NoTask ELSE Head(mailbox)
    /\ IF owner'.op = "stop"
       THEN positionGen' = positionGen + 1 /\ sineGen' = [a \in Axes |-> sineGen[a] + 1]
       ELSE UNCHANGED <<positionGen, sineGen>>
    /\ UNCHANGED <<loops, setpoint, cached, source, acceptVars, call, stop, stopped>>

\* Mutant: stop_motors relies on request_safety_stop having cancelled the loops.
TakeTaskWithoutCancel ==
    /\ owner = NoTask /\ mailbox # <<>>
    /\ mailbox' = Tail(mailbox)
    /\ owner' = IF \/ Superseded(Head(mailbox), Tail(mailbox))
                   \/ Fenced(Head(mailbox)) /\ ~IsCurrent(Head(mailbox).n)
                THEN NoTask ELSE Head(mailbox)
    /\ UNCHANGED <<loopVars, setpoint, cached, source, acceptVars, call, stop, stopped>>

\* HardwareIOQueue.execute up to the write.  The writes of a loop are dropped
\* when it is no longer current; stop_motors cancels every loop once more.
TakeTask ==
    /\ owner = NoTask /\ mailbox # <<>>
    /\ mailbox' = Tail(mailbox)
    /\ owner' = IF \/ Superseded(Head(mailbox), Tail(mailbox))
                   \/ Fenced(Head(mailbox)) /\ ~IsCurrent(Head(mailbox).n)
                THEN NoTask ELSE Head(mailbox)
    /\ IF owner'.op = "stop"
       THEN positionGen' = positionGen + 1 /\ sineGen' = [a \in Axes |-> sineGen[a] + 1]
       ELSE UNCHANGED <<positionGen, sineGen>>
    /\ UNCHANGED <<loops, setpoint, cached, source, acceptVars, call, stop, stopped>>

Producer(op) == CASE op = "loop" -> "loop" [] op = "velocity" -> "held" [] OTHER -> "rest"

\* The writes; an axis that was last sent this velocity is not written again,
\* except by stop_motors and by the preparation of a move, of which the cache is
\* not told.
ExecuteTask ==
    LET v == owner.values
        written == {a \in DOMAIN v : owner.op \in {"stop", "goto"} \/ cached[a] # v[a]} IN
    /\ owner # NoTask
    /\ setpoint' = [a \in Axes |-> IF a \in written THEN v[a] ELSE setpoint[a]]
    /\ cached' = [a \in Axes |-> IF a \in written /\ owner.op # "goto" THEN v[a] ELSE cached[a]]
    /\ source' = [a \in Axes |-> IF a \in DOMAIN v /\ owner.op # "stopSine"
                                 THEN [n |-> owner.n, by |-> Producer(owner.op)]
                                 ELSE source[a]]
    /\ owner' = NoTask
    /\ UNCHANGED <<loopVars, mailbox, acceptVars, call, stop, stopped>>

\* _write_velocity_commands_hardware asks once more whether the axes are enabled.
RefuseTask ==
    /\ owner.op = "velocity"
    /\ \E a \in DOMAIN owner.values : owner.values[a] # 0
    /\ owner' = NoTask
    /\ UNCHANGED <<loopVars, setpoint, cached, source, mailbox, acceptVars, call, stop, stopped>>

\* _enforce_runtime_limits, between two tasks: the axis is at its limit.  The
\* cache is not told.
StopAtLimit(a) ==
    /\ owner = NoTask
    /\ setpoint[a] # 0
    /\ setpoint' = [setpoint EXCEPT ![a] = 0]
    /\ UNCHANGED <<loopVars, cached, mailbox, owner, source, acceptVars, call, stop, stopped>>
-----------------------------------------------------------------------------
\* The bounds are used up and nothing is in progress.
Exhausted ==
    /\ commands = MaxCommands
    /\ call = NoCall /\ stop = NoCall /\ mailbox = <<>> /\ owner = NoTask
    /\ \A n \in Commands : ~Running(n)
    /\ UNCHANGED vars

StopStep == RequestPositionStop \/ RequestSineStop \/ EnterStop

CallStep ==
    \/ CancelPosition \/ CancelSine \/ Refuse \/ SkipWrite
    \/ SubmitStop \/ SubmitVelocity \/ SubmitMove \/ SubmitSine \/ SubmitSineStop
    \/ FinishWrite \/ LaunchMove \/ LaunchSine

OwnerStep == TakeTask \/ ExecuteTask \/ RefuseTask

Next ==
    \/ \E A \in AxisSets : Accept("goto", A) \/ Accept("velocity", A)
    \/ \E a \in Axes : Accept("sine", {a}) \/ Accept("stopSine", {a})
    \/ AcceptStop("stop", Axes)
    \/ \E A \in AxisSets : AcceptStop("velocity", A)
    \/ StopStep
    \/ CallStep
    \/ \E n \in Commands :
          \/ \E values \in [loops[n].axes -> Velocities] :
                PublishPosition(n, values) \/ PublishSine(n, values)
          \/ LeavePosition(n)
          \/ LeaveSine(n)
          \/ EndLoop(n)
    \/ OwnerStep
    \/ \E a \in Axes : StopAtLimit(a)
    \/ Exhausted

Spec == Init /\ [][Next]_vars

\* Threads that can run do run: the owner executes what it is handed, a loop that
\* is cancelled ends, and a position loop ends at its time-out.  A sine test that
\* nobody stops may run for ever, and nobody is obliged to command anything.
Fairness ==
    /\ WF_vars(StopStep) /\ WF_vars(CallStep)
    /\ WF_vars(TakeTask) /\ WF_vars(ExecuteTask)
    /\ \A n \in Commands :
          /\ WF_vars(LeavePosition(n)) /\ WF_vars(~IsCurrent(n) /\ LeaveSine(n))
          /\ WF_vars(EndLoop(n))

FairSpec == Spec /\ Fairness
-----------------------------------------------------------------------------
(* Properties *)

Calls == [n : 0..MaxCommands, axes : SUBSET Axes, velocity : Velocities, gen : Nat,
          kind : {"none", "goto", "velocity", "sine", "stopSine", "stop"},
          step : {"idle", "requestPosition", "requestSine", "ready",
                  "position", "sine", "write", "wait"}]

Tasks == [op : {"none", "goto", "velocity", "sine", "stopSine", "stop", "loop", "loopStop"},
          n : 0..MaxCommands, values : UNION {[A -> Velocities] : A \in SUBSET Axes},
          key : {"none", "external", "position"} \cup Axes]

\* Besides the types: at most one loop may still write each axis, however the
\* cancellations and launches of moves and sine tests interleave.
TypeOK ==
    /\ setpoint \in [Axes -> Velocities] /\ cached \in [Axes -> Velocities]
    /\ positionGen \in Nat /\ sineGen \in [Axes -> Nat]
    /\ loops \in [Commands -> [kind : {"none", "position", "sine"}, axes : SUBSET Axes,
                               gen : Nat, pc : {"off", "run", "stopping", "done"}]]
    /\ \A i \in DOMAIN mailbox : mailbox[i] \in Tasks
    /\ owner \in Tasks
    /\ call \in Calls /\ stop \in Calls
    /\ commands \in 0..MaxCommands /\ stopsUsed \in 0..MaxStops
    /\ source \in [Axes -> [n : 0..MaxCommands, by : {"rest", "held", "loop"}]]
    /\ stopped \in [Axes -> 0..MaxCommands]
    /\ \A m, n \in Commands :
          /\ m # n /\ Running(m) /\ Running(n) /\ IsCurrent(m) /\ IsCurrent(n)
          => loops[m].axes \cap loops[n].axes = {}

\* "The generation guards prevent those stale loops from writing" (stop_motors,
\* lines 1288-1290): once a command's write has taken an axis over, no producer
\* of an earlier command writes that axis again, even one whose setpoint was
\* queued before and whose thread its canceller did not wait for.
NewestCommandRules ==
    [][\A a \in Axes : source'[a].n >= source[a].n]_vars

\* When a stop of an axis has returned, the axis stands still until a later
\* command moves it, as long as the loops that it cancels end while it waits.
StoppedAxisStays ==
    ~slow => \A a \in Axes : setpoint[a] # 0 => source[a].n > stopped[a]

\* One loop at most may write an axis, and a stopped axis stays (set_velocities,
\* _software_position_loop and _sine_velocity_loop).
ProducersInv == TypeOK /\ StoppedAxisStays

\* Every controller call returns: neither its wait for cancelled loops nor its
\* wait for the owner lasts for ever.
EveryCallReturns == call.n # 0 ~> call.n = 0
=============================================================================
