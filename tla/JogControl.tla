----------------------------- MODULE JogControl -----------------------------
(***************************************************************************)
(* Momentary jogs of the dashboard: JogCommandRegistry of                  *)
(* src/fire_detector/jog_commands.py with its dead-man thread, and the     *)
(* motor routes of web_server.py that use it, on top of the motion arbiter *)
(* (MotionArbiter, which MotionCommands implements).                       *)
(*                                                                         *)
(* A route asks the registry first and submits to the manager afterwards,  *)
(* without the registry's lock: these are separate steps of its thread.    *)
(* A request is "sent" from the moment a page issues it until its server   *)
(* thread handles it, so the requests of a page may be handled in any      *)
(* order.                                                                  *)
(***************************************************************************)
EXTENDS MotionArbiter, Integers

CONSTANTS Threads,       \* server threads, one request each
          Deadman,       \* the thread "jog-deadman"
          Pages,         \* dashboard pages (client ids)
          Axes,          \* axis labels
          Speeds,        \* the non-zero speeds a jog may ask for
          Programmed,    \* stands for a motion that is not a jog: goto, held velocity
          NoPage,        \* no lease owner
          MaxSequence,   \* bound: jog requests per page
          MaxOthers      \* bound: stops and programmed moves of all pages

ASSUME JogAssumption ==
    /\ Callers = Threads \cup {Deadman}
    /\ Deadman \notin Threads
    /\ NoPage \notin Pages
    /\ Speeds \subseteq Int \ {0}
    /\ Programmed \in Int \ (Speeds \cup {0})
    /\ MaxSequence \in Nat /\ MaxOthers \in Nat

VARIABLES
    lease,      \* _leases: owner and velocity of each axis, and the sequence that set it
    lastSeq,    \* _last_sequences
    locked,     \* the dead-man holds the registry's condition across its stop
    closed,     \* _closed
    issued,     \* the last sequence number each page has used
    others,     \* stops and programmed moves issued
    phase,      \* where each thread is in its route
    request,    \* the request each thread handles
    motion,     \* commanded motion of each axis: 0, a jog speed, or Programmed
    released    \* history: the last release of each page the registry has handled

registryVars == <<lease, lastSeq, locked, closed>>
pageVars     == <<issued, others>>
vars == <<arbiterVars, registryVars, pageVars, phase, request, motion, released>>

Rest  == [owner |-> NoPage, speed |-> 0, seq |-> 0]
Blank == [kind |-> "none", page |-> NoPage, seq |-> 0, velocities |-> <<>>]

Leased(a) == lease[a].owner # NoPage

\* A jog payload: a speed, or 0 to release, for some of the axes.
Payloads == UNION {[A -> Speeds \cup {0}] : A \in (SUBSET Axes) \ {{}}}
Zeros(A) == [a \in A |-> 0]

Init ==
    /\ ArbiterInit
    /\ lease = [a \in Axes |-> Rest]
    /\ lastSeq = [p \in Pages |-> Zeros(Axes)]
    /\ locked = FALSE
    /\ closed = FALSE
    /\ issued = [p \in Pages |-> 0]
    /\ others = 0
    /\ phase = [t \in Callers |-> "idle"]
    /\ request = [t \in Callers |-> Blank]
    /\ motion = Zeros(Axes)
    /\ released = [p \in Pages |-> Zeros(Axes)]

To(t, label) == phase' = [phase EXCEPT ![t] = label]

\* The request of t is answered: the thread is free for another.
Answer(t) ==
    /\ To(t, "idle")
    /\ request' = [request EXCEPT ![t] = Blank]
-----------------------------------------------------------------------------
(* Requests leave a page *)

SendJog(t, p, v) ==
    /\ phase[t] = "idle"
    /\ issued[p] < MaxSequence
    /\ issued' = [issued EXCEPT ![p] = @ + 1]
    /\ request' = [request EXCEPT ![t] = [kind |-> "jog", page |-> p,
                                          seq |-> issued[p] + 1, velocities |-> v]]
    /\ To(t, "sent")
    /\ UNCHANGED <<arbiterVars, registryVars, others, motion, released>>

\* Stop of all axes, held velocities that are all zero, or a goto or held velocity of
\* some axes: these requests carry neither a page nor a sequence.
SendOther(t, kind, A) ==
    /\ phase[t] = "idle"
    /\ others < MaxOthers
    /\ others' = others + 1
    /\ request' = [request EXCEPT ![t] = [kind |-> kind, page |-> NoPage, seq |-> 0,
                                          velocities |-> Zeros(A)]]
    /\ To(t, "supersede")
    /\ UNCHANGED <<arbiterVars, registryVars, issued, motion, released>>
-----------------------------------------------------------------------------
(* JogCommandRegistry.arbitrate.  Its loop treats each label of the payload *)
(* by itself, so the loop is one case per axis.                             *)

FreshAlways(r, a) == TRUE                   \* mutant: the sequence is not compared
Fresh(r, a) == r.seq > lastSeq[r.page][a]

BlockedNever(r, a) == FALSE                 \* mutant: the owner is not compared
Blocked(r, a) == Leased(a) /\ lease[a].owner # r.page

\* An identical request is a heartbeat only.
Heartbeat(r, a) == Leased(a) /\ lease[a].speed = r.velocities[a]

\* The labels forwarded to the controller.
Accepted(r) ==
    {a \in DOMAIN r.velocities :
        /\ Fresh(r, a)
        /\ ~Blocked(r, a)
        /\ r.velocities[a] # 0 => ~Heartbeat(r, a)}

LeaseAfter(r, a) ==
    IF a \notin DOMAIN r.velocities \/ ~Fresh(r, a) \/ Blocked(r, a) THEN lease[a]
    ELSE IF r.velocities[a] = 0 THEN Rest
    ELSE [owner |-> r.page, speed |-> r.velocities[a], seq |-> r.seq]

Arbitrate(t) ==
    LET r == request[t] IN
    /\ phase[t] = "sent"
    /\ ~locked /\ ~closed
    /\ lease' = [a \in Axes |-> LeaseAfter(r, a)]
    /\ lastSeq' = [lastSeq EXCEPT ![r.page] =
          [a \in Axes |-> IF a \in DOMAIN r.velocities /\ Fresh(r, a) THEN r.seq ELSE @[a]]]
    /\ IF Accepted(r) = {} THEN Answer(t)
       ELSE /\ request' = [request EXCEPT ![t].velocities =
                               [a \in Accepted(r) |-> r.velocities[a]]]
            /\ To(t, "submit")
    /\ released' = [released EXCEPT ![r.page] =
          [a \in Axes |-> IF a \in DOMAIN r.velocities /\ r.velocities[a] = 0 /\ r.seq > @[a]
                          THEN r.seq ELSE @[a]]]
    /\ UNCHANGED <<arbiterVars, locked, closed, pageVars, motion>>

\* "Jog command registry is closed."
RefuseClosed(t) ==
    /\ phase[t] = "sent"
    /\ closed
    /\ Answer(t)
    /\ UNCHANGED <<arbiterVars, registryVars, pageVars, motion, released>>

\* JogCommandRegistry.supersede: all labels for a stop, its own for a move.
Supersede(t) ==
    LET A == DOMAIN request[t].velocities IN
    /\ phase[t] = "supersede"
    /\ ~locked
    /\ lease' = [a \in Axes |-> IF a \in A THEN Rest ELSE lease[a]]
    /\ To(t, "submit")
    /\ UNCHANGED <<arbiterVars, lastSeq, locked, closed, pageVars, request, motion, released>>

\* JogCommandRegistry.close, at exit.
CloseRegistry ==
    /\ ~closed /\ ~locked
    /\ closed' = TRUE
    /\ lease' = [a \in Axes |-> Rest]
    /\ UNCHANGED <<arbiterVars, lastSeq, locked, pageVars, phase, request, motion, released>>
-----------------------------------------------------------------------------
(* The managed controller *)

\* A stop, or velocities that are all zero, is a safety stop of the whole mount: also
\* held velocities that are all zero, whose requests are of kind "stop" here.
IsSafetyStop(r) ==
    \/ r.kind = "stop"
    \/ r.kind = "jog" /\ \A a \in DOMAIN r.velocities : r.velocities[a] = 0

Submit(t) ==
    /\ phase[t] = "submit"
    /\ IF IsSafetyStop(request[t]) THEN AcceptStop(t) ELSE Accept(t)
    /\ To(t, "wait")
    /\ UNCHANGED <<registryVars, pageVars, request, motion, released>>

Enter(t) ==
    /\ Start(t) \/ StartStop(t)
    /\ UNCHANGED <<registryVars, pageVars, phase, request, motion, released>>

\* The controller call sets the motion of the axes it names and of no other.
MotionAfter(r) ==
    [a \in Axes |-> IF a \notin DOMAIN r.velocities THEN motion[a]
                    ELSE IF r.kind = "move" THEN Programmed ELSE r.velocities[a]]

\* The call returns.  One that moves an axis is refused if the axis is not
\* enabled; a zero is never refused (_require_enabled_snapshot).
Leave(t) ==
    /\ busy = t
    /\ Finish
    /\ \/ motion' = MotionAfter(request[t])
       \/ UNCHANGED motion /\ ~IsSafetyStop(request[t])
    /\ IF t \in stops THEN UNCHANGED <<phase, request>> ELSE Answer(t)
    /\ UNCHANGED <<registryVars, pageVars, released>>

\* MotionCommandSuperseded: a safety stop was accepted after this command.
Superseded(t) ==
    /\ phase[t] = "wait"
    /\ t \notin live \cup stops
    /\ busy # t
    /\ Answer(t)
    /\ UNCHANGED <<arbiterVars, registryVars, pageVars, motion, released>>

\* Mutant: the dead-man leaves the condition held.
ReturnLocked(t) ==
    /\ Discharge(t)
    /\ Answer(t)
    /\ UNCHANGED <<registryVars, pageVars, motion, released>>

\* A stop returns; the dead-man then lets the registry go.
Return(t) ==
    /\ Discharge(t)
    /\ Answer(t)
    /\ locked' = (locked /\ t # Deadman)
    /\ UNCHANGED <<lease, lastSeq, closed, pageVars, motion, released>>
-----------------------------------------------------------------------------
\* _watchdog_loop: the leases of A are past their deadline.  Heartbeats may be
\* late by any amount, so a lease may expire at any moment.
Expire(A) ==
    /\ phase[Deadman] = "idle"
    /\ ~closed
    /\ \A a \in A : Leased(a)
    /\ lease' = [a \in Axes |-> IF a \in A THEN Rest ELSE lease[a]]
    /\ locked' = TRUE
    /\ request' = [request EXCEPT ![Deadman] =
          [kind |-> "jog", page |-> NoPage, seq |-> 0, velocities |-> Zeros(A)]]
    /\ To(Deadman, "submit")
    /\ UNCHANGED <<arbiterVars, lastSeq, closed, pageVars, motion, released>>

\* The bounds are used up and nothing is in progress.
Exhausted ==
    /\ \A t \in Callers : phase[t] = "idle"
    /\ \A p \in Pages : issued[p] = MaxSequence
    /\ others = MaxOthers
    /\ UNCHANGED vars

Serve(t) == Submit(t) \/ Enter(t) \/ Leave(t) \/ Superseded(t) \/ Return(t)

Next ==
    \/ \E t \in Threads :
          \/ \E p \in Pages, v \in Payloads : SendJog(t, p, v)
          \/ \E A \in (SUBSET Axes) \ {{}} : SendOther(t, "stop", A) \/ SendOther(t, "move", A)
          \/ Arbitrate(t)
          \/ RefuseClosed(t)
          \/ Supersede(t)
    \/ \E t \in Callers : Serve(t)
    \/ \E A \in (SUBSET Axes) \ {{}} : Expire(A)
    \/ CloseRegistry
    \/ Exhausted

Spec == Init /\ [][Next]_vars

\* A thread inside the manager gets on: MotionCommands' CallersReturn.
\* Nothing is assumed of pages or of lease deadlines.
FairSpec == Spec /\ \A t \in Callers : WF_vars(Serve(t))
-----------------------------------------------------------------------------
(* Properties *)

Requests ==
    {Blank} \cup [kind : {"jog", "stop", "move"}, page : Pages \cup {NoPage}, seq : Nat,
                  velocities : UNION {[A -> Speeds \cup {0}] : A \in SUBSET Axes}]

TypeOK ==
    /\ live \subseteq Callers /\ stops \subseteq Callers /\ ran \subseteq stops
    /\ busy \in Callers \cup {Nobody}
    /\ lease \in [Axes -> [owner : Pages \cup {NoPage}, speed : Speeds \cup {0}, seq : Nat]]
    /\ lastSeq \in [Pages -> [Axes -> Nat]]
    /\ locked \in BOOLEAN /\ closed \in BOOLEAN
    /\ issued \in [Pages -> 0..MaxSequence]
    /\ others \in 0..MaxOthers
    /\ phase \in [Callers -> {"idle", "sent", "supersede", "submit", "wait"}]
    /\ request \in [Callers -> Requests]
    /\ motion \in [Axes -> Speeds \cup {0, Programmed}]
    /\ released \in [Pages -> [Axes -> Nat]]

\* In the registry a late start never overtakes a newer release of its page, in
\* whatever order the requests are handled and whoever else clears the lease in
\* between (docstring of JogCommandRegistry, lines 29-31).
LeaseNewerThanRelease ==
    \A a \in Axes : Leased(a) => lease[a].seq > released[lease[a].owner][a]

\* The registry's types, and leases that no late start has taken back.
LeaseInv == TypeOK /\ LeaseNewerThanRelease

\* A lease never passes from one page to another without its owner releasing it,
\* a stop or a move clearing it or the dead-man stopping the axis (lines 86-88).
LeaseNeverStolen ==
    [][\A a \in Axes : Leased(a) /\ lease'[a].owner # NoPage =>
            lease'[a].owner = lease[a].owner]_vars

\* From the end of a stop's controller call until that stop returns, its axes
\* stand still; for the dead-man this is the whole time in which arbitration is
\* still locked, so no heartbeat acts across its stop (lines 153-155).
StoppedAxesStandStill ==
    \A t \in ran : \A a \in DOMAIN request[t].velocities : motion[a] = 0

\* The dead-man never holds the registry for ever: the call it makes with the
\* condition held gets through the manager.
DeadmanLetsGo == locked ~> ~locked

\* The docstring's promise for the mount itself: once a newer release of a page
\* has been handled and answered, no jog of that page moves the axis.  The route
\* submits after the registry's lock is gone, so a start that was accepted first
\* may be submitted last, with no lease left to stop it.
Releasing(p, a, seq) ==
    \E t \in Threads : /\ phase[t] \in {"submit", "wait"}
                       /\ request[t].page = p /\ request[t].seq > seq
                       /\ a \in DOMAIN request[t].velocities

LateStartCannotOvertakeRelease ==
    [][\A t \in Threads, a \in Axes :
          LET r == request[t] IN
          busy = t /\ motion'[a] # motion[a] /\ motion'[a] \in Speeds =>
              r.seq > released[r.page][a] \/ Releasing(r.page, a, r.seq)]_vars
=============================================================================
