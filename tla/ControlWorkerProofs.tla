------------------------- MODULE ControlWorkerProofs -------------------------
(***************************************************************************)
(* Proofs about the control worker, for any number of commands, resends,   *)
(* kills, orphaned requests and tasks that stop the mount.                 *)
(*                                                                         *)
(* WorkerTypes adds to the types where the numbers come from: whatever is  *)
(* queued, executed or acknowledged was sent by the server.                *)
(*                                                                         *)
(* What has been answered is on record: an acknowledgement raises the last *)
(* sequence before it leaves, and a kill does not lower it.  A held jog    *)
(* needs no strengthening: whatever ends its watchdog or starts an epoch   *)
(* ends its heartbeat without an await in between.                         *)
(***************************************************************************)
EXTENDS ControlWorker, FiniteSetTheorems, WellFoundedInduction, TLAPS
-----------------------------------------------------------------------------
(* The requests that are left on the wire *)

\* A set of natural numbers that is not empty has a least element.
LEMMA LeastNumber ==
    ASSUME NEW T, T \subseteq Nat, T # {}
    PROVE  \E x \in T : \A y \in T : x <= y
<1> DEFINE R == {p \in Nat \X Nat : p[1] < p[2]}
<1>1. IsWellFoundedOn(R, Nat)
    BY NatLessThanWellFounded DEF OpToRel
<1>2. \E x \in T : \A y \in T : ~(<<y, x>> \in R)
  <2> HIDE DEF R
  <2>1. QED
    BY <1>1, WFMin
<1>3. PICK x \in T : \A y \in T : ~(<<y, x>> \in R)
    BY <1>2
<1>4. ASSUME NEW y \in T PROVE x <= y
  <2>1. x \in Nat /\ y \in Nat /\ ~(<<y, x>> \in R)
    BY <1>3
  <2>2. <<y, x>> \in Nat \X Nat /\ <<y, x>>[1] = y /\ <<y, x>>[2] = x
    BY <2>1
  <2>3. QED
    BY <2>1, <2>2
<1>5. QED
    BY <1>4

\* Every number up to the size of a set of places is the rank of one of them.
LEMMA RankExists ==
    ASSUME NEW n \in Nat, NEW S \in SUBSET (1..n), NEW k \in 1..Cardinality(S)
    PROVE  \E i \in S : Rank(S, i) = k
<1> DEFINE Upto(i) == {j \in S : j <= i}
           Reached == {i \in Nat : Cardinality(Upto(i)) >= k}
<1>0. \A j \in S : j \in Nat /\ 1 <= j /\ j <= n
    OBVIOUS
<1>1. IsFiniteSet(S)
  <2>1. IsFiniteSet(1..n)
    BY FS_Interval
  <2>2. QED
    BY <2>1, FS_Subset
<1>2. \A i \in Nat : IsFiniteSet(Upto(i)) /\ Cardinality(Upto(i)) \in Nat
  <2> TAKE i \in Nat
  <2>1. Upto(i) \subseteq S
    OBVIOUS
  <2>2. IsFiniteSet(Upto(i))
    BY <1>1, <2>1, FS_Subset
  <2>3. QED
    BY <2>2, FS_CardinalityType
<1>3. Reached # {}
  <2>1. Upto(n) = S
    BY <1>0
  <2>2. Cardinality(S) \in Nat
    BY <1>1, FS_CardinalityType
  <2>3. n \in Reached
    BY <2>1, <2>2
  <2>4. QED
    BY <2>3
<1>4. PICK i \in Reached : \A y \in Reached : i <= y
  <2>1. Reached \subseteq Nat
    OBVIOUS
  <2> HIDE DEF Reached
  <2>2. QED
    BY <1>3, <2>1, LeastNumber
<1>5. i \in Nat /\ Cardinality(Upto(i)) >= k
    BY <1>4
<1>6. i # 0
  <2>0. \A j \in S : ~(j <= 0)
    BY <1>0
  <2>1. Upto(0) = {}
    BY <2>0
  <2>2. Cardinality(Upto(0)) = 0
    BY <2>1, FS_EmptySet
  <2>3. QED
    BY <1>5, <2>2
<1>7. i - 1 \in Nat /\ Cardinality(Upto(i - 1)) < k
  <2>1. i - 1 \in Nat /\ i - 1 < i
    BY <1>5, <1>6
  <2>2. i - 1 \notin Reached
    <3> SUFFICES ASSUME i - 1 \in Reached PROVE FALSE
        OBVIOUS
    <3>1. i <= i - 1
        BY <1>4, Zenon
    <3>2. QED
        BY <1>5, <3>1
  <2>3. Cardinality(Upto(i - 1)) \in Nat
    BY <1>2, <2>1
  <2>4. QED
    BY <2>1, <2>2, <2>3
<1>8. i \in S
  <2> SUFFICES ASSUME i \notin S PROVE FALSE
    OBVIOUS
  <2>1. \A j \in S : j <= i - 1 <=> j <= i
    BY <1>0, <1>5
  <2>2. Upto(i - 1) = Upto(i)
    BY <2>1
  <2>3. Cardinality(Upto(i)) \in Nat /\ k \in Int
    BY <1>2, <1>5
  <2>4. QED
    BY <1>5, <1>7, <2>2, <2>3
<1>9. Cardinality(Upto(i)) = Cardinality(Upto(i - 1)) + 1
  <2>0. \A j \in S : j <= i <=> j <= i - 1 \/ j = i
    BY <1>0, <1>5
  <2>1. Upto(i) = Upto(i - 1) \cup {i}
    BY <1>5, <1>8, <2>0
  <2>2. i \notin Upto(i - 1)
    BY <1>5
  <2>3. IsFiniteSet(Upto(i - 1))
    BY <1>2, <1>7
  <2> HIDE DEF Upto
  <2>4. QED
    BY <2>1, <2>2, <2>3, FS_AddElement
<1>10. Cardinality(Upto(i)) = k
  <2>1. Cardinality(Upto(i - 1)) \in Nat
    BY <1>2, <1>7
  <2>2. QED
    BY <1>5, <1>7, <1>9, <2>1
<1>11. QED
    BY <1>8, <1>10 DEF Rank

\* What is left of a sequence is one of its elements.
LEMMA KeptTyped ==
    ASSUME NEW T, NEW w \in Seq(T), NEW S \in SUBSET DOMAIN w
    PROVE  Kept(w, S) \in Seq(T)
<1>1. Len(w) \in Nat /\ DOMAIN w = 1..Len(w)
    OBVIOUS
<1>2. IsFiniteSet(S)
  <2>1. IsFiniteSet(1..Len(w))
    BY <1>1, FS_Interval
  <2>2. QED
    BY <1>1, <2>1, FS_Subset
<1>3. Cardinality(S) \in Nat
    BY <1>2, FS_CardinalityType
<1>4. ASSUME NEW k \in 1..Cardinality(S) PROVE w[CHOOSE i \in S : Rank(S, i) = k] \in T
  <2>1. \E i \in S : Rank(S, i) = k
    BY <1>1, RankExists
  <2>2. (CHOOSE i \in S : Rank(S, i) = k) \in S
    BY <2>1
  <2>3. QED
    BY <2>2
<1>5. Kept(w, S) \in [1..Cardinality(S) -> T]
    BY <1>4 DEF Kept
<1>6. QED
    BY <1>3, <1>5
-----------------------------------------------------------------------------
(* Types *)

Epochs   == 0..MaxSequence + MaxResends
Places   == {"idle", "preflight", "post", "stop", "dead"}
Paths    == {"none", "superseded", "rejected", "error"}
Handling == {"preflight", "post", "stop"}
Beats    == [pc : {"off", "sleep", "post"}, seq : Sequences, epoch : Epochs]

\* Whatever is handled, or will be acknowledged by a stop, was sent by the server.
Sent    == {0} \cup DOMAIN kind
Handled == [pc : Places, seq : Sent, epoch : Epochs, path : Paths]
Stops   == [pc : {"off", "wait"}, tries : 0..Attempts, ack : Sent, urgent : BOOLEAN]

ChannelTyped ==
    /\ session \in {"down", "up", "closing"}
    /\ kind \in Seq({"jog", "goto", "stop"}) /\ Len(kind) <= MaxSequence
    /\ resends \in 0..MaxResends /\ kills \in 0..MaxKills
RecordTyped  == lastSequence \in Sequences /\ commandEpoch \in Epochs /\ acked \subseteq DOMAIN kind
QueueTyped   == queue \in Seq(DOMAIN kind)
ExecTyped    == exec \in Handled /\ (exec.pc \in Handling => exec.seq # 0)
JogTyped     == activeJog \in Sequences /\ heartbeat \in Beats
StopsTyped   == stopper \in [StopTasks -> Stops]
WireTyped    == wire \in Seq(Requests)
MotionTyped  == motion \in [op : {"none", "jog", "goto"}, seq : Sequences]

WorkerTypes ==
    /\ ChannelTyped /\ RecordTyped /\ QueueTyped /\ ExecTyped
    /\ JogTyped /\ StopsTyped /\ WireTyped /\ MotionTyped

LEMMA Numbers ==
    /\ MaxSequence \in Nat /\ Sequences \subseteq Nat /\ 0 \in Sequences /\ 0 \in Epochs
    /\ Stoppers \subseteq StopTasks /\ "executor" \in StopTasks /\ "final" \in StopTasks
    /\ TRUE \in BOOLEAN /\ FALSE \in BOOLEAN
    /\ ChannelTyped => Sent \subseteq Sequences /\ 0 \in Sent /\ \A n \in DOMAIN kind : n # 0 /\ n \in Sent
    BY ControlAssumption DEF Sequences, Epochs, StopTasks, Sent, ChannelTyped

LEMMA Records ==
    ASSUME ChannelTyped
    PROVE  /\ Idle \in Handled /\ [Idle EXCEPT !.pc = "dead"] \in Handled
           /\ Idle.pc = "idle" /\ [Idle EXCEPT !.pc = "dead"].pc = "dead"
           /\ NoBeat \in Beats /\ NoStop \in Stops
           /\ \A n \in Sent, u \in BOOLEAN : Stopping(n, u) \in Stops
           /\ Rest \in [op : {"none", "jog", "goto"}, seq : Sequences]
<1>1. 0 \in Sent /\ 0 \in Epochs /\ 0 \in Sequences
    BY Numbers
<1>2. Attempts \in 0..Attempts /\ 0 \in 0..Attempts
    BY ControlAssumption
<1>3. QED
    BY <1>1, <1>2 DEF Idle, Handled, Places, Paths, NoBeat, Beats, NoStop, Stopping, Stops, Rest

LEMMA TypesStart == Init => WorkerTypes
<1> SUFFICES ASSUME Init PROVE WorkerTypes
    OBVIOUS
<1>1. ChannelTyped
    BY ControlAssumption DEF Init, ChannelTyped
<1>2. RecordTyped /\ QueueTyped /\ WireTyped
    BY Numbers DEF Init, RecordTyped, QueueTyped, WireTyped
<1>3. QED
    BY <1>1, <1>2, Records, Numbers
    DEF Init, WorkerTypes, ExecTyped, Handling, JogTyped, StopsTyped, MotionTyped

\* What a step leaves alone keeps its type.
LEMMA Unchanged ==
    ASSUME WorkerTypes
    PROVE  /\ UNCHANGED <<session, kind, resends, kills>> => ChannelTyped'
           /\ UNCHANGED <<kind, lastSequence, commandEpoch, acked>> => RecordTyped'
           /\ UNCHANGED <<kind, queue>> => QueueTyped'
           /\ UNCHANGED <<kind, exec>> => ExecTyped'
           /\ UNCHANGED <<activeJog, heartbeat>> => JogTyped'
           /\ UNCHANGED <<kind, stopper>> => StopsTyped'
           /\ UNCHANGED wire => WireTyped'
           /\ UNCHANGED motion => MotionTyped'
    BY DEF WorkerTypes, ChannelTyped, RecordTyped, QueueTyped, ExecTyped, JogTyped, StopsTyped,
           WireTyped, MotionTyped, Handled, Stops, Sent

\* The server sends one message more: what refers to earlier ones keeps its type.
LEMMA OneMore ==
    ASSUME WorkerTypes, NEW k \in {"jog", "goto", "stop"},
           Len(kind) < MaxSequence, kind' = Append(kind, k)
    PROVE  /\ UNCHANGED <<session, resends, kills>> => ChannelTyped'
           /\ DOMAIN kind \subseteq DOMAIN kind' /\ Len(kind) + 1 \in DOMAIN kind'
           /\ queue \in Seq(DOMAIN kind')
           /\ acked \subseteq DOMAIN kind'
           /\ UNCHANGED exec => ExecTyped'
           /\ Stops \subseteq Stops' /\ stopper \in [StopTasks -> Stops']
<1>1. kind' \in Seq({"jog", "goto", "stop"}) /\ Len(kind') = Len(kind) + 1 /\ Len(kind) \in Nat
    BY DEF WorkerTypes, ChannelTyped
<1>2. DOMAIN kind \subseteq DOMAIN kind' /\ Len(kind) + 1 \in DOMAIN kind'
    BY <1>1 DEF WorkerTypes, ChannelTyped
<1>3. Sent \subseteq Sent'
    BY <1>2 DEF Sent
<1>4. Handled \subseteq Handled' /\ Stops \subseteq Stops'
    BY <1>3 DEF Handled, Stops
<1>5. queue \in Seq(DOMAIN kind')
    BY <1>2 DEF WorkerTypes, QueueTyped
<1>6. MaxSequence \in Nat
    BY Numbers
<1>7. QED
    BY <1>1, <1>2, <1>4, <1>5, <1>6
    DEF WorkerTypes, ChannelTyped, RecordTyped, ExecTyped, StopsTyped

\* A task that stops the mount starts, goes on or ends.
LEMMA StopperStep ==
    ASSUME StopsTyped, ChannelTyped, NEW t \in StopTasks, NEW n \in Sent, NEW u \in BOOLEAN,
           kind' = kind,
           \/ stopper' = [stopper EXCEPT ![t] = Stopping(n, u)]
           \/ stopper' = [stopper EXCEPT ![t] = NoStop]
           \/ stopper[t].tries > 1 /\ stopper' = [stopper EXCEPT ![t].tries = @ - 1]
    PROVE  StopsTyped'
<1>1. ASSUME NEW x \in Stops, x.tries > 1 PROVE [x EXCEPT !.tries = x.tries - 1] \in Stops
    BY <1>1, ControlAssumption DEF Stops
<1>2. Stopping(n, u) \in Stops /\ NoStop \in Stops
    BY Records
<1>3. stopper \in [StopTasks -> Stops] /\ Stops' = Stops
    BY DEF StopsTyped, Stops, Sent
<1>4. ASSUME NEW x \in Stops PROVE [stopper EXCEPT ![t] = x] \in [StopTasks -> Stops]
    BY <1>3
<1>5. CASE stopper[t].tries > 1 /\ stopper' = [stopper EXCEPT ![t].tries = @ - 1]
  <2>1. stopper[t] \in Stops
    BY <1>3
  <2>2. stopper' = [stopper EXCEPT ![t] = [stopper[t] EXCEPT !.tries = stopper[t].tries - 1]]
    BY <1>5
  <2>3. QED
    BY <1>1, <1>3, <1>4, <1>5, <2>1, <2>2 DEF StopsTyped
<1>6. QED
    BY <1>2, <1>3, <1>4, <1>5 DEF StopsTyped

\* Requests that are abandoned, refused or made are requests.
LEMMA WireChanges ==
    ASSUME NEW w \in Seq(Requests), NEW T
    PROVE  /\ Without(w, T) \in Seq(Requests) /\ Abandon(w, T) \in Seq(Requests)
           /\ \A t \in StopTasks : WithStop(w, t) \in Seq(Requests)
<1>1. ASSUME NEW U PROVE Without(w, U) \in Seq(Requests)
  <2>1. {i \in DOMAIN w : w[i].by \notin U} \in SUBSET DOMAIN w
    OBVIOUS
  <2>2. QED
    BY <2>1, KeptTyped DEF Without
<1>2. ASSUME NEW U PROVE Abandon(w, U) \in Seq(Requests)
  <2>1. ASSUME NEW r \in Requests PROVE [r EXCEPT !.by = "nobody"] \in Requests
    BY DEF Requests
  <2>2. \A i \in DOMAIN w : w[i] \in Requests
    OBVIOUS
  <2>3. \A i \in DOMAIN w : (IF w[i].by \in U THEN [w[i] EXCEPT !.by = "nobody"] ELSE w[i]) \in Requests
    BY <2>1, <2>2
  <2>4. DOMAIN w = 1..Len(w) /\ Len(w) \in Nat
    OBVIOUS
  <2>5. [i \in DOMAIN w |-> IF w[i].by \in U THEN [w[i] EXCEPT !.by = "nobody"] ELSE w[i]]
            \in Seq(Requests)
    BY <2>3, <2>4
  <2>6. QED
    BY <1>1, <2>5 DEF Abandon
<1>3. \A t \in StopTasks : Request("stop", 0, t) \in Requests
    BY Numbers DEF Request, Requests
<1>4. QED
    BY <1>1, <1>2, <1>3 DEF WithStop

LEMMA FailedTyped ==
    ASSUME WireTyped, NEW task
    PROVE  \A w \in Failed(task) : w \in Seq(Requests)
    BY WireChanges DEF WireTyped, Failed

\* An acknowledgement.
LEMMA AckTyped ==
    ASSUME WorkerTypes, NEW n \in DOMAIN kind, Ack(n), UNCHANGED <<kind, commandEpoch>>
    PROVE  RecordTyped'
    BY Numbers DEF Ack, WorkerTypes, RecordTyped

\* The steps of the local server and of the session that no task takes.
LEMMA ServerTypes ==
    ASSUME WorkerTypes,
           \/ \E i \in DOMAIN wire : Serve(i) \/ Refuse(i)
           \/ ComeToRest \/ Connect
    PROVE  WorkerTypes'
<1>1. CASE \E i \in DOMAIN wire : Serve(i) \/ Refuse(i)
  <2>1. PICK i \in DOMAIN wire : Serve(i) \/ Refuse(i)
    BY <1>1
  <2>2. WireTyped'
    <3>1. \E S \in SUBSET DOMAIN wire : wire' = Kept(wire, S)
        BY <2>1 DEF Serve, Refuse
    <3>2. QED
        BY <3>1, KeptTyped DEF WorkerTypes, WireTyped
  <2>3. MotionTyped'
    <3>1. wire[i] \in Requests
        BY DEF WorkerTypes, WireTyped
    <3>2. QED
        BY <2>1, <3>1, Numbers DEF Serve, Refuse, Rest, Requests, WorkerTypes, MotionTyped
  <2>4. QED
    BY <2>1, <2>2, <2>3, Unchanged DEF Serve, Refuse, channelVars, workerVars, WorkerTypes
<1>2. CASE ComeToRest
  <2>1. MotionTyped'
    BY <1>2, Records DEF ComeToRest, MotionTyped, WorkerTypes
  <2>2. QED
    BY <1>2, <2>1, Unchanged DEF ComeToRest, channelVars, workerVars, WorkerTypes
<1>3. CASE Connect
  <2>1. ChannelTyped'
    BY <1>3 DEF Connect, channelVars, ChannelTyped, WorkerTypes
  <2>2. QED
    BY <1>3, <2>1, Unchanged DEF Connect, channelVars, workerVars, WorkerTypes
<1>4. QED
    BY <1>1, <1>2, <1>3

LEMMA StopTypes == ASSUME WorkerTypes, NEW t \in StopTasks, StopStep(t) PROVE WorkerTypes'
<1>0. ChannelTyped /\ StopsTyped /\ WireTyped /\ 0 \in Sent /\ FALSE \in BOOLEAN
    BY Numbers DEF WorkerTypes
<1>1. CASE RetryStop(t)
  <2>1. StopsTyped'
    BY <1>0, <1>1, StopperStep DEF RetryStop, channelVars
  <2>2. WireTyped'
    BY <1>0, <1>1, FailedTyped, WireChanges DEF RetryStop, WireTyped
  <2>3. JogTyped'
    BY <1>0, <1>1, Records DEF RetryStop, JogTyped, WorkerTypes
  <2>4. QED
    BY <1>1, <2>1, <2>2, <2>3, Unchanged DEF RetryStop, channelVars, workerVars, WorkerTypes
<1>2. CASE UrgentStopped(t)
  <2>1. StopsTyped'
    BY <1>0, <1>2, StopperStep DEF UrgentStopped, channelVars
  <2>2. stopper[t].ack # 0 => stopper[t].ack \in DOMAIN kind
    BY <1>0 DEF StopsTyped, Stops, Sent
  <2>3. RecordTyped'
    <3>1. CASE stopper[t].ack = 0
        BY <1>2, <3>1, Unchanged DEF UrgentStopped, channelVars
    <3>2. CASE stopper[t].ack # 0
        BY <1>2, <2>2, <3>2, AckTyped DEF UrgentStopped, channelVars
    <3>3. QED
        BY <3>1, <3>2
  <2>4. QED
    BY <1>2, <2>1, <2>3, Unchanged DEF UrgentStopped, channelVars, WorkerTypes
<1>3. CASE UrgentFails(t)
  <2>1. StopsTyped'
    BY <1>0, <1>3, StopperStep DEF UrgentFails, channelVars
  <2>2. WireTyped'
    BY <1>0, <1>3, FailedTyped DEF UrgentFails, WireTyped
  <2>3. QED
    BY <1>3, <2>1, <2>2, Unchanged DEF UrgentFails, channelVars, workerVars, WorkerTypes
<1>4. QED
    BY <1>1, <1>2, <1>3 DEF StopStep

\* safe_stop begins in a task, which changes the jog, the wire and the task.
LEMMA SafeStopTypes ==
    ASSUME WorkerTypes, NEW t \in StopTasks, NEW n \in Sent, NEW u \in BOOLEAN,
           NEW w \in Seq(Requests), SafeStop(t, n, u, w), kind' = kind
    PROVE  JogTyped' /\ StopsTyped' /\ WireTyped'
<1>0. ChannelTyped /\ StopsTyped
    BY DEF WorkerTypes
<1>1. StopsTyped'
    BY <1>0, StopperStep DEF SafeStop
<1>2. WireTyped'
    BY WireChanges DEF SafeStop, WireTyped
<1>3. JogTyped'
    BY <1>0, Records, Numbers DEF SafeStop, JogTyped
<1>4. QED
    BY <1>1, <1>2, <1>3

\* What an urgent stop of message n changes, whatever else the server has sent with it.
LEMMA UrgentTypes ==
    ASSUME WorkerTypes, NEW n \in Nat, NEW t \in Stoppers, UrgentStop(n, t), kind' = kind, n \in Sent
    PROVE  RecordTyped' /\ QueueTyped' /\ ExecTyped' /\ JogTyped' /\ StopsTyped' /\ WireTyped'
           /\ MotionTyped'
<1>1. JogTyped' /\ StopsTyped' /\ WireTyped'
    BY SafeStopTypes, Numbers DEF UrgentStop, WorkerTypes, WireTyped
<1>2. RecordTyped'
    BY Numbers, ControlAssumption DEF UrgentStop, RecordTyped, Epochs, WorkerTypes
<1>3. QED
    BY <1>1, <1>2, Unchanged DEF UrgentStop

\* The messages of the server.
LEMMA MessageTypes ==
    ASSUME WorkerTypes,
           \/ \E k \in {"jog", "goto"} : ReceiveCommand(k)
           \/ \E n \in DOMAIN kind : ReceiveCommandAgain(n)
           \/ \E t \in Stoppers :
                 \/ ReceiveStop(t) \/ ReceiveSafeStop(t) \/ WatchdogFires(t)
                 \/ \E n \in DOMAIN kind : ReceiveStopAgain(n, t)
    PROVE  WorkerTypes'
<1>0. /\ ChannelTyped /\ StopsTyped /\ wire \in Seq(Requests) /\ queue \in Seq(DOMAIN kind)
      /\ 0 \in Sent /\ DOMAIN kind \subseteq Sent /\ Sent \subseteq Nat
    BY Numbers DEF WorkerTypes, WireTyped, QueueTyped
<1>1. ASSUME NEW k \in {"jog", "goto"}, ReceiveCommand(k) PROVE WorkerTypes'
  <2>1. Len(kind) < MaxSequence /\ kind' = Append(kind, k)
    BY <1>1 DEF ReceiveCommand
  <2>2. /\ ChannelTyped' /\ ExecTyped' /\ StopsTyped' /\ Len(kind) + 1 \in DOMAIN kind'
        /\ queue \in Seq(DOMAIN kind') /\ acked \subseteq DOMAIN kind'
    <3>1. UNCHANGED <<session, resends, kills>> /\ UNCHANGED exec /\ UNCHANGED stopper
        BY <1>1 DEF ReceiveCommand
    <3>2. k \in {"jog", "goto", "stop"}
        OBVIOUS
    <3>3. QED
        BY <2>1, <3>1, <3>2, OneMore DEF StopsTyped
  <2>3. QueueTyped' /\ RecordTyped'
    BY <1>1, <2>2 DEF ReceiveCommand, QueueTyped, RecordTyped, workerVars, WorkerTypes
  <2>4. QED
    BY <1>1, <2>2, <2>3, Unchanged DEF ReceiveCommand, workerVars, WorkerTypes
<1>2. ASSUME NEW n \in DOMAIN kind, ReceiveCommandAgain(n) PROVE WorkerTypes'
  <2>1. ChannelTyped' /\ QueueTyped'
    BY <1>0, <1>2, ControlAssumption DEF ReceiveCommandAgain, ChannelTyped, QueueTyped
  <2>2. QED
    BY <1>2, <2>1, Unchanged DEF ReceiveCommandAgain, workerVars, WorkerTypes
<1>3. ASSUME NEW t \in Stoppers, ReceiveStop(t) PROVE WorkerTypes'
  <2>1. Len(kind) < MaxSequence /\ kind' = Append(kind, "stop") /\ UrgentStop(Len(kind) + 1, t)
    BY <1>3 DEF ReceiveStop
  <2>2. /\ ChannelTyped' /\ ExecTyped' /\ Len(kind) + 1 \in DOMAIN kind'
        /\ queue \in Seq(DOMAIN kind') /\ acked \subseteq DOMAIN kind'
        /\ Stops \subseteq Stops' /\ stopper \in [StopTasks -> Stops']
    <3>1. UNCHANGED <<session, resends, kills>> /\ UNCHANGED exec
        BY <1>3, <2>1 DEF ReceiveStop, UrgentStop
    <3>2. "stop" \in {"jog", "goto", "stop"}
        OBVIOUS
    <3>3. QED
        BY <2>1, <3>1, <3>2, OneMore
  <2>3. RecordTyped' /\ QueueTyped'
    BY <2>1, <2>2, Numbers, ControlAssumption
    DEF UrgentStop, RecordTyped, QueueTyped, Epochs, WorkerTypes
  <2>4. WireTyped' /\ JogTyped'
    BY <1>0, <2>1, Numbers, WireChanges, Records DEF UrgentStop, SafeStop, WireTyped, JogTyped
  <2>5. StopsTyped'
    <3>1. Stopping(Len(kind) + 1, TRUE) \in Stops'
        BY <2>2, ControlAssumption DEF Stopping, Stops, Sent
    <3>2. QED
        BY <2>1, <2>2, <3>1, Numbers DEF UrgentStop, SafeStop, StopsTyped
  <2>6. QED
    BY <2>1, <2>2, <2>3, <2>4, <2>5, Unchanged DEF UrgentStop, WorkerTypes
<1>4. ASSUME NEW t \in Stoppers, ReceiveSafeStop(t) \/ \E n \in DOMAIN kind : ReceiveStopAgain(n, t)
      PROVE  WorkerTypes'
  <2>1. ChannelTyped'
    <3>1. UNCHANGED <<session, kind, kills>> /\ resends < MaxResends /\ resends' = resends + 1
        BY <1>4 DEF ReceiveSafeStop, ReceiveStopAgain, UrgentStop
    <3>2. QED
        BY <1>0, <3>1, ControlAssumption DEF ChannelTyped
  <2>2. kind' = kind /\ \E n \in Sent : UrgentStop(n, t)
    BY <1>0, <1>4 DEF ReceiveSafeStop, ReceiveStopAgain
  <2>3. QED
    BY <1>0, <2>1, <2>2, UrgentTypes DEF WorkerTypes
<1>5. ASSUME NEW t \in Stoppers, WatchdogFires(t) PROVE WorkerTypes'
  <2>1. JogTyped' /\ StopsTyped' /\ WireTyped'
    BY <1>0, <1>5, SafeStopTypes, Numbers DEF WatchdogFires, channelVars
  <2>2. QED
    BY <1>5, <2>1, Unchanged DEF WatchdogFires, channelVars, workerVars, WorkerTypes
<1>6. QED
    BY <1>1, <1>2, <1>3, <1>4, <1>5

\* The executor.
LEMMA ExecutorTypes == ASSUME WorkerTypes, ExecutorStep PROVE WorkerTypes'
<1>0. /\ ChannelTyped /\ StopsTyped /\ WireTyped /\ wire \in Seq(Requests)
      /\ queue \in Seq(DOMAIN kind) /\ exec \in Handled /\ 0 \in Sent
      /\ exec.pc \in Handling => exec.seq \in DOMAIN kind
    BY Numbers DEF WorkerTypes, WireTyped, QueueTyped, ExecTyped, Handled, Sent
<1>1. TakeCommand => Head(queue) \in DOMAIN kind /\ Tail(queue) \in Seq(DOMAIN kind)
    BY <1>0 DEF TakeCommand
<1>2. ASSUME NEW p \in Places PROVE [exec EXCEPT !.pc = p] \in Handled /\ [exec EXCEPT !.pc = p].pc = p
                                    /\ [exec EXCEPT !.pc = p].seq = exec.seq
    BY <1>0 DEF Handled
<1>3. ASSUME NEW p \in Places, NEW q \in Paths
      PROVE  /\ [exec EXCEPT !.pc = p, !.path = q] \in Handled
             /\ [exec EXCEPT !.pc = p, !.path = q].seq = exec.seq
    BY <1>0 DEF Handled
<1>4. exec.seq \in Sequences /\ exec.epoch \in Epochs
    BY <1>0, Numbers DEF Handled
<1>5. exec' = Idle /\ kind' = kind => ExecTyped'
    BY <1>0, Records DEF ExecTyped, Handling, Handled, Sent
<1>6. CASE StartCommand
  <2>1. Head(queue) \in DOMAIN kind /\ QueueTyped'
    BY <1>1, <1>6 DEF StartCommand, TakeCommand, QueueTyped, channelVars
  <2>2. ExecTyped'
    BY <1>0, <1>6, <2>1, Numbers
    DEF StartCommand, ExecTyped, Handled, Sent, Places, Paths, RecordTyped, WorkerTypes, channelVars
  <2>3. QED
    BY <1>6, <2>1, <2>2, Unchanged DEF StartCommand, channelVars, workerVars, WorkerTypes
<1>7. CASE AnswerAtOnce
  <2>1. Head(queue) \in DOMAIN kind /\ QueueTyped'
    BY <1>1, <1>7 DEF AnswerAtOnce, TakeCommand, QueueTyped, channelVars
  <2>2. RecordTyped'
    BY <1>7, <2>1, AckTyped DEF AnswerAtOnce, channelVars
  <2>3. QED
    BY <1>7, <2>1, <2>2, Unchanged DEF AnswerAtOnce, channelVars, WorkerTypes
<1>8. CASE PostJog \/ PostGoto
  <2>1. exec' = [exec EXCEPT !.pc = "post"] /\ exec.pc \in Handling /\ kind' = kind
    BY <1>8 DEF PostJog, PostGoto, Handling, channelVars
  <2>2. ExecTyped'
    BY <1>0, <1>2, <2>1, Numbers DEF ExecTyped, Places, Handled, Sent
  <2>3. WireTyped'
    <3>1. /\ Request("jog", exec.seq, "executor") \in Requests
          /\ Request("goto", exec.seq, "executor") \in Requests
        BY <1>4, Numbers DEF Request, Requests
    <3>2. Abandon(wire, {"heartbeat"}) \in Seq(Requests)
        BY <1>0, WireChanges
    <3>3. \/ wire' = Append(Abandon(wire, {"heartbeat"}), Request("jog", exec.seq, "executor"))
          \/ wire' = Append(wire, Request("goto", exec.seq, "executor"))
        BY <1>8 DEF PostJog, PostGoto
    <3>4. ASSUME NEW w \in Seq(Requests), NEW r \in Requests PROVE Append(w, r) \in Seq(Requests)
        OBVIOUS
    <3>5. QED
        BY <1>0, <3>1, <3>2, <3>3, <3>4 DEF WireTyped
  <2>4. JogTyped'
    BY <1>0, <1>8, Records DEF PostJog, PostGoto, JogTyped, WorkerTypes
  <2>5. QED
    BY <1>8, <2>2, <2>3, <2>4, Unchanged DEF PostJog, PostGoto, channelVars, workerVars, WorkerTypes
<1>9. CASE JogStarts \/ GotoStarts
  <2>1. exec.pc \in Handling /\ exec' = Idle /\ Ack(exec.seq) /\ UNCHANGED <<kind, commandEpoch>>
    BY <1>9 DEF JogStarts, GotoStarts, Posted, Handling, channelVars
  <2>2. RecordTyped'
    BY <1>0, <2>1, AckTyped
  <2>3. JogTyped'
    BY <1>4, <1>9 DEF JogStarts, GotoStarts, JogTyped, Beats, WorkerTypes
  <2>4. QED
    BY <1>5, <1>9, <2>1, <2>2, <2>3, Unchanged DEF JogStarts, GotoStarts, channelVars, WorkerTypes
<1>10. CASE JogSuperseded \/ CommandFails
  <2>1. PICK q \in Paths, w \in {wire} \cup Failed("executor") :
            /\ exec' = [exec EXCEPT !.pc = "stop", !.path = q]
            /\ SafeStop("executor", 0, FALSE, w)
    BY <1>10 DEF JogSuperseded, CommandFails, Paths
  <2>2. kind' = kind /\ exec.pc \in Handling
    BY <1>10 DEF JogSuperseded, CommandFails, Posted, Handling, channelVars
  <2>3. w \in Seq(Requests)
    BY <1>0, FailedTyped
  <2>4. JogTyped' /\ StopsTyped' /\ WireTyped'
    BY <1>0, <2>1, <2>2, <2>3, SafeStopTypes, Numbers
  <2>5. ExecTyped'
    BY <1>0, <1>3, <2>1, <2>2, Numbers DEF ExecTyped, Places, Handled, Sent
  <2>6. QED
    BY <1>10, <2>4, <2>5, Unchanged
    DEF JogSuperseded, CommandFails, channelVars, workerVars, WorkerTypes
<1>11. CASE ExecutorStopped
  <2>1. exec.seq \in DOMAIN kind
    BY <1>0, <1>11 DEF ExecutorStopped, Handling
  <2>2. RecordTyped'
    BY <1>11, <2>1, AckTyped DEF ExecutorStopped, channelVars
  <2>3. StopsTyped'
    BY <1>0, <1>11, StopperStep, Numbers DEF ExecutorStopped, channelVars
  <2>4. QED
    BY <1>5, <1>11, <2>2, <2>3, Unchanged DEF ExecutorStopped, channelVars, WorkerTypes
<1>12. CASE ExecutorStopsAgain
  <2>1. PICK q \in Paths, w \in Failed("executor") :
            exec' = [exec EXCEPT !.path = q] /\ SafeStop("executor", 0, FALSE, w)
    BY <1>12 DEF ExecutorStopsAgain, Paths
  <2>2. kind' = kind /\ exec.pc \in Handling
    BY <1>12 DEF ExecutorStopsAgain, Handling, channelVars
  <2>3. JogTyped' /\ StopsTyped' /\ WireTyped'
    BY <1>0, <2>1, <2>2, FailedTyped, SafeStopTypes, Numbers
  <2>4. [exec EXCEPT !.path = q] \in Handled /\ [exec EXCEPT !.path = q].seq = exec.seq
    BY <1>0 DEF Handled
  <2>5. ExecTyped'
    BY <1>0, <2>1, <2>2, <2>4, Numbers DEF ExecTyped, Handled, Sent
  <2>6. QED
    BY <1>12, <2>3, <2>5, Unchanged DEF ExecutorStopsAgain, channelVars, workerVars, WorkerTypes
<1>13. CASE ExecutorDies
  <2>1. StopsTyped'
    BY <1>0, <1>13, StopperStep, Numbers DEF ExecutorDies, channelVars
  <2>2. WireTyped'
    BY <1>0, <1>13, FailedTyped DEF ExecutorDies, WireTyped
  <2>3. ExecTyped'
    BY <1>0, <1>13, Records DEF ExecutorDies, ExecTyped, Handling, Handled, Sent, channelVars
  <2>4. QED
    BY <1>13, <2>1, <2>2, <2>3, Unchanged DEF ExecutorDies, channelVars, workerVars, WorkerTypes
<1>14. QED
    BY <1>6, <1>7, <1>8, <1>9, <1>10, <1>11, <1>12, <1>13 DEF ExecutorStep

\* The heartbeat.
LEMMA BeatTypes == ASSUME WorkerTypes, HeartbeatStep PROVE WorkerTypes'
<1>0. ChannelTyped /\ WireTyped /\ wire \in Seq(Requests) /\ heartbeat \in Beats
    BY DEF WorkerTypes, WireTyped, JogTyped
<1>1. ASSUME NEW p \in {"sleep", "post"} PROVE [heartbeat EXCEPT !.pc = p] \in Beats
    BY <1>0 DEF Beats
<1>2. JogTyped'
    BY <1>0, <1>1, Records
    DEF HeartbeatStep, Beat, BeatAnswered, BeatFails, JogTyped, WorkerTypes
<1>3. WireTyped'
  <2>1. Request("jog", heartbeat.seq, "heartbeat") \in Requests
    BY <1>0 DEF Beats, Request, Requests
  <2>2. QED
    BY <1>0, <2>1, FailedTyped DEF HeartbeatStep, Beat, BeatAnswered, BeatFails, WireTyped
<1>4. QED
    BY <1>2, <1>3, Unchanged
    DEF HeartbeatStep, Beat, BeatAnswered, BeatFails, channelVars, workerVars, WorkerTypes

\* The session ends, or the process does.
LEMMA EndTypes == ASSUME WorkerTypes, Disconnect \/ SessionEnds \/ Kill PROVE WorkerTypes'
<1>0. ChannelTyped /\ StopsTyped /\ WireTyped /\ wire \in Seq(Requests) /\ 0 \in Sent
    BY Numbers DEF WorkerTypes, WireTyped
<1>1. kind' = kind /\ Stops' = Stops /\ Handled' = Handled
    BY DEF Disconnect, SessionEnds, Kill, channelVars, Stops, Handled, Sent
<1>2. CASE Disconnect
  <2>1. StopsTyped'
    BY <1>0, <1>1, <1>2, Records DEF Disconnect, StopsTyped
  <2>2. WireTyped'
    BY <1>0, <1>2, WireChanges, Numbers DEF Disconnect, WireTyped
  <2>3. QueueTyped' /\ ExecTyped' /\ JogTyped'
    BY <1>0, <1>1, <1>2, Records, Numbers DEF Disconnect, QueueTyped, ExecTyped, Handling, JogTyped
  <2>4. ChannelTyped'
    BY <1>0, <1>2 DEF Disconnect, ChannelTyped, channelVars
  <2>5. QED
    BY <1>2, <2>1, <2>2, <2>3, <2>4, Unchanged DEF Disconnect, channelVars, workerVars, WorkerTypes
<1>3. CASE SessionEnds
  <2>1. StopsTyped'
    BY <1>0, <1>1, <1>3, StopperStep, Numbers DEF SessionEnds
  <2>2. WireTyped'
    BY <1>0, <1>3, FailedTyped DEF SessionEnds, WireTyped
  <2>3. ChannelTyped'
    BY <1>0, <1>3 DEF SessionEnds, ChannelTyped, channelVars
  <2>4. QED
    BY <1>3, <2>1, <2>2, <2>3, Unchanged DEF SessionEnds, channelVars, workerVars, WorkerTypes
<1>4. CASE Kill
  <2>1. StopsTyped'
    BY <1>0, <1>1, <1>4, Records DEF Kill, Fresh, StopsTyped
  <2>2. WireTyped'
    BY <1>0, <1>4, WireChanges DEF Kill, Fresh, WireTyped
  <2>3. QueueTyped' /\ ExecTyped' /\ JogTyped'
    BY <1>0, <1>1, <1>4, Records, Numbers DEF Kill, Fresh, QueueTyped, ExecTyped, Handling, JogTyped
  <2>4. ChannelTyped' /\ RecordTyped'
    BY <1>0, <1>4, Numbers, ControlAssumption DEF Kill, Fresh, ChannelTyped, RecordTyped, WorkerTypes
  <2>5. QED
    BY <1>4, <2>1, <2>2, <2>3, <2>4, Unchanged DEF Kill, WorkerTypes
<1>5. QED
    BY <1>2, <1>3, <1>4

LEMMA TypesStep == WorkerTypes /\ [Next]_vars => WorkerTypes'
<1> SUFFICES ASSUME WorkerTypes, [Next]_vars PROVE WorkerTypes'
    OBVIOUS
<1>1. CASE UNCHANGED vars
    BY <1>1, Unchanged DEF vars, channelVars, workerVars, WorkerTypes
<1>2. QED
    BY <1>1, ServerTypes, StopTypes, MessageTypes, ExecutorTypes, BeatTypes, EndTypes DEF Next

LEMMA TypesEntail == WorkerTypes => TypeOK
<1> SUFFICES ASSUME WorkerTypes PROVE TypeOK
    OBVIOUS
<1>1. Sent \subseteq Sequences
    BY Numbers DEF WorkerTypes
<1>2. Stops \subseteq [pc : {"off", "wait"}, tries : 0..Attempts, ack : Sequences, urgent : BOOLEAN]
      /\ Handled \subseteq [pc : Places, seq : Sequences, epoch : Epochs, path : Paths]
    BY <1>1 DEF Stops, Handled
<1>3. Len(kind) \in Sequences /\ \A n \in DOMAIN kind : kind[n] \in {"jog", "goto", "stop"}
    BY Numbers DEF WorkerTypes, ChannelTyped, Sequences
<1>4. (\A i \in DOMAIN queue : queue[i] \in DOMAIN kind) /\ (\A i \in DOMAIN wire : wire[i] \in Requests)
    BY DEF WorkerTypes, QueueTyped, WireTyped
<1>5. stopper \in [StopTasks -> [pc : {"off", "wait"}, tries : 0..Attempts, ack : Sequences,
                                 urgent : BOOLEAN]]
    BY <1>2 DEF WorkerTypes, StopsTyped
<1>6. QED
    BY <1>2, <1>3, <1>4, <1>5
    DEF WorkerTypes, ChannelTyped, RecordTyped, ExecTyped, JogTyped, MotionTyped, TypeOK, Epochs,
        Places, Paths, Beats
-----------------------------------------------------------------------------
(* What has been answered *)

AnsweredOnRecord == \A n \in acked : n <= lastSequence

RecordInd == WorkerTypes /\ AnsweredOnRecord

LEMMA RecordStarts == Init => RecordInd
    BY TypesStart DEF Init, RecordInd, AnsweredOnRecord

LEMMA RecordStep == RecordInd /\ [Next]_vars => RecordInd'
<1> SUFFICES ASSUME RecordInd, [Next]_vars PROVE RecordInd'
    OBVIOUS
<1>1. WorkerTypes'
    BY TypesStep DEF RecordInd
<1>2. UNCHANGED <<lastSequence, acked>> \/ \E n \in Nat : Ack(n)
  <2>1. WorkerTypes /\ (TakeCommand => Head(queue) \in Nat) /\ exec.seq \in Nat
        /\ \A t \in Stoppers : stopper[t].ack \in Nat
    <3>1. WorkerTypes /\ Sent \subseteq Nat /\ DOMAIN kind \subseteq Nat
        BY Numbers DEF RecordInd, WorkerTypes
    <3>2. TakeCommand => Head(queue) \in Nat
        BY <3>1 DEF TakeCommand, WorkerTypes, QueueTyped
    <3>3. exec.seq \in Nat
        BY <3>1 DEF WorkerTypes, ExecTyped, Handled
    <3>4. \A t \in Stoppers : stopper[t].ack \in Nat
        BY <3>1, Numbers DEF WorkerTypes, StopsTyped, Stops
    <3>5. QED
        BY <3>1, <3>2, <3>3, <3>4
  <2>2. CASE ExecutorStep
    BY <2>1, <2>2 DEF ExecutorStep, StartCommand, AnswerAtOnce, PostJog, PostGoto, JogStarts,
                      JogSuperseded, GotoStarts, CommandFails, ExecutorStopped,
                      ExecutorStopsAgain, ExecutorDies, workerVars
  <2>3. CASE \E t \in StopTasks : StopStep(t)
    BY <2>1, <2>3 DEF StopStep, RetryStop, UrgentStopped, UrgentFails, workerVars
  <2>4. CASE ~ExecutorStep /\ ~\E t \in StopTasks : StopStep(t)
    BY <2>4 DEF Next, vars, workerVars, Serve, Refuse, ComeToRest, ReceiveCommand,
                ReceiveCommandAgain, ReceiveStop, ReceiveSafeStop, ReceiveStopAgain, UrgentStop,
                WatchdogFires, HeartbeatStep, Beat, BeatAnswered, BeatFails, Connect, Disconnect,
                SessionEnds, Kill, Fresh
  <2>5. QED
    BY <2>2, <2>3, <2>4
<1>3. lastSequence \in Nat /\ \A n \in acked : n \in Nat
    BY Numbers DEF RecordInd, WorkerTypes, RecordTyped, ChannelTyped
<1>4. AnsweredOnRecord'
    BY <1>2, <1>3 DEF Ack, RecordInd, AnsweredOnRecord
<1>5. QED
    BY <1>1, <1>4 DEF RecordInd

\* What was answered never runs again, however often it is sent and whether or not the
\* worker was killed in between (motor_executor and the last sequence in state.json).
THEOREM NothingRunsTwice == Spec => AnsweredNeverRunsAgain
<1>1. ASSUME RecordInd, [Next]_vars
      PROVE  [exec.pc = "idle" /\ exec'.pc = "preflight" => exec'.seq \notin acked]_vars
  <2>1. CASE StartCommand
    <3>1. exec'.seq = Head(queue) /\ Head(queue) > lastSequence
        BY <2>1 DEF StartCommand, TakeCommand
    <3>2. Head(queue) \in Nat /\ lastSequence \in Nat
        BY <1>1, <2>1, Numbers
        DEF StartCommand, TakeCommand, RecordInd, WorkerTypes, ChannelTyped, QueueTyped, RecordTyped
    <3>3. QED
        BY <1>1, <3>1, <3>2 DEF RecordInd, AnsweredOnRecord
  <2>2. CASE ExecutorStep /\ ~StartCommand
    <3>1. exec.pc # "idle" \/ exec' = exec
        BY <2>2 DEF ExecutorStep, AnswerAtOnce, PostJog, PostGoto, Posted, JogStarts, JogSuperseded,
                    GotoStarts, CommandFails, ExecutorStopped, ExecutorStopsAgain, ExecutorDies
    <3>2. QED
        BY <3>1
  <2>3. CASE ~ExecutorStep
    <3>1. exec' = exec \/ exec' = Idle
        BY <1>1, <2>3 DEF Next, vars, Serve, Refuse, ComeToRest, StopStep, RetryStop, UrgentStopped,
                          UrgentFails, ReceiveCommand, ReceiveCommandAgain, ReceiveStop,
                          ReceiveSafeStop, ReceiveStopAgain, UrgentStop, WatchdogFires,
                          HeartbeatStep, Beat, BeatAnswered, BeatFails, Connect, Disconnect,
                          SessionEnds, Kill, Fresh
    <3>2. QED
        BY <3>1 DEF Idle
  <2>4. QED
    BY <2>1, <2>2, <2>3
<1>2. QED
    BY <1>1, RecordStarts, RecordStep, PTL DEF Spec, AnsweredNeverRunsAgain

\* A heartbeat runs only for the jog that a watchdog bounds and that no stop has
\* overtaken (handle_command, arm_jog_watchdog and safe_stop).
THEOREM HeldJogsAreWatched == Spec => []HeldJogIsWatched
<1>1. Init => HeldJogIsWatched
    BY DEF Init, HeldJogIsWatched, NoBeat
<1>2. ASSUME WorkerTypes, HeldJogIsWatched, [Next]_vars PROVE HeldJogIsWatched'
  <2>1. CASE heartbeat' = NoBeat
    BY <2>1 DEF HeldJogIsWatched, NoBeat
  <2>2. CASE UNCHANGED <<heartbeat, activeJog, commandEpoch>>
    BY <1>2, <2>2 DEF HeldJogIsWatched
  <2>3. CASE JogStarts
    <3>1. heartbeat' = [pc |-> "sleep", seq |-> exec.seq, epoch |-> exec.epoch]
          /\ activeJog' = exec.seq /\ exec.epoch = commandEpoch /\ commandEpoch' = commandEpoch
        BY <2>3 DEF JogStarts
    <3>2. QED
        BY <3>1 DEF HeldJogIsWatched
  <2>4. CASE Beat \/ BeatAnswered
    <3>1. heartbeat.pc # "off" /\ UNCHANGED <<activeJog, commandEpoch>>
        BY <2>4 DEF Beat, BeatAnswered, workerVars
    <3>2. heartbeat' = [heartbeat EXCEPT !.pc = "post"] \/ heartbeat' = [heartbeat EXCEPT !.pc = "sleep"]
        BY <2>4 DEF Beat, BeatAnswered
    <3>3. heartbeat'.seq = heartbeat.seq /\ heartbeat'.epoch = heartbeat.epoch
        BY <1>2, <3>2 DEF WorkerTypes, JogTyped, Beats
    <3>4. QED
        BY <1>2, <3>1, <3>3 DEF HeldJogIsWatched
  <2>5. \/ heartbeat' = NoBeat \/ UNCHANGED <<heartbeat, activeJog, commandEpoch>>
        \/ JogStarts \/ Beat \/ BeatAnswered
    BY <1>2 DEF Next, vars, workerVars, Serve, Refuse, ComeToRest, StopStep, RetryStop, UrgentStopped,
                UrgentFails, ReceiveCommand, ReceiveCommandAgain, ReceiveStop, ReceiveSafeStop,
                ReceiveStopAgain, UrgentStop, WatchdogFires, SafeStop, ExecutorStep, StartCommand,
                AnswerAtOnce, PostJog, PostGoto, JogSuperseded, GotoStarts, CommandFails,
                ExecutorStopped, ExecutorStopsAgain, ExecutorDies, HeartbeatStep, BeatFails, Connect,
                Disconnect, SessionEnds, Kill, Fresh
  <2>6. QED
    BY <2>1, <2>2, <2>3, <2>4, <2>5
<1>3. QED
    BY <1>1, <1>2, TypesStart, TypesStep, PTL DEF Spec

\* Every variable keeps its type, what is acknowledged was sent, and a held jog is watched
\* (ControlWorker.session, motor_executor and safe_stop).
THEOREM WorkerIsSound == Spec => []ControlInv
    BY TypesStart, TypesStep, TypesEntail, HeldJogsAreWatched, PTL DEF Spec, ControlInv
=============================================================================
